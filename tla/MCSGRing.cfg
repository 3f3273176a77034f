SPECIFICATION Spec
CONSTANTS
  NChips = 4
  Depths <- MCDepths
INVARIANTS RingInv NeverRefused EachFifoOnce RegionsAbut
