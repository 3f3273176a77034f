SPECIFICATION Spec
CONSTANTS
  p1 = p1
  p2 = p2
  c1 = c1
  c2 = c2
  NoPeer = NoPeer
  NoVal = NoVal
  Chips <- MCChips
  Junk <- MCJunk
  IntMax = 2
  HWM = 1
  BootReads = 1
  BootTriggers = 2
  Peers <- MCTwoPeers
  MortalPeers <- MCTwoPeers
  Payloads <- MCOther
  RawMessages <- MCRaw
  DataClients = TRUE
SYMMETRY MCSymmetry
\* The clients may all be dead, or wait for replies a dead server owed them.
CHECK_DEADLOCK FALSE
INVARIANTS IInv CopyFitsMessage StopWithinOneEvent RepliesBeforeRecv
PROPERTIES ConfigFixedInRun ImplementsRunControl
