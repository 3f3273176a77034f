SPECIFICATION Spec
CONSTANTS
  Groups <- MCGroups
  Values <- MCValues
  Masks <- MCMasks
  Biases <- MCBiases
INVARIANTS ServesWhole ReplyIsConverted FailuresAreZero DacHoldsBias
PROPERTIES ComesUp TempEnds
