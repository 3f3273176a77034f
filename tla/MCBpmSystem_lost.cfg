SPECIFICATION SysFair
CONSTANTS
  p1 = p1
  p2 = p2
  c1 = c1
  c2 = c2
  NoPeer = NoPeer
  NoVal = NoVal
  Nothing = Nothing
  Chips <- MCChips
  Junk <- MCJunk
  IntMax = 3
  HWM = 2
  BootReads = 1
  BootTriggers = 2
  Peers <- MCTwo
  MortalPeers <- MCNone
  Payloads <- MCRuns
  RawMessages <- MCNone
  DataClients = TRUE
  EarlyJoin = FALSE
  Signals = FALSE
  AbortAt <- MCNone
  MaxCrashes = 0
CHECK_DEADLOCK FALSE
PROPERTIES EveryProgramEnds
