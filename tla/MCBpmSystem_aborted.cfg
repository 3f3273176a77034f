SPECIFICATION SysSpec
CONSTANTS
  p1 = p1
  p2 = p2
  c1 = c1
  c2 = c2
  NoPeer = NoPeer
  NoVal = NoVal
  Nothing = Nothing
  Chips <- MCChips
  Junk <- MCJunk
  IntMax = 3
  HWM = 2
  BootReads = 1
  BootTriggers = 3
  Peers <- MCTwo
  MortalPeers <- MCNone
  Payloads <- MCRuns
  RawMessages <- MCNone
  DataClients = TRUE
  EarlyJoin = TRUE
  Signals = TRUE
  AbortAt <- MCAborts
  MaxCrashes = 0
CHECK_DEADLOCK FALSE
INVARIANTS NoRunWithoutProgram
