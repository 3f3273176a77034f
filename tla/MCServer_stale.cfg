SPECIFICATION Spec
CONSTANTS
  p1 = p1
  p2 = p2
  c1 = c1
  c2 = c2
  NoPeer = NoPeer
  NoVal = NoVal
  Chips <- MCChips
  Junk <- MCJunk
  IntMax = 2
  HWM = 1
  BootReads = 1
  BootTriggers = 2
  Peers <- MCOnePeer
  MortalPeers <- MCNoPeers
  Payloads <- MCFinite
  RawMessages <- MCNoRaw
  DataClients = FALSE
INVARIANTS CutOnlyByOwnStop
