SPECIFICATION RFairSpec
CONSTANTS
  c1 = c1
  c2 = c2
  Stamp = Stamp
  Chips <- MCChips
  Bit <- MCBit
  RunSettings <- MCRuns
  FifoCap = 5
  IntMax = 3
  HWM = 1
  BootReads = 1
  BootTriggers = 2
  DataClients = FALSE
\* The summing run without a chip waits for an interrupt that never comes.
CHECK_DEADLOCK FALSE
INVARIANTS EventIsOneBurst TwoBurstsAhead BufferHandedOver
PROPERTIES EventsArrive NoTriggerLost RingRewrittenAtRest
