SPECIFICATION ServedSpec
CONSTANTS
  Event <- MCEvents
  RunLengths <- MCRunLengths
  Sizes <- MCSizes
  MaxFileSize = 3
  IntMax = 9
  MaxArrivals = 4
  MaxSpurious = 1
  DiskFails = TRUE
  Nothing = Nothing
INVARIANTS ClientInv RecordsWhatItReceives StopsWhatItLeaves RotatesWhenFull
PROPERTIES EndsWhenServed SignalEndsAtNextEvent
CHECK_DEADLOCK FALSE
