\* The same, with a disk that does not fail.
SPECIFICATION Spec
CONSTANTS
  TopScan = 8
  Word = 256
  PriceDecimals = 1
  QtyDecimals = 2
  NoValue = NoValue
  Torn = Torn
  Sessions <- SomeSessions
  Capacity = 2
  DiskFails = FALSE
  PassRecords = 3
  MaxRecords = 7
CHECK_DEADLOCK FALSE
INVARIANT JournalComplete
