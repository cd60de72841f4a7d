\* Three sessions, a ring of two slots, a disk that may fail.
SPECIFICATION Spec
CONSTANTS
  TopScan = 8
  Word = 256
  PriceDecimals = 1
  QtyDecimals = 2
  NoValue = NoValue
  Torn = Torn
  Sessions <- SomeSessions
  Capacity = 2
  DiskFails = TRUE
  PassRecords = 3
  MaxRecords = 7
CHECK_DEADLOCK FALSE
INVARIANTS
  NothingLost
  ExportReplays
PROPERTIES
  DrainsTheRest
  ThreadsEnd
