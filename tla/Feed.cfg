\* Each protocol and the simulated venue, on a ring of two slots: three frames, one
\* reconnect.
SPECIFICATION FairSpec
CONSTANTS
  TopScan = 1
  NoMsg = NoMsg
  Prices = {1, 2, 3}
  Qtys = {2}
  Feeds = {"okx", "binance", "kraken", "alpaca", "sim"}
  StartBook <- StartOneByOne
  RingCap = 2
  MayGarble = TRUE
  MaxReconnects = 1
  MaxFrames = 3
INVARIANTS
  SyncedBookIsTrue
  GapsCountDrops
PROPERTIES
  ImplementsBookMap
  FeedEnds
CHECK_DEADLOCK FALSE
