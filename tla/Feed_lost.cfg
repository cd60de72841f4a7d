\* Kraken's snapshot and updates, none of them garbled, on a ring of two slots.
SPECIFICATION Spec
CONSTANTS
  TopScan = 1
  NoMsg = NoMsg
  Prices = {1, 2, 3}
  Qtys = {2}
  Feeds = {"kraken"}
  StartBook <- StartOneByOne
  RingCap = 2
  MayGarble = FALSE
  MaxReconnects = 0
  MaxFrames = 3
INVARIANT BatchEndsConsistent
CHECK_DEADLOCK FALSE
