\* Both built-in strategies over both venues, any other over the paper venue;
\* two orders a second of three ticks, over three seconds.
SPECIFICATION MCSpec
CONSTANTS
  TopScan = 8
  Prices = {1, 2, 3}
  QuotePrices = {2, 3}
  DynPrices = {2, 3}
  OrderQty = 2
  MaxInventory = 2
  RequoteTicks = 1
  Threshold = 3
  SignalLevels = 1
  NoQuote = NoQuote
  Strategy = {"market_maker", "imbalance", "dyn"}
  Gateways = {"sim", "paper"}
  Qtys = {1, 2}
  MaxOrders = 4
  MaxReports = 0
  NoOrder = NoOrder
  MaxOrderQty = 1
  MaxPosition = 1
  MaxOpenOrders = 1
  PriceBand = 1
  MaxOrdersPerSec = 2
  MaxLoss = 0
  Second = 3
  NoMid = NoMid
  MaxTime = 9
  MaxSent = 8
INVARIANTS
  FewOrders
  InventoryBound
  TwiceTheLimit
  RefusedOnlyWhenFull
PROPERTY ImplementsOrderVenue
