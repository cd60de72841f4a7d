\* The market maker over the simulated venue.
SPECIFICATION Spec
CONSTANTS
  TopScan = 8
  Prices = {1, 2, 3}
  QuotePrices = {1, 2, 3}
  DynPrices = {2, 3}
  OrderQty = 2
  MaxInventory = 2
  RequoteTicks = 1
  Threshold = 3
  SignalLevels = 1
  NoQuote = NoQuote
  Strategy = {"market_maker"}
  Gateways = {"sim"}
  Qtys = {1, 2}
  MaxOrders = 4
  MaxReports = 0
  NoOrder = NoOrder
INVARIANT WithinMaxInventory
