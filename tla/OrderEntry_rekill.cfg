\* The kill switch is set, cleared and set again between two housekeepings.
SPECIFICATION Spec
CONSTANTS
  MaxOrderQty = 2
  MaxPosition = 2
  MaxOpenOrders = 2
  PriceBand = 1
  MaxOrdersPerSec = 9
  MaxLoss = 0
  Second = 1
  NoMid = NoMid
  Prices = {10}
  NoOrder = NoOrder
  Qtys = {1}
  Tifs = {"Gtc"}
  Mids = {20}
  Controls = {"kill", "unkill"}
  MaxOrders = 2
  MaxIntents = 1
  MaxTime = 0
PROPERTY
  KillCancelsAll
