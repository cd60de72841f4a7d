\* The kill switch is set once, by the operator or by a loss of the market alone:
\* two orders of one lot.
SPECIFICATION FairSpec
CONSTANTS
  MaxOrderQty = 2
  MaxPosition = 1
  MaxOpenOrders = 2
  PriceBand = 1
  MaxOrdersPerSec = 9
  MaxLoss = 0
  Second = 1
  NoMid = NoMid
  Prices = {10}
  NoOrder = NoOrder
  Qtys = {1}
  Tifs = {"Gtc"}
  Mids = {18}
  Controls = {"kill"}
  MaxOrders = 2
  MaxIntents = 1
  MaxTime = 0
PROPERTIES
  KillCancelsAll
  KillFlattensOrders
  CancelSettles
  NewSettles
  LossTripsKill
