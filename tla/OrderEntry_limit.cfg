\* Two orders of two lots against a position limit of three, with every time in
\* force: fills, cancels, rejects, kills for a loss and the risk check in every
\* order.
SPECIFICATION Spec
CONSTANTS
  MaxOrderQty = 2
  MaxPosition = 3
  MaxOpenOrders = 2
  PriceBand = 1
  MaxOrdersPerSec = 9
  MaxLoss = 3
  Second = 1
  NoMid = NoMid
  Prices = {10}
  NoOrder = NoOrder
  Qtys = {2}
  Tifs = {"Gtc", "Ioc", "PostOnly"}
  Mids = {18}
  Controls = {"unkill"}
  MaxOrders = 2
  MaxIntents = 1
  MaxTime = 0
INVARIANTS
  TypeOK
  PositionWithinLimit
  OpenQtyIsSumOfLeaves
  OmsMatchesVenue
  NoOrphanOrders
  FillsAreKnown
  NoGhostOrders
  OneCancelInFlight
PROPERTIES
  ImplementsExposure
