\* Two orders of ours, which may trade with each other, and two of the background:
\* queues, levels, priority and what the engine thread sees of them.
SPECIFICATION Spec
CONSTANTS
  Prices = {10, 11}
  NoTaker = NoTaker
  Qtys = {1, 2}
  Tifs = {"Gtc", "Ioc", "PostOnly"}
  MaxBgOrders = 2
  MaxOurs = 2
  MaxBg = 2
  MaxQueue = 1
INVARIANTS
  BookIsConsistent
  NotCrossed
  LadderIsBook
PROPERTIES
  PriceTimePriority
  ImplementsOrderVenue
  SubmitProgresses
