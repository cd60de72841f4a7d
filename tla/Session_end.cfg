SPECIFICATION FairSpec
CONSTANTS
  OrderCap = 3
  ExecCap = 5
  MdCap = 2
  MaxOpenOrders = 1
  Lots = 2
  EngineBurst = 2
  FlowBurst = 2
  MaxOrders = 4
CHECK_DEADLOCK FALSE
INVARIANTS
  EngineNeverWaits
PROPERTIES
  SessionEnds
