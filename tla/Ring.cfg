\* Four slots and indices that wrap at eight.
SPECIFICATION FairSpec
CONSTANTS
  Value = {v1, v2}
  NoValue = NoValue
  Capacity = 4
  Wrap = 8
INVARIANTS
  NoDataRace
  CachesAreSafe
PROPERTIES
  ImplementsQueue
  PushReturns
