SPECIFICATION FairSpec
CONSTANTS
  Proxy = {p1, p2, b}
  Batch = {b}
  Unconnected = {p1}
  MaxConsumers = 2
INVARIANTS CountsFollow OneDisposer NoneLeft
PROPERTIES DestructionEnds
CHECK_DEADLOCK FALSE
