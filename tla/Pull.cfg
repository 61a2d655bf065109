SPECIFICATION FairSpec
CONSTANTS
  Puller = {p1, p2, p3}
  Kinds = {"any", "structured", "sequence"}
  Maxnums = {0, 1}
  Qos <- MCQos
  MaxEvents = 4
  MaxChanges = 2
INVARIANTS NoLostWakeup NobodyInside
PROPERTIES FeedSpec PullersServed
CHECK_DEADLOCK FALSE
