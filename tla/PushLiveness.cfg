SPECIFICATION FairSpec
CONSTANTS
  p1 = p1
  t1 = t1
  NoProxy = NoProxy
  Proxy = {p1}
  PoolThread = {t1}
  Pooled = {TRUE, FALSE}
  Kinds = {"any", "structured", "sequence"}
  Qos <- MCQos
  Others = TRUE
  MaxEvents = 3
  MaxSets = 1
PROPERTIES FeedSpec EventsPushed DestructionEnds
CHECK_DEADLOCK FALSE
