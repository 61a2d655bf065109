SPECIFICATION TurnsSpec
CONSTANTS
  p1 = p1
  p2 = p2
  t1 = t1
  t2 = t2
  NoProxy = NoProxy
  Proxy = {p1, p2}
  PoolThread = {t1, t2}
  Pooled = {TRUE}
  Kinds = {"any"}
  Qos <- TurnsQos
  Others = FALSE
  MaxEvents = 3
  MaxSets = 0
SYMMETRY TurnsSymmetry
INVARIANT EntriesLive
PROPERTIES RoundRobin FeedSpec
CHECK_DEADLOCK FALSE
