SPECIFICATION FairSpec
CONSTANTS
  EventType = {x}
  Proxy = {p1}
  Batch = {p1}
  PoolThread = {t1, t2}
  Defaults = {FALSE}
  None = None
  MaxUse = 1
  MaxChanges = 2
  MaxInserts = 2
INVARIANTS EntriesKept ToldRight
PROPERTIES FeedFairSpec
CHECK_DEADLOCK FALSE
