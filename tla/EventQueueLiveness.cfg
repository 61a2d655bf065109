CONSTANTS
  Consumer = {c1, c2}
  MaxEvents = 2
  MaxAnnounce = 2
  MaxExtra = 0
  MaxQueueLengths = {0, 1}
  RejectNewEvents = TRUE
SPECIFICATION FairSpec
PROPERTIES
  FeedFairSpec
  GarbageCollected
  DestroyCompletes
CHECK_DEADLOCK FALSE
