CONSTANTS
  Consumer = {c1, c2}
  MaxEvents = 3
  MaxAnnounce = 3
  MaxExtra = 1
  MaxQueueLengths = {0, 1}
  RejectNewEvents = TRUE
SYMMETRY ThreadSymmetry
SPECIFICATION Spec
INVARIANTS
  PointersUnlessRaced
  NeededUnlessRaced
  
PROPERTY FeedSpec
CHECK_DEADLOCK FALSE
