CONSTANTS
  AdminThread = {t1}
  ProxyThread = {p1, p2}
  NumGroups = 1
  MaxAdmins = 2
  MaxEvents = 2
  MayDestroy = TRUE
  Meant <- SomeMeant
SPECIFICATION FairSpec
INVARIANT OfferedAdminExists
PROPERTIES FeedSpec EventsArrive DestructionEnds
CHECK_DEADLOCK FALSE
