CONSTANTS
  f1 = f1
  f2 = f2
  Filters = {f1, f2}
  Admins = {a1}
  Proxies = {p1}
  Threads = {t1, t2}
  Types <- NestedTypes
  Shapes <- NestedShapes
  Subs <- NestedSubs
  Events <- Consumed
  MaxIds <- IdBounds
  MaxEdits = 1
  NoFilter = NoFilter
SPECIFICATION Spec
SYMMETRY ThreadSymmetry
CONSTRAINT BeforeRaces
CHECK_DEADLOCK FALSE
INVARIANTS
  TypesCounted
  MapFollows
  RightConsumers
