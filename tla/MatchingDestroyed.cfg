CONSTANTS
  f1 = f1
  f2 = f2
  Filters = {f1}
  Admins = {a1}
  Proxies = {p1}
  Threads = {t1}
  Types <- PlainTypes
  Shapes <- PlainShapes
  Subs <- NoSubs
  Events <- Consumed
  MaxIds <- OneFilter
  MaxEdits = 2
  NoFilter = NoFilter
SPECIFICATION Spec
CHECK_DEADLOCK FALSE
INVARIANT NoDestroyedFilter
