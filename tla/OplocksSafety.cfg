SPECIFICATION Spec
CONSTANTS
  o1 = o1
  o2 = o2
  o3 = o3
  t1 = t1
  t2 = t2
  t3 = t3
  e1 = e1
  e2 = e2
  None = None
  Object = {o1, o2, o3}
  Thread = {t1, t2, t3}
  Entry = {e1, e2}
SYMMETRY OplockSymmetry
INVARIANTS NoInternalError NoReacquireFailure NoSleeperMissed NoLockCycle
PROPERTIES DisposedOnlyDrains LifeSpec
CHECK_DEADLOCK FALSE
