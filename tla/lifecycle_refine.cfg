SPECIFICATION Spec
CONSTANTS
  Threads = {t1, t2}
  Drivers = {d1, d2}
  Descs = {n1, n2}
  t1 = t1
  t2 = t2
  d1 = d1
  d2 = d2
  n1 = n1
  n2 = n2
  MaxIndexes = 1
  LibVersions = {67584}
  FreeThreaded = TRUE
  LockMayFail = FALSE
  NoDesc = NoDesc
SYMMETRY MCSymmetry
INVARIANTS
  RefusedOnlyAfterClose
  InstanceReclaimed
  IInv
PROPERTIES
  LifecycleSpec
