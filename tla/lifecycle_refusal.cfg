SPECIFICATION Spec
CONSTANTS
  Threads = {t1, t2}
  Drivers = {d1}
  Descs = {n1}
  t1 = t1
  t2 = t2
  d1 = d1
  n1 = n1
  MaxIndexes = 1
  LibVersions = {67584}
  FreeThreaded = TRUE
  LockMayFail = FALSE
  NoDesc = NoDesc
SYMMETRY MCSymmetry
INVARIANTS
  ClosedIsTheOnlyRefusal
