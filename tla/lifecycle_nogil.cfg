SPECIFICATION Spec
CONSTANTS
  Threads = {t1, t2, t3}
  Drivers = {d1}
  Descs = {n1}
  t1 = t1
  t2 = t2
  t3 = t3
  d1 = d1
  n1 = n1
  MaxIndexes = 1
  LibVersions = {67076, 67584}
  FreeThreaded = TRUE
  LockMayFail = TRUE
  NoDesc = NoDesc
SYMMETRY MCSymmetry
INVARIANTS
  NoUseAfterFree
  NothingUnreachable
  NoneMeansDestroyed
  LeakedOnlyByClose
PROPERTIES
  OldLibraryKeepsInstances
