SPECIFICATION FairSpec
CONSTANTS
  Threads = {t1, t2}
  Drivers = {d1}
  Descs = {n1}
  t1 = t1
  t2 = t2
  d1 = d1
  n1 = n1
  MaxIndexes = 2
  LibVersions = {67329}
  FreeThreaded = TRUE
  LockMayFail = FALSE
  NoDesc = NoDesc
INVARIANTS
  TypeOK
  EncodeNeverLeaks
  SegmentInfoSound
PROPERTIES
  CallsReturn
  ClosedIsReclaimed
