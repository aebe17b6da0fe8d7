SPECIFICATION FairSpec
CONSTANTS
  Validators = {v1, v2, v3}
  Openers = {o1, o2}
  Fds = {f3, f4, f5, f6}
  v1 = v1
  v2 = v2
  v3 = v3
  o1 = o1
  o2 = o2
  f3 = f3
  f4 = f4
  f5 = f5
  f6 = f6
  GilDisabled = FALSE
  ErrorsRunPython = FALSE
  None = None
INVARIANTS
  TypeOK
  StderrRestored
  NoDescriptorLost
  OthersFilesKept
PROPERTIES
  RedirectionEnds
