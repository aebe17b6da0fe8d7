SPECIFICATION Spec
CONSTANTS
  Validators = {v1, v2}
  Openers = {o1}
  Fds = {f3, f4, f5}
  v1 = v1
  v2 = v2
  o1 = o1
  f3 = f3
  f4 = f4
  f5 = f5
  GilDisabled = TRUE
  ErrorsRunPython = FALSE
  None = None
SYMMETRY MCSymmetry
INVARIANTS
  StderrRestored
