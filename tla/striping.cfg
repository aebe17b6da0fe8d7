SPECIFICATION Spec
CONSTANTS
  Ks = {2, 3, 4}
  Ms = {0, 1}
  ObjLens = {1, 2, 5, 6, 13}
INVARIANT DecodeInvertsEncode
CHECK_DEADLOCK FALSE
