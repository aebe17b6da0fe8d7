SPECIFICATION Spec
CONSTANTS
  NoNumber = NoNumber
  NoType = NoType
  CommandLines <- MCCommandLines
  LoadedSets <- MCLoadedSets
  Faulty = {"isa_l_rs_vand"}
  Requests <- MCRequests
  Exts = {"_pyeclib_c.abi3.so", "_pyeclib_c.pypy.so"}
  Platforms = {"glibc", "musl", "darwin"}
INVARIANTS
  ProgramsTypeOK
  VerifyExitTruthful
  BenchSampleSuffices
  SchemesMeetRequest
  WheelComplete
  TempLeftOnlyIfInterrupted
CHECK_DEADLOCK FALSE
