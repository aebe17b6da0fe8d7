SPECIFICATION Spec
CONSTANTS
  NoNumber = NoNumber
  NoType = NoType
  Lost = Lost
  Arguments <- MCArguments
  Loaded <- MCLoaded
  RangeLists <- MCRangeLists
  MaxFaults = 2
  MaxIndexes = 2
  ObjLen = 3
  Word = 64
INVARIANTS
  TypeOK
  KeptInPlace
  WholeRequestSucceeds
  ReadWithinFragments
  RangesExact
  ReprRebuilds
PROPERTIES
  ScrubDropsOnlyBad
