SPECIFICATION Spec
CONSTANTS
  DataLens <- MCDataLens
  SegmentSizes <- MCSegmentSizes
  K = 2
  WordBytes = 2
  Header = 3
  MaxInt = 18
INVARIANTS
  TypeOK
  SizesAddUp
  SegmentsEncodable
  FragmentsAsAnnounced
  PlanIsStable
  RecipesExactUpToMerge
