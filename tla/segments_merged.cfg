SPECIFICATION Spec
CONSTANTS
  DataLens = {20}
  SegmentSizes = {4, 6, 8}
  K = 2
  WordBytes = 2
  Header = 3
  MaxInt = 40
INVARIANT RecipesExact
