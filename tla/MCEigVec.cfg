SPECIFICATION Spec
CONSTANTS
  MaxN = 6
INVARIANTS
  SubstitutedOnce
  ScaledAlike
  TriangularProductReadsComponents
  NormalizedAsSolved
