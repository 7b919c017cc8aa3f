SPECIFICATION Spec
CONSTANTS
  MaxN = 6
  ItMax = 11
  StallLimit = 3
INVARIANTS
  WindowsInBounds
  HessenbergShape
  SimilarityMaintained
  NoStaleWindow
  SchurFormReturned
PROPERTIES
  ImplementsDeflation
