SPECIFICATION FairSpec
CONSTANTS
  MaxN = 6
  Modes = {"eigvals", "schur", "schur_no_t"}
  ItMax = 6
  StallLimit = 3
INVARIANTS
  WindowsInBounds
  HessenbergShape
  SimilarityMaintained
  NoStaleWindow
  PairsAgree
  ExceptionalWhenStalled
PROPERTIES
  DeflatedBlocksFrozen
  ImplementsDeflation
  Termination
