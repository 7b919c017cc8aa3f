SPECIFICATION Spec
CONSTANTS
  MaxN = 4
  Modes = {"schur"}
  ItMax = 5
  StallLimit = 3
INVARIANT
  StandardizedBlocks
