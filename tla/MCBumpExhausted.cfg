SPECIFICATION Spec
CONSTANTS
  Word = 32
  PageSize = 8
  MinAlign = 2
  HeapBase = 3
  InitPages = 1
  MaxPages = 4
  Sizes = {2, 5, 9}
  Aligns = {1, 4}
  MaxLive = 4
INVARIANT
  ExhaustionReturnsNull
