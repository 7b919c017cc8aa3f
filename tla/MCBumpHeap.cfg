SPECIFICATION Spec
CONSTANTS
  Word = 64
  PageSize = 8
  MinAlign = 2
  HeapBase = 3
  InitPages = 1
  MaxPages = 5
  Sizes = {1, 2, 3, 4}
  Aligns = {1, 4}
  MaxLive = 3
INVARIANTS
  LiveBlocksBelowOffset
  StackDiscipline
PROPERTIES
  ImplementsHeap
