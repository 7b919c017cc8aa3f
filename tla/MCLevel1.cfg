SPECIFICATION CallersSpec
CONSTANTS
  MaxLen = 20
  Word = 32
  MaxOrder = 6
  MaxRows = 5
  MaxCols = 4
  MaxSweeps = 3
INVARIANTS
  EachElementOnce
  ProductsOnce
  ConvergedMeansOrthogonal
