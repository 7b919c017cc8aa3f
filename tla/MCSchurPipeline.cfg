SPECIFICATION PipelineSpec
CONSTANTS
  MaxOrder = 5
  Crossover = 4
  Nmin = 3
INVARIANTS
  NoLeftoverInT
  OutputsOfInput
