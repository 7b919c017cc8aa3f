SPECIFICATION FairSpec
CONSTANTS
  MaxN = 4
  LargeN = 6
  PureFlat = 3
  BlockSize = 2
  TrsmBase = 2
  Calls <- MCCalls
INVARIANTS
  Factored
  SolvedInOrder
PROPERTIES
  UpdatesSound
  PivotSearchSeesEliminatedColumn
  Terminates
