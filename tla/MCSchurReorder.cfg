SPECIFICATION ReorderSpec
CONSTANTS
  MaxN = 6
  Fields = {"real", "complex"}
INVARIANTS
  ScanSeesInput
  SelectionLeads
  RejectionIsPartial
  MoveLands
