SPECIFICATION Spec
CONSTANTS
  MaxN = 6
  Kernels = {"qr", "hessenberg"}
INVARIANTS
  OperandsCurrent
  TransformationComplete
  SkippedColumnsUnaffected
