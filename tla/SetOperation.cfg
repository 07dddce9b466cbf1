SPECIFICATION ChainSpec
CONSTANTS
  None = None
  Rejected = Rejected
  I64Max = 3
  Branch <- MCBranch
  Name = {"id", "email"}
  Counts = {2}
  MaxBranches = 4
  MaxKeys = 1
INVARIANTS
  ReadsAsLeftFold
  CountsTheWholeCombination
  OrderNamesItsColumn
CHECK_DEADLOCK FALSE
