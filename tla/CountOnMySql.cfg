SPECIFICATION Spec
INVARIANT CountIsTheNumberOfRows
CONSTANTS
  None = None
  Rejected = Rejected
  I64Max = 3
  Served <- OnMySql
  Binding <- NoBinding
  Selections <- TwoIds
  Column <- IdColumns
  Datum = {1, 2}
  Groups = {1, 2}
  Request <- OneCount
  Joined <- FewRows
  MaxClauses = 1
