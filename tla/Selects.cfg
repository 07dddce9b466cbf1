SPECIFICATION Spec
INVARIANT CountIsTheNumberOfRows
INVARIANT PageIsTheOneAskedFor
INVARIANT CheckedSortsAreSelected
CONSTANTS
  None = None
  Rejected = Rejected
  I64Max = 7
  Served <- EveryDialect
  Binding <- EveryBinding
  Selections <- AnySelection
  Column <- UserColumns
  Datum = {1, 2}
  Groups = {1, 2}
  Request <- EdgeCounts
  Joined <- FewRows
  MaxClauses = 1
