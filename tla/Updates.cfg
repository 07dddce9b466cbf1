SPECIFICATION Spec
INVARIANT EveryRowEndsAsAsked
INVARIANT OnlyAnEmptyPatchIsRefused
PROPERTY FiltersOnlyNarrow
CONSTANTS
  None = None
  Tables <- ATable
  Served <- EveryDialect
  Expressions <- FewExpressions
  Conditions <- FewConditions
  MaxClauses = 3
CHECK_DEADLOCK FALSE
