SPECIFICATION Spec
INVARIANT EveryRowIsInserted
INVARIANT RowsAreStoredAsSaid
INVARIANT QueryFillsColumnsByName
INVARIANT ConflictsEndAsAsked
CONSTANTS
  None = None
  Tables <- EveryTable
  Served <- EveryDialect
  Sources <- FewSources
  Targets <- FewTargets
  Expressions <- FewExpressions
  Conditions <- FewConditions
  MaxRows = 2
  MaxClauses = 2
CHECK_DEADLOCK FALSE
