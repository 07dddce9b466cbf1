SPECIFICATION Spec
INVARIANT ConflictsEndAsAsked
CONSTANTS
  None = None
  Tables <- OnlyGenerated
  Served <- OnSqlite
  Sources = {}
  Targets <- IdTarget
  Expressions = {}
  Conditions = {}
  MaxRows = 1
  MaxClauses = 1
CHECK_DEADLOCK FALSE
