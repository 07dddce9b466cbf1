SPECIFICATION RowsSpec
CONSTANTS
  users = users
  recent = recent
  Table = {users, recent}
  Cte = {recent}
  RowId = {r1}
  Absent = Absent
  Null = Null
  SUPPORTS_FULL_JOIN = TRUE
  MaxJoins = 2
  Columns <- MCColumns
  Parts <- MCParts
  MaxParts = 2
  Bodies <- MCBodies
  Structs <- MCStructs
INVARIANTS
  TypeOK
  CtesInScopeAreBound
  NoNullWithoutOption
  OptionOnlyWhereNeeded
  EveryRowDecodes
  FieldsHoldWhatTheirKeysName
  ColumnsAreFoundByTheirNames
  StructsIgnoreTheOrder
PROPERTY NullabilityIsSticky
CHECK_DEADLOCK FALSE
