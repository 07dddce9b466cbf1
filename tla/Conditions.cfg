SPECIFICATION Spec
CONSTANTS
  Table = {users, posts}
  Lists <- MCLists
  MaxNodes = 4
  MaxHeld = 3
  MaxFilters = 2
  MaxDepth = 3
INVARIANTS
  ReadsAsBuilt
  EveryNameIsInScope
  CollectionsAnswerForTheirMembers
SYMMETRY TableSymmetry
CHECK_DEADLOCK FALSE
