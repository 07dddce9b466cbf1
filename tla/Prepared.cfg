SPECIFICATION PreparedSpec
CONSTANTS
  Value <- MCValue
  NaN <- MCNaN
  Text = {t}
  Dialect = {postgres, sqlite}
  NUMBERED = {postgres}
  Keys = {k1}
  MaxTokens = 4
  Declaration <- DistinctStructs
  Caller = {c1, c2}
  None = None
INVARIANTS
  TypeOK
  SameTextExactlyForSameValue
  EveryParameterIsNamed
  ResolvedReadsTheCallersArguments
  MismatchIsUnresolved
PROPERTY ImplementsInlining
CHECK_DEADLOCK FALSE
