SPECIFICATION PreparedSpec
CONSTANTS
  Value <- MCValue
  NaN <- MCNaN
  Text = {t}
  Dialect = {postgres}
  NUMBERED = {postgres}
  Keys = {k1}
  MaxTokens = 4
  Declaration <- SameNameStructs
  Caller = {c1, c2}
  None = None
INVARIANT MismatchIsUnresolved
CHECK_DEADLOCK FALSE
