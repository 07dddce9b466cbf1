SPECIFICATION FragmentsSpec
CONSTANTS
  Value <- MCValue
  NaN <- MCNaN
  Text = {t}
  Dialect = {postgres}
  NUMBERED = {postgres}
  Keys = {k1}
  MaxTokens = 4
  Fragment = {f, g}
  None = None
  MaxPieces = 3
INVARIANTS
  ServerReadsWhatWasAsked
  SplicedAsRenderedThere
  SameFragmentSameText
SYMMETRY FragmentSymmetry
CHECK_DEADLOCK FALSE
