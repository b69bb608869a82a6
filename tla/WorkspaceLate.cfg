CONSTANTS
  Host = {h1, h2}
  MaxOps = 2
  Kinds = {"switch"}
  Troubles = 0
SPECIFICATION Spec
INVARIANTS
  LastSelectionWins
CHECK_DEADLOCK FALSE
