CONSTANTS
  Host = {h1, h2}
  MaxOps = 1
  Kinds = {"switch"}
  Troubles = 1
SPECIFICATION Spec
INVARIANTS
  InactiveIsQuiet
CHECK_DEADLOCK FALSE
