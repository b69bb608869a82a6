CONSTANTS
  Host = {h1, h2}
  MaxOps = 1
  Kinds = {"remove"}
  Troubles = 0
SPECIFICATION Spec
INVARIANTS
  ClosedStaysClosed
CHECK_DEADLOCK FALSE
