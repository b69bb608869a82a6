CONSTANTS
  Host = {h1, h2}
  MaxOps = 2
  Kinds = {"switch", "new", "remove"}
  Troubles = 1
SPECIFICATION Spec
INVARIANTS
  TypeOK
  SelectionsAreClean
  EveryWaitEnds
