CONSTANTS
  Host = {h1, h2}
  MaxOps = 1
  Kinds = {"switch", "new", "remove"}
  Troubles = 1
SPECIFICATION FairSpec
PROPERTIES
  Converges
