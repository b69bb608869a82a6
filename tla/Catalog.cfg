CONSTANTS
  Session = {s1, s2}
  Existing = {s1}
  Display = {plain, short}
  Default = plain
  MaxVersion = 2
  Acts = 1
  Outside = 1
  Troubles = 1
  Bad = Bad
  None = None
SPECIFICATION FairSpec
INVARIANTS
  TypeOK
  IndexIsTrue
PROPERTY
  EventuallyListed
CHECK_DEADLOCK FALSE
