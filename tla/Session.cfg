CONSTANTS
  Req = {r1, r2}
  Kinds = {"prompt", "fork", "new", "steer", "unsteer", "abort", "kill", "compact", "stats"}
  Proc = {p1, p2}
  NoReq = NoReq
  NoProc = NoProc
SPECIFICATION FairSpec
INVARIANTS
  TypeOK
  LeaseDiscipline
  AcceptedNeverFails
  ExclusiveRunsAlone
PROPERTIES
  CommandsAreAnswered
CHECK_DEADLOCK FALSE
