CONSTANTS
  Req = {r1, r2}
  Kinds = {"prompt"}
  Proc = {p1}
  NoReq = NoReq
  NoProc = NoProc
SPECIFICATION Spec
INVARIANTS
  AcceptedReachesATurn
CHECK_DEADLOCK FALSE
