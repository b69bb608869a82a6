CONSTANTS
  Req = {r1}
  Kinds = {"fork"}
  Proc = {p1}
  NoReq = NoReq
  NoProc = NoProc
SPECIFICATION FairSpec
PROPERTIES
  ExitEndsTheWait
CHECK_DEADLOCK FALSE
