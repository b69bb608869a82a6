CONSTANTS
  Req = {r1, r2, r3}
  Kinds = {"prompt", "unsteer"}
  Proc = {p1}
  NoReq = NoReq
  NoProc = NoProc
SPECIFICATION Spec
PROPERTIES
  RemovedIsNotRun
CHECK_DEADLOCK FALSE
