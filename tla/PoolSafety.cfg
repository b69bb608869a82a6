CONSTANTS
  Proc = {p1, p2, p3}
  Op = {o1, o2}
  Cwd = {home, other}
  DefaultCwd = home
  NoCwd = NoCwd
  NoProc = NoProc
  NoOp = NoOp
  Probe = Probe
  MaxProcesses = 2
  PrewarmCount = 2
  MaxRpc = 1
SPECIFICATION Spec
SYMMETRY Symmetric
INVARIANTS
  TypeOK
  CapacityRespected
  IdleIsOrderly
PROPERTIES
  ImplementsContract
  AnswersMatchRequests
CHECK_DEADLOCK FALSE
