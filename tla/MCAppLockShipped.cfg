SPECIFICATION Spec
CONSTANTS
  Process = {p1, p2}
  p1 = p1
  p2 = p2
  p3 = p3
  NoProcess = NoProcess
  Dialects = {"sqlite"}
  ForceArgs = {FALSE}
  TTL = 30
  RenewInterval = 20
  RenewRetries = 3
  OpTimeout = 3
  RetryDelay = 1
  ShutdownGrace = 5
  AcquireLatency = 0
  Skew <- NoSkew
  MaxSkew = 0
  LateStatements = FALSE
  Prompt = TRUE
  MaxNow = 60
SYMMETRY Symmetry
INVARIANTS OneServer
CHECK_DEADLOCK FALSE
