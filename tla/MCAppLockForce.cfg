SPECIFICATION Spec
CONSTANTS
  Process = {p1, p2}
  p1 = p1
  p2 = p2
  p3 = p3
  NoProcess = NoProcess
  Dialects = {"sqlite", "postgres"}
  ForceArgs = {FALSE, TRUE}
  TTL = 2
  RenewInterval = 1
  RenewRetries = 2
  OpTimeout = 1
  RetryDelay = 1
  ShutdownGrace = 1
  AcquireLatency = 0
  Skew <- NoSkew
  MaxSkew = 0
  LateStatements = TRUE
  Prompt = FALSE
  MaxNow = 4
SYMMETRY Symmetry
INVARIANTS ForcedExclusion
PROPERTIES DeadStayDead
CHECK_DEADLOCK FALSE
