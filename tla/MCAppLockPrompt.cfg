SPECIFICATION FairSpec
CONSTANTS
  Process = {p1, p2}
  p1 = p1
  p2 = p2
  p3 = p3
  NoProcess = NoProcess
  Dialects = {"sqlite"}
  ForceArgs = {FALSE}
  TTL = 7
  RenewInterval = 2
  RenewRetries = 2
  OpTimeout = 1
  RetryDelay = 1
  ShutdownGrace = 1
  AcquireLatency = 0
  Skew <- SkewP2
  MaxSkew = 1
  LateStatements = FALSE
  Prompt = TRUE
  MaxNow = 12
INVARIANTS ServingBound OneServer
PROPERTIES NeverLost CanceledExits
CHECK_DEADLOCK FALSE
