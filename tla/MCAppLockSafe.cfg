SPECIFICATION Spec
CONSTANTS
  Process = {p1, p2}
  p1 = p1
  p2 = p2
  p3 = p3
  NoProcess = NoProcess
  Dialects = {"sqlite", "postgres"}
  ForceArgs = {FALSE}
  TTL = 3
  RenewInterval = 1
  RenewRetries = 2
  OpTimeout = 1
  RetryDelay = 1
  ShutdownGrace = 1
  AcquireLatency = 0
  Skew <- SkewP2
  MaxSkew = 1
  LateStatements = FALSE
  Prompt = FALSE
  MaxNow = 5
INVARIANTS TypeOK LeaseBacked LeaseExclusion
PROPERTIES TakenWhenOver LeaseSpec
CHECK_DEADLOCK FALSE
