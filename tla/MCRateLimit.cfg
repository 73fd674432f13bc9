SPECIFICATION Spec
CONSTANTS
  c1 = c1
  c2 = c2
  local = local
  h1 = h1
  h2 = h2
  l1 = l1
  l2 = l2
  l3 = l3
  l4 = l4
  Client = {c1, c2, local}
  Exempt = {local}
  NoClient = NoClient
  Handler = {h1, h2}
  Limiter = {l1, l2, l3, l4}
  NoLimiter = NoLimiter
  Cost = 1
  Capacity = 2
  IdleLimit = 3
  CleanupPeriod = 1
  MaxHold = 1
  MaxNow = 6
SYMMETRY Symmetry
INVARIANTS TypeOK AdmissionBound HeldIsCurrent ForgottenInTime
PROPERTIES BucketSpec
