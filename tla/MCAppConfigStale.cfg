SPECIFICATION Spec
CONSTANTS
  Process = {p1}
  Request = {r1, r2}
  p1 = p1
  p2 = p2
  r1 = r1
  r2 = r2
  r3 = r3
  name = name
  accent = accent
  v0 = v0
  v1 = v1
  NoActor = NoActor
  InstanceId = InstanceId
  Empty = Empty
  Absent = Absent
  Key <- Keys
  Value = {v0, v1}
  Default <- Defaults
  Nullable = {accent}
  Home <- Homes
  EnvValue <- NameFromEnv
  UiConfigDisabled <- Enabled
  ReadErrors = FALSE
  LostAnswers = FALSE
  InitialTables <- FirstBoots
INVARIANTS FreshWhenQuiet
CHECK_DEADLOCK FALSE
