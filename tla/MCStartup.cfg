SPECIFICATION FairSpec
CONSTANTS
  Environments <- SettingsAndStrings
  Alias = {"_timeout", "_busy_timeout", "_fk", "_sync"}
  PragmaOf <- Converted
  Lower <- LowerCase
  Values = {"0", "1", "2", "2500", "MEMORY", "DELETE", "WAL", "OFF"}
  MaxAttempts = 3
INVARIANTS ForeignKeysEnforced OptionsInEffect
PROPERTIES AcceptedStarts
CHECK_DEADLOCK FALSE
