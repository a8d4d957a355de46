SPECIFICATION FairSpec
CONSTANTS
  d1 = d1
  Rows = {"a", "b"}
  Devices = {d1}
  Keys = {"k1", "k2"}
  Ring = {"k1"}
  Remembers = FALSE
  MaxWrites = 3
  Timeless = {}
  MaxDeletes = 1
  MaxPulls = 0
  MaxFaults = 1
  MaxResets = 0
  Scopes <- TwoScopes
  ScopeOf <- AllChats
  MigKeys = {"k1"}
  PageLimit = 1
  MaxRuns = 1
  MayCancel = TRUE
INVARIANTS
  MigrateComplete
PROPERTIES
  NoSilentOverwrite
  MigrationEnds
CHECK_DEADLOCK FALSE
