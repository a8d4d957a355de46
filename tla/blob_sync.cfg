SPECIFICATION Spec
CONSTANTS
  d1 = d1
  d2 = d2
  Rows = {"a"}
  Devices = {d1, d2}
  Keys = {"k1", "k2", "lost"}
  Ring = {"k1", "k2"}
  Remembers = TRUE
  MaxWrites = 3
  Timeless = {3}
  MaxDeletes = 1
  MaxPulls = 1
  MaxFaults = 2
  MaxResets = 1
  Scopes <- TwoScopes
  ScopeOf <- AllChats
  MigKeys = {"k1"}
  PageLimit = 1
  MaxRuns = 0
  MayCancel = TRUE
SYMMETRY Symmetry
INVARIANTS
  TypeOK
  DeleteHonest
  EtagNamesContent
  ActivityOfContent
PROPERTIES
  NoSilentOverwrite
CHECK_DEADLOCK FALSE
