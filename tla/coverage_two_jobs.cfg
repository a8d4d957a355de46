SPECIFICATION Spec
CONSTANTS
  c1 = c1
  c2 = c2
  w1 = w1
  w2 = w2
  j1 = j1
  j2 = j2
  k1 = k1
  k2 = k2
  None = None
  Chats = {c1, c2}
  Workers = {w1}
  Jobs = {j1, j2}
  Keys = {k1, k2}
  Replicas <- Procs
  ReplicaOf <- OwnReplica
  PageSize = 1
  MaxAttempts = 2
  MaxRev = 2
  MaxEtag = 0
  MaxFence = 1
  MaxGen = 2
  RegisteredOnly = TRUE
  RecreateAllowed = FALSE
  RewrapAllowed = FALSE
  MissEchoes = FALSE
  LostObjects = FALSE
  Faults = TRUE
SYMMETRY Symmetry
INVARIANTS
  NoMissingChat
  CheckpointSound
CHECK_DEADLOCK FALSE
