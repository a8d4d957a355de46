SPECIFICATION Spec
CONSTANTS
  c1 = c1
  c2 = c2
  w1 = w1
  w2 = w2
  j1 = j1
  k1 = k1
  None = None
  Chats = {c1, c2}
  Workers = {w1, w2}
  Jobs = {j1}
  Keys = {k1}
  Replicas <- Procs
  ReplicaOf <- OwnReplica
  PageSize = 1
  MaxAttempts = 2
  MaxRev = 2
  MaxEtag = 2
  MaxFence = 0
  MaxGen = 2
  RegisteredOnly = FALSE
  RecreateAllowed = FALSE
  RewrapAllowed = TRUE
  MissEchoes = TRUE
  LostObjects = TRUE
  Faults = TRUE
SYMMETRY Symmetry
INVARIANTS
  TypeOK
  NoGhostChat
PROPERTIES
  NoLostUpdate
CHECK_DEADLOCK FALSE
