SPECIFICATION Spec
CONSTANTS
  c1 = c1
  c2 = c2
  w1 = w1
  w2 = w2
  j1 = j1
  r1 = r1
  k1 = k1
  None = None
  Chats = {c1, c2}
  Workers = {w1, w2}
  Jobs = {j1}
  Keys = {k1}
  Replicas = {r1}
  ReplicaOf <- OneReplica
  PageSize = 1
  MaxAttempts = 2
  MaxRev = 2
  MaxEtag = 0
  MaxFence = 0
  MaxGen = 4
  RegisteredOnly = FALSE
  RecreateAllowed = TRUE
  RewrapAllowed = FALSE
  MissEchoes = TRUE
  LostObjects = FALSE
  Faults = FALSE
SYMMETRY Symmetry
INVARIANTS
  NoMissingChat
CHECK_DEADLOCK FALSE
