SPECIFICATION Spec
CONSTANTS
  c1 = c1
  r1 = r1
  r2 = r2
  Chats = {c1}
  Kinds = {"page", "lexical", "repair"}
  Replicas = {r1, r2}
  Readers = {}
  MaxAttempts = 2
  MaxObjects = 3
  MaxFence = 1
  ProbeFails = TRUE
  LatePublish = FALSE
  Faults = TRUE
SYMMETRY Symmetry
INVARIANTS
  TypeOK
  PublishedPresent
CHECK_DEADLOCK FALSE
