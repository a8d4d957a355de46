SPECIFICATION Spec
CONSTANTS
  c1 = c1
  c2 = c2
  r1 = r1
  r2 = r2
  q1 = q1
  Chats = {c1, c2}
  Kinds = {"push", "page"}
  Replicas = {r1, r2}
  Readers = {q1}
  MaxAttempts = 2
  MaxObjects = 2
  MaxFence = 0
  ProbeFails = TRUE
  LatePublish = FALSE
  Faults = FALSE
SYMMETRY Symmetry
INVARIANTS
  QueryHonest
CHECK_DEADLOCK FALSE
