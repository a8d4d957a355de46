SPECIFICATION Spec
CONSTANTS
  c1 = c1
  c2 = c2
  r1 = r1
  r2 = r2
  q1 = q1
  Chats = {c1, c2}
  Kinds = {"push"}
  Replicas = {r1, r2}
  Readers = {q1}
  MaxAttempts = 2
  MaxObjects = 3
  MaxFence = 0
  ProbeFails = FALSE
  LatePublish = TRUE
  Faults = TRUE
SYMMETRY Symmetry
INVARIANTS
  QueryHonest
PROPERTIES
  AtomicSpec
CHECK_DEADLOCK FALSE
