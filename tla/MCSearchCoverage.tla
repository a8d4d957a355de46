-------------------------- MODULE MCSearchCoverage --------------------------
(* Instances of SearchCoverage for TLC. *)
EXTENDS SearchCoverageInv, TLC

\* Every worker and every job in an enclave of its own: no lock orders them.
OwnReplica == [p \in Procs |-> p]

\* One enclave: the per-user lock serialises all index writers.
OneReplica == [p \in Procs |-> CHOOSE r \in Replicas : TRUE]

Symmetry == Permutations(Chats) \cup Permutations(Workers)
=============================================================================
