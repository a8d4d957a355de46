------------------------- MODULE MCSearchPublication -------------------------
(* Instances of SearchPublication for TLC. *)
EXTENDS SearchPublication, TLC

Symmetry == Permutations(Chats) \cup Permutations(Replicas)
=============================================================================
