--------------------------- MODULE MCInferenceGate ---------------------------
(* Instances of InferenceGate for TLC. *)
EXTENDS InferenceGate

\* A reindex job, two queries of the same user, two queries of others.
MCUserOf == [c \in Calls |-> IF c = "other" THEN "v" ELSE IF c = "third" THEN "w" ELSE "u"]
=============================================================================
