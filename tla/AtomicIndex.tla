----------------------------- MODULE AtomicIndex -----------------------------
(***************************************************************************)
(* What the publication protocol of search_ops.go promises its callers: a  *)
(* user's search index behaves as one variable that requests change one at *)
(* a time, each from the value the one before it left behind.  Its storage *)
(* can get lost as a whole, never in part; then a request may start over.  *)
(***************************************************************************)
EXTENDS IndexContents

VARIABLES
    value,   \* the contents of the index
    lost     \* whether its storage is gone

Init == value = Empty /\ lost = FALSE

Update(op) == value' = Apply(op, value) /\ lost' \in BOOLEAN

StartOver(op) == lost /\ value' = Apply(op, Empty) /\ lost' \in BOOLEAN

Lose == ~lost /\ lost' = TRUE /\ UNCHANGED value

\* A key registration empties the index.
Reset == value' = Empty /\ lost' = FALSE

Next == Lose \/ Reset \/ \E op \in Ops : Update(op) \/ StartOver(op)

Spec == Init /\ [][Next]_<<value, lost>>
=============================================================================
