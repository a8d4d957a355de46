---------------------------- MODULE IndexContents ----------------------------
(***************************************************************************)
(* The contents of a user's search index, as far as the publication        *)
(* protocol can tell versions apart, and the changes requests make to it.  *)
(***************************************************************************)
CONSTANTS
    Chats,     \* chat ids of one user
    Kinds      \* the kinds of requests that change the index

\* An entry without vectors is "pending" until an embedding repair.
Values == [Chats -> {"none", "pending", "ready"}]
Empty  == [c \in Chats |-> "none"]

\* The read-modify-write cycles of the enclave: the inline update after a
\* push (with or without vectors), the cleanup after a delete, the first page
\* of a rebuild and the embedding repair.
Ops == {op \in [kind : Kinds, chat : Chats \cup {"all"}] :
           op.chat = "all" <=> op.kind = "repair"}

\* What is left of the old entries when a cycle starts to add its own.
Cleared(op, v) == IF op.kind = "page" THEN Empty ELSE v

Apply(op, v) ==
    CASE op.kind \in {"push", "page"} -> [Cleared(op, v) EXCEPT ![op.chat] = "ready"]
      [] op.kind = "lexical"          -> [v EXCEPT ![op.chat] = "pending"]
      [] op.kind = "drop"             -> [v EXCEPT ![op.chat] = "none"]
      [] op.kind = "repair"           -> [c \in Chats |-> IF v[c] = "pending"
                                                          THEN "ready" ELSE v[c]]
=============================================================================
