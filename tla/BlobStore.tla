------------------------------ MODULE BlobStore ------------------------------
(***************************************************************************)
(* The controlplane's table of encrypted rows, as its in-memory mirror     *)
(* handles them.  A row holds one chat, profile, project or document; its  *)
(* etag counts its writes and is the value every compare-and-set is made   *)
(* against.  Etag 0 stands for "no row", which is also what a writer that  *)
(* wants to create sends (createIfMatchSentinel).                          *)
(*                                                                         *)
(* Content is abstracted to the number of the write that produced it.      *)
(***************************************************************************)
EXTENDS Naturals, FiniteSets

CONSTANTS
    Keys,       \* content-encryption keys that rows may be sealed under
    MaxWrites,  \* bound: contents ever written, the initial one included
    Timeless    \* contents without any timestamp: no activity time to derive

ASSUME StoreConstants ==
    /\ MaxWrites \in Nat \ {0}
    /\ Timeless \subseteq 1..MaxWrites
    /\ "none" \notin Keys

Contents == 1..MaxWrites

\* act: the content whose activity time the row carries; 0 when unset.
Absent == [etag |-> 0, key |-> "none", fmt |-> "none", val |-> 0, act |-> 0]

RowType == [etag : Nat \ {0}, key : Keys, fmt : {"v2", "legacy"},
            val : Contents, act : 0..MaxWrites] \cup {Absent}

Present(row) == row.etag # 0

\* A row from before the v2 envelope and before activity times.
Legacy(k) == [etag |-> 1, key |-> k, fmt |-> "legacy", val |-> 1, act |-> 0]

\* chatActivityAt: what the plaintext says, 0 when it says nothing.
ActivityOf(v) == IF v \in Timeless THEN 0 ELSE v

\* Mutant: takes the create sentinel for "no precondition".
StaleMatchUnlessCreate(row, im) == Present(row) /\ im \notin {0, row.etag}

\* putBlob, delBlob: an absent row accepts every If-Match.
StaleMatch(row, im) == Present(row) /\ im # row.etag

\* putBlob on a matching row.  The activity time is the new content's, or none.
Stored(row, k, v) ==
    [etag |-> row.etag + 1, key |-> k, fmt |-> "v2", val |-> v, act |-> ActivityOf(v)]

\* Mutant: only looks whether the row is there.
StaleRewrapIfAbsent(row, im) == ~Present(row)

\* rewrap wants the row to be there.
StaleRewrap(row, im) == ~Present(row) \/ im # row.etag

\* rewrap: new bytes under a new key and a new etag; the rest stays.
Resealed(row, k, v) ==
    [row EXCEPT !.etag = @ + 1, !.key = k, !.fmt = "v2", !.val = v]

\* Mutant: fills whatever revision is there now.
BackfilledAnyEtag(row, etag, v) ==
    IF Present(row) /\ row.act = 0 THEN [row EXCEPT !.act = v] ELSE row

\* backfillChatActivity: only for the revision that was read, only when unset.
Backfilled(row, etag, v) ==
    IF Present(row) /\ row.act = 0 /\ row.etag = etag
    THEN [row EXCEPT !.act = v] ELSE row
=============================================================================
