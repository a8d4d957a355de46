---------------------------- MODULE Attachments ----------------------------
(***************************************************************************)
(* Attachments of one user: upload, delete, fork, promotion of legacy      *)
(* rows, and the workers that reclaim what nobody references.              *)
(*                                                                         *)
(* The bytes live in buckets; the controlplane keeps an index row per      *)
(* attachment, a ledger of uploads in progress, and a queue of index rows  *)
(* it gave up for purging.  No transaction spans the two stores, so every  *)
(* handler takes its steps in an order that lets some worker finish what   *)
(* it leaves behind.                                                       *)
(*                                                                         *)
(* An id is derived from the chat and the bytes (and the caller's          *)
(* idempotency key): a repeated upload or fork meets the same ids again.   *)
(***************************************************************************)
EXTENDS Naturals, FiniteSets

CONSTANTS
    Images,        \* attachments a client may upload into the source chat
    Olds,          \* attachments of the source chat still stored the legacy way
    Workers,       \* purge workers, one per enclave; a worker stands for its claim token
    RacingUploads, \* may an upload run while a delete of the same id is under way?
    ReplayRefused, \* may a repeated fork be refused although an earlier one committed?
    MaxUploads,    \* bound: uploads a client begins
    MaxForks,      \* bound: fork requests
    MaxPushes,     \* bound: pushes and deletes of a chat
    MaxDrops,      \* bound: attachments the user deletes
    MaxFaults      \* bound: failed calls, lost answers, crashes

ASSUME AttachmentConstants ==
    /\ {MaxUploads, MaxForks, MaxPushes, MaxDrops, MaxFaults} \subseteq Nat
    /\ Images \cap Olds = {}
    /\ Workers \cap {"none", "free"} = {}
    /\ {RacingUploads, ReplayRefused} \subseteq BOOLEAN

Chats == {"source", "target"}
Ids   == Chats \X (Images \cup Olds)
Home(id) == id[1]
CopyOf(id) == <<"target", id[2]>>
OriginalOf(id) == <<"source", id[2]>>

VARIABLES
    obj,     \* buckets: the objects
    index,   \* controlplane: registered ids
    legacy,  \* controlplane: ids with a legacy row
    ledger,  \* controlplane: uploads reserved and not registered
    queue,   \* controlplane: purge queue; a row is free or leased to a worker
    chat,    \* controlplane: the chats and the ids they reference
    up,      \* the upload of each id in progress
    fork,    \* the fork request in progress
    forked,  \* controlplane: the fork's push is committed (idempotency table)
    promo,   \* the promotion in progress of each legacy id
    drop,    \* attachment deletes between index and bucket
    doomed,  \* ids a sweeper, a chat delete or a cleanup is about to delete from buckets
    purger,  \* per worker: what it claimed, has deleted and will acknowledge
    got,     \* ids a client has had confirmed
    user,    \* ids the user deleted (history)
    leaked,  \* ids whose best-effort bucket delete failed (history)
    used     \* how much of each bound is used up

vars == <<obj, index, legacy, ledger, queue, chat, up, fork, forked, promo, drop,
          doomed, purger, got, user, leaked, used>>

Bucket   == <<obj, leaked>>
Store    == <<index, legacy, ledger, queue, chat, forked>>
Requests == <<up, fork, promo, drop, got, user>>
Sweepers == <<doomed, purger>>

NoFork == [pc |-> "idle", todo |-> {}, made |-> {}]
NoPurge == [pc |-> "idle", todo |-> {}, acks |-> {}]

\* Type invariant.
TypeOK ==
    /\ obj \subseteq Ids /\ leaked \subseteq Ids
    /\ index \subseteq Ids /\ legacy \subseteq Ids /\ ledger \subseteq Ids
    /\ queue \in [Ids -> {"none", "free"} \cup Workers]
    /\ chat \in [Chats -> [present : BOOLEAN, refs : SUBSET Ids]]
    /\ up \in [Ids -> [pc : {"idle", "put", "register", "rollback"}, own : BOOLEAN]]
    /\ fork \in [pc : {"idle", "copy", "clean"}, todo : SUBSET Ids, made : SUBSET Ids]
    /\ forked \in BOOLEAN
    /\ promo \in [Ids -> {"idle", "put", "register"}]
    /\ drop \subseteq Ids /\ doomed \subseteq Ids
    /\ purger \in [Workers -> [pc : {"idle", "delete", "ack"}, todo : SUBSET Ids,
                               acks : SUBSET Ids]]
    /\ got \subseteq Ids /\ user \subseteq Ids
    /\ used \in [upload : Nat, fork : Nat, push : Nat, drop : Nat, fault : Nat]
    \* a chat references only its own ids, and no id is indexed and queued at once
    /\ \A c \in Chats : \A id \in chat[c].refs : Home(id) = c
    /\ \A id \in index : queue[id] = "none"

Init ==
    /\ obj = {} /\ index = {} /\ ledger = {} /\ leaked = {}
    /\ legacy = {"source"} \X Olds
    /\ queue = [id \in Ids |-> "none"]
    /\ chat = [c \in Chats |-> [present |-> c = "source",
                                refs |-> IF c = "source" THEN legacy ELSE {}]]
    /\ up = [id \in Ids |-> [pc |-> "idle", own |-> FALSE]]
    /\ fork = NoFork /\ forked = FALSE
    /\ promo = [id \in Ids |-> "idle"]
    /\ drop = {} /\ doomed = {} /\ user = {}
    /\ purger = [w \in Workers |-> NoPurge]
    /\ got = legacy
    /\ used = [upload |-> 0, fork |-> 0, push |-> 0, drop |-> 0, fault |-> 0]
-----------------------------------------------------------------------------
Spend(what, max) == used[what] < max /\ used' = [used EXCEPT ![what] = @ + 1]
Fault == Spend("fault", MaxFaults)

\* An upload and an unleased delete of the same id exclude each other by time
\* only: the windows of the sweepers against a client's patience.
Deleting(id) == id \in doomed \cup drop \/ (fork.pc = "clean" /\ id \in fork.made)
MayUpload(id) == RacingUploads \/ ~Deleting(id)
MayDelete(id) == RacingUploads \/ (up[id].pc = "idle" /\ promo[id] = "idle")

\* A refusal that is not about what the controlplane holds: the token expired,
\* too many requests.  It may meet the repetition of a request that succeeded.
MayRefuse(id) == ReplayRefused \/ Home(id) = "source" \/ ~forked

\* AttachmentGet looks the owner up in the index, then gets the object.
OwnerKnown(id) == id \in index
Readable(id) == OwnerKnown(id) /\ id \in obj

\* A best-effort delete in buckets; its failure is swallowed.
DeleteObject(id) ==
    \/ obj' = obj \ {id} /\ leaked' = leaked \ {id} /\ UNCHANGED used
    \/ Fault /\ obj' = obj /\ leaked' = leaked \cup (obj \cap {id})
-----------------------------------------------------------------------------
(* AttachmentPut: reserve, put, register. *)

SetUp(id, pc, own) == up' = [up EXCEPT ![id] = [pc |-> pc, own |-> own]]

\* The answer of an upload; an upload into the target chat belongs to the fork.
Finish(id, ok) ==
    /\ SetUp(id, "idle", FALSE)
    /\ got' = IF ok THEN got \cup {id} ELSE got
    /\ user' = IF ok THEN user \ {id} ELSE user
    /\ fork' = IF Home(id) # "target" \/ fork.pc # "copy" THEN fork
               ELSE IF ok THEN [fork EXCEPT !.todo = @ \ {id}, !.made = @ \cup {id}]
               ELSE [fork EXCEPT !.pc = "clean"]

\* Mutant: a chat that exists is taken for guard enough.
GuardedIfNew(id) == IF chat[Home(id)].present THEN ledger ELSE ledger \cup {id}

\* Mutant: the queue row survives a reservation.
StillQueued(id) == queue

\* The controlplane refuses to reserve an id that a purge worker holds
\* (ATTACHMENT_PURGE_IN_PROGRESS) and takes a waiting one out of the queue.
Leased(id) == queue[id] \in Workers
Dequeued(id) == [queue EXCEPT ![id] = "none"]

Guarded(id) == ledger \cup {id}

\* The guard row comes before any byte; a row that is there already is kept.
Reserve(id) ==
    /\ up[id].pc = "idle" /\ MayUpload(id) /\ ~Leased(id)
    /\ queue' = Dequeued(id)
    /\ ledger' = Guarded(id)
    /\ SetUp(id, "put", id \notin ledger)
    /\ UNCHANGED <<index, legacy, chat, forked, promo, drop, got, user, Sweepers, Bucket>>

\* A client uploads what it has no confirmation of, or what a push was told is missing.
Upload(id) ==
    /\ Home(id) = "source" /\ id[2] \in Images
    /\ id \notin got \/ id \notin index
    /\ Spend("upload", MaxUploads)
    /\ Reserve(id)
    /\ UNCHANGED fork

PutObject(id) ==
    /\ up[id].pc = "put"
    /\ \/ /\ obj' = obj \cup {id}
          /\ SetUp(id, "register", up[id].own)
          /\ UNCHANGED <<fork, got, user, used>>
       \/ /\ Fault /\ MayRefuse(id)
          /\ obj' \in {obj, obj \cup {id}}
          /\ Finish(id, FALSE)
    /\ leaked' = leaked \ {id}
    /\ UNCHANGED <<Store, promo, drop, Sweepers>>

\* The index row, the ledger and the legacy row change in one transaction.
Indexed(id) ==
    /\ index' = index \cup {id}
    /\ ledger' = ledger \ {id}
    /\ legacy' = legacy \ {id}
    /\ UNCHANGED queue

\* Only a definite refusal rolls the upload back; every other failure leaves it
\* open whether the row was written.
Register(id) ==
    /\ up[id].pc = "register"
    /\ \/ /\ Indexed(id)
          /\ \/ Finish(id, TRUE) /\ UNCHANGED used
             \/ Fault /\ MayRefuse(id) /\ Finish(id, FALSE)
       \/ /\ Fault /\ MayRefuse(id)
          /\ SetUp(id, "rollback", FALSE)
          /\ UNCHANGED <<index, ledger, legacy, queue, fork, got, user>>
       \/ /\ Fault /\ MayRefuse(id)
          /\ Finish(id, FALSE)
          /\ UNCHANGED <<index, ledger, legacy, queue>>
    /\ UNCHANGED <<chat, forked, promo, drop, Sweepers, Bucket>>

\* The rollback has a deadline of its own; when it fails the ledger row is left.
Rollback(id) ==
    /\ up[id].pc = "rollback"
    /\ \/ obj' = obj \ {id} /\ UNCHANGED used
       \/ Fault /\ UNCHANGED obj
    /\ Finish(id, FALSE)
    /\ UNCHANGED <<Store, promo, drop, Sweepers, leaked>>
-----------------------------------------------------------------------------
(* AttachmentDelete: the index row first, which is the ownership check, then
   the object.  A retry after the first step is answered 404 at the index.  (The
   attachments of a fork are deleted the same way.) *)

Drop(id) ==
    /\ Home(id) = "source" /\ id \in index \cap got /\ MayDelete(id)
    /\ Spend("drop", MaxDrops)
    /\ index' = index \ {id}
    /\ drop' = drop \cup {id}
    /\ user' = user \cup {id}
    /\ UNCHANGED <<legacy, ledger, queue, chat, forked, up, fork, promo, got, Sweepers, Bucket>>

DropObject(id) ==
    /\ id \in drop
    /\ drop' = drop \ {id}
    /\ DeleteObject(id)
    /\ UNCHANGED <<Store, up, fork, promo, got, user, Sweepers>>
-----------------------------------------------------------------------------
(* Promotion of a legacy attachment when its chat is resealed: fetch, put under
   the same id, register.  Nothing is reserved; the legacy row is the guard. *)

Promote(id) ==
    /\ id \in legacy /\ promo[id] = "idle" /\ chat[Home(id)].present
    /\ promo' = [promo EXCEPT ![id] = "put"]
    /\ UNCHANGED <<Store, up, fork, drop, got, user, Sweepers, Bucket, used>>

PromotePut(id) ==
    /\ promo[id] = "put"
    /\ \/ /\ obj' = obj \cup {id}
          /\ promo' = [promo EXCEPT ![id] = "register"]
          /\ UNCHANGED used
       \/ /\ Fault
          /\ promo' = [promo EXCEPT ![id] = "idle"]
          /\ UNCHANGED obj
    /\ UNCHANGED <<Store, up, fork, drop, got, user, Sweepers, leaked>>

PromoteRegister(id) ==
    /\ promo[id] = "register"
    /\ promo' = [promo EXCEPT ![id] = "idle"]
    /\ \/ Indexed(id) /\ UNCHANGED used
       \/ Fault /\ UNCHANGED <<index, ledger, legacy, queue>>
    /\ UNCHANGED <<chat, forked, up, fork, drop, got, user, Sweepers, Bucket>>
-----------------------------------------------------------------------------
(* Push and delete of a chat. *)

Known(id) == id \in index \cup legacy

\* The controlplane stores a chat only if it holds every attachment the chat
\* references (MISSING_ATTACHMENT), in one transaction with the check.
Stored(c, refs) ==
    /\ \A id \in refs : Known(id)
    /\ chat' = [chat EXCEPT ![c] = [present |-> TRUE, refs |-> refs]]

\* A client pushes the source chat with references it has had confirmed.
PushChat(refs) ==
    /\ refs \subseteq {id \in got \ user : Home(id) = "source"}
    /\ refs # chat["source"].refs \/ ~chat["source"].present
    /\ Spend("push", MaxPushes)
    /\ Stored("source", refs)
    /\ UNCHANGED <<index, legacy, ledger, queue, forked, Requests, Sweepers, Bucket>>

\* The controlplane wipes the chat's index rows; the enclave deletes the objects
\* it names, as far as it gets.
DeleteChat(c) ==
    LET wiped == {id \in index : Home(id) = c} IN
    /\ chat[c].present /\ \A id \in wiped : MayDelete(id)
    /\ Spend("push", MaxPushes)
    /\ chat' = [chat EXCEPT ![c] = [present |-> FALSE, refs |-> {}]]
    /\ index' = index \ wiped
    /\ doomed' = doomed \cup wiped
    /\ UNCHANGED <<legacy, ledger, queue, forked, Requests, purger, Bucket>>
-----------------------------------------------------------------------------
(* Fork: copy every attachment of the source chat under ids of the target,
   push the target create-only, clean up after a failure that is definite. *)

ForkBegin ==
    /\ fork = NoFork /\ chat["source"].present
    /\ Spend("fork", MaxForks)
    /\ fork' = [NoFork EXCEPT !.pc = "copy", !.todo = {CopyOf(id) : id \in chat["source"].refs}]
    /\ UNCHANGED <<Store, up, promo, drop, got, user, Sweepers, Bucket>>

\* copyForkAttachment reads the original, then runs AttachmentPut.
ForkCopy(id) ==
    /\ fork.pc = "copy" /\ id \in fork.todo
    /\ \A other \in fork.todo : up[other].pc = "idle"
    /\ OriginalOf(id) \in obj
    /\ Reserve(id)
    /\ UNCHANGED <<fork, used>>

\* An original that is gone or cannot be read fails the fork.
ForkCopyFails(id) ==
    /\ fork.pc = "copy" /\ id \in fork.todo /\ MayRefuse(id)
    /\ \A other \in fork.todo : up[other].pc = "idle"
    /\ IF OriginalOf(id) \in obj /\ ~Leased(id) THEN Fault ELSE UNCHANGED used
    /\ fork' = [fork EXCEPT !.pc = "clean"]
    /\ UNCHANGED <<Store, up, promo, drop, got, user, Sweepers, Bucket>>

\* The push commits or is recognised as committed before; its answer may be lost
\* (PutBlobOutcomeUnknownError), in which case nothing is cleaned up.
ForkPush ==
    /\ fork.pc = "copy" /\ fork.todo = {}
    /\ \/ /\ IF forked THEN UNCHANGED chat ELSE Stored("target", fork.made)
          /\ forked' = TRUE
          /\ \/ UNCHANGED used
             \/ Fault
       \/ Fault /\ UNCHANGED <<forked, chat>>
    /\ fork' = NoFork
    /\ UNCHANGED <<index, legacy, ledger, queue, up, promo, drop, got, user, Sweepers, Bucket>>

\* A definite refusal: an attachment is missing, or the last attempt of PutBlob
\* was refused, whatever became of the attempt before it.
ForkRefused ==
    /\ fork.pc = "copy" /\ fork.todo = {}
    /\ \/ /\ ~forked /\ \E id \in fork.made : ~Known(id)
          /\ UNCHANGED <<used, forked, chat>>
       \/ /\ ~forked \/ ReplayRefused
          /\ Fault
          /\ \/ UNCHANGED <<forked, chat>>
             \/ ReplayRefused /\ ~forked /\ Stored("target", fork.made) /\ forked' = TRUE
    /\ fork' = [fork EXCEPT !.pc = "clean"]
    /\ UNCHANGED <<index, legacy, ledger, queue, up, promo, drop, got, user, Sweepers, Bucket>>

\* cleanupNativeAttachments: index row, then object; an index delete that fails
\* leaves both.
ForkClean(id) ==
    /\ fork.pc = "clean" /\ id \in fork.made
    /\ fork' = [fork EXCEPT !.made = @ \ {id}]
    /\ \/ /\ index' = index \ {id}
          /\ doomed' = IF id \in index THEN doomed \cup {id} ELSE doomed
          /\ UNCHANGED used
       \/ Fault /\ UNCHANGED <<index, doomed>>
    /\ UNCHANGED <<legacy, ledger, queue, chat, forked, up, promo, drop, got, user, purger, Bucket>>

ForkFailed ==
    /\ fork.pc = "clean" /\ fork.made = {}
    /\ fork' = NoFork
    /\ UNCHANGED <<Store, up, promo, drop, got, user, Sweepers, Bucket, used>>
-----------------------------------------------------------------------------
(* The sweepers.  The controlplane forgets a row as it hands it out; the delete
   that follows is best effort. *)

\* A sweeper learns of the row, or the answer that names it is lost.
HandedOut(id) ==
    \/ doomed' = doomed \cup {id} /\ UNCHANGED <<leaked, used>>
    \/ Fault /\ leaked' = leaked \cup (obj \cap {id}) /\ UNCHANGED doomed

\* An upload's own guard row outlives the upload (15 minutes against 5), but not
\* a second upload that met the row of the first.
SweepPending(id) ==
    /\ id \in ledger /\ MayDelete(id) /\ ~up[id].own
    /\ ledger' = ledger \ {id}
    /\ HandedOut(id)
    /\ UNCHANGED <<index, legacy, queue, chat, forked, Requests, purger, obj>>

SweepOrphan(id) ==
    /\ id \in index /\ ~chat[Home(id)].present /\ MayDelete(id)
    /\ index' = index \ {id}
    /\ HandedOut(id)
    /\ UNCHANGED <<legacy, ledger, queue, chat, forked, Requests, purger, obj>>

DeleteDoomed(id) ==
    /\ id \in doomed
    /\ doomed' = doomed \ {id}
    /\ DeleteObject(id)
    /\ UNCHANGED <<Store, Requests, purger>>
-----------------------------------------------------------------------------
(* The purge worker: claim under a lease, delete, acknowledge. *)

\* The controlplane gives up a row its chat no longer references and no upload
\* has reserved.
Purge(id) ==
    /\ id \in index \ ledger /\ chat[Home(id)].present /\ id \notin chat[Home(id)].refs
    /\ index' = index \ {id}
    /\ queue' = [queue EXCEPT ![id] = "free"]
    /\ UNCHANGED <<legacy, ledger, chat, forked, Requests, Sweepers, Bucket, used>>

\* Mutant: a batch that is not full ends the sweep before its deletes.
SkipShort(claimed) == {}

\* The rows of a claim are all worked on; a batch that is not full is the last.
Worklist(claimed) == claimed

Claim(w) ==
    LET free == {id \in Ids : queue[id] = "free"} IN
    /\ purger[w].pc = "idle" /\ free # {}
    /\ queue' = [id \in Ids |-> IF id \in free THEN w ELSE queue[id]]
    /\ \/ /\ purger' = [purger EXCEPT ![w] = [pc |-> "delete", todo |-> Worklist(free), acks |-> {}]]
          /\ UNCHANGED used
       \/ Fault /\ UNCHANGED purger
    /\ UNCHANGED <<index, legacy, ledger, chat, forked, Requests, doomed, Bucket>>

AckedAfter(acks, id, ok) == IF ok THEN acks \cup {id} ELSE acks

PurgeDelete(w, id) ==
    /\ purger[w].pc = "delete" /\ id \in purger[w].todo
    /\ \E ok \in BOOLEAN :
          /\ IF ok THEN UNCHANGED used ELSE Fault
          /\ obj' = IF ok THEN obj \ {id} ELSE obj
          /\ purger' = [purger EXCEPT ![w].todo = @ \ {id},
                                      ![w].acks = AckedAfter(@, id, ok)]
    /\ UNCHANGED <<Store, Requests, doomed, leaked>>

\* All rows tried, or the budget of the lease is used up.
PurgeStop(w) ==
    /\ purger[w].pc = "delete"
    /\ IF purger[w].todo = {} THEN UNCHANGED used ELSE Fault
    /\ purger' = [purger EXCEPT ![w].pc = "ack", ![w].todo = {}]
    /\ UNCHANGED <<Store, Requests, doomed, Bucket>>

\* The acknowledgement counts for rows the token still holds.
PurgeAck(w) ==
    /\ purger[w].pc = "ack"
    /\ \/ /\ queue' = [id \in Ids |-> IF id \in purger[w].acks /\ queue[id] = w
                                      THEN "none" ELSE queue[id]]
          /\ UNCHANGED used
       \/ Fault /\ UNCHANGED queue
    /\ purger' = [purger EXCEPT ![w] = NoPurge]
    /\ UNCHANGED <<index, legacy, ledger, chat, forked, Requests, doomed, Bucket>>

\* Mutant: nothing bounds a delete by the lease.
NeverWithinBudget(w, id) == FALSE

\* Every delete ends within the budget of its claim, and the budget within the lease.
WithinBudget(w, id) == purger[w].pc = "delete" /\ id \in purger[w].todo

\* A lease runs out, in the ordinary course only when its worker has moved on:
\* the row can be claimed again, or its id reserved again.
LeaseExpires(w, id) ==
    /\ queue[id] = w /\ ~WithinBudget(w, id)
    /\ IF purger[w].pc = "idle" THEN UNCHANGED used ELSE Fault
    /\ queue' = [queue EXCEPT ![id] = "free"]
    /\ UNCHANGED <<index, legacy, ledger, chat, forked, Requests, Sweepers, Bucket>>

\* The enclave of a worker restarts.
Crash(w) ==
    /\ purger[w].pc # "idle"
    /\ Fault
    /\ purger' = [purger EXCEPT ![w] = NoPurge]
    /\ UNCHANGED <<Store, Requests, doomed, Bucket>>
-----------------------------------------------------------------------------
Running(id) ==
    \/ PutObject(id) \/ Register(id) \/ Rollback(id)
    \/ DropObject(id)
    \/ PromotePut(id) \/ PromoteRegister(id)
    \/ ForkCopy(id) \/ ForkCopyFails(id) \/ ForkClean(id)
ForkStep == ForkPush \/ ForkRefused \/ ForkFailed
Sweep(id) == SweepPending(id) \/ SweepOrphan(id) \/ Purge(id) \/ DeleteDoomed(id)
PurgeStep(w) == \/ Claim(w) \/ PurgeStop(w) \/ PurgeAck(w) \/ Crash(w)
                \/ \E id \in Ids : PurgeDelete(w, id) \/ LeaseExpires(w, id)

Client ==
    \/ \E id \in Ids : Upload(id) \/ Drop(id) \/ Promote(id)
    \/ \E refs \in SUBSET ({"source"} \X (Images \cup Olds)) : PushChat(refs)
    \/ \E c \in Chats : DeleteChat(c)
    \/ ForkBegin

System ==
    \/ ForkStep
    \/ \E id \in Ids : Running(id) \/ Sweep(id)
    \/ \E w \in Workers : PurgeStep(w)

Next == Client \/ System

Spec == Init /\ [][Next]_vars

\* A running request goes on (every call has a deadline), and the workers run on
\* tickers for as long as the enclave does; nobody has to ask for anything.
FairSpec == Spec /\ WF_vars(System)
-----------------------------------------------------------------------------
\* What a chat references can be read: the object is there and its index row
\* resolves the owner, or the legacy row is still there; unless the user deleted
\* it.  No sweeper, purge worker, cleanup or rollback takes it away, and no push
\* commits a reference to something already gone.
RefsReadable ==
    \A c \in Chats : \A id \in chat[c].refs :
        Readable(id) \/ id \in legacy \/ id \in user

\* No object is forgotten: it has an index row, a guard row, a queue row or a
\* legacy row, or a handler is about to delete it, or its one best-effort delete
\* failed.  In particular the purge worker never loses one between the index
\* delete and the bucket delete.
Accounted ==
    \A id \in obj : \/ id \in index \cup ledger \cup legacy \cup leaked
                    \/ queue[id] # "none" \/ Deleting(id)

\* Once the clients are silent, what no chat references is reclaimed, through
\* failures, lost answers and restarts (as far as deletes are retried at all).
Reclaimed ==
    <>[](\A id \in obj : \/ id \in leaked \cup legacy
                         \/ chat[Home(id)].present /\ id \in chat[Home(id)].refs)
=============================================================================
