-------------------------- MODULE SearchPublication --------------------------
(***************************************************************************)
(* How a change of the search index gets from a request to storage and     *)
(* back to a query.                                                        *)
(*                                                                         *)
(* An index version is an immutable object of the buckets sidecar under a  *)
(* random name; the controlplane's publication record names the current    *)
(* one.  A writer, under its process's per-user lock, reads the record,    *)
(* loads the object (through the process's cache of decoded indices, whose *)
(* entry it then edits IN PLACE), stores the result under a new name, and  *)
(* publishes that name with a compare-and-set.  After a lost answer it     *)
(* reads the record again to find out which of the two objects to delete.  *)
(*                                                                         *)
(* Every remote call is a step, and so is a crash of a replica.  Keys are  *)
(* left out: a registration of another key fences the record, and from     *)
(* then on only writers with that key can publish (module SearchCoverage). *)
(***************************************************************************)
EXTENDS Naturals, FiniteSets, IndexContents

CONSTANTS
    Replicas,      \* enclave processes
    Readers,       \* requests that only read the index
    MaxAttempts,   \* maxSearchPublishRetries
    MaxObjects,    \* bound: index objects ever stored
    MaxFence,      \* bound: key registrations that fence the index
    \* What the environment is allowed to do in a run:
    ProbeFails,    \* the controlplane may fail a probe of a chat in a page
    LatePublish,   \* a publish request may arrive after its sender gave up
    Faults         \* answers get lost, deletes fail, replicas crash

ASSUME PublicationConstants ==
    /\ {MaxAttempts, MaxObjects, MaxFence} \subseteq Nat
    /\ MaxAttempts > 0
    /\ Kinds \subseteq {"push", "lexical", "drop", "page", "repair"}
    /\ {ProbeFails, LatePublish, Faults} \subseteq BOOLEAN

VARIABLES
    rec,      \* controlplane: generation, fence and object of the publication
    body,     \* sidecar: what was stored under each object name
    present,  \* sidecar: the objects that exist
    made,     \* names drawn so far
    flight,   \* publish requests still on their way to the controlplane
    cache,    \* per replica: the cached index and the object it stands for
    writer,   \* per replica: the writer that holds the exclusive lock
    query,    \* readers, between their state read and their answer
    reset     \* a key registration in progress

vars == <<rec, body, present, made, flight, cache, writer, query, reset>>

\* The index as the record and the object store show it to the outside.
Atomic == INSTANCE AtomicIndex
    WITH value <- IF rec.obj = 0 THEN Empty ELSE body[rec.obj],
         lost  <- rec.obj \notin present \cup {0}

Objects  == 1..MaxObjects     \* 0 is "no object"
Requests == [gen : Nat, fence : Nat, obj : Objects]
-----------------------------------------------------------------------------
NoCache == [obj |-> 0, val |-> Empty]

NoOp == [kind |-> "none", chat |-> "all"]

WriterState ==
    [pc : {"idle", "read", "load", "probe", "save", "publish", "reconcile", "cleanup"},
     op : Ops \cup {NoOp}, att : 0..(MaxAttempts - 1), gen : Nat, fence : Nat,
     old : 0..MaxObjects, new : 0..MaxObjects, trash : 0..MaxObjects,
     val : Values, again : BOOLEAN]

IdleWriter == [pc |-> "idle", op |-> NoOp, att |-> 0, gen |-> 0, fence |-> 0,
               old |-> 0, new |-> 0, trash |-> 0, val |-> Empty, again |-> FALSE]

IdleQuery == [pc |-> "idle"]

QueryState == [pc : {"load"}, at : Replicas, obj : 0..MaxObjects, fresh : BOOLEAN]
    \cup [pc : {"answered"}, obj : 0..MaxObjects, ok : BOOLEAN, val : Values]
    \cup {IdleQuery}

\* Type invariant; a writer makes at most MaxAttempts attempts.
TypeOK ==
    /\ rec \in [gen : Nat, fence : Nat, obj : 0..MaxObjects]
    /\ body \in [Objects -> Values]
    /\ present \subseteq 1..made
    /\ made \in 0..MaxObjects
    /\ flight \subseteq Requests
    /\ cache \in [Replicas -> [obj : 0..MaxObjects, val : Values]]
    /\ writer \in [Replicas -> WriterState]
    /\ query \in [Readers -> QueryState]
    /\ reset \in [pc : {"idle", "read", "fenced"}, old : 0..MaxObjects]

Init ==
    /\ rec = [gen |-> 0, fence |-> 0, obj |-> 0]
    /\ body = [o \in Objects |-> Empty]
    /\ present = {}
    /\ made = 0
    /\ flight = {}
    /\ cache = [r \in Replicas |-> NoCache]
    /\ writer = [r \in Replicas |-> IdleWriter]
    /\ query = [d \in Readers |-> IdleQuery]
    /\ reset = [pc |-> "idle", old |-> 0]
-----------------------------------------------------------------------------
SetCache(r, o, v) == cache' = [cache EXCEPT ![r] = [obj |-> o, val |-> v]]
DropCache(r)      == cache' = [cache EXCEPT ![r] = NoCache]
SetWriter(r, w)   == writer' = [writer EXCEPT ![r] = w]
EndWriter(r)      == SetWriter(r, IdleWriter)

\* The exclusive lock is held from the start of a writer to its end; a reader
\* takes the shared side around its load.
CanRead(r) == writer[r].pc = "idle"

\* loadSearchIndex: what the replica gets for object o, and from where.
Cached(r, o)   == o # 0 /\ cache[r].obj = o
Readable(r, o) == Cached(r, o) \/ o \in present
Loaded(r, o)   == IF Cached(r, o) THEN cache[r].val
                  ELSE IF o \in present THEN body[o]
                  ELSE Empty

\* A load leaves in the cache what it returned; no object, no cache access.
CacheAfterLoad(r, o, v) ==
    IF o = 0 THEN UNCHANGED cache
    ELSE IF Readable(r, o) THEN SetCache(r, o, v)
    ELSE DropCache(r)
-----------------------------------------------------------------------------
(* Writers. *)

Start(r, op) ==
    /\ writer[r].pc = "idle"
    /\ made < MaxObjects
    /\ SetWriter(r, [IdleWriter EXCEPT !.pc = "read", !.op = op])
    /\ UNCHANGED <<rec, body, present, made, flight, cache, query, reset>>

ReadRecord(r) ==
    /\ writer[r].pc = "read"
    /\ SetWriter(r, [writer[r] EXCEPT !.pc = "load", !.gen = rec.gen,
                                      !.fence = rec.fence, !.old = rec.obj])
    /\ UNCHANGED <<rec, body, present, made, flight, cache, query, reset>>

\* Reasons to leave the loaded index alone: nothing to drop, nothing to
\* repair, or (SearchCoverage says when) a newer entry than the pushed one.
MayReturn(op, v, ok) ==
    \/ op.kind = "drop" /\ v[op.chat] = "none" /\ ok
    \/ op.kind = "repair" /\ (~ok \/ \A c \in Chats : v[c] # "pending")
    \/ op.kind \in {"push", "lexical"} /\ v[op.chat] # "none"

MustReturn(op, v, ok) == op.kind \in {"drop", "repair"} /\ MayReturn(op, v, ok)

\* The load, and the edits up to the next remote call.  They change the
\* index that the cache holds, if the cache holds it.
Load(r) ==
    LET w  == writer[r]
        v  == Loaded(r, w.old)
        ok == Readable(r, w.old)
        e  == IF w.op.kind = "page" THEN Cleared(w.op, v) ELSE Apply(w.op, v)
    IN  /\ w.pc = "load"
        /\ \/ /\ MayReturn(w.op, v, ok)
              /\ CacheAfterLoad(r, w.old, v)
              /\ EndWriter(r)
           \/ /\ ~MustReturn(w.op, v, ok)
              /\ CacheAfterLoad(r, w.old, e)
              /\ SetWriter(r, [w EXCEPT !.val = e,
                                  !.pc = IF w.op.kind = "page" THEN "probe" ELSE "save"])
        /\ UNCHANGED <<rec, body, present, made, flight, query, reset>>

\* searchReindexPage asks for the state of the chat before it adds its entry,
\* and returns at once when that fails.
Probe(r) ==
    LET w == writer[r]
        e == Apply(w.op, w.val)
    IN  /\ w.pc = "probe"
        /\ \/ /\ SetWriter(r, [w EXCEPT !.val = e, !.pc = "save"])
              /\ IF Cached(r, w.old) THEN SetCache(r, w.old, e) ELSE UNCHANGED cache
           \/ /\ ProbeFails
              /\ EndWriter(r)
              /\ UNCHANGED cache
        /\ UNCHANGED <<rec, body, present, made, flight, query, reset>>

\* Mutant: a failed write leaves the edited index in the cache.
SaveKeepsCache(r) ==
    LET w == writer[r]
        o == made + 1
    IN  /\ w.pc = "save"
        /\ made < MaxObjects
        /\ made' = o
        /\ body' = [body EXCEPT ![o] = w.val]
        /\ \/ /\ present' = present \cup {o}
              /\ SetCache(r, o, w.val)
              /\ SetWriter(r, [w EXCEPT !.pc = "publish", !.new = o, !.val = Empty])
           \/ /\ Faults
              /\ present' \in {present, present \cup {o}}
              /\ UNCHANGED cache
              /\ EndWriter(r)
        /\ UNCHANGED <<rec, flight, query, reset>>

\* saveSearchIndex under a new name; a failed write drops the cache, since
\* the index it holds was edited.
Save(r) ==
    LET w == writer[r]
        o == made + 1
    IN  /\ w.pc = "save"
        /\ made < MaxObjects
        /\ made' = o
        /\ body' = [body EXCEPT ![o] = w.val]
        /\ \/ /\ present' = present \cup {o}
              /\ SetCache(r, o, w.val)
              /\ SetWriter(r, [w EXCEPT !.pc = "publish", !.new = o, !.val = Empty])
           \/ /\ Faults
              /\ present' \in {present, present \cup {o}}
              /\ DropCache(r)
              /\ EndWriter(r)
        /\ UNCHANGED <<rec, flight, query, reset>>

\* Mutant: does not compare the generation.
AcceptedAnyGeneration(q) == q.fence = rec.fence

\* The controlplane's compare-and-set.
Accepted(q) == q.gen = rec.gen /\ q.fence = rec.fence

Commit(q) == rec' = [gen |-> rec.gen + 1, fence |-> rec.fence, obj |-> q.obj]

Request(w) == [gen |-> w.gen, fence |-> w.fence, obj |-> w.new]

\* deleteSearchObjectBestEffort(o), then the end of the writer or another try.
Discard(w, o, again) == [IdleWriter EXCEPT !.pc = "cleanup", !.op = w.op, !.att = w.att,
                                           !.trash = o, !.again = again]

PublishOK(r) ==
    LET w == writer[r]
    IN  /\ w.pc = "publish"
        /\ Accepted(Request(w))
        /\ Commit(Request(w))
        /\ SetWriter(r, Discard(w, w.old, FALSE))
        /\ UNCHANGED <<body, present, made, flight, cache, query, reset>>

\* Mutant: one attempt too many.
AgainOnceMore(att) == att < MaxAttempts

Again(att) == att + 1 < MaxAttempts

\* A rejected writer forgets its version and starts over from the record.
PublishConflict(r) ==
    LET w == writer[r]
    IN  /\ w.pc = "publish"
        /\ ~Accepted(Request(w))
        /\ DropCache(r)
        /\ SetWriter(r, Discard(w, w.new, Again(w.att)))
        /\ UNCHANGED <<rec, body, present, made, flight, query, reset>>

\* No answer: the request was applied, or rejected or lost, or is still under
\* way.  Whatever it was, the writer drops its cache and asks.
PublishUnknown(r) ==
    LET w == writer[r]
        q == Request(w)
    IN  /\ Faults
        /\ w.pc = "publish"
        /\ \/ Accepted(q) /\ Commit(q) /\ UNCHANGED flight
           \/ UNCHANGED <<rec, flight>>
           \/ LatePublish /\ flight' = flight \cup {q} /\ UNCHANGED rec
        /\ DropCache(r)
        /\ SetWriter(r, [w EXCEPT !.pc = "reconcile"])
        /\ UNCHANGED <<body, present, made, query, reset>>

Deliver(q) ==
    /\ q \in flight
    /\ flight' = flight \ {q}
    /\ IF Accepted(q) THEN Commit(q) ELSE UNCHANGED rec
    /\ UNCHANGED <<body, present, made, cache, writer, query, reset>>

\* Mutant: takes a missing answer for a failure.
ReconcileAsFailed(r) ==
    LET w == writer[r]
    IN  /\ w.pc = "reconcile"
        /\ SetWriter(r, Discard(w, w.new, FALSE))
        /\ UNCHANGED <<rec, body, present, made, flight, cache, query, reset>>

\* The record tells whose object is published; an error ends the writer.
Reconcile(r) ==
    LET w == writer[r]
    IN  /\ w.pc = "reconcile"
        /\ \/ SetWriter(r, Discard(w, IF rec.obj = w.new THEN w.old ELSE w.new, FALSE))
           \/ EndWriter(r)
        /\ UNCHANGED <<rec, body, present, made, flight, cache, query, reset>>

Cleanup(r) ==
    LET w == writer[r]
    IN  /\ w.pc = "cleanup"
        /\ present' \in {present \ {w.trash}} \cup (IF Faults THEN {present} ELSE {})
        /\ IF w.again
           THEN SetWriter(r, [IdleWriter EXCEPT !.pc = "read", !.op = w.op,
                                                !.att = w.att + 1])
           ELSE EndWriter(r)
        /\ UNCHANGED <<rec, body, made, flight, cache, query, reset>>

\* An error of a state read or of a load ends a writer that changed nothing.
GiveUp(r) ==
    /\ Faults
    /\ writer[r].pc \in {"read", "load"}
    /\ EndWriter(r)
    /\ UNCHANGED <<rec, body, present, made, flight, cache, query, reset>>
-----------------------------------------------------------------------------
(* Readers: SearchQuery, and searchIndexNeedsRepair which reads past the    *)
(* cache.                                                                   *)

QueryRead(d, r, fresh) ==
    /\ query[d].pc # "load"
    /\ query' = [query EXCEPT ![d] = [pc |-> "load", at |-> r, obj |-> rec.obj,
                                      fresh |-> fresh]]
    /\ UNCHANGED <<rec, body, present, made, flight, cache, writer, reset>>

Answer(d, ok, v) ==
    query' = [query EXCEPT ![d] = [pc |-> "answered", obj |-> @.obj, ok |-> ok, val |-> v]]

QueryLoad(d, r, o) ==
    /\ CanRead(r)
    /\ Answer(d, Readable(r, o), Loaded(r, o))
    /\ CacheAfterLoad(r, o, Loaded(r, o))

\* searchIndexNeedsRepair drops the cached index first.
RepairCheckLoad(d, r, o) ==
    /\ CanRead(r)
    /\ Answer(d, o \in present, IF o \in present THEN body[o] ELSE Empty)
    /\ IF o = 0 THEN UNCHANGED cache
       ELSE IF o \in present THEN SetCache(r, o, body[o])
       ELSE DropCache(r)

QueryAnswer(d) ==
    LET q == query[d]
    IN  /\ q.pc = "load"
        /\ IF q.fresh THEN RepairCheckLoad(d, q.at, q.obj) ELSE QueryLoad(d, q.at, q.obj)
        /\ UNCHANGED <<rec, body, present, made, flight, writer, reset>>
-----------------------------------------------------------------------------
(* Key registration, cache pressure, crashes. *)

RegisterRead ==
    /\ reset.pc = "idle"
    /\ rec.fence < MaxFence
    /\ reset' = [pc |-> "read", old |-> rec.obj]
    /\ UNCHANGED <<rec, body, present, made, flight, cache, writer, query>>

RegisterFence ==
    /\ reset.pc = "read"
    /\ rec' = [gen |-> rec.gen + 1, fence |-> rec.fence + 1, obj |-> 0]
    /\ reset' = [reset EXCEPT !.pc = "fenced"]
    /\ UNCHANGED <<body, present, made, flight, cache, writer, query>>

\* resetSearchForUser in the replica that served the registration.
RegisterReset(r) ==
    /\ reset.pc = "fenced"
    /\ CanRead(r)
    /\ DropCache(r)
    /\ present' \in {present \ {reset.old}} \cup (IF Faults THEN {present} ELSE {})
    /\ reset' = [pc |-> "idle", old |-> 0]
    /\ UNCHANGED <<rec, body, made, flight, writer, query>>

\* The LRU budget: other users' indices push this one out, or it is too big.
Evict(r) ==
    /\ cache[r].obj # 0
    /\ DropCache(r)
    /\ UNCHANGED <<rec, body, present, made, flight, writer, query, reset>>

\* A restart forgets the cache and every request.  A publish request that was
\* sent may still arrive, a registration is not carried on.
Crash(r) ==
    /\ Faults
    /\ DropCache(r)
    /\ EndWriter(r)
    /\ query' = [d \in Readers |-> IF query[d].pc = "load" /\ query[d].at = r
                                    THEN IdleQuery ELSE query[d]]
    /\ flight' \in {flight} \cup (IF LatePublish /\ writer[r].pc = "publish"
                                  THEN {flight \cup {Request(writer[r])}} ELSE {})
    /\ reset' \in {reset, [pc |-> "idle", old |-> 0]}
    /\ UNCHANGED <<rec, body, present, made>>
-----------------------------------------------------------------------------
WriterStep(r) ==
    \/ ReadRecord(r) \/ Load(r) \/ Probe(r) \/ Save(r)
    \/ PublishOK(r) \/ PublishConflict(r) \/ PublishUnknown(r)
    \/ Reconcile(r) \/ Cleanup(r) \/ GiveUp(r)

ReaderStep(d) ==
    \/ \E r \in Replicas, fresh \in BOOLEAN : QueryRead(d, r, fresh)
    \/ QueryAnswer(d)

Next ==
    \/ \E r \in Replicas, op \in Ops : Start(r, op)
    \/ \E r \in Replicas : WriterStep(r) \/ Evict(r) \/ Crash(r)
    \/ \E d \in Readers : ReaderStep(d)
    \/ \E q \in flight : Deliver(q)
    \/ RegisterRead \/ RegisterFence \/ \E r \in Replicas : RegisterReset(r)

Spec == Init /\ [][Next]_vars
-----------------------------------------------------------------------------
\* No cleanup, however late, deletes the object the record names: not after
\* conflicts, lost answers, retries, crashes or registrations of other
\* replicas (publishSearchIndex and resetSearchForUser delete objects that
\* they remember from an earlier read of the record).
PublishedPresent == rec.obj # 0 => rec.obj \in present

\* Storage is the source of truth: an index that a reader loads holds exactly
\* what was stored under the object name, so nothing unpersisted is served
\* although writers edit the cached index in place (searchIndexCache: "every
\* mutation is persisted before it is served").
QueryHonest ==
    \A d \in Readers :
        query[d].pc = "answered" /\ query[d].ok => query[d].val = body[query[d].obj]

\* The protocol implements the atomic index: between all replicas, with
\* conflicts, retries, lost answers, publish requests that arrive after their
\* object was given up, and objects deleted under a loader, every publication
\* is one request applied to the version before it, or to an empty index when
\* the object of that version is gone (publishSearchIndex and its callers).
AtomicSpec == Atomic!Spec
=============================================================================
