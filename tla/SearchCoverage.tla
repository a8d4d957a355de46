--------------------------- MODULE SearchCoverage ---------------------------
(***************************************************************************)
(* What a user's published search index covers, and how it gets there.     *)
(*                                                                         *)
(* Every chat write and delete commits in the controlplane under the next  *)
(* source revision.  The enclave replicas then merge the change into the   *)
(* index: inline after a push (indexChatForSearchWithHook), inline after a *)
(* delete (removeDeletedChatFromSearch), or page by page in a reindex job  *)
(* (searchReindexPage).  Each writer reads the publication record, loads   *)
(* the index it points to, changes a copy and publishes the copy with a    *)
(* compare-and-set on the publication generation.  The record's published  *)
(* revision and incomplete flag are the only evidence a query has that the *)
(* index covers the corpus; this module is about that evidence.            *)
(*                                                                         *)
(* Remote calls are separate steps.  The object store is abstracted to the *)
(* outcome of a load (the published contents, or nothing usable): module   *)
(* SearchPublication shows that a load which succeeds returns the contents *)
(* that were published, unless an earlier reindex page of the process      *)
(* failed between its edits.  Index work on an account that has no source  *)
(* revision yet (a delete or a rebuild of nothing) is left out, so every   *)
(* entry carries a revision.                                               *)
(***************************************************************************)
EXTENDS Naturals, FiniteSets

CONSTANTS
    Chats,         \* chat ids of one user
    Workers,       \* request handlers (a push or a delete in flight)
    Jobs,          \* reindex jobs
    Keys,          \* content keys the clients hold
    Replicas,      \* enclave processes
    ReplicaOf,     \* the replica each worker and each job runs in
    None,          \* no key, no lock holder
    PageSize,      \* reindexPageSize: rows of one reindex page
    MaxAttempts,   \* maxSearchPublishRetries
    MaxRev,        \* bound: source revisions
    MaxEtag,       \* bound: etag of a chat that is being rewrapped
    MaxFence,      \* bound: key registrations that fence the index
    MaxGen,        \* bound: publications after which nobody starts a rebuild
                   \* or repeats a delete without need
    \* What the environment is allowed to do in a run:
    RegisteredOnly,   \* clients start requests with the registered key only
    RecreateAllowed,  \* a chat id may be written after a delete of it
    RewrapAllowed,    \* another client or a migration may rewrap a chat
    MissEchoes,       \* a delete of an absent chat answers with the current
                      \* source revision, as the stub controlplane does
    LostObjects,      \* the published index object may be gone or unreadable
    Faults            \* a chat may fail to decrypt, a request or a job may die

Procs == Workers \cup Jobs

ASSUME ConstantsOK ==
    /\ ReplicaOf \in [Procs -> Replicas]
    /\ Workers \cap Jobs = {}
    /\ None \notin Keys \cup Procs \cup Chats
    /\ IsFiniteSet(Chats)
    /\ PageSize \in Nat \ {0}
    /\ MaxAttempts \in Nat \ {0}
    /\ {MaxRev, MaxEtag, MaxFence, MaxGen} \subseteq Nat
    /\ {RegisteredOnly, RecreateAllowed, RewrapAllowed, MissEchoes,
        LostObjects, Faults} \subseteq BOOLEAN

VARIABLES
    chat,       \* controlplane: chat[c] = current etag (0: absent), the source
                \* revision of its last write or delete (0: never written), key
    sourceRev,  \* controlplane: the user's source revision
    curKey,     \* controlplane: registered key id
    pub,        \* controlplane: the search publication record, with the
                \* contents of the object it points to
    task,       \* workers: the search part of a push or delete in flight
    job,        \* reindex jobs
    lock        \* replicas: holder of the per-user search index lock

vars == <<chat, sourceRev, curKey, pub, task, job, lock>>
-----------------------------------------------------------------------------
(* Index contents.  An entry stands for searchindex.Entry: `etag' and `rev' *)
(* are its ETag and SourceRevision; `body' identifies the indexed plaintext *)
(* by the source revision that wrote it (0: the chat has no entry).         *)

Entry      == [etag : Nat, rev : Nat, body : Nat]
Checkpoint == [cursor : Nat, target : Nat, started : Jobs \cup {None}]
Index      == [chats : [Chats -> Entry], inc : BOOLEAN, ckpt : Checkpoint]

NoEntry      == [etag |-> 0, rev |-> 0, body |-> 0]
NoCheckpoint == [cursor |-> 0, target |-> 0, started |-> None]
EmptyIndex   == [chats |-> [c \in Chats |-> NoEntry], inc |-> FALSE,
                 ckpt  |-> NoCheckpoint]

Has(ix, c)       == ix.chats[c].body # 0
Upsert(ix, c, e) == [ix EXCEPT !.chats[c] = e]
Remove(ix, c)    == [ix EXCEPT !.chats[c] = NoEntry]

Live(c) == chat[c].etag # 0
-----------------------------------------------------------------------------
(* The publication record and a writer's snapshot of it. *)

Publication == [gen : Nat, fence : Nat, published : Nat, inc : BOOLEAN,
                key : Keys \cup {None}, obj : BOOLEAN, ix : Index]

NoPublication == [gen |-> 0, fence |-> 0, published |-> 0, inc |-> FALSE,
                  key |-> None, obj |-> FALSE, ix |-> EmptyIndex]

\* currentSearchIndex: the Incomplete flag a client is told.
StateIncomplete == pub.inc \/ pub.published < sourceRev

\* What SearchQuery reports when it does not ask for a reindex.
Healthy == ~StateIncomplete /\ ~pub.ix.inc

WithinBound == pub.gen < MaxGen \/ (~Faults /\ ~LostObjects /\ ~Healthy)

\* What a writer keeps of the record it read, and the index it loaded.
Snapshot == [gen : Nat, fence : Nat, published : Nat, inc : BOOLEAN,
             obj : BOOLEAN, src : Nat, ok : BOOLEAN, ix : Index]

NoSnapshot == [gen |-> 0, fence |-> 0, published |-> 0, inc |-> FALSE,
               obj |-> FALSE, src |-> 0, ok |-> FALSE, ix |-> EmptyIndex]

\* loadSearchIndex: an object sealed under another key is never usable, and
\* a usable one may be lost, too large, corrupt or of another model.
LoadOutcomes(k) ==
    IF pub.obj /\ pub.key = k
    THEN {TRUE} \cup (IF LostObjects THEN {FALSE} ELSE {})
    ELSE {FALSE}

\* GetSearchIndexState followed by loadSearchIndex; a load that is not ok
\* yields a fresh empty index.
ReadState(ok) ==
    [gen |-> pub.gen, fence |-> pub.fence, published |-> pub.published,
     inc |-> pub.inc, obj |-> pub.obj, src |-> sourceRev, ok |-> ok,
     ix |-> IF ok THEN pub.ix ELSE EmptyIndex]

\* Mutant: no compare-and-set on the generation.
PublishWithoutCAS(s, covered, k) ==
    /\ s.fence = pub.fence
    /\ pub.published <= covered
    /\ covered <= sourceRev
    /\ curKey \in {None, k}

\* The controlplane's answer to a publish request.
PublishAccepted(s, covered, k) ==
    /\ s.gen = pub.gen
    /\ s.fence = pub.fence
    /\ pub.published <= covered
    /\ covered <= sourceRev
    /\ curKey \in {None, k}

Published(s, covered, inc, k) ==
    [gen |-> pub.gen + 1, fence |-> pub.fence, published |-> covered,
     inc |-> inc, key |-> k, obj |-> TRUE, ix |-> s.ix]
-----------------------------------------------------------------------------
(* Workers and jobs. *)

Task == [pc : {"idle", "check", "read", "probe", "publish"},
         op : {"index", "drop"}, chat : Chats \cup {None}, etag : Nat, rev : Nat,
         key : Keys \cup {None}, att : Nat, snap : Snapshot, covered : Nat, inc : BOOLEAN]

NewTask(pc, op, c, e, r, k) ==
    [pc |-> pc, op |-> op, chat |-> c, etag |-> e, rev |-> r, key |-> k,
     att |-> 0, snap |-> NoSnapshot, covered |-> 0, inc |-> FALSE]

IdleTask == NewTask("idle", "index", None, 0, 0, None)

JobState == [pc : {"idle", "list", "fetch", "read", "probe"},
             key : Keys \cup {None}, cursor : Nat, next : Nat, target : Nat,
             started : Jobs \cup {None}, prior : BOOLEAN, failed : BOOLEAN,
             todo : SUBSET Chats, items : [Chats -> Entry], att : Nat,
             snap : Snapshot]

NoItems == [c \in Chats |-> NoEntry]

IdleJob(j) == [pc |-> "idle", key |-> None, cursor |-> 0, next |-> 0,
               target |-> 0, started |-> j, prior |-> FALSE, failed |-> FALSE,
               todo |-> {}, items |-> NoItems, att |-> 0,
               snap |-> NoSnapshot]

\* lockSearchIndex: a mutex per user and process.
CanLock(p) == lock[ReplicaOf[p]] \in {None, p}
Lock(p)    == lock' = [lock EXCEPT ![ReplicaOf[p]] = p]
Unlock(p)  == lock' = [lock EXCEPT ![ReplicaOf[p]] = IF @ = p THEN None ELSE @]

\* A writer never starts more than maxSearchPublishRetries attempts.
TaskTypeOK ==
    /\ task \in [Workers -> Task]
    /\ \A w \in Workers :
          /\ task[w].att < MaxAttempts
          /\ task[w].pc # "idle" => task[w].chat \in Chats /\ task[w].key \in Keys

JobTypeOK ==
    /\ job \in [Jobs -> JobState]
    /\ \A j \in Jobs :
          /\ job[j].att < MaxAttempts
          /\ job[j].pc # "idle" => job[j].key \in Keys

LockTypeOK == lock \in [Replicas -> Procs \cup {None}]

\* Type invariant, with the retry limit of every writer.
TypeOK ==
    /\ chat \in [Chats -> [etag : Nat, rev : Nat, key : Keys \cup {None}]]
    /\ sourceRev \in Nat
    /\ curKey \in Keys \cup {None}
    /\ pub \in Publication
    /\ TaskTypeOK
    /\ JobTypeOK
    /\ LockTypeOK

Init ==
    /\ chat = [c \in Chats |-> [etag |-> 0, rev |-> 0, key |-> None]]
    /\ sourceRev = 0
    /\ curKey = None
    /\ pub = NoPublication
    /\ task = [w \in Workers |-> IdleTask]
    /\ job = [j \in Jobs |-> IdleJob(j)]
    /\ lock = [r \in Replicas |-> None]
-----------------------------------------------------------------------------
(* Chat commits in the controlplane.  A push or a delete that commits hands *)
(* its worker the etag and source revision of the answer.                   *)

SetTask(w, t) == task' = [task EXCEPT ![w] = t]
EndTask(w)    == SetTask(w, IdleTask) /\ Unlock(w)

ClientHas(k) == RegisteredOnly => k = curKey

Push(w, c, k) ==
    /\ task[w].pc = "idle"
    /\ ClientHas(k)
    /\ sourceRev < MaxRev
    /\ Live(c) \/ chat[c].rev = 0 \/ RecreateAllowed
    /\ sourceRev' = sourceRev + 1
    /\ chat' = [chat EXCEPT ![c] = [etag |-> chat[c].etag + 1,
                                    rev |-> sourceRev + 1, key |-> k]]
    /\ SetTask(w, NewTask("read", "index", c, chat[c].etag + 1, sourceRev + 1, k))
    /\ UNCHANGED <<curKey, pub, job, lock>>

Delete(w, c, k) ==
    /\ task[w].pc = "idle"
    /\ ClientHas(k)
    /\ Live(c)
    /\ sourceRev < MaxRev
    /\ sourceRev' = sourceRev + 1
    /\ chat' = [chat EXCEPT ![c] = [etag |-> 0, rev |-> sourceRev + 1, key |-> None]]
    /\ SetTask(w, NewTask("check", "drop", c, 0, sourceRev + 1, k))
    /\ UNCHANGED <<curKey, pub, job, lock>>

\* Deleting an absent chat: without if_match the handler sees the 404 and
\* cleans up with revision 0; with one, the controlplane accepts the delete
\* and its answer carries whatever the source revision is.
DeleteMiss(w, c, k) ==
    /\ task[w].pc = "idle"
    /\ ClientHas(k)
    /\ ~Live(c)
    /\ sourceRev > 0
    /\ WithinBound
    /\ chat[c].rev # 0 \/ RecreateAllowed
    /\ \E r \in {0} \cup (IF MissEchoes THEN {sourceRev} ELSE {}) :
          SetTask(w, NewTask("check", "drop", c, 0, r, k))
    /\ UNCHANGED <<chat, sourceRev, curKey, pub, job, lock>>

\* A rewrap (pullOne, migrateOne) replaces the ciphertext: a new etag for the
\* same plaintext, and no new source revision.
Rewrap(c, k) ==
    /\ RewrapAllowed
    /\ Live(c)
    /\ chat[c].etag < MaxEtag
    /\ chat' = [chat EXCEPT ![c] = [etag |-> chat[c].etag + 1,
                                    rev |-> chat[c].rev, key |-> k]]
    /\ UNCHANGED <<sourceRev, curKey, pub, task, job, lock>>

\* The wipe of a start-fresh registration: every live chat is deleted under
\* a source revision of its own, in no particular order.
Wiped(n, f) ==
    /\ \A c, d \in Chats : Live(c) /\ Live(d) /\ f[c] = f[d] => c = d
    /\ \A r \in (sourceRev + 1)..n : \E c \in Chats : Live(c) /\ f[c] = r
    /\ \A c \in Chats : Live(c) => f[c] \in (sourceRev + 1)..n
    /\ chat' = [c \in Chats |-> IF Live(c)
                                THEN [etag |-> 0, rev |-> f[c], key |-> None]
                                ELSE chat[c]]

\* registerKey fences the index: a new generation and fence, nothing published.
FencedPublication ==
    [gen |-> pub.gen + 1, fence |-> pub.fence + 1, published |-> 0, inc |-> TRUE,
     key |-> None, obj |-> FALSE, ix |-> EmptyIndex]

RegisterFresh(k) ==
    /\ pub.fence < MaxFence
    /\ \E n \in sourceRev..MaxRev : \E f \in [Chats -> 0..n] :
          Wiped(n, f) /\ sourceRev' = n
    /\ curKey' = k
    /\ pub' = FencedPublication
    /\ UNCHANGED <<task, job, lock>>

RegisterKey(k) ==
    /\ \A c \in Chats : Live(c) => chat[c].key = k
    /\ curKey # k
    /\ curKey' = k
    /\ IF curKey = None
       THEN UNCHANGED pub
       ELSE pub.fence < MaxFence /\ pub' = FencedPublication
    /\ UNCHANGED <<chat, sourceRev, task, job, lock>>
-----------------------------------------------------------------------------
(* Inline indexing after a push, and cleanup after a delete. *)

\* searchEntrySupersedes: source revisions order writers; etags stand in
\* where one side has no revision.
Supersedes(old, etag, rev) ==
    IF old.rev > 0 /\ rev > 0 THEN old.rev > rev ELSE old.etag > etag

\* A writer may extend the published coverage only by the very next revision,
\* and only on top of a complete index it could read.
CanAdvance(s, rev) ==
    /\ rev = s.published + 1
    /\ ~s.inc
    /\ ~s.obj \/ s.ok

\* Hold the lock and publish `ix' on top of the snapshot s.
ToPublish(w, s, ix, adv) ==
    /\ SetTask(w, [task[w] EXCEPT
                     !.pc = "publish",
                     !.snap = [s EXCEPT !.ix = [ix EXCEPT !.inc = ~adv]],
                     !.covered = IF adv THEN task[w].rev ELSE s.published,
                     !.inc = ~adv])
    /\ Lock(w)

\* The chat is still the one that was pushed: merge it, unless the index
\* already has this write or a newer one.
IndexMerge(w, s) ==
    LET t   == task[w]
        old == s.ix.chats[t.chat]
    IN  IF /\ Has(s.ix, t.chat)
           /\ Supersedes(old, t.etag, t.rev) \/ (old.rev = t.rev /\ old.etag = t.etag)
        THEN EndTask(w)
        ELSE ToPublish(w, s,
                       Upsert(s.ix, t.chat,
                              [etag |-> t.etag, rev |-> t.rev, body |-> t.rev]),
                       CanAdvance(s, t.rev))

\* indexChatForSearchWithHook, one attempt: read the publication, load the
\* index; at the revision of the push itself no probe of the chat is needed.
IndexRead(w) ==
    /\ task[w].pc = "read" /\ task[w].op = "index"
    /\ CanLock(w)
    /\ \E ok \in LoadOutcomes(task[w].key) :
          LET s == ReadState(ok)
          IN  IF s.src = task[w].rev
              THEN IndexMerge(w, s)
              ELSE /\ SetTask(w, [task[w] EXCEPT !.pc = "probe", !.snap = s])
                   /\ Lock(w)
    /\ UNCHANGED <<chat, sourceRev, curKey, pub, job>>

\* The hook of indexCurrentChatForSearch after a revision gap: is the etag of
\* the push still the live one?
IndexProbe(w) ==
    LET t == task[w]
        c == t.chat
    IN  /\ t.pc = "probe"
        /\ IF Live(c)
           THEN IF chat[c].etag = t.etag THEN IndexMerge(w, t.snap) ELSE EndTask(w)
           ELSE IF Has(t.snap.ix, c)
                THEN ToPublish(w, t.snap, Remove(t.snap.ix, c), FALSE)
                ELSE EndTask(w)
        /\ UNCHANGED <<chat, sourceRev, curKey, pub, job>>

\* Mutant: does not look whether the chat was recreated.
DropUnchecked(w) ==
    /\ task[w].pc = "check"
    /\ CanLock(w)
    /\ SetTask(w, [task[w] EXCEPT !.pc = "read"]) /\ Lock(w)
    /\ UNCHANGED <<chat, sourceRev, curKey, pub, job>>

\* removeDeletedChatFromSearch first makes sure the chat is gone ...
DropCheck(w) ==
    /\ task[w].pc = "check"
    /\ CanLock(w)
    /\ IF Live(task[w].chat)
       THEN EndTask(w)
       ELSE SetTask(w, [task[w] EXCEPT !.pc = "read"]) /\ Lock(w)
    /\ UNCHANGED <<chat, sourceRev, curKey, pub, job>>

\* ... and then, once per attempt, drops it from the index it reads.
DropRead(w) ==
    /\ task[w].pc = "read" /\ task[w].op = "drop"
    /\ \E ok \in LoadOutcomes(task[w].key) :
          LET s == ReadState(ok)
              c == task[w].chat
          IN  IF ~Has(s.ix, c) /\ ok
              THEN EndTask(w)
              ELSE ToPublish(w, s, Remove(s.ix, c), CanAdvance(s, task[w].rev))
    /\ UNCHANGED <<chat, sourceRev, curKey, pub, job>>

TaskPublish(w) ==
    LET t == task[w]
    IN  /\ t.pc = "publish"
        /\ PublishAccepted(t.snap, t.covered, t.key)
        /\ pub' = Published(t.snap, t.covered, t.inc, t.key)
        /\ EndTask(w)
        /\ UNCHANGED <<chat, sourceRev, curKey, job>>

\* Mutant: one attempt too many.
MayRetryOnceMore(att) == att < MaxAttempts

\* The attempts of maxSearchPublishRetries.
MayRetry(att) == att + 1 < MaxAttempts

\* A conflict starts the next attempt under the same lock, up to the limit.
TaskConflict(w) ==
    LET t == task[w]
    IN  /\ t.pc = "publish"
        /\ ~PublishAccepted(t.snap, t.covered, t.key)
        /\ IF MayRetry(t.att)
           THEN /\ SetTask(w, [NewTask("read", t.op, t.chat, t.etag, t.rev, t.key)
                               EXCEPT !.att = t.att + 1])
                /\ UNCHANGED lock
           ELSE EndTask(w)
        /\ UNCHANGED <<chat, sourceRev, curKey, pub, job>>

\* Search maintenance is best effort: an error, a panic or a crash ends it.
TaskAbandon(w) ==
    /\ Faults
    /\ task[w].pc # "idle"
    /\ EndTask(w)
    /\ UNCHANGED <<chat, sourceRev, curKey, pub, job>>
-----------------------------------------------------------------------------
(* The reindex job: runSearchReindex and, per page, searchReindexPage.      *)

SetJob(j, b) == job' = [job EXCEPT ![j] = b]
EndJob(j)    == SetJob(j, IdleJob(j)) /\ Unlock(j)

\* loadSearchReindexCheckpoint: a clean partial rebuild to carry on with.
Resumable(k) == pub.obj /\ pub.inc /\ pub.key = k

ResumeOK(ok) ==
    /\ ok
    /\ pub.ix.ckpt.cursor # 0
    /\ pub.ix.inc
    /\ pub.published = pub.ix.ckpt.target

\* A job rebuilds up to the source revision it reads, or takes over the
\* cursor and target of the checkpoint.  The coordinator runs one job per
\* user and process; the checkpoint is read under the shared lock, and the
\* object may have been replaced since the publication record was read.
JobStart(j, k) ==
    /\ \A i \in Jobs : ReplicaOf[i] = ReplicaOf[j] => job[i].pc = "idle"
    /\ ClientHas(k)
    /\ sourceRev > 0
    /\ WithinBound
    /\ Resumable(k) => lock[ReplicaOf[j]] = None
    /\ \E ok \in LoadOutcomes(k) \cup {FALSE} :
          LET fresh == [IdleJob(j) EXCEPT !.pc = "list", !.key = k,
                                          !.target = sourceRev]
              ck    == pub.ix.ckpt
          IN  SetJob(j, IF Resumable(k) /\ ResumeOK(ok)
                        THEN [fresh EXCEPT !.cursor = ck.cursor,
                                           !.target = ck.target,
                                           !.started = ck.started]
                        ELSE fresh)
    /\ UNCHANGED <<chat, sourceRev, curKey, pub, task, lock>>

\* listStatus: live chats and tombstones in write order, strictly after the
\* cursor.  The row of a chat sits at the revision of its last event.
RowsAfter(cursor) == {c \in Chats : chat[c].rev > cursor}

PageAfter(cursor) ==
    {c \in RowsAfter(cursor) :
        Cardinality({d \in RowsAfter(cursor) : chat[d].rev < chat[c].rev}) < PageSize}

\* The cursor of the next page is the last row of this one; 0 is "no more".
IsNextCursor(cursor, next) ==
    IF PageAfter(cursor) = RowsAfter(cursor)
    THEN next = 0
    ELSE \E last \in PageAfter(cursor) :
            /\ next = chat[last].rev
            /\ \A d \in PageAfter(cursor) : chat[d].rev <= next

JobList(j) ==
    LET b == job[j]
    IN  /\ b.pc = "list"
        /\ \E next \in 0..sourceRev :
              /\ IsNextCursor(b.cursor, next)
              /\ SetJob(j, [b EXCEPT !.pc = "fetch", !.next = next, !.failed = FALSE,
                                     !.items = NoItems, !.att = 0,
                                     !.todo = {c \in PageAfter(b.cursor) : Live(c)}])
        /\ UNCHANGED <<chat, sourceRev, curKey, pub, task, lock>>

\* pullOne for the listed ids, in any order.  A chat deleted since the listing
\* is a failed item; so is one whose key the job was not given.
JobFetch(j, c) ==
    LET b == job[j]
    IN  /\ b.pc = "fetch"
        /\ c \in b.todo
        /\ \E got \in {TRUE, FALSE} :
              /\ got => Live(c)
              /\ ~got => ~Live(c) \/ chat[c].key # b.key \/ Faults
              /\ SetJob(j, IF got
                           THEN [b EXCEPT !.todo = @ \ {c},
                                          !.items[c] = [etag |-> chat[c].etag,
                                                        rev |-> b.target,
                                                        body |-> chat[c].rev]]
                           ELSE [b EXCEPT !.todo = @ \ {c}, !.failed = TRUE])
        /\ UNCHANGED <<chat, sourceRev, curKey, pub, task, lock>>

Fetched(b) == {c \in Chats : b.items[c].body # 0}

\* The first page of a rebuild drops every entry it is going to replace.
DropStale(b, ix) ==
    IF b.cursor = 0
    THEN [ix EXCEPT !.chats = [c \in Chats |->
             IF ix.chats[c].rev <= b.target THEN NoEntry ELSE ix.chats[c]]]
    ELSE ix

\* Mutant: the start time does not survive its formatting and parsing.
CheckpointLosesTime(b, ck) == FALSE

CheckpointMatches(b, ck) ==
    ck.cursor = b.cursor /\ ck.target = b.target /\ ck.started = b.started

\* One attempt to merge the page.  A checkpoint that is not this job's own
\* makes it carry on from there instead; a rebuild whose checkpoint is gone
\* was finished or superseded by another job.
JobRead(j) ==
    LET b == job[j]
    IN  /\ b.pc \in {"fetch", "read"}
        /\ b.pc = "fetch" => b.todo = {}
        /\ CanLock(j)
        /\ \E ok \in LoadOutcomes(b.key) :
              LET s  == ReadState(ok)
                  ck == s.ix.ckpt
              IN  IF ck.cursor # 0 /\ ~CheckpointMatches(b, ck)
                  THEN /\ SetJob(j, [b EXCEPT !.pc = "list", !.cursor = ck.cursor,
                                              !.target = ck.target,
                                              !.started = ck.started,
                                              !.items = NoItems, !.failed = FALSE])
                       /\ Unlock(j)
                  ELSE IF ck.cursor = 0 /\ b.cursor # 0
                  THEN EndJob(j)
                  ELSE /\ SetJob(j, [b EXCEPT !.pc = "probe", !.todo = Fetched(b),
                                        !.snap = [s EXCEPT !.ix = DropStale(b, s.ix)]])
                       /\ Lock(j)
        /\ UNCHANGED <<chat, sourceRev, curKey, pub, task>>

\* searchChatSnapshotState for one item of the page.
JobProbe(j, c) ==
    LET b   == job[j]
        ix  == b.snap.ix
        it  == b.items[c]
        new == IF ~Live(c)
               THEN Remove(ix, c)
               ELSE IF \/ chat[c].etag # it.etag
                       \/ Has(ix, c) /\ Supersedes(ix.chats[c], it.etag, b.target)
                    THEN ix
                    ELSE Upsert(ix, c, it)
    IN  /\ b.pc = "probe"
        /\ c \in b.todo
        /\ SetJob(j, [b EXCEPT !.todo = @ \ {c}, !.snap.ix = new])
        /\ UNCHANGED <<chat, sourceRev, curKey, pub, task, lock>>

\* Mutant: takes over a newer coverage and not its incomplete flag.
IncompleteForTarget(b) ==
    b.next # 0 \/ b.prior \/ b.failed \/ (~b.snap.ok /\ b.cursor # 0)

PageIncomplete(b) ==
    \/ b.next # 0
    \/ b.prior
    \/ b.failed
    \/ ~b.snap.ok /\ b.cursor # 0
    \/ b.snap.published > b.target /\ b.snap.inc

\* Mutant: claims whatever was committed meanwhile.
CoveredByNow(b) == sourceRev

PageCovered(b) == IF b.snap.published > b.target THEN b.snap.published ELSE b.target

\* Mutant: leaves a checkpoint behind a failed page.
PageIndexUnclean(b) ==
    [b.snap.ix EXCEPT
        !.inc  = PageIncomplete(b),
        !.ckpt = IF b.next # 0
                 THEN [cursor |-> b.next, target |-> b.target, started |-> b.started]
                 ELSE NoCheckpoint]

PageIndex(b) ==
    [b.snap.ix EXCEPT
        !.inc  = PageIncomplete(b),
        !.ckpt = IF ~b.prior /\ ~b.failed /\ b.next # 0
                 THEN [cursor |-> b.next, target |-> b.target, started |-> b.started]
                 ELSE NoCheckpoint]

ReadyToPublish(b) == b.pc = "probe" /\ b.todo = {}

JobPublish(j) ==
    LET b == job[j]
        s == [b.snap EXCEPT !.ix = PageIndex(b)]
    IN  /\ ReadyToPublish(b)
        /\ PublishAccepted(s, PageCovered(b), b.key)
        /\ pub' = Published(s, PageCovered(b), PageIncomplete(b), b.key)
        /\ IF b.next = 0
           THEN EndJob(j)
           ELSE /\ SetJob(j, [b EXCEPT !.pc = "list", !.cursor = b.next,
                                       !.prior = b.prior \/ b.failed,
                                       !.items = NoItems, !.failed = FALSE,
                                       !.snap = NoSnapshot])
                /\ Unlock(j)
        /\ UNCHANGED <<chat, sourceRev, curKey, task>>

\* A conflict re-reads the publication for the page already fetched.
JobConflict(j) ==
    LET b == job[j]
    IN  /\ ReadyToPublish(b)
        /\ ~PublishAccepted(b.snap, PageCovered(b), b.key)
        /\ IF MayRetry(b.att)
           THEN /\ SetJob(j, [b EXCEPT !.pc = "read", !.att = @ + 1, !.snap = NoSnapshot])
                /\ UNCHANGED lock
           ELSE EndJob(j)
        /\ UNCHANGED <<chat, sourceRev, curKey, pub, task>>

\* The budget expires, the coordinator cancels the job, or the process dies.
JobAbort(j) ==
    /\ Faults
    /\ job[j].pc # "idle"
    /\ EndJob(j)
    /\ UNCHANGED <<chat, sourceRev, curKey, pub, task>>
-----------------------------------------------------------------------------
ClientStep ==
    \/ \E w \in Workers, c \in Chats, k \in Keys :
          Push(w, c, k) \/ Delete(w, c, k) \/ DeleteMiss(w, c, k)
    \/ \E c \in Chats, k \in Keys : Rewrap(c, k)
    \/ \E k \in Keys : RegisterFresh(k) \/ RegisterKey(k)

TaskStep(w) ==
    \/ IndexRead(w) \/ IndexProbe(w)
    \/ DropCheck(w) \/ DropRead(w)
    \/ TaskPublish(w) \/ TaskConflict(w)

JobStep(j) ==
    \/ JobList(j) \/ JobRead(j)
    \/ \E c \in Chats : JobFetch(j, c) \/ JobProbe(j, c)
    \/ JobPublish(j) \/ JobConflict(j)

Next ==
    \/ ClientStep
    \/ \E w \in Workers : TaskStep(w) \/ TaskAbandon(w)
    \/ \E j \in Jobs, k \in Keys : JobStart(j, k)
    \/ \E j \in Jobs : JobStep(j) \/ JobAbort(j)

Spec == Init /\ [][Next]_vars
-----------------------------------------------------------------------------
(* Safety. *)

\* The published coverage is honest about writes: while the record does not
\* say "incomplete", every live chat whose last write lies within the
\* published source revision is in the index, with its current contents
\* (SearchQuery tells the client that nothing needs a reindex on this basis).
NoMissingChat ==
    ~pub.inc =>
        \A c \in Chats :
            Live(c) /\ chat[c].rev <= pub.published
                => Has(pub.ix, c) /\ pub.ix.chats[c].body = chat[c].rev

\* ... and about deletes: a chat deleted within the published source revision
\* cannot surface in a query any more.
NoGhostChat ==
    ~pub.inc =>
        \A c \in Chats :
            ~Live(c) /\ chat[c].rev <= pub.published => ~Has(pub.ix, c)

\* A checkpoint can be resumed by any job of any replica, at any later time:
\* everything the finished pages stand for is in the index, whatever pushes
\* and deletes were merged around it (searchReindexPage adopts a checkpoint
\* without looking at the pages before it).
CheckpointSound ==
    LET ck == pub.ix.ckpt
    IN  ck.cursor # 0 =>
            /\ ck.target <= sourceRev
            /\ \A c \in Chats : chat[c].rev \in 1..ck.target =>
                  /\ Live(c) /\ chat[c].rev <= ck.cursor
                         => Has(pub.ix, c) /\ pub.ix.chats[c].body = chat[c].rev
                  /\ ~Live(c) => ~Has(pub.ix, c)

\* The generation check makes read-modify-write of the whole index safe
\* between replicas: a push or a delete that read the index changes nobody
\* else's entry when it publishes.
OthersKept(w) ==
    task[w].pc = "publish" /\ task'[w].pc = "idle" /\ pub' # pub /\ task[w].snap.ok
        => \A c \in Chats \ {task[w].chat} : pub'.ix.chats[c] = pub.ix.chats[c]

NoLostUpdate == [][\A w \in Workers : OthersKept(w)]_vars

\* removeDeletedChatFromSearch promises to drop a deleted chat "without
\* removing a newer generation recreated under the same id while delete
\* cleanup was waiting to run".
DropsRecreated(w) ==
    LET t == task[w]
    IN  /\ t.pc = "publish" /\ t.op = "drop" /\ pub' # pub /\ task'[w].pc = "idle"
        /\ Live(t.chat)
        /\ pub.ix.chats[t.chat].body = chat[t.chat].rev
        /\ ~Has(pub'.ix, t.chat)

DropKeepsRecreated == [][\A w \in Workers : ~DropsRecreated(w)]_vars
-----------------------------------------------------------------------------
(* Liveness.  A client that is told to reindex starts a job (JobStart);     *)
(* once started, a handler or job runs on.  Go's mutex hands itself to a    *)
(* waiter that waited long enough, hence strong fairness of the steps that  *)
(* take the lock.                                                           *)

Fairness ==
    /\ \A w \in Workers : WF_vars(TaskStep(w)) /\ SF_vars(IndexRead(w) \/ DropCheck(w))
    /\ \A j \in Jobs : WF_vars(JobStep(j)) /\ SF_vars(JobRead(j))
    /\ \A j \in Jobs, k \in Keys : SF_vars(k = curKey /\ JobStart(j, k))

FairSpec == Spec /\ Fairness

\* Whatever was written, deleted or half rebuilt before, the index becomes
\* complete again ("The reindex path repairs any gap", Push).
ReindexConverges == []<>Healthy
=============================================================================
