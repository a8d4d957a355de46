----------------------- MODULE SearchCoverage_proofs -----------------------
(***************************************************************************)
(* Proofs about SearchCoverage, for every value of its constants.          *)
(***************************************************************************)
EXTENDS SearchCoverageInv, FiniteSetTheorems, TLAPS

USE DEF Procs

LEMMA EmptyIndexType == EmptyIndex \in Index /\ NoEntry \in Entry
BY ConstantsOK DEF EmptyIndex, NoEntry, NoCheckpoint, Index, Entry, Checkpoint

LEMMA NoSnapshotType == NoSnapshot \in Snapshot
BY EmptyIndexType DEF NoSnapshot, Snapshot

LEMMA IdleType ==
    /\ IdleTask \in Task
    /\ \A j \in Jobs : IdleJob(j) \in JobState
BY NoSnapshotType, EmptyIndexType
   DEF IdleTask, NewTask, Task, IdleJob, JobState, NoItems

\* What loadSearchIndex returns.
LEMMA ReadStateType ==
    ASSUME TypeOK, NEW k, NEW ok \in LoadOutcomes(k)
    PROVE  ok \in BOOLEAN /\ ReadState(ok) \in Snapshot
<1>1. ok \in BOOLEAN
  BY DEF LoadOutcomes
<1>2. pub.ix \in Index
  BY DEF TypeOK, Publication
<1>3. (IF ok THEN pub.ix ELSE EmptyIndex) \in Index
  BY <1>2, EmptyIndexType
<1> QED
  BY <1>1, <1>3 DEF ReadState, Snapshot, TypeOK, Publication

LEMMA UpsertType ==
    ASSUME NEW ix \in Index, NEW c \in Chats, NEW e \in Entry
    PROVE  Upsert(ix, c, e) \in Index /\ Remove(ix, c) \in Index
BY EmptyIndexType DEF Upsert, Remove, Index

LEMMA SetTaskType ==
    ASSUME TypeOK, NEW w \in Workers, NEW t \in Task, SetTask(w, t),
           t.att < MaxAttempts,
           t.pc # "idle" => t.chat \in Chats /\ t.key \in Keys
    PROVE  TaskTypeOK'
BY DEF SetTask, TypeOK, TaskTypeOK

LEMMA EndTaskType ==
    ASSUME TypeOK, NEW w \in Workers, EndTask(w)
    PROVE  TaskTypeOK' /\ LockTypeOK'
<1>1. IdleTask \in Task /\ IdleTask.att < MaxAttempts /\ IdleTask.pc = "idle"
  BY IdleType, ConstantsOK DEF IdleTask, NewTask
<1>2. LockTypeOK'
  BY ConstantsOK DEF EndTask, Unlock, TypeOK, LockTypeOK
<1> QED
  BY <1>1, <1>2, SetTaskType DEF EndTask

LEMMA SetJobType ==
    ASSUME TypeOK, NEW j \in Jobs, NEW b \in JobState, SetJob(j, b),
           b.att < MaxAttempts, b.pc # "idle" => b.key \in Keys
    PROVE  JobTypeOK'
BY DEF SetJob, TypeOK, JobTypeOK

LEMMA EndJobType ==
    ASSUME TypeOK, NEW j \in Jobs, EndJob(j)
    PROVE  JobTypeOK' /\ LockTypeOK'
<1>1. IdleJob(j) \in JobState /\ IdleJob(j).att < MaxAttempts /\ IdleJob(j).pc = "idle"
  BY IdleType, ConstantsOK DEF IdleJob
<1>2. LockTypeOK'
  BY ConstantsOK DEF EndJob, Unlock, TypeOK, LockTypeOK
<1> QED
  BY <1>1, <1>2, SetJobType DEF EndJob

LEMMA LockType ==
    ASSUME TypeOK, NEW p \in Procs
    PROVE  (Lock(p) => LockTypeOK') /\ (Unlock(p) => LockTypeOK')
BY ConstantsOK DEF Lock, Unlock, TypeOK, LockTypeOK

LEMMA NewTaskType ==
    ASSUME NEW pc \in {"check", "read"}, NEW op \in {"index", "drop"}, NEW c \in Chats,
           NEW e \in Nat, NEW r \in Nat, NEW k \in Keys
    PROVE  LET t == NewTask(pc, op, c, e, r, k)
           IN  t \in Task /\ t.att = 0 /\ t.chat = c /\ t.key = k
BY NoSnapshotType DEF NewTask, Task

LEMMA StartTaskType ==
    ASSUME TypeOK, NEW w \in Workers, NEW pc \in {"check", "read"},
           NEW op \in {"index", "drop"}, NEW c \in Chats,
           NEW e \in Nat, NEW r \in Nat, NEW k \in Keys,
           SetTask(w, NewTask(pc, op, c, e, r, k))
    PROVE  TaskTypeOK'
<1> DEFINE t == NewTask(pc, op, c, e, r, k)
<1>1. t \in Task /\ t.att = 0 /\ t.chat = c /\ t.key = k
  BY NewTaskType
<1>2. t.att < MaxAttempts
  BY <1>1, ConstantsOK
<1>3. SetTask(w, t)
  OBVIOUS
<1> HIDE DEF t
<1> QED
  BY <1>1, <1>2, <1>3, SetTaskType

LEMMA ToPublishType ==
    ASSUME TypeOK, NEW w \in Workers, NEW s \in Snapshot, NEW ix \in Index,
           NEW adv \in BOOLEAN, ToPublish(w, s, ix, adv),
           task[w].chat \in Chats, task[w].key \in Keys
    PROVE  TaskTypeOK' /\ LockTypeOK'
<1> DEFINE s2 == [s EXCEPT !.ix = [ix EXCEPT !.inc = ~adv]]
           t  == [task[w] EXCEPT !.pc = "publish", !.snap = s2,
                     !.covered = IF adv THEN task[w].rev ELSE s.published,
                     !.inc = ~adv]
<1>1. task[w] \in Task /\ task[w].att < MaxAttempts
  BY DEF TypeOK, TaskTypeOK
<1>2. s2 \in Snapshot
  <2>1. [ix EXCEPT !.inc = ~adv] \in Index
    BY DEF Index
  <2> QED
    BY <2>1 DEF Snapshot
<1>3. (IF adv THEN task[w].rev ELSE s.published) \in Nat
  BY <1>1 DEF Task, Snapshot
<1>4. t \in Task /\ t.att = task[w].att /\ t.chat = task[w].chat /\ t.key = task[w].key
  BY <1>1, <1>2, <1>3 DEF Task
<1>5. SetTask(w, t) /\ Lock(w)
  BY DEF ToPublish
<1> QED
  BY <1>1, <1>4, <1>5, SetTaskType, LockType

LEMMA IndexMergeType ==
    ASSUME TypeOK, NEW w \in Workers, NEW s \in Snapshot, IndexMerge(w, s),
           task[w].chat \in Chats, task[w].key \in Keys
    PROVE  TaskTypeOK' /\ LockTypeOK'
<1> DEFINE t == task[w]
           e == [etag |-> t.etag, rev |-> t.rev, body |-> t.rev]
<1>1. t \in Task /\ t.att < MaxAttempts
  BY DEF TypeOK, TaskTypeOK
<1>2. e \in Entry
  BY <1>1 DEF Task, Entry
<1>3. CASE EndTask(w)
  BY <1>3, EndTaskType
<1>4. CASE ToPublish(w, s, Upsert(s.ix, t.chat, e), CanAdvance(s, t.rev))
  <2>1. Upsert(s.ix, t.chat, e) \in Index
    BY <1>2, UpsertType DEF Snapshot
  <2>2. CanAdvance(s, t.rev) \in BOOLEAN
    BY DEF CanAdvance, Snapshot
  <2> QED
    BY <1>4, <2>1, <2>2, ToPublishType
<1> QED
  BY <1>3, <1>4 DEF IndexMerge

LEMMA PublishedType ==
    ASSUME TypeOK, NEW s \in Snapshot, NEW covered \in Nat, NEW inc \in BOOLEAN,
           NEW k \in Keys
    PROVE  Published(s, covered, inc, k) \in Publication
BY DEF Published, Publication, Snapshot, TypeOK

LEMMA FencedType ==
    ASSUME TypeOK
    PROVE  /\ FencedPublication \in Publication
           /\ FencedPublication.gen = pub.gen + 1
           /\ FencedPublication.inc /\ ~FencedPublication.obj
           /\ FencedPublication.published = 0 /\ FencedPublication.ix = EmptyIndex
<1>1. pub.gen + 1 \in Nat /\ pub.fence + 1 \in Nat
  BY DEF TypeOK, Publication
<1> QED
  BY <1>1, EmptyIndexType DEF FencedPublication, Publication
-----------------------------------------------------------------------------
(* Type correctness. *)

LEMMA ClientTypeOK == TypeOK /\ ClientStep => TypeOK'
<1> SUFFICES ASSUME TypeOK, ClientStep PROVE TypeOK'
  OBVIOUS
<1>1. ASSUME NEW w \in Workers, NEW c \in Chats, NEW k \in Keys, Push(w, c, k)
      PROVE  TypeOK'
  <2>1. sourceRev + 1 \in Nat /\ chat[c].etag + 1 \in Nat
    BY DEF TypeOK
  <2>2. chat' \in [Chats -> [etag : Nat, rev : Nat, key : Keys \cup {None}]]
    BY <1>1, <2>1 DEF Push, TypeOK
  <2>3. TaskTypeOK'
    BY <1>1, <2>1, StartTaskType DEF Push
  <2> QED
    BY <1>1, <2>1, <2>2, <2>3 DEF Push, TypeOK, JobTypeOK, LockTypeOK
<1>2. ASSUME NEW w \in Workers, NEW c \in Chats, NEW k \in Keys, Delete(w, c, k)
      PROVE  TypeOK'
  <2>1. sourceRev + 1 \in Nat
    BY DEF TypeOK
  <2>2. chat' \in [Chats -> [etag : Nat, rev : Nat, key : Keys \cup {None}]]
    BY <1>2, <2>1 DEF Delete, TypeOK
  <2>3. TaskTypeOK'
    BY <1>2, <2>1, StartTaskType DEF Delete
  <2> QED
    BY <1>2, <2>1, <2>2, <2>3 DEF Delete, TypeOK, JobTypeOK, LockTypeOK
<1>3. ASSUME NEW w \in Workers, NEW c \in Chats, NEW k \in Keys, DeleteMiss(w, c, k)
      PROVE  TypeOK'
  <2>1. PICK r \in {0} \cup (IF MissEchoes THEN {sourceRev} ELSE {}) :
           SetTask(w, NewTask("check", "drop", c, 0, r, k))
    BY <1>3 DEF DeleteMiss
  <2>2. r \in Nat
    BY <2>1 DEF TypeOK
  <2>3. TaskTypeOK'
    BY <2>1, <2>2, StartTaskType
  <2> QED
    BY <1>3, <2>3 DEF DeleteMiss, TypeOK, JobTypeOK, LockTypeOK
<1>4. ASSUME NEW c \in Chats, NEW k \in Keys, Rewrap(c, k)
      PROVE  TypeOK'
  BY <1>4 DEF Rewrap, TypeOK, TaskTypeOK, JobTypeOK, LockTypeOK
<1>5. ASSUME NEW k \in Keys, RegisterFresh(k)
      PROVE  TypeOK'
  <2>0. PICK n \in sourceRev..MaxRev :
           \E f \in [Chats -> 0..n] : Wiped(n, f) /\ sourceRev' = n
    BY <1>5 DEF RegisterFresh
  <2>1. PICK f \in [Chats -> 0..n] : Wiped(n, f) /\ sourceRev' = n
    BY <2>0
  <2>2. n \in Nat /\ \A c \in Chats : f[c] \in Nat
    BY ConstantsOK DEF TypeOK
  <2>3. chat' \in [Chats -> [etag : Nat, rev : Nat, key : Keys \cup {None}]]
    BY <2>1, <2>2 DEF Wiped, TypeOK
  <2> QED
    BY <1>5, <2>1, <2>2, <2>3, FencedType
       DEF RegisterFresh, TypeOK, TaskTypeOK, JobTypeOK, LockTypeOK
<1>6. ASSUME NEW k \in Keys, RegisterKey(k)
      PROVE  TypeOK'
  BY <1>6, FencedType DEF RegisterKey, TypeOK, TaskTypeOK, JobTypeOK, LockTypeOK
<1> QED
  BY <1>1, <1>2, <1>3, <1>4, <1>5, <1>6 DEF ClientStep

LEMMA TaskStepTypeOK ==
    ASSUME TypeOK, NEW w \in Workers, TaskStep(w) \/ TaskAbandon(w)
    PROVE  TypeOK'
<1> DEFINE t == task[w]
<1>1. t \in Task /\ t.att < MaxAttempts /\ t.snap \in Snapshot
  BY DEF TypeOK, TaskTypeOK, Task
<1>2. t.pc # "idle" => t.chat \in Chats /\ t.key \in Keys
  BY DEF TypeOK, TaskTypeOK
<1>3. SUFFICES TaskTypeOK' /\ LockTypeOK'
               /\ (pub' \in Publication) /\ UNCHANGED <<chat, sourceRev, curKey, job>>
  BY DEF TypeOK, JobTypeOK
<1>4. CASE IndexRead(w)
  <2>1. PICK ok \in LoadOutcomes(t.key) :
           IF ReadState(ok).src = t.rev
           THEN IndexMerge(w, ReadState(ok))
           ELSE /\ SetTask(w, [t EXCEPT !.pc = "probe", !.snap = ReadState(ok)])
                /\ Lock(w)
    BY <1>4 DEF IndexRead
  <2>2. ReadState(ok) \in Snapshot
    BY ReadStateType
  <2>3. t.chat \in Chats /\ t.key \in Keys
    BY <1>2, <1>4 DEF IndexRead
  <2>4. CASE IndexMerge(w, ReadState(ok))
    BY <1>4, <2>2, <2>3, <2>4, IndexMergeType DEF IndexRead, TypeOK
  <2>5. CASE SetTask(w, [t EXCEPT !.pc = "probe", !.snap = ReadState(ok)]) /\ Lock(w)
    <3> DEFINE u == [t EXCEPT !.pc = "probe", !.snap = ReadState(ok)]
    <3>1. u \in Task /\ u.att = t.att /\ u.chat = t.chat /\ u.key = t.key
      BY <1>1, <2>2 DEF Task
    <3> HIDE DEF u
    <3>2. TaskTypeOK' /\ LockTypeOK'
      BY <1>1, <2>3, <2>5, <3>1, SetTaskType, LockType DEF u
    <3> QED
      BY <1>4, <3>2 DEF IndexRead, TypeOK
  <2> QED
    BY <2>1, <2>4, <2>5
<1>5. CASE IndexProbe(w)
  <2>1. t.chat \in Chats /\ t.key \in Keys
    BY <1>2, <1>5 DEF IndexProbe
  <2>2. CASE EndTask(w)
    BY <1>5, <2>2, EndTaskType DEF IndexProbe, TypeOK
  <2>3. CASE IndexMerge(w, t.snap)
    BY <1>1, <1>5, <2>1, <2>3, IndexMergeType DEF IndexProbe, TypeOK
  <2>4. CASE ToPublish(w, t.snap, Remove(t.snap.ix, t.chat), FALSE)
    <3>1. Remove(t.snap.ix, t.chat) \in Index
      BY <1>1, <2>1, UpsertType, EmptyIndexType DEF Snapshot
    <3> QED
      BY <1>1, <1>5, <2>1, <2>4, <3>1, ToPublishType DEF IndexProbe, TypeOK
  <2> QED
    BY <1>5, <2>2, <2>3, <2>4 DEF IndexProbe
<1>6. CASE DropCheck(w)
  <2>1. CASE EndTask(w)
    BY <1>6, <2>1, EndTaskType DEF DropCheck, TypeOK
  <2>2. CASE SetTask(w, [t EXCEPT !.pc = "read"]) /\ Lock(w)
    <3> DEFINE u == [t EXCEPT !.pc = "read"]
    <3>1. u \in Task /\ u.att = t.att /\ u.chat = t.chat /\ u.key = t.key
      BY <1>1 DEF Task
    <3> HIDE DEF u
    <3>2. TaskTypeOK' /\ LockTypeOK'
      BY <1>1, <1>2, <1>6, <2>2, <3>1, SetTaskType, LockType DEF u, DropCheck
    <3> QED
      BY <1>6, <3>2 DEF DropCheck, TypeOK
  <2> QED
    BY <1>6, <2>1, <2>2 DEF DropCheck
<1>7. CASE DropRead(w)
  <2>1. PICK ok \in LoadOutcomes(t.key) :
           \/ EndTask(w)
           \/ ToPublish(w, ReadState(ok), Remove(ReadState(ok).ix, t.chat),
                        CanAdvance(ReadState(ok), t.rev))
    BY <1>7 DEF DropRead
  <2>2. ReadState(ok) \in Snapshot
    BY ReadStateType
  <2>3. t.chat \in Chats /\ t.key \in Keys
    BY <1>2, <1>7 DEF DropRead
  <2>4. Remove(ReadState(ok).ix, t.chat) \in Index
    BY <2>2, <2>3, UpsertType, EmptyIndexType DEF Snapshot
  <2>5. CanAdvance(ReadState(ok), t.rev) \in BOOLEAN
    BY DEF CanAdvance
  <2>6. TaskTypeOK' /\ LockTypeOK'
    BY <2>1, <2>2, <2>3, <2>4, <2>5, EndTaskType, ToPublishType
  <2> QED
    BY <1>7, <2>6 DEF DropRead, TypeOK
<1>8. CASE TaskPublish(w)
  <2>1. pub' \in Publication
    BY <1>1, <1>2, <1>8, PublishedType DEF TaskPublish, Task
  <2> QED
    BY <1>8, <2>1, EndTaskType DEF TaskPublish
<1>9. CASE TaskConflict(w)
  <2>1. CASE EndTask(w)
    BY <1>9, <2>1, EndTaskType DEF TaskConflict, TypeOK
  <2>2. CASE /\ MayRetry(t.att)
             /\ SetTask(w, [NewTask("read", t.op, t.chat, t.etag, t.rev, t.key)
                               EXCEPT !.att = t.att + 1])
             /\ UNCHANGED lock
    <3> DEFINE n == NewTask("read", t.op, t.chat, t.etag, t.rev, t.key)
               u == [n EXCEPT !.att = t.att + 1]
    <3>1. t.chat \in Chats /\ t.key \in Keys
      BY <1>2, <1>9 DEF TaskConflict
    <3>2. n \in Task /\ n.chat = t.chat /\ n.key = t.key
      BY <1>1, <3>1, NewTaskType DEF Task
    <3> HIDE DEF n
    <3>3. u \in Task /\ u.att = t.att + 1 /\ u.chat = t.chat /\ u.key = t.key
      BY <1>1, <3>2 DEF Task
    <3>4. t.att + 1 < MaxAttempts
      BY <2>2 DEF MayRetry
    <3> HIDE DEF u
    <3>5. TaskTypeOK'
      BY <2>2, <3>1, <3>3, <3>4, SetTaskType DEF u, n
    <3> QED
      BY <1>9, <2>2, <3>5 DEF TaskConflict, TypeOK, LockTypeOK
  <2> QED
    BY <1>9, <2>1, <2>2 DEF TaskConflict
<1>10. CASE TaskAbandon(w)
  BY <1>10, EndTaskType DEF TaskAbandon, TypeOK
<1> QED
  BY <1>4, <1>5, <1>6, <1>7, <1>8, <1>9, <1>10 DEF TaskStep

LEMMA JobStartTypeOK ==
    ASSUME TypeOK, NEW j \in Jobs, NEW k \in Keys, JobStart(j, k)
    PROVE  TypeOK'
<1> DEFINE fresh == [IdleJob(j) EXCEPT !.pc = "list", !.key = k, !.target = sourceRev]
           ck    == pub.ix.ckpt
           res   == [fresh EXCEPT !.cursor = ck.cursor, !.target = ck.target,
                                  !.started = ck.started]
<1>1. PICK ok \in LoadOutcomes(k) \cup {FALSE} :
         SetJob(j, IF Resumable(k) /\ ResumeOK(ok) THEN res ELSE fresh)
  BY DEF JobStart
<1>2. ck \in Checkpoint
  BY DEF TypeOK, Publication, Index
<1>3. fresh \in JobState /\ fresh.att = 0 /\ fresh.key = k
  BY IdleType DEF TypeOK, JobState, IdleJob
<1>4. CASE Resumable(k) /\ ResumeOK(ok)
  <2> HIDE DEF fresh
  <2>2. res \in JobState /\ res.att = 0 /\ res.key = k
    BY <1>2, <1>3 DEF Checkpoint, JobState
  <2> HIDE DEF res
  <2>3. JobTypeOK'
    BY <1>1, <1>4, <2>2, SetJobType, ConstantsOK
  <2> QED
    BY <2>3 DEF JobStart, TypeOK, TaskTypeOK, LockTypeOK
<1>5. CASE ~(Resumable(k) /\ ResumeOK(ok))
  <2> HIDE DEF fresh
  <2>1. JobTypeOK'
    BY <1>1, <1>3, <1>5, SetJobType, ConstantsOK
  <2> QED
    BY <2>1 DEF JobStart, TypeOK, TaskTypeOK, LockTypeOK
<1> QED
  BY <1>4, <1>5

LEMMA DropStaleType ==
    ASSUME NEW b, NEW ix \in Index
    PROVE  DropStale(b, ix) \in Index
BY EmptyIndexType DEF DropStale, Index

LEMMA PageIndexType ==
    ASSUME NEW b \in JobState
    PROVE  /\ PageIndex(b) \in Index
           /\ PageIncomplete(b) \in BOOLEAN
           /\ PageCovered(b) \in Nat
<1>1. PageIncomplete(b) \in BOOLEAN
  BY DEF PageIncomplete
<1>2. PageCovered(b) \in Nat
  BY DEF PageCovered, JobState, Snapshot
<1>3. b.snap.ix \in Index
  BY DEF JobState, Snapshot
<1>4. (IF ~b.prior /\ ~b.failed /\ b.next # 0
       THEN [cursor |-> b.next, target |-> b.target, started |-> b.started]
       ELSE NoCheckpoint) \in Checkpoint
  BY DEF JobState, NoCheckpoint, Checkpoint
<1> QED
  BY <1>1, <1>2, <1>3, <1>4 DEF PageIndex, Index

LEMMA JobStepTypeOK ==
    ASSUME TypeOK, NEW j \in Jobs, JobStep(j) \/ JobAbort(j)
    PROVE  TypeOK'
<1> DEFINE b == job[j]
<1>1. b \in JobState /\ b.att < MaxAttempts /\ b.snap \in Snapshot
  BY DEF TypeOK, JobTypeOK, JobState
<1>2. b.pc # "idle" => b.key \in Keys
  BY DEF TypeOK, JobTypeOK
<1>3. SUFFICES JobTypeOK' /\ LockTypeOK'
               /\ (pub' \in Publication) /\ UNCHANGED <<chat, sourceRev, curKey, task>>
  BY DEF TypeOK, TaskTypeOK
<1>u. pub \in Publication /\ LockTypeOK
  BY DEF TypeOK
<1>4. CASE JobList(j)
  <2>1. PICK next \in 0..sourceRev :
           SetJob(j, [b EXCEPT !.pc = "fetch", !.next = next, !.failed = FALSE,
                               !.items = NoItems, !.att = 0,
                               !.todo = {c \in PageAfter(b.cursor) : Live(c)}])
    BY <1>4 DEF JobList
  <2> DEFINE u == [b EXCEPT !.pc = "fetch", !.next = next, !.failed = FALSE,
                            !.items = NoItems, !.att = 0,
                            !.todo = {c \in PageAfter(b.cursor) : Live(c)}]
  <2>2. NoItems \in [Chats -> Entry]
    BY EmptyIndexType DEF NoItems
  <2>3. {c \in PageAfter(b.cursor) : Live(c)} \subseteq Chats
    BY DEF PageAfter, RowsAfter
  <2>4. next \in Nat
    BY DEF TypeOK
  <2>5. u \in JobState /\ u.att = 0 /\ u.key = b.key
    BY <1>1, <2>2, <2>3, <2>4 DEF JobState
  <2>6. SetJob(j, u)
    BY <2>1
  <2> HIDE DEF u
  <2>7. JobTypeOK'
    BY <1>2, <1>4, <2>5, <2>6, SetJobType, ConstantsOK DEF JobList
  <2> QED
    BY <1>4, <1>u, <2>7 DEF JobList, LockTypeOK
<1>5. ASSUME NEW c \in Chats, JobFetch(j, c)
      PROVE  JobTypeOK' /\ LockTypeOK'
             /\ (pub' \in Publication) /\ UNCHANGED <<chat, sourceRev, curKey, task>>
  <2> DEFINE e == [etag |-> chat[c].etag, rev |-> b.target, body |-> chat[c].rev]
             u == [b EXCEPT !.todo = @ \ {c}, !.items[c] = e]
             v == [b EXCEPT !.todo = @ \ {c}, !.failed = TRUE]
  <2>1. SetJob(j, u) \/ SetJob(j, v)
    BY <1>5 DEF JobFetch
  <2>2. e \in Entry
    BY <1>1 DEF TypeOK, JobState, Entry
  <2> HIDE DEF e
  <2>3. [b.items EXCEPT ![c] = e] \in [Chats -> Entry]
    BY <1>1, <2>2 DEF JobState
  <2>4. u = [b EXCEPT !.todo = b.todo \ {c}, !.items = [b.items EXCEPT ![c] = e]]
    BY <1>1 DEF JobState
  <2>5. u \in JobState /\ u.att = b.att /\ u.key = b.key
    BY <1>1, <2>3, <2>4 DEF JobState
  <2>6. v \in JobState /\ v.att = b.att /\ v.key = b.key
    BY <1>1 DEF JobState
  <2> HIDE DEF u, v
  <2>7. JobTypeOK'
    BY <1>1, <1>2, <1>5, <2>1, <2>5, <2>6, SetJobType DEF JobFetch
  <2> QED
    BY <1>5, <1>u, <2>7 DEF JobFetch, LockTypeOK
<1>6. CASE JobRead(j)
  <2>1. PICK ok \in LoadOutcomes(b.key) :
          LET s  == ReadState(ok)
              ck == s.ix.ckpt
          IN  \/ /\ SetJob(j, [b EXCEPT !.pc = "list", !.cursor = ck.cursor,
                                        !.target = ck.target, !.started = ck.started,
                                        !.items = NoItems, !.failed = FALSE])
                 /\ Unlock(j)
              \/ EndJob(j)
              \/ /\ SetJob(j, [b EXCEPT !.pc = "probe", !.todo = Fetched(b),
                                  !.snap = [s EXCEPT !.ix = DropStale(b, s.ix)]])
                 /\ Lock(j)
    BY <1>6 DEF JobRead
  <2> DEFINE s  == ReadState(ok)
             ck == s.ix.ckpt
             u  == [b EXCEPT !.pc = "list", !.cursor = ck.cursor, !.target = ck.target,
                             !.started = ck.started, !.items = NoItems, !.failed = FALSE]
             v  == [b EXCEPT !.pc = "probe", !.todo = Fetched(b),
                             !.snap = [s EXCEPT !.ix = DropStale(b, s.ix)]]
  <2>2. s \in Snapshot
    BY ReadStateType
  <2> HIDE DEF s
  <2>3. s.ix \in Index /\ ck \in Checkpoint
    BY <2>2 DEF Snapshot, Index
  <2>4. NoItems \in [Chats -> Entry]
    BY EmptyIndexType DEF NoItems
  <2>5. u \in JobState /\ u.att = b.att /\ u.key = b.key
    BY <1>1, <2>3, <2>4 DEF JobState, Checkpoint
  <2>6. [s EXCEPT !.ix = DropStale(b, s.ix)] \in Snapshot
    BY <2>2, <2>3, DropStaleType DEF Snapshot
  <2>7. Fetched(b) \subseteq Chats
    BY DEF Fetched
  <2>8. v \in JobState /\ v.att = b.att /\ v.key = b.key
    BY <1>1, <2>6, <2>7 DEF JobState
  <2>9. \/ SetJob(j, u) /\ Unlock(j)
        \/ EndJob(j)
        \/ SetJob(j, v) /\ Lock(j)
    BY <2>1 DEF s
  <2> HIDE DEF u, v
  <2>10. b.key \in Keys
    BY <1>2, <1>6 DEF JobRead
  <2>11. JobTypeOK' /\ LockTypeOK'
    BY <1>1, <2>5, <2>8, <2>9, <2>10, SetJobType, EndJobType, LockType
  <2> QED
    BY <1>6, <1>u, <2>11 DEF JobRead
<1>7. ASSUME NEW c \in Chats, JobProbe(j, c)
      PROVE  JobTypeOK' /\ LockTypeOK'
             /\ (pub' \in Publication) /\ UNCHANGED <<chat, sourceRev, curKey, task>>
  <2>1. b.snap.ix \in Index /\ b.items[c] \in Entry
    BY <1>1 DEF JobState, Snapshot
  <2>2. PICK new \in Index : SetJob(j, [b EXCEPT !.todo = @ \ {c}, !.snap.ix = new])
    BY <1>7, <2>1, UpsertType DEF JobProbe
  <2> DEFINE u == [b EXCEPT !.todo = @ \ {c}, !.snap.ix = new]
  <2>3. [b.snap EXCEPT !.ix = new] \in Snapshot
    BY <1>1 DEF Snapshot
  <2>4. u \in JobState /\ u.att = b.att /\ u.key = b.key
    BY <1>1, <2>3 DEF JobState
  <2>5. SetJob(j, u)
    BY <2>2
  <2> HIDE DEF u
  <2>6. JobTypeOK'
    BY <1>1, <1>2, <1>7, <2>4, <2>5, SetJobType DEF JobProbe
  <2> QED
    BY <1>7, <1>u, <2>6 DEF JobProbe, LockTypeOK
<1>8. CASE JobPublish(j)
  <2> DEFINE s == [b.snap EXCEPT !.ix = PageIndex(b)]
             u == [b EXCEPT !.pc = "list", !.cursor = b.next, !.prior = b.prior \/ b.failed,
                            !.items = NoItems, !.failed = FALSE, !.snap = NoSnapshot]
  <2>1. s \in Snapshot
    BY <1>1, PageIndexType DEF Snapshot
  <2>2. pub' = Published(s, PageCovered(b), PageIncomplete(b), b.key)
    BY <1>8 DEF JobPublish
  <2>3. b.key \in Keys
    BY <1>2, <1>8 DEF JobPublish, ReadyToPublish
  <2>4. pub' \in Publication
    BY <1>1, <2>1, <2>2, <2>3, PageIndexType, PublishedType
  <2>5. NoItems \in [Chats -> Entry]
    BY EmptyIndexType DEF NoItems
  <2>6. u \in JobState /\ u.att = b.att /\ u.key = b.key
    BY <1>1, <2>5, NoSnapshotType DEF JobState
  <2>7. EndJob(j) \/ (SetJob(j, u) /\ Unlock(j))
    BY <1>8 DEF JobPublish
  <2> HIDE DEF u
  <2>8. JobTypeOK' /\ LockTypeOK'
    BY <1>1, <2>3, <2>6, <2>7, SetJobType, EndJobType, LockType
  <2> QED
    BY <1>8, <2>4, <2>8 DEF JobPublish
<1>9. CASE JobConflict(j)
  <2>1. CASE EndJob(j)
    BY <1>9, <1>u, <2>1, EndJobType DEF JobConflict
  <2>2. CASE /\ MayRetry(b.att)
             /\ SetJob(j, [b EXCEPT !.pc = "read", !.att = @ + 1, !.snap = NoSnapshot])
             /\ UNCHANGED lock
    <3> DEFINE u == [b EXCEPT !.pc = "read", !.att = @ + 1, !.snap = NoSnapshot]
    <3>0. b.att \in Nat /\ b.att + 1 \in Nat
      BY <1>1 DEF JobState
    <3>1. u \in JobState /\ u.att = b.att + 1 /\ u.key = b.key
      BY <1>1, <3>0, NoSnapshotType DEF JobState
    <3>2. b.key \in Keys /\ b.att + 1 < MaxAttempts
      BY <1>2, <1>9, <2>2 DEF JobConflict, ReadyToPublish, MayRetry
    <3>3. SetJob(j, u)
      BY <2>2
    <3> HIDE DEF u
    <3>4. JobTypeOK'
      BY <3>1, <3>2, <3>3, SetJobType
    <3> QED
      BY <1>9, <1>u, <2>2, <3>4 DEF JobConflict, LockTypeOK
  <2> QED
    BY <1>9, <2>1, <2>2 DEF JobConflict
<1>10. CASE JobAbort(j)
  BY <1>10, <1>u, EndJobType DEF JobAbort
<1> QED
  BY <1>4, <1>5, <1>6, <1>7, <1>8, <1>9, <1>10 DEF JobStep

LEMMA TypeStep == TypeOK /\ [Next]_vars => TypeOK'
<1> SUFFICES ASSUME TypeOK, [Next]_vars PROVE TypeOK'
  OBVIOUS
<1>1. CASE UNCHANGED vars
  BY <1>1 DEF vars, TypeOK, TaskTypeOK, JobTypeOK, LockTypeOK
<1> QED
  BY <1>1, ClientTypeOK, TaskStepTypeOK, JobStartTypeOK, JobStepTypeOK DEF Next

LEMMA InitTypeOK == Init => TypeOK
<1> SUFFICES ASSUME Init PROVE TypeOK
  OBVIOUS
<1>1. NoPublication \in Publication
  BY EmptyIndexType DEF NoPublication, Publication
<1>2. IdleTask.att = 0 /\ IdleTask.pc = "idle"
  BY DEF IdleTask, NewTask
<1>3. TaskTypeOK
  BY <1>2, IdleType, ConstantsOK DEF Init, TaskTypeOK
<1>4. \A j \in Jobs : IdleJob(j).att = 0 /\ IdleJob(j).pc = "idle"
  BY DEF IdleJob
<1>5. JobTypeOK
  BY <1>4, IdleType, ConstantsOK DEF Init, JobTypeOK
<1> QED
  BY <1>1, <1>3, <1>5 DEF Init, TypeOK, LockTypeOK

\* Every variable keeps its type, and no writer exceeds its attempts
\* (maxSearchPublishRetries), in every behaviour, whatever the environment does.
THEOREM TypeCorrect == Spec => []TypeOK
BY InitTypeOK, TypeStep, PTL DEF Spec
-----------------------------------------------------------------------------
(* The compare-and-set on the generation makes the read-modify-write of a   *)
(* push or delete safe, in any environment.                                 *)

LEMMA FreshFrame ==
    ASSUME TypeOK, TypeOK', WritersFresh, pub' = pub \/ pub.gen < pub'.gen,
           \A w \in Workers : task'[w] = task[w] \/ TaskFresh(pub', task'[w])
    PROVE  WritersFresh'
<1> SUFFICES ASSUME NEW w \in Workers PROVE TaskFresh(pub', task'[w])
  BY DEF WritersFresh
<1>1. pub.gen \in Nat /\ pub'.gen \in Nat /\ task[w].snap.gen \in Nat
  BY DEF TypeOK, TaskTypeOK, Publication, Task, Snapshot
<1> QED
  BY <1>1 DEF WritersFresh, TaskFresh

\* A task that is not about to publish.
LEMMA UnreadFresh ==
    ASSUME TypeOK, NEW pc, pc \notin {"probe", "publish"}, NEW op, NEW c, NEW e, NEW r, NEW k
    PROVE  /\ TaskFresh(pub, NewTask(pc, op, c, e, r, k))
           /\ TaskFresh(pub', NewTask(pc, op, c, e, r, k))
           /\ TaskFresh(pub, IdleTask) /\ TaskFresh(pub', IdleTask)
BY DEF TaskFresh, NewTask, IdleTask

LEMMA ToPublishFresh ==
    ASSUME TypeOK, NEW w \in Workers, task[w].chat \in Chats, NEW s \in Snapshot,
           NEW ix \in Index, NEW adv \in BOOLEAN, ToPublish(w, s, ix, adv),
           s.gen <= pub.gen,
           s.gen = pub.gen /\ s.ok =>
               \A c \in Chats \ {task[w].chat} : s.ix.chats[c] = pub.ix.chats[c],
           \A c \in Chats \ {task[w].chat} : ix.chats[c] = s.ix.chats[c]
    PROVE  /\ TaskFresh(pub, task'[w])
           /\ \A x \in Workers \ {w} : task'[x] = task[x]
<1> DEFINE o   == task[w]
           ix2 == [ix EXCEPT !.inc = ~adv]
           s2  == [s EXCEPT !.ix = ix2]
           t   == [o EXCEPT !.pc = "publish", !.snap = s2,
                     !.covered = IF adv THEN o.rev ELSE s.published,
                     !.inc = ~adv]
<1>1. o \in Task
  BY DEF TypeOK, TaskTypeOK
<1>2. task'[w] = t /\ \A x \in Workers \ {w} : task'[x] = task[x]
  BY DEF ToPublish, SetTask, TypeOK, TaskTypeOK
<1>3. s2.ix = ix2 /\ s2.gen = s.gen /\ s2.ok = s.ok /\ ix2.chats = ix.chats
  BY DEF Snapshot, Index
<1>4. t.chat = o.chat /\ t.snap = s2
  BY <1>1 DEF Task
<1> HIDE DEF t, s2, ix2
<1> QED
  BY <1>2, <1>3, <1>4 DEF TaskFresh

LEMMA IndexMergeFresh ==
    ASSUME TypeOK, NEW w \in Workers, task[w].chat \in Chats, NEW s \in Snapshot,
           IndexMerge(w, s), s.gen <= pub.gen,
           s.gen = pub.gen /\ s.ok =>
               \A c \in Chats \ {task[w].chat} : s.ix.chats[c] = pub.ix.chats[c]
    PROVE  /\ TaskFresh(pub, task'[w])
           /\ \A x \in Workers \ {w} : task'[x] = task[x]
<1> DEFINE t == task[w]
           e == [etag |-> t.etag, rev |-> t.rev, body |-> t.rev]
           ix == Upsert(s.ix, t.chat, e)
<1>1. e \in Entry /\ s.ix \in Index
  BY DEF TypeOK, TaskTypeOK, Task, Entry, Snapshot
<1>2. ix \in Index /\ \A c \in Chats \ {t.chat} : ix.chats[c] = s.ix.chats[c]
  <2>1. ix \in Index
    BY <1>1, UpsertType
  <2>2. \A c \in Chats \ {t.chat} : ix.chats[c] = s.ix.chats[c]
    BY <1>1 DEF Upsert, Index
  <2> QED
    BY <2>1, <2>2
<1>3. CanAdvance(s, t.rev) \in BOOLEAN
  BY DEF CanAdvance, Snapshot
<1>4. CASE EndTask(w)
  BY <1>4, UnreadFresh DEF EndTask, SetTask, TypeOK, TaskTypeOK, TaskFresh, IdleTask, NewTask
<1>5. CASE ToPublish(w, s, ix, CanAdvance(s, t.rev))
  <2> HIDE DEF ix
  <2> QED
    BY <1>2, <1>3, <1>5, ToPublishFresh
<1> QED
  BY <1>4, <1>5 DEF IndexMerge

LEMMA TaskStepFresh ==
    ASSUME TypeOK, TypeOK', WritersFresh, NEW w \in Workers, TaskStep(w) \/ TaskAbandon(w)
    PROVE  WritersFresh'
<1> DEFINE t == task[w]
           c == t.chat
           Done == /\ TaskFresh(pub, task'[w])
                   /\ \A x \in Workers \ {w} : task'[x] = task[x]
<1>1. t \in Task /\ t.snap \in Snapshot /\ t.snap.ix \in Index
  BY DEF TypeOK, TaskTypeOK, Task, Snapshot
<1>2. /\ t.pc # "idle" /\ c \in Chats
      /\ ~TaskPublish(w) => UNCHANGED pub
  BY DEF TaskStep, TaskAbandon, IndexRead, IndexProbe, DropCheck, DropRead, TaskPublish,
         TaskConflict, TypeOK, TaskTypeOK
<1>3. ASSUME NEW ok \in LoadOutcomes(t.key)
      PROVE  /\ ReadState(ok) \in Snapshot /\ ReadState(ok).ix \in Index
             /\ ReadState(ok).gen <= pub.gen
             /\ ReadState(ok).ok => ReadState(ok).ix = pub.ix
  <2>1. pub.gen \in Nat
    BY DEF TypeOK, Publication
  <2> QED
    BY <1>3, <2>1, ReadStateType DEF ReadState, Snapshot
<1>4. ASSUME NEW t2, SetTask(w, t2), TaskFresh(pub, t2) PROVE Done
  BY <1>4 DEF SetTask, TypeOK, TaskTypeOK
<1>5. EndTask(w) => Done
  BY <1>4, UnreadFresh DEF EndTask, TaskFresh, IdleTask, NewTask
<1>6. ASSUME Done, ~TaskPublish(w) PROVE WritersFresh'
  BY <1>2, <1>6, FreshFrame
<1>7. ASSUME NEW ix \in Index
      PROVE  /\ Remove(ix, c) \in Index
             /\ \A d \in Chats \ {c} : Remove(ix, c).chats[d] = ix.chats[d]
  BY <1>2, EmptyIndexType, UpsertType DEF Remove, Index
<1> HIDE DEF Done
<1>8. CASE IndexRead(w)
  <2>1. PICK ok \in LoadOutcomes(t.key) :
           \/ IndexMerge(w, ReadState(ok))
           \/ SetTask(w, [t EXCEPT !.pc = "probe", !.snap = ReadState(ok)])
    BY <1>8 DEF IndexRead
  <2>2. ASSUME IndexMerge(w, ReadState(ok))
       PROVE  Done
    BY <1>2, <1>3, <2>2, IndexMergeFresh DEF Done
  <2>3. ASSUME SetTask(w, [t EXCEPT !.pc = "probe", !.snap = ReadState(ok)])
       PROVE  Done
    <3> DEFINE t2 == [t EXCEPT !.pc = "probe", !.snap = ReadState(ok)]
    <3>1. t2.snap = ReadState(ok) /\ t2.chat = c
      BY <1>1 DEF Task
    <3>2. SetTask(w, t2)
      BY <2>3
    <3> HIDE DEF t2
    <3>3. TaskFresh(pub, t2)
      BY <1>3, <3>1 DEF TaskFresh
    <3> QED
      BY <1>4, <3>2, <3>3
  <2>4. Done
    BY <2>1, <2>2, <2>3
  <2>5. ~TaskPublish(w)
    BY <1>8 DEF IndexRead, TaskPublish
  <2> QED
    BY <1>6, <2>4, <2>5
<1>9. CASE IndexProbe(w)
  <2>1. /\ t.snap.gen <= pub.gen
        /\ t.snap.gen = pub.gen /\ t.snap.ok =>
              \A d \in Chats \ {c} : t.snap.ix.chats[d] = pub.ix.chats[d]
    BY <1>9 DEF IndexProbe, WritersFresh, TaskFresh
  <2>2. ASSUME IndexMerge(w, t.snap)
       PROVE  Done
    BY <1>1, <1>2, <2>1, <2>2, IndexMergeFresh DEF Done
  <2>3. ASSUME ToPublish(w, t.snap, Remove(t.snap.ix, c), FALSE)
       PROVE  Done
    BY <1>1, <1>2, <1>7, <2>1, <2>3, ToPublishFresh DEF Done
  <2>4. Done
    BY <1>5, <1>9, <2>2, <2>3 DEF IndexProbe
  <2>5. ~TaskPublish(w)
    BY <1>9 DEF IndexProbe, TaskPublish
  <2> QED
    BY <1>6, <2>4, <2>5
<1>10. CASE DropRead(w)
  <2>1. PICK ok \in LoadOutcomes(t.key) :
           \/ EndTask(w)
           \/ ToPublish(w, ReadState(ok), Remove(ReadState(ok).ix, c),
                        CanAdvance(ReadState(ok), t.rev))
    BY <1>10 DEF DropRead
  <2> DEFINE s == ReadState(ok)
  <2>2. /\ s \in Snapshot /\ s.ix \in Index /\ s.gen <= pub.gen
        /\ s.ok => s.ix = pub.ix
    BY <1>3
  <2>3. EndTask(w) \/ ToPublish(w, s, Remove(s.ix, c), CanAdvance(s, t.rev))
    BY <2>1
  <2> HIDE DEF s
  <2>4. CanAdvance(s, t.rev) \in BOOLEAN
    BY <2>2 DEF CanAdvance, Snapshot
  <2>5. Done
    BY <1>2, <1>5, <1>7, <2>2, <2>3, <2>4, ToPublishFresh DEF Done
  <2>6. ~TaskPublish(w)
    BY <1>10 DEF DropRead, TaskPublish
  <2> QED
    BY <1>6, <2>5, <2>6
<1>11. CASE DropCheck(w)
  <2> DEFINE t2 == [t EXCEPT !.pc = "read"]
  <2>1. EndTask(w) \/ SetTask(w, t2)
    BY <1>11 DEF DropCheck
  <2>2. TaskFresh(pub, t2)
    BY <1>1 DEF TaskFresh, Task
  <2> HIDE DEF t2
  <2>3. Done
    BY <1>4, <1>5, <2>1, <2>2
  <2>4. ~TaskPublish(w)
    BY <1>11 DEF DropCheck, TaskPublish
  <2> QED
    BY <1>6, <2>3, <2>4
<1>12. CASE TaskConflict(w)
  <2> DEFINE n  == NewTask("read", t.op, c, t.etag, t.rev, t.key)
             t2 == [n EXCEPT !.att = t.att + 1]
  <2>1. EndTask(w) \/ SetTask(w, t2)
    BY <1>12 DEF TaskConflict
  <2>2. TaskFresh(pub, t2)
    BY DEF TaskFresh, NewTask
  <2> HIDE DEF t2
  <2>3. Done
    BY <1>4, <1>5, <2>1, <2>2
  <2>4. ~TaskPublish(w)
    BY <1>12 DEF TaskConflict, TaskPublish
  <2> QED
    BY <1>6, <2>3, <2>4
<1>13. CASE TaskAbandon(w) /\ ~TaskPublish(w)
  BY <1>5, <1>6, <1>13 DEF TaskAbandon
<1>14. CASE TaskPublish(w)
  <2>1. EndTask(w) /\ pub' = Published(t.snap, t.covered, t.inc, t.key)
    BY <1>14 DEF TaskPublish
  <2>2. pub.gen < pub'.gen
    <3>1. pub.gen \in Nat
      BY DEF TypeOK, Publication
    <3> QED
      BY <2>1, <3>1 DEF Published
  <2>3. \A x \in Workers : task'[x] = task[x] \/ task'[x] = IdleTask
    BY <2>1 DEF EndTask, SetTask, TypeOK, TaskTypeOK
  <2>4. TaskFresh(pub', IdleTask)
    BY DEF TaskFresh, IdleTask, NewTask
  <2> QED
    BY <2>2, <2>3, <2>4, FreshFrame
<1> QED
  BY <1>8, <1>9, <1>10, <1>11, <1>12, <1>13, <1>14 DEF TaskStep

LEMMA ClientFresh ==
    ASSUME TypeOK, TypeOK', WritersFresh, ClientStep
    PROVE  WritersFresh'
<1>1. pub' = pub \/ pub.gen < pub'.gen
  <2>1. pub.gen \in Nat
    BY DEF TypeOK, Publication
  <2> QED
    BY <2>1, FencedType DEF ClientStep, Push, Delete, DeleteMiss, Rewrap, RegisterFresh,
                            RegisterKey
<1>2. ASSUME NEW w \in Workers, NEW pc \in {"read", "check"}, NEW op, NEW c, NEW e,
             NEW r, NEW k, SetTask(w, NewTask(pc, op, c, e, r, k))
      PROVE  WritersFresh'
  <2> DEFINE t == NewTask(pc, op, c, e, r, k)
  <2>1. TaskFresh(pub', t)
    BY DEF TaskFresh, NewTask
  <2>2. SetTask(w, t)
    BY <1>2
  <2> HIDE DEF t
  <2>3. \A x \in Workers : task'[x] = task[x] \/ task'[x] = t
    BY <2>2 DEF SetTask, TypeOK, TaskTypeOK
  <2> QED
    BY <1>1, <2>1, <2>3, FreshFrame
<1>3. UNCHANGED task => WritersFresh'
  BY <1>1, FreshFrame
<1>4. ASSUME NEW w \in Workers, NEW c \in Chats, NEW k \in Keys,
             Push(w, c, k) \/ Delete(w, c, k) \/ DeleteMiss(w, c, k)
      PROVE  WritersFresh'
  BY <1>2, <1>4 DEF Push, Delete, DeleteMiss
<1> QED
  BY <1>3, <1>4 DEF ClientStep, Rewrap, RegisterFresh, RegisterKey

\* Only the publication of a push or delete ends it and moves the record.
LEMMA FreshStep ==
    ASSUME TypeOK, WritersFresh, [Next]_vars
    PROVE  WritersFresh' /\ (\A w \in Workers : OthersKept(w))
<1>1. TypeOK'
  BY TypeStep
<1>2. ASSUME UNCHANGED task, pub' = pub \/ pub.gen < pub'.gen
      PROVE  WritersFresh' /\ (\A w \in Workers : OthersKept(w))
  <2>1. WritersFresh'
    BY <1>1, <1>2, FreshFrame
  <2> QED
    BY <1>2, <2>1 DEF OthersKept
<1>3. CASE UNCHANGED vars
  BY <1>2, <1>3 DEF vars
<1>4. CASE ClientStep
  <2>1. WritersFresh'
    BY <1>1, <1>4, ClientFresh
  <2>2. \A w \in Workers : OthersKept(w)
    BY <1>4 DEF ClientStep, Push, Delete, DeleteMiss, Rewrap, RegisterFresh, RegisterKey,
                OthersKept
  <2> QED
    BY <2>1, <2>2
<1>5. ASSUME NEW v \in Workers, TaskStep(v) \/ TaskAbandon(v)
      PROVE  WritersFresh' /\ (\A w \in Workers : OthersKept(w))
  <2>1. WritersFresh'
    BY <1>1, <1>5, TaskStepFresh
  <2>2. ASSUME NEW w \in Workers, task[w].pc = "publish", task'[w].pc = "idle",
               pub' # pub, task[w].snap.ok, NEW c \in Chats \ {task[w].chat}
        PROVE  pub'.ix.chats[c] = pub.ix.chats[c]
    <3>1. TaskPublish(v)
      BY <1>5, <2>2 DEF TaskStep, TaskAbandon, IndexRead, IndexProbe, DropCheck, DropRead,
                        TaskConflict
    <3>2. w = v
      BY <2>2, <3>1 DEF TaskPublish, EndTask, SetTask, TypeOK, TaskTypeOK
    <3>3. pub'.ix = task[w].snap.ix /\ task[w].snap.gen = pub.gen
      BY <3>1, <3>2 DEF TaskPublish, Published, PublishAccepted
    <3> QED
      BY <2>2, <3>3 DEF WritersFresh, TaskFresh
  <2> QED
    BY <2>1, <2>2 DEF OthersKept
<1>6. ASSUME NEW j \in Jobs, NEW k \in Keys, JobStart(j, k)
      PROVE  WritersFresh' /\ (\A w \in Workers : OthersKept(w))
  BY <1>2, <1>6 DEF JobStart
<1>7. ASSUME NEW j \in Jobs, JobStep(j) \/ JobAbort(j)
      PROVE  WritersFresh' /\ (\A w \in Workers : OthersKept(w))
  <2>1. pub.gen \in Nat
    BY DEF TypeOK, Publication
  <2>2. UNCHANGED task /\ (pub' = pub \/ pub'.gen = pub.gen + 1)
    <3>1. JobPublish(j) => UNCHANGED task /\ pub'.gen = pub.gen + 1
      BY DEF JobPublish, Published
    <3>2. JobList(j) \/ JobRead(j) \/ JobConflict(j) \/ JobAbort(j) => UNCHANGED <<task, pub>>
      BY DEF JobAbort, JobList, JobRead, JobConflict
    <3>3. \A c \in Chats : JobFetch(j, c) \/ JobProbe(j, c) => UNCHANGED <<task, pub>>
      BY DEF JobFetch, JobProbe
    <3> QED
      BY <1>7, <3>1, <3>2, <3>3 DEF JobStep
  <2> QED
    BY <1>2, <2>1, <2>2
<1> QED
  BY <1>3, <1>4, <1>5, <1>6, <1>7 DEF Next

\* A push or a delete that publishes leaves every other chat's entry as it was
\* (the generation check of publishSearchIndex), for any number of replicas and
\* in any environment: lost objects, rewraps, several keys, faults.
THEOREM LostUpdateFree == Spec => NoLostUpdate
<1>1. Init => WritersFresh
  BY DEF Init, WritersFresh, TaskFresh, IdleTask, NewTask
<1>2. TypeOK /\ WritersFresh /\ [Next]_vars => WritersFresh' /\ (\A w \in Workers : OthersKept(w))
  BY FreshStep
<1>3. Spec => []WritersFresh
  BY <1>1, <1>2, TypeCorrect, PTL DEF Spec
<1>4. TypeOK /\ WritersFresh /\ [Next]_vars => [\A w \in Workers : OthersKept(w)]_vars
  BY <1>2
<1> QED
  BY <1>3, <1>4, TypeCorrect, PTL DEF Spec, NoLostUpdate
-----------------------------------------------------------------------------
(* The per-user lock protects a recreated chat from a late cleanup, within  *)
(* one enclave.  First, what a step of a task or of a job makes of its      *)
(* state, of the lock and of the publication.                               *)

LEMMA LockMove ==
    ASSUME TypeOK, NEW p \in Procs,
           \/ CanLock(p) /\ Lock(p)
           \/ Unlock(p)
           \/ UNCHANGED lock
    PROVE  /\ \A q \in Procs \ {p} : lock[ReplicaOf[q]] = q => lock'[ReplicaOf[q]] = q
           /\ Lock(p) => lock'[ReplicaOf[p]] = p
BY ConstantsOK DEF CanLock, Lock, Unlock, TypeOK, LockTypeOK

\* Indices that writers make of written ones.
LEMMA WrittenIndex ==
    ASSUME NEW n \in Nat, NEW ix \in Index, Written(n, ix), NEW c \in Chats
    PROVE  /\ \A e \in Entry : e.body <= n => Written(n, Upsert(ix, c, e))
           /\ Written(n, Remove(ix, c))
           /\ \A inc : Written(n, [ix EXCEPT !.inc = inc])
           /\ Written(n, EmptyIndex)
BY EmptyIndexType DEF Written, Upsert, Remove, Index, Entry, EmptyIndex, NoEntry

LEMMA ReadStateWritten ==
    ASSUME TypeOK, ContentsWritten, NEW k, NEW ok \in LoadOutcomes(k)
    PROVE  /\ ReadState(ok) \in Snapshot /\ ReadState(ok).ix \in Index
           /\ Written(sourceRev, ReadState(ok).ix)
<1>1. pub.ix \in Index /\ sourceRev \in Nat
  BY DEF TypeOK, Publication
<1>2. Written(sourceRev, EmptyIndex)
  BY <1>1 DEF Written, EmptyIndex, NoEntry
<1> QED
  BY <1>2, ReadStateType DEF ReadState, Snapshot, ContentsWritten

\* The next state of a task.
TaskBecomes(w, t2) ==
    /\ SetTask(w, t2) /\ TaskWritten(sourceRev, t2)
    /\ \/ t2.pc = "idle" /\ Unlock(w)
       \/ /\ Lock(w) /\ CanLock(w) /\ pub' = pub
          /\ t2.op = task[w].op /\ t2.chat = task[w].chat
          /\ t2.pc \in {"read", "probe", "publish"}
          /\ task[w].pc # "check" \/ ~Live(task[w].chat)

LEMMA EndTaskForm ==
    ASSUME TypeOK, NEW w \in Workers, EndTask(w)
    PROVE  \E t2 : TaskBecomes(w, t2)
<1>1. IdleTask.pc = "idle" /\ TaskWritten(sourceRev, IdleTask)
  BY DEF TypeOK, IdleTask, NewTask, NoSnapshot, TaskWritten, Written, EmptyIndex, NoEntry
<1> QED
  BY <1>1 DEF EndTask, TaskBecomes

LEMMA ToPublishForm ==
    ASSUME TypeOK, ContentsWritten, NEW w \in Workers, NEW s \in Snapshot,
           NEW ix \in Index, NEW adv, ToPublish(w, s, ix, adv), Written(sourceRev, ix),
           CanLock(w), pub' = pub, task[w].pc # "check"
    PROVE  \E t2 : TaskBecomes(w, t2)
<1> DEFINE o   == task[w]
           ix2 == [ix EXCEPT !.inc = ~adv]
           s2  == [s EXCEPT !.ix = ix2]
           t2  == [o EXCEPT !.pc = "publish", !.snap = s2,
                     !.covered = IF adv THEN o.rev ELSE s.published,
                     !.inc = ~adv]
<1>1. o \in Task /\ o.rev <= sourceRev
  BY DEF TypeOK, TaskTypeOK, ContentsWritten, TaskWritten
<1>2. s2.ix = ix2 /\ ix2.chats = ix.chats
  BY DEF Snapshot, Index
<1>3. SetTask(w, t2) /\ Lock(w)
  BY DEF ToPublish
<1> HIDE DEF s2, ix2
<1>4. t2.pc = "publish" /\ t2.op = o.op /\ t2.chat = o.chat /\ t2.rev = o.rev /\ t2.snap = s2
  BY <1>1 DEF Task
<1> HIDE DEF t2
<1> QED
  BY <1>1, <1>2, <1>3, <1>4 DEF TaskBecomes, TaskWritten, Written

LEMMA IndexMergeForm ==
    ASSUME TypeOK, ContentsWritten, NEW w \in Workers, task[w].chat \in Chats,
           NEW s \in Snapshot, IndexMerge(w, s), Written(sourceRev, s.ix),
           CanLock(w), pub' = pub, task[w].pc # "check"
    PROVE  \E t2 : TaskBecomes(w, t2)
<1> DEFINE t  == task[w]
           e  == [etag |-> t.etag, rev |-> t.rev, body |-> t.rev]
           ix == Upsert(s.ix, t.chat, e)
<1>1. e \in Entry /\ s.ix \in Index /\ e.body <= sourceRev /\ sourceRev \in Nat
  BY DEF TypeOK, TaskTypeOK, Task, Entry, Snapshot, ContentsWritten, TaskWritten
<1>2. ix \in Index /\ Written(sourceRev, ix)
  BY <1>1, UpsertType, WrittenIndex
<1>3. EndTask(w) \/ ToPublish(w, s, ix, CanAdvance(s, t.rev))
  BY DEF IndexMerge
<1> HIDE DEF ix
<1> QED
  BY <1>2, <1>3, EndTaskForm, ToPublishForm

LEMMA TaskForm ==
    ASSUME TypeOK, ContentsWritten, PublishersLock, NEW w \in Workers,
           TaskStep(w) \/ TaskAbandon(w)
    PROVE  /\ UNCHANGED <<chat, sourceRev, job>>
           /\ pub' = pub \/ (task[w].pc = "publish" /\ pub'.ix = task[w].snap.ix)
           /\ task[w].pc # "idle"
           /\ \E t2 : TaskBecomes(w, t2)
<1> DEFINE t == task[w]
           c == t.chat
<1>1. t \in Task /\ t.snap \in Snapshot /\ t.snap.ix \in Index /\ sourceRev \in Nat
      /\ lock \in [Replicas -> Procs \cup {None}] /\ ReplicaOf[w] \in Replicas
  BY ConstantsOK DEF TypeOK, TaskTypeOK, Task, Snapshot, LockTypeOK
<1>2. /\ t.pc # "idle" /\ c \in Chats /\ UNCHANGED <<chat, sourceRev, job>>
      /\ ~TaskPublish(w) => UNCHANGED pub
  BY DEF TaskStep, TaskAbandon, IndexRead, IndexProbe, DropCheck, DropRead, TaskPublish,
         TaskConflict, TypeOK, TaskTypeOK
<1>3. /\ Holds(t) => CanLock(w)
      /\ t.rev <= sourceRev /\ Written(sourceRev, t.snap.ix)
  BY DEF PublishersLock, CanLock, ContentsWritten, TaskWritten
<1>4. CASE IndexRead(w)
  <2>1. t.pc = "read" /\ CanLock(w) /\ pub' = pub
    BY <1>4 DEF IndexRead
  <2>2. PICK ok \in LoadOutcomes(t.key) :
           \/ IndexMerge(w, ReadState(ok))
           \/ SetTask(w, [t EXCEPT !.pc = "probe", !.snap = ReadState(ok)]) /\ Lock(w)
    BY <1>4 DEF IndexRead
  <2>3. ASSUME IndexMerge(w, ReadState(ok)) PROVE \E t2 : TaskBecomes(w, t2)
    BY <1>2, <2>1, <2>3, ReadStateWritten, IndexMergeForm
  <2>4. ASSUME SetTask(w, [t EXCEPT !.pc = "probe", !.snap = ReadState(ok)]), Lock(w)
        PROVE  \E t2 : TaskBecomes(w, t2)
    <3> DEFINE t2 == [t EXCEPT !.pc = "probe", !.snap = ReadState(ok)]
    <3>1. t2.snap = ReadState(ok) /\ t2.chat = c /\ t2.op = t.op /\ t2.pc = "probe"
          /\ t2.rev = t.rev
      BY <1>1 DEF Task
    <3>2. SetTask(w, t2)
      BY <2>4
    <3> HIDE DEF t2
    <3> QED
      BY <1>3, <2>1, <2>4, <3>1, <3>2, ReadStateWritten DEF TaskBecomes, TaskWritten
  <2> QED
    BY <1>2, <2>1, <2>2, <2>3, <2>4
<1>5. CASE IndexProbe(w)
  <2>1. t.pc = "probe" /\ pub' = pub /\ CanLock(w)
    BY <1>3, <1>5 DEF IndexProbe, Holds
  <2>2. IndexMerge(w, t.snap) => \E t2 : TaskBecomes(w, t2)
    BY <1>1, <1>2, <1>3, <2>1, IndexMergeForm
  <2>3. Remove(t.snap.ix, c) \in Index /\ Written(sourceRev, Remove(t.snap.ix, c))
    BY <1>1, <1>2, <1>3, UpsertType, EmptyIndexType, WrittenIndex
  <2>4. ToPublish(w, t.snap, Remove(t.snap.ix, c), FALSE) => \E t2 : TaskBecomes(w, t2)
    BY <1>1, <2>1, <2>3, ToPublishForm
  <2> QED
    BY <1>2, <1>5, <2>1, <2>2, <2>4, EndTaskForm DEF IndexProbe
<1>6. CASE DropRead(w)
  <2>1. t.pc = "read" /\ t.op = "drop" /\ pub' = pub /\ CanLock(w)
    BY <1>3, <1>6 DEF DropRead, Holds
  <2>2. PICK ok \in LoadOutcomes(t.key) :
           \/ EndTask(w)
           \/ ToPublish(w, ReadState(ok), Remove(ReadState(ok).ix, c),
                        CanAdvance(ReadState(ok), t.rev))
    BY <1>6 DEF DropRead
  <2>3. /\ ReadState(ok) \in Snapshot /\ ReadState(ok).ix \in Index
        /\ Remove(ReadState(ok).ix, c) \in Index
        /\ Written(sourceRev, Remove(ReadState(ok).ix, c))
    BY <1>1, <1>2, ReadStateWritten, UpsertType, EmptyIndexType, WrittenIndex
  <2> QED
    BY <1>2, <2>1, <2>2, <2>3, EndTaskForm, ToPublishForm
<1>7. CASE DropCheck(w)
  <2> DEFINE t2 == [t EXCEPT !.pc = "read"]
  <2>1. CanLock(w) /\ pub' = pub /\ (EndTask(w) \/ (~Live(c) /\ SetTask(w, t2) /\ Lock(w)))
    BY <1>7 DEF DropCheck
  <2>2. t2.pc = "read" /\ t2.op = t.op /\ t2.chat = c /\ t2.rev = t.rev /\ t2.snap = t.snap
    BY <1>1 DEF Task
  <2> HIDE DEF t2
  <2> QED
    BY <1>2, <1>3, <2>1, <2>2, EndTaskForm DEF TaskBecomes, TaskWritten
<1>8. CASE TaskConflict(w)
  <2> DEFINE n  == NewTask("read", t.op, c, t.etag, t.rev, t.key)
             t2 == [n EXCEPT !.att = t.att + 1]
  <2>1. /\ t.pc = "publish" /\ pub' = pub
        /\ EndTask(w) \/ (SetTask(w, t2) /\ UNCHANGED lock)
    BY <1>8 DEF TaskConflict
  <2>2. CanLock(w) /\ lock[ReplicaOf[w]] = w
    BY <1>3, <2>1 DEF PublishersLock, Holds
  <2>3. UNCHANGED lock => Lock(w)
    BY <1>1, <2>2 DEF Lock
  <2>4. t2.pc = "read" /\ t2.op = t.op /\ t2.chat = c /\ t2.rev = t.rev /\ t2.snap = NoSnapshot
    BY DEF NewTask
  <2>5. Written(sourceRev, NoSnapshot.ix)
    BY <1>1 DEF NoSnapshot, Written, EmptyIndex, NoEntry
  <2> HIDE DEF t2
  <2> QED
    BY <1>2, <1>3, <2>1, <2>2, <2>3, <2>4, <2>5, EndTaskForm DEF TaskBecomes, TaskWritten
<1>9. CASE TaskPublish(w)
  <2>1. t.pc = "publish" /\ EndTask(w) /\ pub' = Published(t.snap, t.covered, t.inc, t.key)
    BY <1>9 DEF TaskPublish
  <2>2. pub'.ix = t.snap.ix
    BY <2>1 DEF Published
  <2> QED
    BY <1>2, <2>1, <2>2, EndTaskForm
<1>10. CASE TaskAbandon(w)
  BY <1>2, <1>10, EndTaskForm DEF TaskAbandon
<1> QED
  BY <1>4, <1>5, <1>6, <1>7, <1>8, <1>9, <1>10 DEF TaskStep

\* The next state of a job.
JobBecomes(j, b2) ==
    /\ SetJob(j, b2) /\ JobWritten(sourceRev, b2)
    /\ \/ CanLock(j) /\ Lock(j)
       \/ b2.pc # "probe" /\ Unlock(j)
       \/ UNCHANGED lock /\ (b2.pc = "probe" => job[j].pc = "probe")

LEMMA ItemsWritten ==
    ASSUME NEW n \in Nat
    PROVE  /\ \A c \in Chats : NoItems[c].body <= n
           /\ Written(n, NoSnapshot.ix)
           /\ \A j \in Jobs : IdleJob(j).pc = "idle" /\ JobWritten(n, IdleJob(j))
BY DEF NoItems, NoEntry, NoSnapshot, EmptyIndex, Written, JobWritten, IdleJob

LEMMA EndJobForm ==
    ASSUME TypeOK, NEW j \in Jobs, EndJob(j)
    PROVE  \E b2 : JobBecomes(j, b2)
<1>1. IdleJob(j).pc = "idle" /\ JobWritten(sourceRev, IdleJob(j))
  BY ItemsWritten DEF TypeOK
<1> QED
  BY <1>1 DEF EndJob, JobBecomes

LEMMA JobForm ==
    ASSUME TypeOK, ContentsWritten, PublishersLock, NEW j \in Jobs, JobStep(j) \/ JobAbort(j)
    PROVE  /\ UNCHANGED <<chat, sourceRev, task>>
           /\ \/ pub' = pub
              \/ job[j].pc = "probe" /\ Written(sourceRev, pub'.ix)
           /\ \E b2 : JobBecomes(j, b2)
<1> DEFINE b == job[j]
<1>1. b \in JobState /\ b.snap \in Snapshot /\ b.snap.ix \in Index /\ sourceRev \in Nat
  BY DEF TypeOK, JobTypeOK, JobState, Snapshot
<1>2. UNCHANGED <<chat, sourceRev, task>> /\ (~JobPublish(j) => UNCHANGED pub)
  BY DEF JobStep, JobAbort, JobList, JobFetch, JobRead, JobProbe, JobPublish, JobConflict
<1>3. Written(sourceRev, b.snap.ix) /\ \A c \in Chats : b.items[c].body <= sourceRev
  BY DEF ContentsWritten, JobWritten
<1>4. CASE JobList(j)
  <2>1. PICK next \in 0..sourceRev :
           SetJob(j, [b EXCEPT !.pc = "fetch", !.next = next, !.failed = FALSE,
                               !.items = NoItems, !.att = 0,
                               !.todo = {c \in PageAfter(b.cursor) : Live(c)}])
    BY <1>4 DEF JobList
  <2> DEFINE u == [b EXCEPT !.pc = "fetch", !.next = next, !.failed = FALSE,
                            !.items = NoItems, !.att = 0,
                            !.todo = {c \in PageAfter(b.cursor) : Live(c)}]
  <2>2. u.pc = "fetch" /\ u.snap = b.snap /\ u.items = NoItems
    BY <1>1 DEF JobState
  <2>3. SetJob(j, u) /\ UNCHANGED lock
    BY <1>4, <2>1 DEF JobList
  <2> HIDE DEF u
  <2>4. JobBecomes(j, u)
    BY <1>1, <1>3, <2>2, <2>3, ItemsWritten DEF JobBecomes, JobWritten
  <2> QED
    BY <1>2, <1>4, <2>4 DEF JobList
<1>5. ASSUME NEW c \in Chats, JobFetch(j, c) PROVE \E b2 : JobBecomes(j, b2)
  <2> DEFINE e == [etag |-> chat[c].etag, rev |-> b.target, body |-> chat[c].rev]
             u == [b EXCEPT !.todo = @ \ {c}, !.items[c] = e]
             v == [b EXCEPT !.todo = @ \ {c}, !.failed = TRUE]
  <2>1. (SetJob(j, u) \/ SetJob(j, v)) /\ b.pc = "fetch" /\ UNCHANGED lock
    BY <1>5 DEF JobFetch
  <2>2. e.body <= sourceRev
    BY DEF ContentsWritten, ChatOK
  <2> HIDE DEF e
  <2>3. u.snap = b.snap /\ u.pc = b.pc /\ u.items = [b.items EXCEPT ![c] = e]
        /\ b.items \in [Chats -> Entry]
    BY <1>1 DEF JobState
  <2>4. v.snap = b.snap /\ v.pc = b.pc /\ v.items = b.items
    BY <1>1 DEF JobState
  <2> HIDE DEF u, v
  <2>5. JobWritten(sourceRev, u) /\ JobWritten(sourceRev, v)
    BY <1>3, <2>2, <2>3, <2>4 DEF JobWritten
  <2> QED
    BY <2>1, <2>3, <2>4, <2>5 DEF JobBecomes
<1>6. CASE JobRead(j)
  <2>1. PICK ok \in LoadOutcomes(b.key) :
          LET s  == ReadState(ok)
              ck == s.ix.ckpt
          IN  \/ /\ SetJob(j, [b EXCEPT !.pc = "list", !.cursor = ck.cursor,
                                        !.target = ck.target, !.started = ck.started,
                                        !.items = NoItems, !.failed = FALSE])
                 /\ Unlock(j)
              \/ EndJob(j)
              \/ /\ SetJob(j, [b EXCEPT !.pc = "probe", !.todo = Fetched(b),
                                  !.snap = [s EXCEPT !.ix = DropStale(b, s.ix)]])
                 /\ Lock(j)
    BY <1>6 DEF JobRead
  <2> DEFINE s  == ReadState(ok)
             ck == s.ix.ckpt
             s2 == [s EXCEPT !.ix = DropStale(b, s.ix)]
             u  == [b EXCEPT !.pc = "list", !.cursor = ck.cursor, !.target = ck.target,
                             !.started = ck.started, !.items = NoItems, !.failed = FALSE]
             v  == [b EXCEPT !.pc = "probe", !.todo = Fetched(b), !.snap = s2]
  <2>2. s \in Snapshot /\ s.ix \in Index /\ Written(sourceRev, s.ix)
    BY ReadStateWritten
  <2>3. \/ SetJob(j, u) /\ Unlock(j)
        \/ EndJob(j)
        \/ SetJob(j, v) /\ Lock(j)
    BY <2>1
  <2> HIDE DEF s
  <2>4. Written(sourceRev, DropStale(b, s.ix))
    BY <1>1, <2>2 DEF Written, DropStale, Index, NoEntry
  <2>5. s2.ix = DropStale(b, s.ix)
    BY <2>2 DEF Snapshot
  <2> HIDE DEF s2
  <2>6. u.pc = "list" /\ u.snap = b.snap /\ u.items = NoItems
    BY <1>1 DEF JobState
  <2>7. v.pc = "probe" /\ v.snap = s2 /\ v.items = b.items
    BY <1>1 DEF JobState
  <2> HIDE DEF u, v
  <2>8. JobWritten(sourceRev, u) /\ JobWritten(sourceRev, v)
    BY <1>1, <1>3, <2>4, <2>5, <2>6, <2>7, ItemsWritten DEF JobWritten
  <2>9. CanLock(j)
    BY <1>6 DEF JobRead
  <2> QED
    BY <1>2, <1>6, <2>3, <2>6, <2>8, <2>9, EndJobForm DEF JobBecomes, JobRead
<1>7. ASSUME NEW c \in Chats, JobProbe(j, c) PROVE \E b2 : JobBecomes(j, b2)
  <2>1. b.items[c] \in Entry
    BY <1>1 DEF JobState
  <2>2. PICK new : /\ SetJob(j, [b EXCEPT !.todo = @ \ {c}, !.snap.ix = new])
                   /\ Written(sourceRev, new)
    BY <1>1, <1>3, <1>7, <2>1, WrittenIndex DEF JobProbe
  <2> DEFINE u == [b EXCEPT !.todo = @ \ {c}, !.snap.ix = new]
  <2>3. u.snap.ix = new /\ u.pc = b.pc /\ u.items = b.items
    BY <1>1 DEF JobState, Snapshot
  <2>4. SetJob(j, u) /\ b.pc = "probe" /\ UNCHANGED lock
    BY <1>7, <2>2 DEF JobProbe
  <2> HIDE DEF u
  <2> QED
    BY <1>3, <2>2, <2>3, <2>4 DEF JobBecomes, JobWritten
<1>8. CASE JobPublish(j)
  <2> DEFINE s == [b.snap EXCEPT !.ix = PageIndex(b)]
             u == [b EXCEPT !.pc = "list", !.cursor = b.next, !.prior = b.prior \/ b.failed,
                            !.items = NoItems, !.failed = FALSE, !.snap = NoSnapshot]
  <2>1. /\ b.pc = "probe" /\ pub'.ix = s.ix
        /\ EndJob(j) \/ (SetJob(j, u) /\ Unlock(j))
    BY <1>8 DEF JobPublish, ReadyToPublish, Published
  <2>2. s.ix = PageIndex(b)
    BY <1>1 DEF Snapshot
  <2>3. PageIndex(b).chats = b.snap.ix.chats
    BY <1>1 DEF PageIndex, Index
  <2>4. Written(sourceRev, pub'.ix)
    BY <1>3, <2>1, <2>2, <2>3 DEF Written
  <2>5. u.pc = "list" /\ u.snap = NoSnapshot /\ u.items = NoItems
    BY <1>1 DEF JobState
  <2> HIDE DEF u
  <2>6. JobWritten(sourceRev, u)
    BY <1>1, <2>5, ItemsWritten DEF JobWritten
  <2> QED
    BY <1>2, <2>1, <2>4, <2>5, <2>6, EndJobForm DEF JobBecomes
<1>9. CASE JobConflict(j)
  <2> DEFINE u == [b EXCEPT !.pc = "read", !.att = @ + 1, !.snap = NoSnapshot]
  <2>1. EndJob(j) \/ (SetJob(j, u) /\ UNCHANGED lock)
    BY <1>9 DEF JobConflict
  <2>2. u.pc = "read" /\ u.snap = NoSnapshot /\ u.items = b.items
    BY <1>1 DEF JobState
  <2> HIDE DEF u
  <2>3. JobWritten(sourceRev, u)
    BY <1>1, <1>3, <2>2, ItemsWritten DEF JobWritten
  <2> QED
    BY <1>2, <1>9, <2>1, <2>2, <2>3, EndJobForm DEF JobBecomes, JobConflict
<1>10. CASE JobAbort(j)
  BY <1>2, <1>10, EndJobForm DEF JobAbort
<1>11. \A c \in Chats : JobFetch(j, c) \/ JobProbe(j, c) => pub' = pub
  BY DEF JobFetch, JobProbe
<1> QED
  BY <1>2, <1>4, <1>5, <1>6, <1>7, <1>8, <1>9, <1>10, <1>11 DEF JobStep

LEMMA WrittenFrame ==
    ASSUME TypeOK, TypeOK', ContentsWritten, sourceRev <= sourceRev', ChatOK(chat, sourceRev)',
           \/ pub'.ix = pub.ix
           \/ Written(sourceRev, pub'.ix),
           \A w \in Workers : task'[w] = task[w] \/ TaskWritten(sourceRev', task'[w]),
           \A j \in Jobs : job'[j] = job[j] \/ JobWritten(sourceRev', job'[j])
    PROVE  ContentsWritten'
<1>1. sourceRev \in Nat /\ sourceRev' \in Nat
  BY DEF TypeOK
<1>2. ASSUME NEW ix \in Index, Written(sourceRev, ix) PROVE Written(sourceRev', ix)
  BY <1>1, <1>2 DEF Written, Index, Entry
<1>3. Written(sourceRev, pub'.ix) /\ pub'.ix \in Index
  BY DEF ContentsWritten, TypeOK, Publication
<1>4. ASSUME NEW w \in Workers PROVE TaskWritten(sourceRev', task'[w])
  <2>1. task[w] \in Task /\ TaskWritten(sourceRev, task[w])
    BY DEF TypeOK, TaskTypeOK, ContentsWritten
  <2>2. task[w].rev \in Nat /\ task[w].snap.ix \in Index
    BY <2>1 DEF Task, Snapshot
  <2>3. TaskWritten(sourceRev', task[w])
    BY <1>1, <1>2, <2>1, <2>2 DEF TaskWritten
  <2> QED
    BY <2>3
<1>5. ASSUME NEW j \in Jobs PROVE JobWritten(sourceRev', job'[j])
  <2>1. job[j] \in JobState /\ JobWritten(sourceRev, job[j])
    BY DEF TypeOK, JobTypeOK, ContentsWritten
  <2>2. job[j].snap.ix \in Index /\ job[j].items \in [Chats -> Entry]
    BY <2>1 DEF JobState, Snapshot
  <2>3. JobWritten(sourceRev', job[j])
    BY <1>1, <1>2, <2>1, <2>2 DEF JobWritten, Entry
  <2> QED
    BY <2>3
<1> QED
  BY <1>2, <1>3, <1>4, <1>5 DEF ContentsWritten

\* A step of a task in one enclave.
LEMMA TaskStepRecreation ==
    ASSUME OneEnclave, RecreationInv, TypeOK', NEW w \in Workers, TaskStep(w) \/ TaskAbandon(w)
    PROVE  RecreationInv'
<1>1. TypeOK /\ ContentsWritten /\ PublishersLock
  BY DEF RecreationInv
<1>2. /\ UNCHANGED <<chat, sourceRev, job>> /\ task[w].pc # "idle"
      /\ pub' = pub \/ (task[w].pc = "publish" /\ pub'.ix = task[w].snap.ix)
  BY <1>1, TaskForm
<1>3. PICK t2 : TaskBecomes(w, t2)
  BY <1>1, TaskForm
<1>4. task'[w] = t2 /\ \A x \in Workers \ {w} : task'[x] = task[x]
  BY <1>1, <1>3 DEF TaskBecomes, SetTask, TypeOK, TaskTypeOK
<1>5. ContentsWritten'
  <2>1. TaskWritten(sourceRev', task'[w])
    BY <1>2, <1>3, <1>4 DEF TaskBecomes
  <2>2. pub'.ix = pub.ix \/ Written(sourceRev, pub'.ix)
    BY <1>1, <1>2 DEF ContentsWritten, TaskWritten
  <2>3. ChatOK(chat, sourceRev)'
    BY <1>1, <1>2 DEF ContentsWritten
  <2>4. sourceRev <= sourceRev'
    BY <1>1, <1>2 DEF TypeOK
  <2> QED
    BY <1>1, <1>2, <1>4, <2>1, <2>2, <2>3, <2>4, WrittenFrame
<1>6. PublishersLock'
  <2>1. \A q \in Procs \ {w} : lock[ReplicaOf[q]] = q => lock'[ReplicaOf[q]] = q
    BY <1>1, <1>3, LockMove DEF TaskBecomes
  <2>2. t2.pc # "idle" => lock'[ReplicaOf[w]] = w
    BY <1>1, <1>3, LockMove DEF TaskBecomes
  <2>3. \A x \in Workers : Holds(task'[x]) => lock'[ReplicaOf[x]] = x
    BY <1>1, <1>4, <2>1, <2>2 DEF PublishersLock, Holds
  <2>4. \A j \in Jobs : job'[j].pc = "probe" => lock'[ReplicaOf[j]] = j
    BY <1>1, <1>2, <2>1, ConstantsOK DEF PublishersLock
  <2> QED
    BY <2>3, <2>4 DEF PublishersLock
<1>7. ASSUME NEW x \in Workers PROVE Unindexed(task[x])'
  <2>1. Unindexed(task[x])
    BY DEF RecreationInv
  <2>2. CASE x = w
    <3>1. CASE t2.pc = "idle"
      BY <1>4, <2>2, <3>1 DEF Unindexed
    <3>2. CASE t2.pc # "idle"
      BY <1>2, <1>3, <1>4, <2>1, <2>2, <3>2 DEF TaskBecomes, Unindexed, Live
    <3> QED
      BY <3>1, <3>2
  <2>3. CASE x # w /\ pub' = pub
    BY <1>2, <1>4, <2>1, <2>3 DEF Unindexed, Live
  <2>4. CASE x # w /\ pub' # pub /\ task[x].op = "drop" /\ task[x].pc \notin {"idle", "check"}
    <3>1. task[x] \in Task
      BY <1>1 DEF TypeOK, TaskTypeOK
    <3>2. Holds(task[x]) /\ Holds(task[w])
      BY <1>2, <2>4, <3>1 DEF Holds, Task
    <3>3. lock[ReplicaOf[x]] = x /\ lock[ReplicaOf[w]] = w
      BY <1>1, <3>2 DEF PublishersLock
    <3> QED
      BY <2>4, <3>3 DEF OneEnclave
  <2>5. CASE x # w /\ ~(task[x].op = "drop" /\ task[x].pc \notin {"idle", "check"})
    BY <1>4, <2>5 DEF Unindexed
  <2> QED
    BY <2>2, <2>3, <2>4, <2>5
<1> QED
  BY <1>5, <1>6, <1>7 DEF RecreationInv

\* A step that leaves chats, tasks and locks alone, and publishes only for one
\* that holds the lock.
LEMMA JobMoveRecreation ==
    ASSUME OneEnclave, RecreationInv, TypeOK', UNCHANGED <<chat, sourceRev, task>>,
           NEW j \in Jobs, NEW b2, JobBecomes(j, b2),
           \/ pub' = pub
           \/ job[j].pc = "probe" /\ Written(sourceRev, pub'.ix)
    PROVE  RecreationInv'
<1>1. TypeOK /\ ContentsWritten /\ PublishersLock
  BY DEF RecreationInv
<1>2. job'[j] = b2 /\ \A i \in Jobs \ {j} : job'[i] = job[i]
  BY <1>1 DEF JobBecomes, SetJob, TypeOK, JobTypeOK
<1>3. ContentsWritten'
  <2>1. JobWritten(sourceRev', job'[j])
    BY <1>2 DEF JobBecomes
  <2>2. ChatOK(chat, sourceRev)' /\ sourceRev <= sourceRev'
    BY <1>1 DEF ContentsWritten, TypeOK
  <2> QED
    BY <1>1, <1>2, <2>1, <2>2, WrittenFrame
<1>4. PublishersLock'
  <2>1. \A q \in Procs \ {j} : lock[ReplicaOf[q]] = q => lock'[ReplicaOf[q]] = q
    BY <1>1, LockMove DEF JobBecomes
  <2>2. b2.pc = "probe" => lock'[ReplicaOf[j]] = j
    BY <1>1, LockMove DEF JobBecomes, PublishersLock
  <2>3. \A x \in Workers : Holds(task'[x]) => lock'[ReplicaOf[x]] = x
    BY <1>1, <2>1, ConstantsOK DEF PublishersLock
  <2>4. \A i \in Jobs : job'[i].pc = "probe" => lock'[ReplicaOf[i]] = i
    BY <1>1, <1>2, <2>1, <2>2 DEF PublishersLock
  <2> QED
    BY <2>3, <2>4 DEF PublishersLock
<1>5. ASSUME NEW x \in Workers PROVE Unindexed(task[x])'
  <2>1. Unindexed(task[x])
    BY DEF RecreationInv
  <2>2. CASE pub' = pub
    BY <2>1, <2>2 DEF Unindexed, Live
  <2>3. CASE pub' # pub /\ task[x].op = "drop" /\ task[x].pc \notin {"idle", "check"}
    <3>1. task[x] \in Task
      BY <1>1 DEF TypeOK, TaskTypeOK
    <3>2. Holds(task[x])
      BY <2>3, <3>1 DEF Holds, Task
    <3>3. lock[ReplicaOf[x]] = x /\ lock[ReplicaOf[j]] = j
      BY <1>1, <2>3, <3>2 DEF PublishersLock
    <3> QED
      BY <3>3, ConstantsOK DEF OneEnclave
  <2>4. CASE ~(task[x].op = "drop" /\ task[x].pc \notin {"idle", "check"})
    BY <2>4 DEF Unindexed
  <2> QED
    BY <2>2, <2>3, <2>4
<1> QED
  BY <1>3, <1>4, <1>5 DEF RecreationInv

\* A client starts a task, at most, and writes under a new source revision.
LEMMA ClientRecreation ==
    ASSUME RecreationInv, TypeOK', ClientStep
    PROVE  RecreationInv'
<1>1. TypeOK /\ ContentsWritten /\ PublishersLock /\ sourceRev \in Nat /\ sourceRev' \in Nat
  BY DEF RecreationInv, TypeOK
<1>2. /\ chat \in [Chats -> [etag : Nat, rev : Nat, key : Keys \cup {None}]]
      /\ pub.ix \in Index
  BY <1>1 DEF TypeOK, Publication
<1>3. UNCHANGED <<job, lock>> /\ (pub' = pub \/ pub'.ix = EmptyIndex) /\ sourceRev <= sourceRev'
  BY <1>1, FencedType DEF ClientStep, Push, Delete, DeleteMiss, Rewrap, RegisterFresh, RegisterKey
\* A chat is as before, or has a revision never used before, or is gone.
<1>4. ASSUME NEW c \in Chats
      PROVE  /\ chat'[c].rev <= sourceRev'
             /\ Live(c)' => \/ chat'[c].rev = sourceRev' /\ sourceRev' = sourceRev + 1
                            \/ chat'[c].rev = chat[c].rev /\ Live(c)
  <2>1. chat[c].rev <= sourceRev /\ chat[c].rev \in Nat
    BY <1>1, <1>2 DEF ContentsWritten, ChatOK
  <2>2. ASSUME NEW w \in Workers, NEW d \in Chats, NEW k \in Keys,
               Push(w, d, k) \/ Delete(w, d, k) \/ DeleteMiss(w, d, k)
        PROVE  /\ chat'[c].rev <= sourceRev'
               /\ Live(c)' => \/ chat'[c].rev = sourceRev' /\ sourceRev' = sourceRev + 1
                              \/ chat'[c].rev = chat[c].rev /\ Live(c)
    BY <1>1, <1>2, <2>1, <2>2 DEF Push, Delete, DeleteMiss, Live
  <2>3. ASSUME NEW d \in Chats, NEW k \in Keys, Rewrap(d, k)
        PROVE  /\ chat'[c].rev <= sourceRev'
               /\ Live(c)' => chat'[c].rev = chat[c].rev /\ Live(c)
    BY <1>1, <1>2, <2>1, <2>3 DEF Rewrap, Live
  <2>4. ASSUME NEW k \in Keys, RegisterKey(k)
        PROVE  /\ chat'[c].rev <= sourceRev'
               /\ Live(c)' => chat'[c].rev = chat[c].rev /\ Live(c)
    BY <1>1, <2>1, <2>4 DEF RegisterKey, Live
  <2>5. ASSUME NEW k \in Keys, RegisterFresh(k)
        PROVE  chat'[c].rev <= sourceRev' /\ ~Live(c)'
    <3>1. PICK n \in sourceRev..MaxRev : \E f \in [Chats -> 0..n] :
             Wiped(n, f) /\ sourceRev' = n
      BY <2>5 DEF RegisterFresh
    <3>2. PICK f \in [Chats -> 0..n] : Wiped(n, f) /\ sourceRev' = n
      BY <3>1
    <3>3. f[c] \in 0..n /\ n \in Nat /\ sourceRev <= n
      BY <1>1, <3>1, <3>2
    <3> QED
      BY <1>1, <2>1, <3>2, <3>3 DEF Wiped, Live
  <2> QED
    BY <2>2, <2>3, <2>4, <2>5 DEF ClientStep
<1>5. ASSUME NEW x \in Workers
      PROVE  \/ task'[x] = task[x]
             \/ /\ TaskWritten(sourceRev', task'[x]) /\ ~Holds(task'[x])
                /\ task'[x].op # "drop" \/ task'[x].pc = "check"
  <2>1. ASSUME NEW w \in Workers, NEW pc \in {"read", "check"}, NEW op \in {"index", "drop"},
               op = "drop" <=> pc = "check", NEW c, NEW e, NEW r, r <= sourceRev', NEW k,
               SetTask(w, NewTask(pc, op, c, e, r, k))
        PROVE  \/ task'[x] = task[x]
               \/ /\ TaskWritten(sourceRev', task'[x]) /\ ~Holds(task'[x])
                  /\ task'[x].op # "drop" \/ task'[x].pc = "check"
    <3> DEFINE t == NewTask(pc, op, c, e, r, k)
    <3>1. TaskWritten(sourceRev', t) /\ ~Holds(t) /\ (t.op # "drop" \/ t.pc = "check")
      BY <1>1, <2>1, ItemsWritten DEF NewTask, TaskWritten, Holds
    <3>2. SetTask(w, t)
      BY <2>1
    <3> HIDE DEF t
    <3>3. task'[x] = task[x] \/ task'[x] = t
      BY <1>1, <3>2 DEF SetTask, TypeOK, TaskTypeOK
    <3> QED
      BY <3>1, <3>3
  <2>2. ASSUME NEW w \in Workers, NEW c \in Chats, NEW k \in Keys, Push(w, c, k)
        PROVE  \E e, r : r <= sourceRev' /\ SetTask(w, NewTask("read", "index", c, e, r, k))
    BY <1>1, <2>2 DEF Push
  <2>3. ASSUME NEW w \in Workers, NEW c \in Chats, NEW k \in Keys,
               Delete(w, c, k) \/ DeleteMiss(w, c, k)
        PROVE  \E r : r <= sourceRev' /\ SetTask(w, NewTask("check", "drop", c, 0, r, k))
    BY <1>1, <2>3 DEF Delete, DeleteMiss
  <2>4. ASSUME NEW c \in Chats, NEW k \in Keys, Rewrap(c, k) \/ RegisterFresh(k) \/ RegisterKey(k)
        PROVE  task' = task
    BY <2>4 DEF Rewrap, RegisterFresh, RegisterKey
  <2>5. ASSUME NEW k \in Keys, RegisterFresh(k) \/ RegisterKey(k) PROVE task' = task
    BY <2>5 DEF RegisterFresh, RegisterKey
  <2> QED
    BY <2>1, <2>2, <2>3, <2>4, <2>5 DEF ClientStep
<1>6. ContentsWritten'
  <2>1. ChatOK(chat, sourceRev)'
    BY <1>1, <1>3, <1>4 DEF ContentsWritten, ChatOK, IsLive, Live
  <2>2. pub'.ix = pub.ix \/ Written(sourceRev, pub'.ix)
    BY <1>1, <1>3 DEF Written, EmptyIndex, NoEntry
  <2> QED
    BY <1>1, <1>3, <1>5, <2>1, <2>2, WrittenFrame
<1>7. PublishersLock'
  BY <1>1, <1>3, <1>5 DEF PublishersLock
<1>8. ASSUME NEW x \in Workers PROVE Unindexed(task[x])'
  <2>1. CASE task'[x] = task[x] /\ task[x].op = "drop" /\ task[x].pc \notin {"idle", "check"}
             /\ Live(task[x].chat)'
    <3> DEFINE c == task[x].chat
    <3>1. c \in Chats
      BY <1>1, <2>1 DEF TypeOK, TaskTypeOK
    <3>2. pub.ix.chats[c].body \in Nat /\ pub.ix.chats[c].body <= sourceRev
      BY <1>1, <1>2, <3>1 DEF Index, Entry, ContentsWritten, Written
    <3>3. pub'.ix = pub.ix \/ pub'.ix.chats[c].body = 0
      BY <1>3, <3>1 DEF EmptyIndex, NoEntry
    <3>4. chat'[c].rev # 0
      BY <1>6, <2>1, <3>1 DEF ContentsWritten, ChatOK, IsLive, Live
    <3>5. chat'[c].rev = sourceRev + 1 \/ (chat'[c].rev = chat[c].rev /\ Live(c))
      BY <1>4, <2>1, <3>1
    <3>6. chat'[c].rev # pub.ix.chats[c].body
      BY <1>1, <2>1, <3>2, <3>5 DEF RecreationInv, Unindexed
    <3> QED
      BY <2>1, <3>3, <3>4, <3>6 DEF Unindexed
  <2>2. CASE ~(task'[x] = task[x] /\ task[x].op = "drop" /\ task[x].pc \notin {"idle", "check"}
               /\ Live(task[x].chat)')
    BY <1>5, <2>2 DEF Unindexed
  <2> QED
    BY <2>1, <2>2
<1> QED
  BY <1>6, <1>7, <1>8 DEF RecreationInv

LEMMA RecreationStep ==
    ASSUME OneEnclave, RecreationInv, [Next]_vars
    PROVE  RecreationInv'
<1>1. TypeOK' /\ TypeOK /\ ContentsWritten /\ PublishersLock
  BY TypeStep DEF RecreationInv
<1>2. ASSUME NEW j \in Jobs, NEW k \in Keys, JobStart(j, k) PROVE RecreationInv'
  <2> DEFINE fresh == [IdleJob(j) EXCEPT !.pc = "list", !.key = k, !.target = sourceRev]
             ck    == pub.ix.ckpt
             res   == [fresh EXCEPT !.cursor = ck.cursor, !.target = ck.target,
                                    !.started = ck.started]
  <2>1. SetJob(j, fresh) \/ SetJob(j, res)
    BY <1>2 DEF JobStart
  <2>2. /\ fresh.pc = "list" /\ fresh.snap = NoSnapshot /\ fresh.items = NoItems
        /\ res.pc = "list" /\ res.snap = NoSnapshot /\ res.items = NoItems
    BY DEF IdleJob
  <2>3. UNCHANGED <<chat, sourceRev, task, lock, pub>>
    BY <1>2 DEF JobStart
  <2> HIDE DEF fresh, res
  <2>4. JobWritten(sourceRev, fresh) /\ JobWritten(sourceRev, res)
    BY <1>1, <2>2, ItemsWritten DEF JobWritten, TypeOK
  <2>5. \E b2 : JobBecomes(j, b2)
    BY <2>1, <2>2, <2>3, <2>4 DEF JobBecomes
  <2> QED
    BY <1>1, <2>3, <2>5, JobMoveRecreation
<1>3. ASSUME NEW j \in Jobs, JobStep(j) \/ JobAbort(j) PROVE RecreationInv'
  BY <1>1, <1>3, JobForm, JobMoveRecreation
<1>4. CASE UNCHANGED vars
  BY <1>4 DEF vars, RecreationInv, ContentsWritten, PublishersLock, Unindexed, Live, TypeOK,
              TaskTypeOK, JobTypeOK, LockTypeOK
<1> QED
  BY <1>1, <1>2, <1>3, <1>4, ClientRecreation, TaskStepRecreation DEF Next

LEMMA RecreationInit ==
    ASSUME Init
    PROVE  RecreationInv
<1>1. TypeOK
  BY InitTypeOK
<1>2. ContentsWritten
  <2>1. \A j \in Jobs : JobWritten(0, IdleJob(j))
    BY ItemsWritten
  <2>2. TaskWritten(0, IdleTask) /\ Written(0, NoPublication.ix)
    BY DEF TaskWritten, IdleTask, NewTask, NoSnapshot, NoPublication, Written, EmptyIndex, NoEntry
  <2> QED
    BY <2>1, <2>2 DEF Init, ContentsWritten, ChatOK, IsLive
<1>3. PublishersLock /\ \A w \in Workers : Unindexed(task[w])
  BY ItemsWritten DEF Init, PublishersLock, Holds, Unindexed, IdleTask, NewTask, IdleJob
<1> QED
  BY <1>1, <1>2, <1>3 DEF RecreationInv

\* In one enclave the cleanup after a delete never drops a chat that came back
\* under the same id and was indexed, because it looks at the chat under the
\* lock that every index writer of the process takes (removeDeletedChatFromSearch);
\* in an otherwise unrestricted environment, and after any number of conflicts.
THEOREM RecreatedKept ==
    ASSUME OneEnclave
    PROVE  Spec => DropKeepsRecreated
<1>1. OneEnclave
  OBVIOUS
<1>2. RecreationInv /\ [Next]_vars => RecreationInv'
  BY <1>1, RecreationStep
<1>3. RecreationInv => \A w \in Workers : ~DropsRecreated(w)
  BY DEF RecreationInv, Unindexed, DropsRecreated
<1> QED
  BY <1>2, <1>3, RecreationInit, PTL DEF Spec, DropKeepsRecreated
=============================================================================
