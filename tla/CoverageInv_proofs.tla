------------------------- MODULE CoverageInv_proofs -------------------------
(***************************************************************************)
(* The published coverage is honest: NoMissingChat and CheckpointSound     *)
(* from CoverageInv, NoGhostChat from GhostInv, the invariants of          *)
(* SearchCoverageInv.                                                      *)
(***************************************************************************)
EXTENDS SearchCoverage_proofs

ChatTable == [Chats -> [etag : Nat, rev : Nat, key : Keys \cup {None}]]
-----------------------------------------------------------------------------
(* Deletes alone: GhostInv, which needs no orderly environment.             *)

LEMMA GhostsStable ==
    ASSUME NEW ch \in ChatTable, NEW ch2 \in ChatTable, NEW n \in Nat, NEW n2 \in Nat,
           EventsGrow(ch, n, ch2, n2), NEW ix \in Index
    PROVE  /\ \A p \in Nat : p <= n /\ NoGhosts(ch, ix, p) => p <= n2 /\ NoGhosts(ch2, ix, p)
           /\ Vouched(ch, n, ix) => Vouched(ch2, n2, ix)
           /\ GhostFree(ch, n, ix) => GhostFree(ch2, n2, ix)
<1>1. \A c \in Chats : ch[c].rev \in Nat /\ ch2[c].rev \in Nat /\ ix.chats[c].rev \in Nat
  BY DEF ChatTable, Index, Entry
<1>2. ASSUME NEW p \in Nat, p <= n, NoGhosts(ch, ix, p)
      PROVE  p <= n2 /\ NoGhosts(ch2, ix, p)
  BY <1>1, <1>2 DEF NoGhosts, EventsGrow
<1>3. Vouched(ch, n, ix) => Vouched(ch2, n2, ix)
  BY <1>1 DEF Vouched, EventsGrow
<1>4. ix.ckpt.target \in Nat
  BY DEF Index, Checkpoint
<1> QED
  BY <1>2, <1>3, <1>4 DEF GhostFree

LEMMA SnapGhostsStable ==
    ASSUME NEW ch \in ChatTable, NEW ch2 \in ChatTable, NEW n \in Nat, NEW n2 \in Nat,
           EventsGrow(ch, n, ch2, n2), NEW s, s.ix \in Index, s.published \in Nat,
           SnapGhostFree(ch, n, s)
    PROVE  SnapGhostFree(ch2, n2, s)
<1>1. s.published <= n2
  BY DEF SnapGhostFree, EventsGrow
<1> QED
  BY <1>1, GhostsStable DEF SnapGhostFree

LEMMA EventStable ==
    ASSUME NEW ch \in ChatTable, NEW ch2 \in ChatTable, NEW n \in Nat, NEW n2 \in Nat,
           EventsGrow(ch, n, ch2, n2), NEW t \in Task, t.chat \in Chats,
           t.rev <= n, EventOf(ch, t),
           t.op = "index" => /\ t.rev <= ch[t.chat].rev
                             /\ ch[t.chat].rev = t.rev => IsLive(ch, t.chat)
    PROVE  /\ t.rev <= n2
           /\ EventOf(ch2, t)
           /\ t.op = "index" => /\ t.rev <= ch2[t.chat].rev
                                /\ ch2[t.chat].rev = t.rev => IsLive(ch2, t.chat)
<1>1. t.rev \in Nat /\ \A c \in Chats : ch[c].rev \in Nat /\ ch2[c].rev \in Nat
  BY DEF ChatTable, Task
<1>2. t.rev <= n2
  BY <1>1 DEF EventsGrow
<1>3. t.op = "index" => /\ t.rev <= ch2[t.chat].rev
                        /\ ch2[t.chat].rev = t.rev => IsLive(ch2, t.chat)
  BY <1>1 DEF EventsGrow
<1>4. CASE \A d \in Chats : t.rev # 0 /\ ch[d].rev = t.rev => d = t.chat
  BY <1>1, <1>2, <1>3, <1>4 DEF EventsGrow, EventOf
<1>5. CASE /\ ~RecreateAllowed /\ t.op = "drop" /\ ~IsLive(ch, t.chat)
           /\ ch[t.chat].rev \in 1..(t.rev - 1)
  <2>1. ch[t.chat].rev # 0
    BY <1>1, <1>5
  <2>2. ch2[t.chat].rev = ch[t.chat].rev /\ ~IsLive(ch2, t.chat)
    BY <1>5, <2>1 DEF EventsGrow
  <2> QED
    BY <1>2, <1>3, <1>5, <2>2 DEF EventOf
<1> QED
  BY <1>4, <1>5 DEF EventOf

\* An index with another entry for one chat, which is a live one or has none.
LEMMA EditGhosts ==
    ASSUME NEW ch \in ChatTable, NEW n \in Nat, NEW ix \in Index, NEW ix2, NEW c \in Chats,
           ix2.ckpt = ix.ckpt, \A d \in Chats \ {c} : ix2.chats[d] = ix.chats[d],
           ix2.chats[c].rev <= n, Has(ix2, c) => IsLive(ch, c)
    PROVE  /\ Vouched(ch, n, ix) => Vouched(ch, n, ix2)
           /\ GhostFree(ch, n, ix) => GhostFree(ch, n, ix2)
           /\ \A p : NoGhosts(ch, ix, p) => NoGhosts(ch, ix2, p)
<1>1. Vouched(ch, n, ix) => Vouched(ch, n, ix2)
  <2> SUFFICES ASSUME Vouched(ch, n, ix), NEW d \in Chats
               PROVE  /\ ix2.chats[d].rev <= n
                      /\ Has(ix2, d) /\ ch[d].rev <= ix2.chats[d].rev => IsLive(ch, d)
    BY DEF Vouched
  <2>1. CASE d = c
    BY <2>1
  <2>2. CASE d # c
    BY <2>2 DEF Vouched, Has
  <2> QED
    BY <2>1, <2>2
<1>2. \A p : NoGhosts(ch, ix, p) => NoGhosts(ch, ix2, p)
  <2> SUFFICES ASSUME NEW p, NoGhosts(ch, ix, p), NEW d \in Chats, ~IsLive(ch, d),
                      ch[d].rev <= p
               PROVE  ~Has(ix2, d)
    BY DEF NoGhosts
  <2>1. CASE d = c
    BY <2>1
  <2>2. CASE d # c
    BY <2>2 DEF NoGhosts, Has
  <2> QED
    BY <2>1, <2>2
<1> QED
  BY <1>1, <1>2 DEF GhostFree

LEMMA EditForm ==
    ASSUME NEW ix \in Index, NEW c \in Chats, NEW e \in Entry
    PROVE  /\ Upsert(ix, c, e) \in Index /\ Upsert(ix, c, e).ckpt = ix.ckpt
           /\ Upsert(ix, c, e).chats[c] = e
           /\ \A d \in Chats \ {c} : Upsert(ix, c, e).chats[d] = ix.chats[d]
           /\ Remove(ix, c) \in Index /\ Remove(ix, c).ckpt = ix.ckpt
           /\ Remove(ix, c).chats[c].rev = 0 /\ ~Has(Remove(ix, c), c)
           /\ \A d \in Chats \ {c} : Remove(ix, c).chats[d] = ix.chats[d]
<1>1. /\ Upsert(ix, c, e).ckpt = ix.ckpt
      /\ Upsert(ix, c, e).chats[c] = e
      /\ \A d \in Chats \ {c} : Upsert(ix, c, e).chats[d] = ix.chats[d]
  BY DEF Upsert, Index
<1>2. /\ Remove(ix, c).ckpt = ix.ckpt /\ Remove(ix, c).chats[c] = NoEntry
      /\ \A d \in Chats \ {c} : Remove(ix, c).chats[d] = ix.chats[d]
  BY DEF Remove, Index
<1>3. NoEntry.rev = 0 /\ NoEntry.body = 0
  BY DEF NoEntry
<1> QED
  BY <1>1, <1>2, <1>3, EmptyIndexType, UpsertType DEF Has

LEMMA FlagGhosts ==
    ASSUME NEW ch, NEW n, NEW ix \in Index, NEW f \in BOOLEAN
    PROVE  LET ix2 == [ix EXCEPT !.inc = f]
           IN  /\ GhostFree(ch, n, ix) => GhostFree(ch, n, ix2)
               /\ \A p : NoGhosts(ch, ix, p) => NoGhosts(ch, ix2, p)
<1> DEFINE ix2 == [ix EXCEPT !.inc = f]
<1>1. ix2.chats = ix.chats /\ ix2.ckpt = ix.ckpt
  BY DEF Index
<1> HIDE DEF ix2
<1>2. \A p : NoGhosts(ch, ix, p) => NoGhosts(ch, ix2, p)
  BY <1>1 DEF NoGhosts, Has
<1>3. GhostFree(ch, n, ix) => GhostFree(ch, n, ix2)
  BY <1>1, <1>2 DEF GhostFree, Vouched, Has
<1> QED
  BY <1>2, <1>3 DEF ix2

LEMMA EmptyGhosts ==
    ASSUME NEW ch, NEW n \in Nat
    PROVE  GhostFree(ch, n, EmptyIndex) /\ \A p : NoGhosts(ch, EmptyIndex, p)
<1>1. \A c \in Chats : EmptyIndex.chats[c].rev = 0 /\ EmptyIndex.chats[c].body = 0
  BY DEF EmptyIndex, NoEntry
<1>2. EmptyIndex.ckpt.cursor = 0
  BY DEF EmptyIndex, NoCheckpoint
<1> QED
  BY <1>1, <1>2 DEF GhostFree, Vouched, NoGhosts, Has

Recorded == EventsGrow(chat, sourceRev, chat', sourceRev')

LEMMA NothingRecorded ==
    ASSUME TypeOK, UNCHANGED <<chat, sourceRev>>, EventsDistinct(chat, sourceRev)
    PROVE  Recorded /\ EventsDistinct(chat, sourceRev)'
BY DEF Recorded, EventsGrow, TypeOK, EventsDistinct, IsLive

LEMMA GhostTaskFrame ==
    ASSUME TypeOK, TypeOK', Recorded, NEW w \in Workers,
           TaskGhostFree(chat, sourceRev, task[w])
    PROVE  TaskGhostFree(chat', sourceRev', task[w])
<1> DEFINE t == task[w]
<1> SUFFICES ASSUME t.pc # "idle" PROVE TaskGhostFree(chat', sourceRev', t)
  BY DEF TaskGhostFree
<1>1. /\ chat \in ChatTable /\ chat' \in ChatTable
      /\ sourceRev \in Nat /\ sourceRev' \in Nat
      /\ EventsGrow(chat, sourceRev, chat', sourceRev')
  BY DEF TypeOK, ChatTable, Recorded
<1>2. /\ t \in Task /\ t.chat \in Chats /\ t.snap.ix \in Index
      /\ t.snap.published \in Nat /\ t.covered \in Nat
  BY DEF TypeOK, TaskTypeOK, Task, Snapshot
<1>3. /\ t.rev <= sourceRev'
      /\ EventOf(chat', t)
      /\ t.op = "index" => /\ t.rev <= chat'[t.chat].rev
                           /\ chat'[t.chat].rev = t.rev => IsLive(chat', t.chat)
  BY <1>1, <1>2, EventStable DEF TaskGhostFree
<1>4. t.pc = "probe" => t.op = "index" /\ SnapGhostFree(chat', sourceRev', t.snap)
  BY <1>1, <1>2, SnapGhostsStable DEF TaskGhostFree
<1>5. t.pc = "publish" =>
        /\ GhostFree(chat', sourceRev', t.snap.ix)
        /\ ~t.inc => t.covered <= sourceRev' /\ NoGhosts(chat', t.snap.ix, t.covered)
  BY <1>1, <1>2, GhostsStable DEF TaskGhostFree
<1> QED
  BY <1>3, <1>4, <1>5 DEF TaskGhostFree

LEMMA GhostJobFrame ==
    ASSUME TypeOK, TypeOK', Recorded, NEW j \in Jobs, JobGhostFree(chat, sourceRev, job[j])
    PROVE  JobGhostFree(chat', sourceRev', job[j])
<1> DEFINE b == job[j]
<1>1. /\ chat \in ChatTable /\ chat' \in ChatTable
      /\ sourceRev \in Nat /\ sourceRev' \in Nat
      /\ EventsGrow(chat, sourceRev, chat', sourceRev')
      /\ sourceRev <= sourceRev'
  BY DEF TypeOK, ChatTable, Recorded, EventsGrow
<1>2. /\ b.target \in Nat /\ b.snap.published \in Nat /\ b.snap.ix \in Index
      /\ \A c \in Chats : b.items[c].rev \in Nat
  BY DEF TypeOK, JobTypeOK, JobState, Snapshot, Entry
<1>3. b.target <= sourceRev' /\ \A c \in Chats : b.items[c].rev <= sourceRev'
  BY <1>1, <1>2 DEF JobGhostFree
<1>4. b.pc = "probe" =>
        /\ b.snap.published <= sourceRev'
        /\ Vouched(chat', sourceRev', b.snap.ix)
        /\ NoGhosts(chat', b.snap.ix, b.target)
        /\ ~b.snap.inc => NoGhosts(chat', b.snap.ix, b.snap.published)
  BY <1>1, <1>2, GhostsStable DEF JobGhostFree
<1> QED
  BY <1>3, <1>4 DEF JobGhostFree

\* A step preserves the invariant if it does so where it changes something.
LEMMA GhostFromParts ==
    ASSUME GhostInv, TypeOK', Recorded, EventsDistinct(chat, sourceRev)',
           pub' = pub \/ SnapGhostFree(chat', sourceRev', pub'),
           \A w \in Workers : task'[w] = task[w] \/ TaskGhostFree(chat', sourceRev', task'[w]),
           \A j \in Jobs : job'[j] = job[j] \/ JobGhostFree(chat', sourceRev', job'[j])
    PROVE  GhostInv'
<1>1. TypeOK
  BY DEF GhostInv
<1>2. SnapGhostFree(chat', sourceRev', pub')
  <2>1. /\ chat \in ChatTable /\ chat' \in ChatTable
        /\ sourceRev \in Nat /\ sourceRev' \in Nat
        /\ EventsGrow(chat, sourceRev, chat', sourceRev')
        /\ pub.ix \in Index /\ pub.published \in Nat
    BY <1>1 DEF TypeOK, ChatTable, Recorded, Publication
  <2>2. SnapGhostFree(chat, sourceRev, pub)
    BY DEF GhostInv
  <2> QED
    BY <2>1, <2>2, SnapGhostsStable
<1>3. ASSUME NEW w \in Workers PROVE TaskGhostFree(chat', sourceRev', task'[w])
  BY <1>1, <1>3, GhostTaskFrame DEF GhostInv
<1>4. ASSUME NEW j \in Jobs PROVE JobGhostFree(chat', sourceRev', job'[j])
  BY <1>1, <1>4, GhostJobFrame DEF GhostInv
<1> QED
  BY <1>2, <1>3, <1>4 DEF GhostInv

LEMMA FencedGhosts ==
    ASSUME NEW ch, NEW n \in Nat
    PROVE  SnapGhostFree(ch, n, FencedPublication)
<1>1. /\ FencedPublication.published = 0 /\ FencedPublication.inc = TRUE
      /\ FencedPublication.ix = EmptyIndex
  BY DEF FencedPublication
<1> QED
  BY <1>1, EmptyGhosts DEF SnapGhostFree

LEMMA ClientGhosts ==
    ASSUME MissesHarmless, GhostInv, ClientStep
    PROVE  GhostInv'
<1>1. TypeOK /\ TypeOK' /\ EventsDistinct(chat, sourceRev)
  BY ClientTypeOK DEF GhostInv
<1>2. sourceRev \in Nat /\ \A c \in Chats : chat[c].rev \in Nat /\ chat[c].etag \in Nat
  BY <1>1 DEF TypeOK
<1>3. ASSUME NEW w \in Workers, NEW c \in Chats, NEW k \in Keys, Push(w, c, k)
      PROVE  GhostInv'
  <2> DEFINE t == NewTask("read", "index", c, chat[c].etag + 1, sourceRev + 1, k)
  <2>1. /\ sourceRev' = sourceRev + 1
        /\ chat'[c] = [etag |-> chat[c].etag + 1, rev |-> sourceRev + 1, key |-> k]
        /\ \A d \in Chats \ {c} : chat'[d] = chat[d]
        /\ RecreateAllowed \/ IsLive(chat, c) \/ chat[c].rev = 0
    BY <1>1, <1>3 DEF Push, TypeOK, Live, IsLive
  <2>2. Recorded /\ EventsDistinct(chat, sourceRev)'
    BY <1>1, <1>2, <2>1 DEF Recorded, EventsGrow, EventsDistinct, IsLive
  <2>3. t.pc = "read" /\ t.op = "index" /\ t.chat = c /\ t.rev = sourceRev + 1
    BY DEF NewTask
  <2>4. task'[w] = t /\ \A x \in Workers \ {w} : task'[x] = task[x]
    BY <1>1, <1>3 DEF Push, SetTask, TypeOK, TaskTypeOK
  <2> HIDE DEF t
  <2>5. TaskGhostFree(chat', sourceRev', t)
    BY <1>1, <1>2, <2>1, <2>3 DEF TaskGhostFree, EventOf, EventsDistinct, IsLive
  <2> QED
    BY <1>1, <1>3, <2>2, <2>4, <2>5, GhostFromParts DEF Push
<1>4. ASSUME NEW w \in Workers, NEW c \in Chats, NEW k \in Keys, Delete(w, c, k)
      PROVE  GhostInv'
  <2> DEFINE t == NewTask("check", "drop", c, 0, sourceRev + 1, k)
  <2>1. /\ sourceRev' = sourceRev + 1 /\ IsLive(chat, c)
        /\ chat'[c] = [etag |-> 0, rev |-> sourceRev + 1, key |-> None]
        /\ \A d \in Chats \ {c} : chat'[d] = chat[d]
    BY <1>1, <1>4 DEF Delete, TypeOK, Live, IsLive
  <2>2. Recorded /\ EventsDistinct(chat, sourceRev)'
    BY <1>1, <1>2, <2>1 DEF Recorded, EventsGrow, EventsDistinct, IsLive
  <2>3. t.pc = "check" /\ t.op = "drop" /\ t.chat = c /\ t.rev = sourceRev + 1
    BY DEF NewTask
  <2>4. task'[w] = t /\ \A x \in Workers \ {w} : task'[x] = task[x]
    BY <1>1, <1>4 DEF Delete, SetTask, TypeOK, TaskTypeOK
  <2> HIDE DEF t
  <2>5. TaskGhostFree(chat', sourceRev', t)
    BY <1>1, <1>2, <2>1, <2>3 DEF TaskGhostFree, EventOf, EventsDistinct, IsLive
  <2> QED
    BY <1>1, <1>4, <2>2, <2>4, <2>5, GhostFromParts DEF Delete
<1>5. ASSUME NEW w \in Workers, NEW c \in Chats, NEW k \in Keys, DeleteMiss(w, c, k)
      PROVE  GhostInv'
  <2>1. /\ ~IsLive(chat, c) /\ (chat[c].rev # 0 \/ RecreateAllowed)
        /\ UNCHANGED <<chat, sourceRev, curKey, pub, job, lock>>
    BY <1>5 DEF DeleteMiss, Live, IsLive
  <2>2. PICK r \in {0} \cup (IF MissEchoes THEN {sourceRev} ELSE {}) :
           SetTask(w, NewTask("check", "drop", c, 0, r, k))
    BY <1>5 DEF DeleteMiss
  <2> DEFINE t == NewTask("check", "drop", c, 0, r, k)
  <2>3. t.pc = "check" /\ t.op = "drop" /\ t.chat = c /\ t.rev = r
    BY DEF NewTask
  <2>4. task'[w] = t /\ \A x \in Workers \ {w} : task'[x] = task[x]
    BY <1>1, <2>2 DEF SetTask, TypeOK, TaskTypeOK
  <2> HIDE DEF t
  <2>5. r = 0 \/ (r = sourceRev /\ ~RecreateAllowed)
    BY <2>2 DEF MissesHarmless
  <2>6. EventOf(chat, t)
    <3>1. CASE r = 0
      BY <2>3, <3>1 DEF EventOf
    <3>2. CASE r = sourceRev /\ ~RecreateAllowed /\ chat[c].rev = sourceRev
      BY <1>1, <1>2, <2>1, <2>3, <3>2 DEF EventOf, EventsDistinct
    <3>3. CASE r = sourceRev /\ ~RecreateAllowed /\ chat[c].rev # sourceRev
      <4>1. chat[c].rev \in 1..(sourceRev - 1)
        BY <1>1, <1>2, <2>1, <3>3 DEF EventsDistinct
      <4> QED
        BY <2>1, <2>3, <3>3, <4>1 DEF EventOf
    <3> QED
      BY <2>5, <3>1, <3>2, <3>3
  <2>7. TaskGhostFree(chat, sourceRev, t)
    BY <1>2, <2>3, <2>5, <2>6 DEF TaskGhostFree
  <2>8. Recorded /\ EventsDistinct(chat, sourceRev)'
    BY <1>1, <2>1, NothingRecorded
  <2> QED
    BY <1>1, <2>1, <2>4, <2>7, <2>8, GhostFromParts
<1>6. ASSUME NEW c \in Chats, NEW k \in Keys, Rewrap(c, k)
      PROVE  GhostInv'
  <2>1. /\ UNCHANGED <<sourceRev, curKey, pub, task, job, lock>>
        /\ IsLive(chat, c) /\ \A d \in Chats \ {c} : chat'[d] = chat[d]
        /\ chat'[c].rev = chat[c].rev /\ chat'[c].etag = chat[c].etag + 1
    BY <1>1, <1>6 DEF Rewrap, TypeOK, Live, IsLive
  <2>2. Recorded /\ EventsDistinct(chat, sourceRev)'
    BY <1>1, <1>2, <2>1 DEF Recorded, EventsGrow, EventsDistinct, IsLive
  <2> QED
    BY <1>1, <2>1, <2>2, GhostFromParts
<1>7. ASSUME NEW k \in Keys, RegisterFresh(k)
      PROVE  GhostInv'
  <2>0. PICK n \in sourceRev..MaxRev :
           \E f \in [Chats -> 0..n] : Wiped(n, f) /\ sourceRev' = n
    BY <1>7 DEF RegisterFresh
  <2>1. PICK f \in [Chats -> 0..n] : Wiped(n, f) /\ sourceRev' = n
    BY <2>0
  <2>2. n \in Nat /\ sourceRev <= n
    BY <1>2, ConstantsOK
  <2>3. ASSUME NEW c \in Chats, IsLive(chat, c)
        PROVE  /\ chat'[c].rev = f[c] /\ f[c] \in Nat
               /\ sourceRev < f[c] /\ f[c] <= n
    <3>1. f[c] \in (sourceRev + 1)..n /\ chat'[c].rev = f[c]
      BY <2>1, <2>3 DEF Wiped, Live, IsLive
    <3> QED
      BY <1>2, <2>2, <3>1
  <2>4. \A c \in Chats : ~IsLive(chat, c) => chat'[c] = chat[c]
    BY <2>1 DEF Wiped, Live, IsLive
  <2>5. Recorded
    BY <1>2, <2>1, <2>2, <2>3, <2>4 DEF Recorded, EventsGrow, IsLive
  <2>6. \A c, d \in Chats : IsLive(chat, c) /\ IsLive(chat, d) /\ f[c] = f[d] => c = d
    BY <2>1 DEF Wiped, Live, IsLive
  <2>7. EventsDistinct(chat, sourceRev)'
    <3>1. ASSUME NEW c \in Chats PROVE chat'[c].rev <= n
      BY <1>1, <1>2, <2>2, <2>3, <2>4 DEF EventsDistinct
    <3>2. ASSUME NEW c \in Chats, NEW d \in Chats, chat'[c].rev = chat'[d].rev, chat'[c].rev # 0
          PROVE  c = d
      <4>1. CASE IsLive(chat, c) /\ IsLive(chat, d)
        BY <2>3, <2>6, <3>2, <4>1
      <4>2. CASE ~IsLive(chat, c) /\ ~IsLive(chat, d)
        BY <1>1, <2>4, <3>2, <4>2 DEF EventsDistinct
      <4>3. CASE IsLive(chat, c) /\ ~IsLive(chat, d)
        BY <1>1, <1>2, <2>3, <2>4, <3>2, <4>3 DEF EventsDistinct
      <4>4. CASE ~IsLive(chat, c) /\ IsLive(chat, d)
        BY <1>1, <1>2, <2>3, <2>4, <3>2, <4>4 DEF EventsDistinct
      <4> QED
        BY <4>1, <4>2, <4>3, <4>4
    <3> QED
      BY <2>1, <3>1, <3>2 DEF EventsDistinct
  <2>8. pub' = FencedPublication
    BY <1>7 DEF RegisterFresh
  <2>9. SnapGhostFree(chat', sourceRev', FencedPublication)
    BY <2>1, <2>2, FencedGhosts
  <2> QED
    BY <1>1, <1>7, <2>5, <2>7, <2>8, <2>9, GhostFromParts DEF RegisterFresh
<1>8. ASSUME NEW k \in Keys, RegisterKey(k)
      PROVE  GhostInv'
  <2>1. Recorded /\ EventsDistinct(chat, sourceRev)'
    BY <1>1, <1>8, NothingRecorded DEF RegisterKey
  <2>2. pub' = pub \/ pub' = FencedPublication
    BY <1>8 DEF RegisterKey
  <2>3. SnapGhostFree(chat', sourceRev', FencedPublication)
    BY <1>2, <1>8, FencedGhosts DEF RegisterKey
  <2> QED
    BY <1>1, <1>8, <2>1, <2>2, <2>3, GhostFromParts DEF RegisterKey
<1> QED
  BY <1>3, <1>4, <1>5, <1>6, <1>7, <1>8 DEF ClientStep

\* What a writer reads: the published index, or an empty one.
LEMMA ReadGhosts ==
    ASSUME GhostInv, NEW k, NEW ok \in LoadOutcomes(k)
    PROVE  /\ ReadState(ok) \in Snapshot /\ ReadState(ok).ix \in Index
           /\ ReadState(ok).published \in Nat /\ ReadState(ok).src = sourceRev
           /\ SnapGhostFree(chat, sourceRev, ReadState(ok))
           /\ ReadState(ok).ok \/ ReadState(ok).ix = EmptyIndex
<1>1. TypeOK /\ sourceRev \in Nat /\ SnapGhostFree(chat, sourceRev, pub)
  BY DEF GhostInv, TypeOK
<1>2. ReadState(ok) \in Snapshot
  BY <1>1, ReadStateType
<1>3. /\ ReadState(ok).published = pub.published /\ ReadState(ok).inc = pub.inc
      /\ ReadState(ok).src = sourceRev /\ ReadState(ok).ok = ok
      /\ ReadState(ok).ix = IF ok THEN pub.ix ELSE EmptyIndex
  BY DEF ReadState
<1>4. SnapGhostFree(chat, sourceRev, ReadState(ok))
  BY <1>1, <1>3, EmptyGhosts DEF SnapGhostFree
<1> QED
  BY <1>2, <1>3, <1>4 DEF Snapshot

LEMMA TaskOnlyGhosts ==
    ASSUME GhostInv, TypeOK', UNCHANGED <<chat, sourceRev, pub, job>>,
           NEW w \in Workers, NEW t, SetTask(w, t), TaskGhostFree(chat, sourceRev, t)
    PROVE  GhostInv'
<1>1. Recorded /\ EventsDistinct(chat, sourceRev)'
  BY NothingRecorded DEF GhostInv
<1>2. \A x \in Workers : task'[x] = IF x = w THEN t ELSE task[x]
  BY DEF SetTask, GhostInv, TypeOK, TaskTypeOK
<1> QED
  BY <1>1, <1>2, GhostFromParts

LEMMA EndTaskGhosts ==
    ASSUME GhostInv, TypeOK', UNCHANGED <<chat, sourceRev, pub, job>>,
           NEW w \in Workers, EndTask(w)
    PROVE  GhostInv'
<1>1. TaskGhostFree(chat, sourceRev, IdleTask)
  BY DEF TaskGhostFree, IdleTask, NewTask
<1> QED
  BY <1>1, TaskOnlyGhosts DEF EndTask

LEMMA ToPublishGhosts ==
    ASSUME GhostInv, TypeOK', UNCHANGED <<chat, sourceRev, pub, job>>,
           NEW w \in Workers, task[w].pc # "idle", NEW s \in Snapshot, NEW ix \in Index,
           NEW adv \in BOOLEAN, ToPublish(w, s, ix, adv),
           GhostFree(chat, sourceRev, ix), adv => NoGhosts(chat, ix, task[w].rev)
    PROVE  GhostInv'
<1> DEFINE o   == task[w]
           ix2 == [ix EXCEPT !.inc = ~adv]
           s2  == [s EXCEPT !.ix = ix2]
           t   == [o EXCEPT !.pc = "publish", !.snap = s2,
                     !.covered = IF adv THEN o.rev ELSE s.published,
                     !.inc = ~adv]
<1>1. o \in Task /\ TaskGhostFree(chat, sourceRev, o)
  BY DEF GhostInv, TypeOK, TaskTypeOK
<1>2. SetTask(w, t)
  BY DEF ToPublish
<1>3. s2.ix = ix2
  BY DEF Snapshot
<1>4. /\ t.pc = "publish" /\ t.rev = o.rev /\ t.chat = o.chat /\ t.op = o.op
      /\ t.snap.ix = ix2 /\ t.inc = ~adv
      /\ adv => t.covered = o.rev
  BY <1>1, <1>3 DEF Task
<1>5. GhostFree(chat, sourceRev, ix2) /\ (adv => NoGhosts(chat, ix2, o.rev))
  BY FlagGhosts
<1> HIDE DEF t, ix2
<1>6. TaskGhostFree(chat, sourceRev, t)
  BY <1>1, <1>4, <1>5 DEF TaskGhostFree, EventOf
<1> QED
  BY <1>2, <1>6, TaskOnlyGhosts

\* A writer that may advance over the next revision: it is that of its chat,
\* which is there or which it drops.
LEMMA AdvanceGhosts ==
    ASSUME NEW ch \in ChatTable, NEW ix \in Index, NEW p \in Nat, NoGhosts(ch, ix, p),
           NEW c \in Chats, \A d \in Chats : ch[d].rev = p + 1 => d = c,
           IsLive(ch, c) \/ ~Has(ix, c)
    PROVE  NoGhosts(ch, ix, p + 1)
<1>1. \A d \in Chats : ch[d].rev \in Nat
  BY DEF ChatTable
<1> QED
  BY <1>1 DEF NoGhosts

LEMMA IndexMergeGhosts ==
    ASSUME GhostInv, TypeOK', UNCHANGED <<chat, sourceRev, pub, job>>,
           NEW w \in Workers, task[w].pc # "idle", task[w].op = "index",
           NEW s \in Snapshot, SnapGhostFree(chat, sourceRev, s), IndexMerge(w, s),
           Live(task[w].chat)
    PROVE  GhostInv'
<1> DEFINE o   == task[w]
           c   == o.chat
           e   == [etag |-> o.etag, rev |-> o.rev, body |-> o.rev]
           ix2 == Upsert(s.ix, c, e)
<1>1. /\ o \in Task /\ c \in Chats /\ e \in Entry /\ o.rev \in Nat /\ o.rev <= sourceRev
      /\ EventOf(chat, o)
  BY DEF GhostInv, TypeOK, TaskTypeOK, TaskGhostFree, Task, Entry
<1>2. /\ chat \in ChatTable /\ sourceRev \in Nat /\ s.ix \in Index
      /\ s.published \in Nat /\ IsLive(chat, c)
  BY DEF GhostInv, TypeOK, ChatTable, Snapshot, Live, IsLive
<1>3. EndTask(w) \/ ToPublish(w, s, ix2, CanAdvance(s, o.rev))
  BY DEF IndexMerge
<1>4. /\ ix2 \in Index /\ ix2.ckpt = s.ix.ckpt /\ ix2.chats[c] = e
      /\ \A d \in Chats \ {c} : ix2.chats[d] = s.ix.chats[d]
  BY <1>1, <1>2, EditForm
<1> HIDE DEF ix2
<1>5. ix2.chats[c].rev <= sourceRev
  BY <1>1, <1>4
<1>6. /\ GhostFree(chat, sourceRev, ix2)
      /\ \A p : NoGhosts(chat, s.ix, p) => NoGhosts(chat, ix2, p)
  BY <1>1, <1>2, <1>4, <1>5, EditGhosts DEF SnapGhostFree
<1>7. ASSUME CanAdvance(s, o.rev) PROVE NoGhosts(chat, ix2, o.rev)
  <2>1. NoGhosts(chat, ix2, s.published) /\ o.rev = s.published + 1
    BY <1>6, <1>7 DEF CanAdvance, SnapGhostFree
  <2>2. \A d \in Chats : chat[d].rev = s.published + 1 => d = c
    BY <1>1, <1>2, <2>1 DEF EventOf
  <2> QED
    BY <1>1, <1>2, <1>4, <2>1, <2>2, AdvanceGhosts
<1>8. CanAdvance(s, o.rev) \in BOOLEAN
  BY DEF CanAdvance, Snapshot
<1> QED
  BY <1>3, <1>4, <1>6, <1>7, <1>8, ToPublishGhosts, EndTaskGhosts

LEMMA TaskPublishGhosts ==
    ASSUME GhostInv, TypeOK', NEW w \in Workers, TaskPublish(w)
    PROVE  GhostInv'
<1> DEFINE t == task[w]
<1>1. /\ t.pc = "publish" /\ PublishAccepted(t.snap, t.covered, t.key)
      /\ pub' = Published(t.snap, t.covered, t.inc, t.key)
      /\ EndTask(w) /\ UNCHANGED <<chat, sourceRev, curKey, job>>
  BY DEF TaskPublish
<1>2. t.covered <= sourceRev
  BY <1>1 DEF PublishAccepted
<1>3. /\ GhostFree(chat, sourceRev, t.snap.ix)
      /\ ~t.inc => NoGhosts(chat, t.snap.ix, t.covered)
  BY <1>1 DEF GhostInv, TaskGhostFree
<1>4. pub'.published = t.covered /\ pub'.inc = t.inc /\ pub'.ix = t.snap.ix
  BY <1>1 DEF Published
<1>5. SnapGhostFree(chat', sourceRev', pub')
  BY <1>1, <1>2, <1>3, <1>4 DEF SnapGhostFree
<1>6. Recorded /\ EventsDistinct(chat, sourceRev)'
  BY <1>1, NothingRecorded DEF GhostInv
<1>7. \A x \in Workers : task'[x] = IF x = w THEN IdleTask ELSE task[x]
  BY <1>1 DEF EndTask, SetTask, GhostInv, TypeOK, TaskTypeOK
<1>8. TaskGhostFree(chat', sourceRev', IdleTask)
  BY DEF TaskGhostFree, IdleTask, NewTask
<1> QED
  BY <1>1, <1>5, <1>6, <1>7, <1>8, GhostFromParts

LEMMA TaskStepGhosts ==
    ASSUME GhostInv, NEW w \in Workers, TaskStep(w) \/ TaskAbandon(w)
    PROVE  GhostInv'
<1> DEFINE t == task[w]
           c == t.chat
<1>1. TypeOK' /\ TypeOK
  BY TaskStepTypeOK DEF GhostInv
<1>2. t \in Task /\ t.snap \in Snapshot /\ t.snap.ix \in Index
  BY <1>1 DEF TypeOK, TaskTypeOK, Task, Snapshot
<1>3. /\ t.pc # "idle"
      /\ ~TaskPublish(w) => UNCHANGED <<chat, sourceRev, pub, job>>
  BY DEF TaskStep, TaskAbandon, IndexRead, IndexProbe, DropCheck, DropRead, TaskPublish,
         TaskConflict
<1>4. /\ c \in Chats /\ EventOf(chat, t) /\ t.rev <= sourceRev
      /\ t.op = "index" => /\ t.rev <= chat[c].rev
                           /\ chat[c].rev = t.rev => IsLive(chat, c)
      /\ t.rev \in Nat /\ sourceRev \in Nat /\ chat[c].rev \in Nat
      /\ chat \in ChatTable /\ chat[c].rev <= sourceRev
  BY <1>1, <1>2, <1>3 DEF TypeOK, TaskTypeOK, Task, GhostInv, TaskGhostFree, ChatTable,
                          EventsDistinct
<1>5. CASE IndexRead(w)
  <2>1. PICK ok \in LoadOutcomes(t.key) :
           IF ReadState(ok).src = t.rev
           THEN IndexMerge(w, ReadState(ok))
           ELSE SetTask(w, [t EXCEPT !.pc = "probe", !.snap = ReadState(ok)])
    BY <1>5 DEF IndexRead
  <2> DEFINE s == ReadState(ok)
  <2>2. s \in Snapshot /\ SnapGhostFree(chat, sourceRev, s) /\ s.src = sourceRev
    BY ReadGhosts
  <2>3. t.pc = "read" /\ t.op = "index" /\ UNCHANGED <<chat, sourceRev, pub, job>>
    BY <1>5 DEF IndexRead
  <2> HIDE DEF s
  <2>4. CASE s.src = t.rev
    <3>1. Live(c)
      BY <1>4, <2>2, <2>3, <2>4 DEF Live, IsLive
    <3>2. IndexMerge(w, s)
      BY <2>1, <2>4 DEF s
    <3> QED
      BY <1>1, <2>2, <2>3, <3>1, <3>2, IndexMergeGhosts
  <2>5. CASE s.src # t.rev
    <3> DEFINE t2 == [t EXCEPT !.pc = "probe", !.snap = s]
    <3>1. SetTask(w, t2)
      BY <2>1, <2>5 DEF s
    <3>2. t2.pc = "probe" /\ t2.rev = t.rev /\ t2.chat = t.chat /\ t2.op = t.op /\ t2.snap = s
      BY <1>2 DEF Task
    <3> HIDE DEF t2
    <3>3. TaskGhostFree(chat, sourceRev, t2)
      BY <1>4, <2>2, <2>3, <3>2 DEF TaskGhostFree, EventOf
    <3> QED
      BY <1>1, <2>3, <3>1, <3>3, TaskOnlyGhosts
  <2> QED
    BY <2>4, <2>5
<1>6. CASE IndexProbe(w)
  <2>1. /\ t.pc = "probe" /\ t.op = "index" /\ SnapGhostFree(chat, sourceRev, t.snap)
        /\ UNCHANGED <<chat, sourceRev, pub, job>>
    BY <1>6 DEF IndexProbe, GhostInv, TaskGhostFree
  <2>2. CASE EndTask(w)
    BY <1>1, <2>1, <2>2, EndTaskGhosts
  <2>3. CASE Live(c) /\ IndexMerge(w, t.snap)
    BY <1>1, <1>2, <1>3, <2>1, <2>3, IndexMergeGhosts
  <2>4. CASE ToPublish(w, t.snap, Remove(t.snap.ix, c), FALSE)
    <3> DEFINE ix2 == Remove(t.snap.ix, c)
    <3>1. /\ ix2 \in Index /\ ix2.ckpt = t.snap.ix.ckpt /\ ix2.chats[c].rev = 0
          /\ ~Has(ix2, c)
          /\ \A d \in Chats \ {c} : ix2.chats[d] = t.snap.ix.chats[d]
      BY <1>2, <1>4, EmptyIndexType, EditForm
    <3>2. ToPublish(w, t.snap, ix2, FALSE)
      BY <2>4
    <3> HIDE DEF ix2
    <3>3. ix2.chats[c].rev <= sourceRev
      BY <1>4, <3>1
    <3>4. GhostFree(chat, sourceRev, ix2)
      BY <1>2, <1>4, <2>1, <3>1, <3>3, EditGhosts DEF SnapGhostFree
    <3> QED
      BY <1>1, <1>2, <1>3, <2>1, <3>1, <3>2, <3>4, ToPublishGhosts
  <2> QED
    BY <1>6, <2>2, <2>3, <2>4 DEF IndexProbe
<1>7. CASE DropCheck(w)
  <2> DEFINE t2 == [t EXCEPT !.pc = "read"]
  <2>1. EndTask(w) \/ SetTask(w, t2)
    BY <1>7 DEF DropCheck
  <2>2. t2.pc = "read" /\ t2.rev = t.rev /\ t2.chat = t.chat /\ t2.op = t.op
    BY <1>2 DEF Task
  <2>3. UNCHANGED <<chat, sourceRev, pub, job>>
    BY <1>7 DEF DropCheck
  <2> HIDE DEF t2
  <2>4. TaskGhostFree(chat, sourceRev, t2)
    BY <1>4, <2>2 DEF TaskGhostFree, EventOf
  <2> QED
    BY <1>1, <2>1, <2>3, <2>4, TaskOnlyGhosts, EndTaskGhosts
<1>8. CASE DropRead(w)
  <2>1. PICK ok \in LoadOutcomes(t.key) :
           \/ EndTask(w)
           \/ /\ Has(ReadState(ok).ix, c) \/ ~ok
              /\ ToPublish(w, ReadState(ok), Remove(ReadState(ok).ix, c),
                           CanAdvance(ReadState(ok), t.rev))
    BY <1>8 DEF DropRead
  <2> DEFINE s   == ReadState(ok)
             ix2 == Remove(s.ix, c)
  <2>2. /\ s \in Snapshot /\ s.ix \in Index /\ s.published \in Nat
        /\ SnapGhostFree(chat, sourceRev, s)
        /\ s.ok \/ s.ix = EmptyIndex
    BY ReadGhosts
  <2>3. t.op = "drop" /\ UNCHANGED <<chat, sourceRev, pub, job>>
    BY <1>8 DEF DropRead
  <2>4. \/ EndTask(w)
        \/ /\ Has(s.ix, c) \/ s.ix = EmptyIndex
           /\ ToPublish(w, s, ix2, CanAdvance(s, t.rev))
    BY <2>1, <2>2 DEF ReadState
  <2> HIDE DEF s
  <2>5. /\ ix2 \in Index /\ ix2.ckpt = s.ix.ckpt /\ ix2.chats[c].rev = 0
        /\ ~Has(ix2, c) /\ \A d \in Chats \ {c} : ix2.chats[d] = s.ix.chats[d]
    BY <1>4, <2>2, EmptyIndexType, EditForm
  <2> HIDE DEF ix2
  <2>6. ix2.chats[c].rev <= sourceRev
    BY <1>4, <2>5
  <2>7. /\ GhostFree(chat, sourceRev, ix2)
        /\ \A p : NoGhosts(chat, s.ix, p) => NoGhosts(chat, ix2, p)
    BY <1>4, <2>2, <2>5, <2>6, EditGhosts DEF SnapGhostFree
  <2>8. ASSUME CanAdvance(s, t.rev), Has(s.ix, c) \/ s.ix = EmptyIndex
        PROVE  NoGhosts(chat, ix2, t.rev)
    <3>1. /\ NoGhosts(chat, s.ix, s.published) /\ NoGhosts(chat, ix2, s.published)
          /\ t.rev = s.published + 1
      BY <2>2, <2>7, <2>8 DEF CanAdvance, SnapGhostFree
    <3>2. CASE s.ix = EmptyIndex
      <4>1. NoGhosts(chat, s.ix, t.rev)
        BY <1>4, <3>2, EmptyGhosts
      <4> QED
        BY <2>7, <4>1
    <3>3. CASE Has(s.ix, c) /\ \A d \in Chats : t.rev # 0 /\ chat[d].rev = t.rev => d = c
      <4>1. \A d \in Chats : chat[d].rev = s.published + 1 => d = c
        BY <2>2, <3>1, <3>3
      <4> QED
        BY <1>4, <2>2, <2>5, <3>1, <4>1, AdvanceGhosts
    \* Otherwise the chat was gone before and is not in the index.
    <3>4. CASE Has(s.ix, c) /\ ~IsLive(chat, c) /\ chat[c].rev \in 1..(t.rev - 1)
      <4>1. chat[c].rev <= s.published
        BY <1>4, <2>2, <3>1, <3>4
      <4> QED
        BY <1>4, <3>1, <3>4, <4>1 DEF NoGhosts
    <3> QED
      BY <1>4, <2>8, <3>2, <3>3, <3>4 DEF EventOf
  <2>9. CanAdvance(s, t.rev) \in BOOLEAN
    BY <2>2 DEF CanAdvance, Snapshot
  <2> QED
    BY <1>1, <1>3, <2>2, <2>3, <2>4, <2>5, <2>7, <2>8, <2>9, ToPublishGhosts, EndTaskGhosts
<1>9. CASE TaskPublish(w)
  BY <1>1, <1>9, TaskPublishGhosts
<1>10. CASE TaskConflict(w)
  <2> DEFINE n  == NewTask("read", t.op, c, t.etag, t.rev, t.key)
             t2 == [n EXCEPT !.att = t.att + 1]
  <2>1. EndTask(w) \/ SetTask(w, t2)
    BY <1>10 DEF TaskConflict
  <2>2. t2.pc = "read" /\ t2.rev = t.rev /\ t2.chat = t.chat /\ t2.op = t.op
    BY DEF NewTask
  <2>3. UNCHANGED <<chat, sourceRev, pub, job>>
    BY <1>10 DEF TaskConflict
  <2> HIDE DEF t2
  <2>4. TaskGhostFree(chat, sourceRev, t2)
    BY <1>4, <2>2 DEF TaskGhostFree, EventOf
  <2> QED
    BY <1>1, <2>1, <2>3, <2>4, TaskOnlyGhosts, EndTaskGhosts
<1>11. CASE TaskAbandon(w)
  BY <1>1, <1>11, EndTaskGhosts DEF TaskAbandon
<1> QED
  BY <1>5, <1>6, <1>7, <1>8, <1>9, <1>10, <1>11 DEF TaskStep

LEMMA JobOnlyGhosts ==
    ASSUME GhostInv, TypeOK', UNCHANGED <<chat, sourceRev, task>>,
           pub' = pub \/ SnapGhostFree(chat, sourceRev, pub'),
           NEW j \in Jobs, NEW b, SetJob(j, b), JobGhostFree(chat, sourceRev, b)
    PROVE  GhostInv'
<1>1. Recorded /\ EventsDistinct(chat, sourceRev)'
  BY NothingRecorded DEF GhostInv
<1>2. \A i \in Jobs : job'[i] = IF i = j THEN b ELSE job[i]
  BY DEF SetJob, GhostInv, TypeOK, JobTypeOK
<1> QED
  BY <1>1, <1>2, GhostFromParts

LEMMA EndJobGhosts ==
    ASSUME GhostInv, TypeOK', UNCHANGED <<chat, sourceRev, task>>,
           pub' = pub \/ SnapGhostFree(chat, sourceRev, pub'), NEW j \in Jobs, EndJob(j)
    PROVE  GhostInv'
<1>1. JobGhostFree(chat, sourceRev, IdleJob(j))
  BY DEF JobGhostFree, IdleJob, NoItems, NoEntry, GhostInv, TypeOK
<1> QED
  BY <1>1, JobOnlyGhosts DEF EndJob

\* The first page drops what the rebuild is going to replace; what it keeps is
\* newer than the target.
LEMMA FirstPageGhosts ==
    ASSUME NEW ch \in ChatTable, NEW n \in Nat, NEW ix \in Index, Vouched(ch, n, ix),
           NEW b, b.target \in Nat
    PROVE  LET ix2 == DropStale(b, ix)
           IN  /\ Vouched(ch, n, ix2)
               /\ b.cursor = 0 => NoGhosts(ch, ix2, b.target)
               /\ \A p : NoGhosts(ch, ix, p) => NoGhosts(ch, ix2, p)
<1> DEFINE ix2 == DropStale(b, ix)
<1>1. \A c \in Chats : /\ ch[c].rev \in Nat /\ ix.chats[c].rev \in Nat
                       /\ ix.chats[c].body \in Nat
  BY DEF ChatTable, Index, Entry
<1>2. \A c \in Chats : \/ /\ ix2.chats[c] = ix.chats[c]
                          /\ b.cursor = 0 => b.target < ix.chats[c].rev
                       \/ ix2.chats[c].body = 0 /\ ix2.chats[c].rev = 0
  BY <1>1 DEF DropStale, NoEntry, Index
<1> HIDE DEF ix2
<1>3. Vouched(ch, n, ix2)
  BY <1>1, <1>2 DEF Vouched, Has
<1>4. ASSUME b.cursor = 0 PROVE NoGhosts(ch, ix2, b.target)
  BY <1>1, <1>2, <1>4 DEF NoGhosts, Vouched, Has
<1>5. \A p : NoGhosts(ch, ix, p) => NoGhosts(ch, ix2, p)
  BY <1>2 DEF NoGhosts, Has
<1> QED
  BY <1>3, <1>4, <1>5 DEF ix2

LEMMA JobReadGhosts ==
    ASSUME GhostInv, TypeOK', NEW j \in Jobs, JobRead(j)
    PROVE  GhostInv'
<1> DEFINE b == job[j]
<1>1. UNCHANGED <<chat, sourceRev, pub, task>>
  BY DEF JobRead
<1>2. /\ TypeOK /\ b \in JobState /\ b.target \in Nat /\ sourceRev \in Nat
      /\ chat \in ChatTable /\ JobGhostFree(chat, sourceRev, b)
  BY DEF GhostInv, TypeOK, JobTypeOK, JobState, ChatTable
<1>3. PICK ok \in LoadOutcomes(b.key) :
        LET s  == ReadState(ok)
            ck == s.ix.ckpt
        IN  \/ /\ ck.cursor # 0
               /\ SetJob(j, [b EXCEPT !.pc = "list", !.cursor = ck.cursor,
                                      !.target = ck.target, !.started = ck.started,
                                      !.items = NoItems, !.failed = FALSE])
            \/ EndJob(j)
            \/ /\ \/ b.cursor = 0
                  \/ ck.cursor # 0 /\ CheckpointMatches(b, ck)
               /\ SetJob(j, [b EXCEPT !.pc = "probe", !.todo = Fetched(b),
                                !.snap = [s EXCEPT !.ix = DropStale(b, s.ix)]])
  BY DEF JobRead
<1> DEFINE s   == ReadState(ok)
           ck  == s.ix.ckpt
           ix2 == DropStale(b, s.ix)
           s2  == [s EXCEPT !.ix = ix2]
           u   == [b EXCEPT !.pc = "list", !.cursor = ck.cursor, !.target = ck.target,
                            !.started = ck.started, !.items = NoItems, !.failed = FALSE]
           v   == [b EXCEPT !.pc = "probe", !.todo = Fetched(b), !.snap = s2]
<1>4. /\ s \in Snapshot /\ s.ix \in Index /\ s.published \in Nat
      /\ SnapGhostFree(chat, sourceRev, s)
  BY ReadGhosts
<1>5. \/ ck.cursor # 0 /\ SetJob(j, u)
      \/ EndJob(j)
      \/ (b.cursor = 0 \/ (ck.cursor # 0 /\ CheckpointMatches(b, ck))) /\ SetJob(j, v)
  BY <1>3
<1> HIDE DEF s
<1>6. CASE ck.cursor # 0 /\ SetJob(j, u)
  <2>1. u.pc = "list" /\ u.target = ck.target /\ u.items = NoItems
    BY <1>2 DEF JobState
  <2>2. ck.target <= sourceRev
    BY <1>4, <1>6 DEF SnapGhostFree, GhostFree
  <2> HIDE DEF u
  <2>3. JobGhostFree(chat, sourceRev, u)
    BY <1>2, <2>1, <2>2 DEF JobGhostFree, NoItems, NoEntry
  <2> QED
    BY <1>1, <1>6, <2>3, JobOnlyGhosts
<1>7. CASE EndJob(j)
  BY <1>1, <1>7, EndJobGhosts
<1>8. CASE (b.cursor = 0 \/ (ck.cursor # 0 /\ CheckpointMatches(b, ck))) /\ SetJob(j, v)
  <2>1. /\ v.pc = "probe" /\ v.target = b.target /\ v.items = b.items /\ v.snap = s2
        /\ s2.ix = ix2 /\ s2.published = s.published /\ s2.inc = s.inc
    BY <1>2, <1>4 DEF JobState, Snapshot
  <2>2. /\ Vouched(chat, sourceRev, ix2)
        /\ b.cursor = 0 => NoGhosts(chat, ix2, b.target)
        /\ \A p : NoGhosts(chat, s.ix, p) => NoGhosts(chat, ix2, p)
    BY <1>2, <1>4, FirstPageGhosts DEF SnapGhostFree, GhostFree
  <2>3. NoGhosts(chat, ix2, b.target)
    <3>1. CASE b.cursor = 0
      BY <2>2, <3>1
    <3>2. CASE ck.cursor # 0 /\ CheckpointMatches(b, ck)
      <4>1. NoGhosts(chat, s.ix, b.target)
        BY <1>4, <3>2 DEF SnapGhostFree, GhostFree, CheckpointMatches
      <4> QED
        BY <2>2, <4>1
    <3> QED
      BY <1>8, <3>1, <3>2
  <2>4. ~s.inc => NoGhosts(chat, ix2, s.published)
    BY <1>4, <2>2 DEF SnapGhostFree
  <2>5. SetJob(j, v)
    BY <1>8
  <2> HIDE DEF v, s2, ix2
  <2>6. JobGhostFree(chat, sourceRev, v)
    BY <1>2, <1>4, <2>1, <2>2, <2>3, <2>4 DEF JobGhostFree, SnapGhostFree
  <2> QED
    BY <1>1, <2>5, <2>6, JobOnlyGhosts
<1> QED
  BY <1>5, <1>6, <1>7, <1>8

LEMMA JobProbeGhosts ==
    ASSUME GhostInv, TypeOK', NEW j \in Jobs, NEW c \in Chats, JobProbe(j, c)
    PROVE  GhostInv'
<1> DEFINE b  == job[j]
           ix == b.snap.ix
           it == b.items[c]
<1>1. /\ b \in JobState /\ sourceRev \in Nat /\ chat \in ChatTable /\ it \in Entry
      /\ ix \in Index /\ b.snap \in Snapshot
      /\ JobGhostFree(chat, sourceRev, b)
  BY DEF GhostInv, TypeOK, JobTypeOK, JobState, Snapshot, ChatTable
<1>2. PICK new : /\ SetJob(j, [b EXCEPT !.todo = @ \ {c}, !.snap.ix = new])
                 /\ \/ ~Live(c) /\ new = Remove(ix, c)
                    \/ new = ix
                    \/ Live(c) /\ new = Upsert(ix, c, it)
  BY DEF JobProbe
<1>3. b.pc = "probe" /\ UNCHANGED <<chat, sourceRev, pub, task>>
  BY DEF JobProbe
<1>4. it.rev <= sourceRev
  BY <1>1 DEF JobGhostFree
<1> HIDE DEF it
<1>5. /\ Vouched(chat, sourceRev, ix) => Vouched(chat, sourceRev, new)
      /\ \A p : NoGhosts(chat, ix, p) => NoGhosts(chat, new, p)
  <2>1. CASE ~Live(c) /\ new = Remove(ix, c)
    BY <1>1, <2>1, EditForm, EditGhosts
  <2>2. CASE Live(c) /\ new = Upsert(ix, c, it)
    BY <1>1, <1>4, <2>2, EditForm, EditGhosts DEF Live, IsLive
  <2> QED
    BY <1>2, <2>1, <2>2
<1> DEFINE u == [b EXCEPT !.todo = @ \ {c}, !.snap.ix = new]
<1>6. /\ u.pc = b.pc /\ u.target = b.target /\ u.items = b.items /\ u.snap.ix = new
      /\ u.snap.published = b.snap.published /\ u.snap.inc = b.snap.inc
  BY <1>1 DEF JobState, Snapshot
<1>7. SetJob(j, u)
  BY <1>2
<1> HIDE DEF u
<1>8. JobGhostFree(chat, sourceRev, u)
  BY <1>1, <1>3, <1>5, <1>6 DEF JobGhostFree
<1> QED
  BY <1>3, <1>7, <1>8, JobOnlyGhosts

LEMMA JobPublishGhosts ==
    ASSUME GhostInv, TypeOK', NEW j \in Jobs, JobPublish(j)
    PROVE  GhostInv'
<1> DEFINE b   == job[j]
           ix  == b.snap.ix
           ix2 == PageIndex(b)
           s   == [b.snap EXCEPT !.ix = ix2]
           u   == [b EXCEPT !.pc = "list", !.cursor = b.next, !.prior = b.prior \/ b.failed,
                            !.items = NoItems, !.failed = FALSE, !.snap = NoSnapshot]
<1>1. /\ b.pc = "probe" /\ PublishAccepted(s, PageCovered(b), b.key)
      /\ pub' = Published(s, PageCovered(b), PageIncomplete(b), b.key)
      /\ EndJob(j) \/ SetJob(j, u)
      /\ UNCHANGED <<chat, sourceRev, task>>
  BY DEF JobPublish, ReadyToPublish
<1>2. /\ b \in JobState /\ sourceRev \in Nat /\ b.snap \in Snapshot /\ ix \in Index
      /\ b.snap.published \in Nat /\ b.target \in Nat
      /\ JobGhostFree(chat, sourceRev, b)
  BY DEF GhostInv, TypeOK, JobTypeOK, JobState, Snapshot
<1>3. /\ s.ix = ix2 /\ ix2.chats = ix.chats
      /\ ix2.ckpt.cursor # 0 => ix2.ckpt.target = b.target
  BY <1>2 DEF Snapshot, PageIndex, Index, NoCheckpoint
<1>4. /\ pub'.published = PageCovered(b) /\ pub'.inc = PageIncomplete(b) /\ pub'.ix = ix2
  BY <1>1, <1>3 DEF Published
<1>5. u.pc = "list" /\ u.target = b.target /\ u.items = NoItems
  BY <1>2 DEF JobState
<1> HIDE DEF ix2, u
<1>6. /\ Vouched(chat, sourceRev, ix2)
      /\ \A p : NoGhosts(chat, ix, p) => NoGhosts(chat, ix2, p)
  BY <1>1, <1>2, <1>3 DEF JobGhostFree, Vouched, NoGhosts, Has
<1>7. GhostFree(chat, sourceRev, ix2)
  BY <1>1, <1>2, <1>3, <1>6 DEF GhostFree, JobGhostFree
<1>8. ~PageIncomplete(b) => NoGhosts(chat, ix2, PageCovered(b))
  <2>1. CASE b.snap.published > b.target
    BY <1>1, <1>2, <1>6, <2>1 DEF PageIncomplete, PageCovered, JobGhostFree
  <2>2. CASE ~(b.snap.published > b.target)
    BY <1>1, <1>2, <1>6, <2>2 DEF PageCovered, JobGhostFree
  <2> QED
    BY <2>1, <2>2
<1>9. PageCovered(b) <= sourceRev
  BY <1>1 DEF PublishAccepted
<1>10. SnapGhostFree(chat, sourceRev, pub')
  BY <1>4, <1>7, <1>8, <1>9 DEF SnapGhostFree
<1>11. JobGhostFree(chat, sourceRev, u)
  BY <1>2, <1>5 DEF JobGhostFree, NoItems, NoEntry
<1> QED
  BY <1>1, <1>10, <1>11, JobOnlyGhosts, EndJobGhosts

LEMMA JobStepGhosts ==
    ASSUME GhostInv, NEW j \in Jobs,
           JobStep(j) \/ JobAbort(j) \/ \E k \in Keys : JobStart(j, k)
    PROVE  GhostInv'
<1> DEFINE b == job[j]
<1>1. TypeOK'
  BY JobStepTypeOK, JobStartTypeOK DEF GhostInv
<1>2. /\ b \in JobState /\ b.items \in [Chats -> Entry] /\ sourceRev \in Nat
      /\ JobGhostFree(chat, sourceRev, b)
  BY DEF GhostInv, TypeOK, JobTypeOK, JobState
<1>3. ASSUME NEW k \in Keys, JobStart(j, k) PROVE GhostInv'
  <2> DEFINE fresh == [IdleJob(j) EXCEPT !.pc = "list", !.key = k, !.target = sourceRev]
             ck    == pub.ix.ckpt
             u     == [fresh EXCEPT !.cursor = ck.cursor, !.target = ck.target,
                                    !.started = ck.started]
  <2>1. \/ SetJob(j, fresh)
        \/ ck.cursor # 0 /\ SetJob(j, u)
    BY <1>3 DEF JobStart, ResumeOK
  <2>2. UNCHANGED <<chat, sourceRev, pub, task>>
    BY <1>3 DEF JobStart
  <2>3. /\ fresh.pc = "list" /\ fresh.target = sourceRev /\ fresh.items = NoItems
        /\ u.pc = "list" /\ u.target = ck.target /\ u.items = NoItems
    BY DEF IdleJob
  <2>4. ck.cursor # 0 => ck.target <= sourceRev
    BY DEF GhostInv, SnapGhostFree, GhostFree
  <2> HIDE DEF fresh, u
  <2>5. JobGhostFree(chat, sourceRev, fresh)
    BY <1>2, <2>3 DEF JobGhostFree, NoItems, NoEntry
  <2>6. ck.cursor # 0 => JobGhostFree(chat, sourceRev, u)
    BY <1>2, <2>3, <2>4 DEF JobGhostFree, NoItems, NoEntry
  <2> QED
    BY <1>1, <2>1, <2>2, <2>5, <2>6, JobOnlyGhosts
<1>4. CASE JobList(j)
  <2>1. PICK next \in 0..sourceRev :
           SetJob(j, [b EXCEPT !.pc = "fetch", !.next = next, !.failed = FALSE,
                               !.items = NoItems, !.att = 0,
                               !.todo = {c \in PageAfter(b.cursor) : Live(c)}])
    BY <1>4 DEF JobList
  <2> DEFINE u == [b EXCEPT !.pc = "fetch", !.next = next, !.failed = FALSE,
                            !.items = NoItems, !.att = 0,
                            !.todo = {c \in PageAfter(b.cursor) : Live(c)}]
  <2>2. u.pc = "fetch" /\ u.target = b.target /\ u.items = NoItems
    BY <1>2 DEF JobState
  <2>3. SetJob(j, u) /\ UNCHANGED <<chat, sourceRev, pub, task>>
    BY <1>4, <2>1 DEF JobList
  <2> HIDE DEF u
  <2>4. JobGhostFree(chat, sourceRev, u)
    BY <1>2, <2>2 DEF JobGhostFree, NoItems, NoEntry
  <2> QED
    BY <1>1, <2>3, <2>4, JobOnlyGhosts
<1>5. ASSUME NEW c \in Chats, JobFetch(j, c) PROVE GhostInv'
  <2> DEFINE e == [etag |-> chat[c].etag, rev |-> b.target, body |-> chat[c].rev]
             u == [b EXCEPT !.todo = @ \ {c}, !.items[c] = e]
             v == [b EXCEPT !.todo = @ \ {c}, !.failed = TRUE]
  <2>1. /\ SetJob(j, u) \/ SetJob(j, v)
        /\ b.pc = "fetch" /\ UNCHANGED <<chat, sourceRev, pub, task>>
    BY <1>5 DEF JobFetch
  <2>2. e.rev = b.target
    OBVIOUS
  <2> HIDE DEF e
  <2>3. u.pc = b.pc /\ u.target = b.target /\ u.items = [b.items EXCEPT ![c] = e]
    BY <1>2 DEF JobState
  <2>4. v.pc = b.pc /\ v.target = b.target /\ v.items = b.items
    BY <1>2 DEF JobState
  <2> HIDE DEF u, v
  <2>5. JobGhostFree(chat, sourceRev, u) /\ JobGhostFree(chat, sourceRev, v)
    BY <1>2, <2>1, <2>2, <2>3, <2>4 DEF JobGhostFree
  <2> QED
    BY <1>1, <2>1, <2>5, JobOnlyGhosts
<1>6. CASE JobConflict(j)
  <2> DEFINE u == [b EXCEPT !.pc = "read", !.att = @ + 1, !.snap = NoSnapshot]
  <2>1. /\ EndJob(j) \/ SetJob(j, u)
        /\ UNCHANGED <<chat, sourceRev, pub, task>>
    BY <1>6 DEF JobConflict
  <2>2. u.pc = "read" /\ u.target = b.target /\ u.items = b.items
    BY <1>2 DEF JobState
  <2> HIDE DEF u
  <2>3. JobGhostFree(chat, sourceRev, u)
    BY <1>2, <2>2 DEF JobGhostFree
  <2> QED
    BY <1>1, <2>1, <2>3, JobOnlyGhosts, EndJobGhosts
<1>7. CASE JobAbort(j)
  BY <1>1, <1>7, EndJobGhosts DEF JobAbort
<1> QED
  BY <1>1, <1>3, <1>4, <1>5, <1>6, <1>7, JobReadGhosts, JobProbeGhosts, JobPublishGhosts
     DEF JobStep

LEMMA GhostInit == Init => GhostInv
<1> SUFFICES ASSUME Init PROVE GhostInv
  OBVIOUS
<1>1. TypeOK
  BY InitTypeOK
<1>2. EventsDistinct(chat, sourceRev) /\ sourceRev = 0
  BY DEF Init, EventsDistinct
<1>3. SnapGhostFree(chat, sourceRev, pub)
  <2>1. pub.published = 0 /\ pub.ix = EmptyIndex
    BY DEF Init, NoPublication
  <2> QED
    BY <1>2, <2>1, EmptyGhosts DEF SnapGhostFree
<1>4. \A w \in Workers : TaskGhostFree(chat, sourceRev, task[w])
  BY DEF Init, TaskGhostFree, IdleTask, NewTask
<1>5. \A j \in Jobs : JobGhostFree(chat, sourceRev, job[j])
  BY <1>2 DEF Init, JobGhostFree, IdleJob, NoItems, NoEntry
<1> QED
  BY <1>1, <1>2, <1>3, <1>4, <1>5 DEF GhostInv

LEMMA GhostStep ==
    ASSUME MissesHarmless, GhostInv, [Next]_vars
    PROVE  GhostInv'
<1>1. CASE UNCHANGED vars
  <2>1. TypeOK'
    BY TypeStep DEF GhostInv
  <2>2. Recorded /\ EventsDistinct(chat, sourceRev)'
    BY <1>1, NothingRecorded DEF GhostInv, vars
  <2> QED
    BY <1>1, <2>1, <2>2, GhostFromParts DEF vars
<1> QED
  BY <1>1, ClientGhosts, TaskStepGhosts, JobStepGhosts DEF Next

\* In any environment in which a delete of an absent chat does not claim the
\* revision of another event while chat ids are used again, the record never
\* vouches for an index that still holds a chat deleted within the published
\* revision: whatever rewraps, unreadable objects, unregistered keys, repeated
\* deletes, registrations and failures there are (removeDeletedChatFromSearch,
\* searchReindexPage).
THEOREM DeletesHonest == ASSUME MissesHarmless PROVE Spec => []NoGhostChat
<1>1. GhostInv => NoGhostChat
  BY DEF GhostInv, SnapGhostFree, NoGhosts, NoGhostChat, Live, IsLive
<1>2. MissesHarmless
  OBVIOUS
<1>3. GhostInv /\ [Next]_vars => GhostInv'
  BY <1>2, GhostStep
<1> QED
  BY <1>1, <1>3, GhostInit, PTL DEF Spec
-----------------------------------------------------------------------------
(* What an index claims is stable: chats only change at new revisions.      *)

LEMMA IndexStable ==
    ASSUME NEW ch \in ChatTable, NEW ch2 \in ChatTable, NEW n \in Nat, NEW n2 \in Nat,
           ChatGrows(ch, n, ch2, n2), NEW ix \in Index, IndexOK(ch, n, ix)
    PROVE  IndexOK(ch2, n2, ix)
<1>1. \A c \in Chats : ix.chats[c] \in Entry /\ ix.chats[c].rev \in Nat
  BY DEF Index, Entry
<1>2. \A c \in Chats : ch[c].rev \in Nat /\ ch2[c].rev \in Nat
  BY DEF ChatTable
<1>3. ix.ckpt.target \in Nat /\ ix.ckpt.cursor \in Nat
  BY DEF Index, Checkpoint
<1>4. Labelled(n2, ix)
  BY <1>1 DEF IndexOK, Labelled, ChatGrows
<1>5. Honest(ch2, ix)
  BY <1>1, <1>2 DEF IndexOK, Labelled, Honest, ChatGrows, IsLive
<1>6. CheckpointOK(ch2, n2, ix)
  BY <1>1, <1>2, <1>3 DEF IndexOK, CheckpointOK, Rebuilt, Reflects, ChatGrows, IsLive
<1> QED
  BY <1>4, <1>5, <1>6 DEF IndexOK

LEMMA CoversStable ==
    ASSUME NEW ch \in ChatTable, NEW ch2 \in ChatTable, NEW n \in Nat, NEW n2 \in Nat,
           ChatGrows(ch, n, ch2, n2), NEW ix \in Index, NEW p \in Nat, p <= n,
           Covers(ch, ix, p)
    PROVE  Covers(ch2, ix, p)
<1>1. \A c \in Chats : ch[c].rev \in Nat /\ ch2[c].rev \in Nat
  BY DEF ChatTable
<1> QED
  BY <1>1 DEF Covers, Reflects, ChatGrows, IsLive

LEMMA SnapStable ==
    ASSUME NEW ch \in ChatTable, NEW ch2 \in ChatTable, NEW n \in Nat, NEW n2 \in Nat,
           ChatGrows(ch, n, ch2, n2), NEW s \in Snapshot, SnapOK(ch, n, s)
    PROVE  SnapOK(ch2, n2, s)
<1>1. s.ix \in Index /\ s.published \in Nat
  BY DEF Snapshot
<1>2. s.published <= n2
  BY <1>1 DEF SnapOK, ChatGrows
<1> QED
  BY <1>1, <1>2, IndexStable, CoversStable DEF SnapOK

LEMMA TargetStable ==
    ASSUME NEW ch \in ChatTable, NEW ch2 \in ChatTable, NEW n \in Nat, NEW n2 \in Nat,
           ChatGrows(ch, n, ch2, n2), NEW t \in Task, t.chat \in Chats, t.rev <= n,
           TargetOK(ch, t)
    PROVE  TargetOK(ch2, t)
<1>1. t.rev \in Nat /\ \A c \in Chats : ch[c].rev \in Nat /\ ch2[c].rev \in Nat
  BY DEF ChatTable, Task
<1>2. CASE ch2[t.chat] = ch[t.chat]
  BY <1>2 DEF TargetOK, IsLive
<1>3. CASE /\ ch2[t.chat].rev > n
           /\ RecreateAllowed \/ IsLive(ch, t.chat) \/ ch[t.chat].rev = 0
  BY <1>1, <1>3 DEF TargetOK
<1> QED
  BY <1>2, <1>3 DEF ChatGrows

LEMMA PageStable ==
    ASSUME NEW ch \in ChatTable, NEW ch2 \in ChatTable, NEW n \in Nat, NEW n2 \in Nat,
           ChatGrows(ch, n, ch2, n2), NEW b \in JobState, b.target <= n,
           PageOK(ch, b), PageFull(ch, b)
    PROVE  PageOK(ch2, b) /\ PageFull(ch2, b)
<1>1. \A c \in Chats : ch[c].rev \in Nat /\ ch2[c].rev \in Nat
  BY DEF ChatTable
<1>2. b.target \in Nat /\ b.todo \subseteq Chats
  BY DEF JobState
<1>3. PageOK(ch2, b)
  BY <1>1, <1>2 DEF PageOK, ChatGrows, IsLive
<1>4. PageFull(ch2, b)
  BY <1>1, <1>2 DEF PageFull, InPage, ChatGrows, IsLive
<1> QED
  BY <1>3, <1>4

LEMMA MergeStable ==
    ASSUME NEW ch \in ChatTable, NEW ch2 \in ChatTable, NEW n \in Nat, NEW n2 \in Nat,
           ChatGrows(ch, n, ch2, n2), NEW b \in JobState, b.target <= n,
           MergeOK(ch, n, b)
    PROVE  MergeOK(ch2, n2, b)
<1> DEFINE ix == b.snap.ix
<1>1. \A c \in Chats : ch[c].rev \in Nat /\ ch2[c].rev \in Nat
  BY DEF ChatTable
<1>2. b.target \in Nat /\ b.cursor \in Nat /\ b.next \in Nat /\ b.snap.published \in Nat
  BY DEF JobState, Snapshot
<1>3. \A c \in Chats : ix.chats[c].rev \in Nat
  BY DEF JobState, Snapshot, Index, Entry
<1>4. b.snap.published <= n2 /\ Labelled(n2, ix)
  BY <1>2, <1>3 DEF MergeOK, Labelled, ChatGrows
<1>5. Honest(ch2, ix)
  BY <1>1, <1>3 DEF MergeOK, Labelled, Honest, ChatGrows, IsLive
<1>6. Rebuilt(ch2, ix, b.cursor, b.target)
  BY <1>1, <1>2 DEF MergeOK, Rebuilt, Reflects, ChatGrows, IsLive
<1>7. \A c \in Chats : b.items[c].body # 0 /\ c \notin b.todo /\ InPage(ch2, b, c)
          => Reflects(ch2, ix, c)
  BY <1>1, <1>2 DEF MergeOK, InPage, Reflects, ChatGrows, IsLive
<1>8. ~b.snap.inc /\ (b.snap.obj => b.snap.ok) =>
          \A c \in Chats : b.target < ch2[c].rev /\ ch2[c].rev <= b.snap.published =>
              /\ IsLive(ch2, c) => Reflects(ch2, ix, c)
              /\ ~IsLive(ch2, c) => ~Has(ix, c)
  BY <1>1, <1>2 DEF MergeOK, Reflects, ChatGrows, IsLive
<1> QED
  BY <1>4, <1>5, <1>6, <1>7, <1>8 DEF MergeOK
-----------------------------------------------------------------------------
(* Merging one chat into an index. *)

\* A push of a chat that is there is added, over an older entry or none.
LEMMA UpsertOK ==
    ASSUME NEW ch \in ChatTable, NEW n \in Nat, NEW ix \in Index, IndexOK(ch, n, ix),
           NEW c \in Chats, IsLive(ch, c), NEW r \in Nat, r # 0, r <= n, r <= ch[c].rev,
           Has(ix, c) => ix.chats[c].rev <= r, NEW e \in Nat
    PROVE  LET ix2 == Upsert(ix, c, [etag |-> e, rev |-> r, body |-> r])
           IN  /\ IndexOK(ch, n, ix2)
               /\ \A p \in Nat : /\ Covers(ch, ix, p)
                                 /\ r = p + 1
                                 /\ \A d \in Chats : ch[d].rev = p + 1 => d = c
                                 => Covers(ch, ix2, p + 1)
<1> DEFINE ent == [etag |-> e, rev |-> r, body |-> r]
           ix2 == Upsert(ix, c, ent)
<1>1. \A d \in Chats : ch[d].rev \in Nat /\ ix.chats[d].rev \in Nat /\ ix.chats[d].body \in Nat
  BY DEF ChatTable, Index, Entry
<1>2. /\ ix2.chats[c].rev = r /\ ix2.chats[c].body = r
      /\ \A d \in Chats \ {c} : ix2.chats[d] = ix.chats[d]
      /\ ix2.ckpt = ix.ckpt
  BY DEF Upsert, Index
<1>3. ix.ckpt.target \in Nat /\ ix.ckpt.cursor \in Nat
  BY DEF Index, Checkpoint
<1> HIDE DEF ix2
<1>4. Labelled(n, ix2) /\ Honest(ch, ix2)
  BY <1>1, <1>2 DEF IndexOK, Labelled, Honest, Has
<1>5. \A d \in Chats : /\ Reflects(ch, ix, d) => Reflects(ch, ix2, d)
                       /\ ~IsLive(ch, d) /\ ~Has(ix, d) => ~Has(ix2, d)
  BY <1>1, <1>2 DEF Reflects, Has
<1>6. CheckpointOK(ch, n, ix2)
  BY <1>2, <1>5 DEF IndexOK, CheckpointOK, Rebuilt
<1>7. ASSUME NEW p \in Nat, Covers(ch, ix, p), r = p + 1,
             \A d \in Chats : ch[d].rev = p + 1 => d = c
      PROVE  Covers(ch, ix2, p + 1)
  <2> SUFFICES ASSUME NEW d \in Chats, ch[d].rev <= p + 1
               PROVE  /\ IsLive(ch, d) => Reflects(ch, ix2, d)
                      /\ ~IsLive(ch, d) => ~Has(ix2, d)
    BY DEF Covers
  <2>1. CASE ch[d].rev <= p
    BY <1>5, <1>7, <2>1 DEF Covers
  <2>2. CASE ch[d].rev = p + 1
    BY <1>1, <1>2, <1>7, <2>2 DEF Reflects, Has
  <2> QED
    BY <1>1, <2>1, <2>2
<1> QED
  BY <1>4, <1>6, <1>7 DEF IndexOK, ix2

\* A chat that is gone, or whose last write is not indexed yet, is dropped.
LEMMA RemoveOK ==
    ASSUME NEW ch \in ChatTable, NEW n \in Nat, NEW ix \in Index, IndexOK(ch, n, ix),
           NEW c \in Chats, ~IsLive(ch, c) \/ ~Reflects(ch, ix, c)
    PROVE  LET ix2 == Remove(ix, c)
           IN  /\ IndexOK(ch, n, ix2)
               /\ \A p \in Nat : /\ Covers(ch, ix, p)
                                 /\ \A d \in Chats : ch[d].rev = p + 1
                                                       => d = c /\ ~IsLive(ch, c)
                                 => Covers(ch, ix2, p + 1)
<1> DEFINE ix2 == Remove(ix, c)
<1>1. \A d \in Chats : ch[d].rev \in Nat /\ ix.chats[d].rev \in Nat /\ ix.chats[d].body \in Nat
  BY DEF ChatTable, Index, Entry
<1>2. /\ ix2.chats[c].rev = 0 /\ ix2.chats[c].body = 0
      /\ \A d \in Chats \ {c} : ix2.chats[d] = ix.chats[d]
      /\ ix2.ckpt = ix.ckpt
  BY DEF Remove, NoEntry, Index
<1> HIDE DEF ix2
<1>3. Labelled(n, ix2) /\ Honest(ch, ix2)
  BY <1>1, <1>2 DEF IndexOK, Labelled, Honest, Has
<1>4. \A d \in Chats : /\ IsLive(ch, d) /\ Reflects(ch, ix, d) => Reflects(ch, ix2, d)
                       /\ ~Has(ix, d) => ~Has(ix2, d)
                       /\ d = c => ~Has(ix2, d)
  BY <1>1, <1>2 DEF Reflects, Has
<1>5. CheckpointOK(ch, n, ix2)
  BY <1>2, <1>4 DEF IndexOK, CheckpointOK, Rebuilt
<1>6. ASSUME NEW p \in Nat, Covers(ch, ix, p),
             \A d \in Chats : ch[d].rev = p + 1 => d = c /\ ~IsLive(ch, c)
      PROVE  Covers(ch, ix2, p + 1)
  <2> SUFFICES ASSUME NEW d \in Chats, ch[d].rev <= p + 1
               PROVE  /\ IsLive(ch, d) => Reflects(ch, ix2, d)
                      /\ ~IsLive(ch, d) => ~Has(ix2, d)
    BY DEF Covers
  <2>1. CASE ch[d].rev <= p
    BY <1>4, <1>6, <2>1 DEF Covers
  <2>2. CASE ch[d].rev = p + 1
    BY <1>4, <1>6, <2>2
  <2> QED
    BY <1>1, <2>1, <2>2
<1> QED
  BY <1>3, <1>5, <1>6 DEF IndexOK, ix2

\* The incomplete flag of an index plays no part in what it covers.
LEMMA FlagIrrelevant ==
    ASSUME NEW ch, NEW n, NEW ix \in Index, NEW f \in BOOLEAN
    PROVE  LET ix2 == [ix EXCEPT !.inc = f]
           IN  /\ IndexOK(ch, n, ix) => IndexOK(ch, n, ix2)
               /\ \A p : Covers(ch, ix, p) => Covers(ch, ix2, p)
<1> DEFINE ix2 == [ix EXCEPT !.inc = f]
<1>1. ix2.chats = ix.chats /\ ix2.ckpt = ix.ckpt
  BY DEF Index
<1> HIDE DEF ix2
<1>2. IndexOK(ch, n, ix) => IndexOK(ch, n, ix2)
  BY <1>1 DEF IndexOK, Labelled, Honest, CheckpointOK, Rebuilt, Reflects, Has
<1>3. \A p : Covers(ch, ix, p) => Covers(ch, ix2, p)
  BY <1>1 DEF Covers, Reflects, Has
<1> QED
  BY <1>2, <1>3 DEF ix2

LEMMA EmptyOK ==
    ASSUME NEW ch \in ChatTable, NEW n \in Nat
    PROVE  IndexOK(ch, n, EmptyIndex)
<1>1. \A c \in Chats : EmptyIndex.chats[c].rev = 0 /\ EmptyIndex.chats[c].body = 0
  BY DEF EmptyIndex, NoEntry
<1>2. EmptyIndex.ckpt.cursor = 0
  BY DEF EmptyIndex, NoCheckpoint
<1> QED
  BY <1>1, <1>2 DEF IndexOK, Labelled, Honest, CheckpointOK, Has
-----------------------------------------------------------------------------
(* Frames: what a step does not touch keeps its invariant. *)

Grows == ChatGrows(chat, sourceRev, chat', sourceRev')

LEMMA NoGrowth ==
    ASSUME TypeOK, UNCHANGED <<chat, sourceRev>>
    PROVE  Grows /\ (ChatOK(chat, sourceRev) => ChatOK(chat, sourceRev)')
BY DEF Grows, ChatGrows, TypeOK, ChatOK, IsLive

LEMMA TaskFrame ==
    ASSUME TypeOK, TypeOK', Grows, NEW w \in Workers, TaskOK(chat, sourceRev, task[w]),
           TaskGhostFree(chat, sourceRev, task[w])
    PROVE  TaskOK(chat', sourceRev', task[w])
<1> DEFINE t == task[w]
<1> SUFFICES ASSUME t.pc # "idle" PROVE TaskOK(chat', sourceRev', t)
  BY DEF TaskOK
<1>1. /\ chat \in ChatTable /\ chat' \in ChatTable
      /\ sourceRev \in Nat /\ sourceRev' \in Nat
      /\ ChatGrows(chat, sourceRev, chat', sourceRev')
  BY DEF TypeOK, ChatTable, Grows
<1>2. t \in Task /\ t.chat \in Chats /\ t.snap \in Snapshot /\ t.snap.ix \in Index
      /\ t.covered \in Nat
  BY DEF TypeOK, TaskTypeOK, Task, Snapshot
<1>3. TargetOK(chat', t)
  BY <1>1, <1>2, TargetStable DEF TaskOK, TaskGhostFree
<1>4. t.pc = "probe" => t.op = "index" /\ SnapOK(chat', sourceRev', t.snap)
  BY <1>1, <1>2, SnapStable DEF TaskOK
<1>5. t.pc = "publish" => IndexOK(chat', sourceRev', t.snap.ix)
  BY <1>1, <1>2, IndexStable DEF TaskOK
<1>6. t.pc = "publish" /\ ~t.inc => /\ t.covered <= sourceRev'
                                    /\ Covers(chat', t.snap.ix, t.covered)
  <2>1. sourceRev <= sourceRev'
    BY <1>1 DEF ChatGrows
  <2> QED
    BY <1>1, <1>2, <2>1, CoversStable DEF TaskOK
<1> QED
  BY <1>3, <1>4, <1>5, <1>6 DEF TaskOK

LEMMA JobFrame ==
    ASSUME TypeOK, TypeOK', Grows, NEW j \in Jobs, JobOK(chat, sourceRev, pub, job[j]),
           pub' = pub \/ pub.gen < pub'.gen
    PROVE  JobOK(chat', sourceRev', pub', job[j])
<1> DEFINE b == job[j]
<1> SUFFICES ASSUME b.pc # "idle" PROVE JobOK(chat', sourceRev', pub', b)
  BY DEF JobOK
<1>1. /\ chat \in ChatTable /\ chat' \in ChatTable
      /\ sourceRev \in Nat /\ sourceRev' \in Nat
      /\ ChatGrows(chat, sourceRev, chat', sourceRev')
      /\ sourceRev <= sourceRev'
  BY DEF TypeOK, ChatTable, Grows, ChatGrows
<1>2. b \in JobState /\ b.snap.gen \in Nat /\ b.target \in Nat
  BY DEF TypeOK, JobTypeOK, JobState, Snapshot
<1>3. b.target <= sourceRev /\ b.target \in 1..sourceRev'
  BY <1>1, <1>2 DEF JobOK
<1>4. b.pc # "list" => PageOK(chat', b) /\ PageFull(chat', b)
  BY <1>1, <1>2, <1>3, PageStable DEF JobOK
<1>5. b.pc = "probe" => MergeOK(chat', sourceRev', b)
  BY <1>1, <1>2, <1>3, MergeStable DEF JobOK
<1>6. b.pc = "probe" => SnapFresh(pub', b)
  <2>1. pub.gen \in Nat /\ pub'.gen \in Nat
    BY DEF TypeOK, Publication
  <2> QED
    BY <1>2, <2>1 DEF JobOK, SnapFresh
<1> QED
  BY <1>3, <1>4, <1>5, <1>6 DEF JobOK

LEMMA PubFrame ==
    ASSUME TypeOK, TypeOK', Grows, PubInv, pub' = pub
    PROVE  PubInv'
<1>1. /\ chat \in ChatTable /\ chat' \in ChatTable
      /\ sourceRev \in Nat /\ sourceRev' \in Nat
      /\ ChatGrows(chat, sourceRev, chat', sourceRev')
      /\ sourceRev <= sourceRev'
  BY DEF TypeOK, ChatTable, Grows, ChatGrows
<1>2. pub.ix \in Index /\ pub.published \in Nat
  BY DEF TypeOK, Publication
<1>3. IndexOK(chat', sourceRev', pub.ix)
  BY <1>1, <1>2, IndexStable DEF PubInv
<1>4. ~pub.inc => Covers(chat', pub.ix, pub.published)
  BY <1>1, <1>2, CoversStable DEF PubInv
<1> QED
  BY <1>1, <1>2, <1>3, <1>4 DEF PubInv

\* A step preserves the invariant if it does so where it changes something.
LEMMA InvFromParts ==
    ASSUME CoverageInv, GhostInv, TypeOK', Grows, ChatOK(chat, sourceRev)', KeyInv', PubInv',
           pub' = pub \/ pub.gen < pub'.gen,
           \A w \in Workers : task'[w] = task[w] \/ TaskOK(chat', sourceRev', task'[w]),
           \A j \in Jobs : job'[j] = job[j] \/ JobOK(chat', sourceRev', pub', job'[j])
    PROVE  CoverageInv'
<1>1. ASSUME NEW w \in Workers PROVE TaskOK(chat', sourceRev', task'[w])
  BY <1>1, TaskFrame DEF CoverageInv, GhostInv
<1>2. ASSUME NEW j \in Jobs PROVE JobOK(chat', sourceRev', pub', job'[j])
  BY <1>2, JobFrame DEF CoverageInv
<1> QED
  BY <1>1, <1>2 DEF CoverageInv

LEMMA ClientInv ==
    ASSUME Orderly, CoverageInv, GhostInv, ClientStep
    PROVE  CoverageInv'
<1>1. TypeOK /\ TypeOK' /\ ChatOK(chat, sourceRev) /\ KeyInv /\ PubInv
  BY ClientTypeOK DEF CoverageInv
<1>2. sourceRev \in Nat /\ \A c \in Chats : chat[c].rev \in Nat /\ chat[c].etag \in Nat
  BY <1>1 DEF TypeOK
<1>3. ASSUME NEW w \in Workers, NEW c \in Chats, NEW k \in Keys, Push(w, c, k)
      PROVE  CoverageInv'
  <2> DEFINE t == NewTask("read", "index", c, chat[c].etag + 1, sourceRev + 1, k)
  <2>1. /\ sourceRev' = sourceRev + 1
        /\ chat'[c] = [etag |-> chat[c].etag + 1, rev |-> sourceRev + 1, key |-> k]
        /\ \A d \in Chats \ {c} : chat'[d] = chat[d]
        /\ RecreateAllowed \/ IsLive(chat, c) \/ chat[c].rev = 0
    BY <1>1, <1>3 DEF Push, TypeOK, Live, IsLive
  <2>2. Grows
    BY <1>2, <2>1 DEF Grows, ChatGrows, IsLive
  <2>3. ChatOK(chat, sourceRev)'
    BY <1>1, <1>2, <2>1 DEF ChatOK, IsLive
  <2>4. KeyInv'
    BY <1>1, <1>3, ConstantsOK DEF Push, KeyInv, ClientHas
  <2>5. PubInv'
    BY <1>1, <1>3, <2>2, PubFrame DEF Push
  <2>6. /\ t.pc = "read" /\ t.op = "index" /\ t.chat = c
        /\ t.rev = sourceRev + 1 /\ t.etag = chat[c].etag + 1
    BY DEF NewTask
  <2>7. task'[w] = t /\ \A x \in Workers \ {w} : task'[x] = task[x]
    BY <1>1, <1>3 DEF Push, SetTask, TypeOK, TaskTypeOK
  <2> HIDE DEF t
  <2>8. TargetOK(chat', t)
    BY <1>1, <1>2, <2>1, <2>6 DEF TargetOK, IsLive, ChatOK
  <2>9. TaskOK(chat', sourceRev', t)
    BY <2>6, <2>8 DEF TaskOK
  <2> QED
    BY <1>1, <1>3, <2>2, <2>3, <2>4, <2>5, <2>7, <2>9, InvFromParts DEF Push
<1>4. ASSUME NEW w \in Workers, NEW c \in Chats, NEW k \in Keys, Delete(w, c, k)
      PROVE  CoverageInv'
  <2> DEFINE t == NewTask("check", "drop", c, 0, sourceRev + 1, k)
  <2>1. /\ sourceRev' = sourceRev + 1
        /\ chat'[c] = [etag |-> 0, rev |-> sourceRev + 1, key |-> None]
        /\ \A d \in Chats \ {c} : chat'[d] = chat[d]
        /\ IsLive(chat, c)
    BY <1>1, <1>4 DEF Delete, TypeOK, Live, IsLive
  <2>2. Grows
    BY <1>2, <2>1 DEF Grows, ChatGrows, IsLive
  <2>3. ChatOK(chat, sourceRev)'
    BY <1>1, <1>2, <2>1 DEF ChatOK, IsLive
  <2>4. KeyInv'
    BY <1>1, <1>4, ConstantsOK DEF Delete, KeyInv, ClientHas
  <2>5. PubInv'
    BY <1>1, <1>4, <2>2, PubFrame DEF Delete
  <2>6. /\ t.pc = "check" /\ t.op = "drop" /\ t.chat = c
        /\ t.rev = sourceRev + 1 /\ t.etag = 0
    BY DEF NewTask
  <2>7. task'[w] = t /\ \A x \in Workers \ {w} : task'[x] = task[x]
    BY <1>1, <1>4 DEF Delete, SetTask, TypeOK, TaskTypeOK
  <2> HIDE DEF t
  <2>8. TargetOK(chat', t)
    BY <1>1, <1>2, <2>1, <2>6 DEF TargetOK, IsLive, ChatOK
  <2>9. TaskOK(chat', sourceRev', t)
    BY <2>6, <2>8 DEF TaskOK
  <2> QED
    BY <1>1, <1>4, <2>2, <2>3, <2>4, <2>5, <2>7, <2>9, InvFromParts DEF Delete
<1>5. ASSUME NEW w \in Workers, NEW c \in Chats, NEW k \in Keys, DeleteMiss(w, c, k)
      PROVE  CoverageInv'
  <2>1. Grows /\ ChatOK(chat, sourceRev)'
    BY <1>1, <1>5, NoGrowth DEF DeleteMiss
  <2>2. KeyInv'
    BY <1>1, <1>5, ConstantsOK DEF DeleteMiss, KeyInv, ClientHas
  <2>3. PubInv'
    BY <1>1, <1>5, <2>1, PubFrame DEF DeleteMiss
  <2>4. PICK r \in {0} \cup (IF MissEchoes THEN {sourceRev} ELSE {}) :
           SetTask(w, NewTask("check", "drop", c, 0, r, k))
    BY <1>5 DEF DeleteMiss
  <2> DEFINE t == NewTask("check", "drop", c, 0, r, k)
  <2>5. t.pc = "check" /\ t.op = "drop" /\ t.chat = c
    BY DEF NewTask
  <2> HIDE DEF t
  <2>6. task'[w] = t /\ \A x \in Workers \ {w} : task'[x] = task[x]
    BY <1>1, <2>4 DEF t, SetTask, TypeOK, TaskTypeOK
  <2>7. ~IsLive(chat, c) /\ (chat[c].rev # 0 \/ RecreateAllowed)
    BY <1>5 DEF DeleteMiss, Live, IsLive
  <2>8. TargetOK(chat', t)
    BY <1>5, <2>5, <2>7 DEF DeleteMiss, TargetOK
  <2>9. TaskOK(chat', sourceRev', t)
    BY <2>5, <2>8 DEF TaskOK
  <2> QED
    BY <1>1, <1>5, <2>1, <2>2, <2>3, <2>6, <2>9, InvFromParts DEF DeleteMiss
<1>6. ASSUME NEW c \in Chats, NEW k \in Keys, Rewrap(c, k)
      PROVE  CoverageInv'
  BY <1>6 DEF Rewrap, Orderly
<1>7. ASSUME NEW k \in Keys, RegisterFresh(k)
      PROVE  CoverageInv'
  <2>0. PICK n \in sourceRev..MaxRev :
           \E f \in [Chats -> 0..n] : Wiped(n, f) /\ sourceRev' = n
    BY <1>7 DEF RegisterFresh
  <2>1. PICK f \in [Chats -> 0..n] : Wiped(n, f) /\ sourceRev' = n
    BY <2>0
  <2>2. \A c \in Chats : \/ chat'[c] = chat[c]
                         \/ /\ chat'[c] = [etag |-> 0, rev |-> f[c], key |-> None]
                            /\ f[c] \in (sourceRev + 1)..n
                            /\ IsLive(chat, c)
    BY <2>1 DEF Wiped, Live, IsLive
  <2>3. n \in Nat /\ sourceRev <= n
    BY <1>2, ConstantsOK
  <2>4. ASSUME NEW c \in Chats, chat'[c] # chat[c]
        PROVE  /\ chat'[c].etag = 0 /\ sourceRev < chat'[c].rev /\ chat'[c].rev <= n
               /\ IsLive(chat, c)
    <3>1. /\ f[c] \in (sourceRev + 1)..n /\ IsLive(chat, c)
          /\ chat'[c] = [etag |-> 0, rev |-> f[c], key |-> None]
      BY <2>2, <2>4
    <3>2. f[c] \in Nat /\ sourceRev < f[c] /\ f[c] <= n
      BY <1>2, <2>3, <3>1
    <3> QED
      BY <3>1, <3>2
  <2>5. Grows
    BY <1>2, <2>1, <2>3, <2>4 DEF Grows, ChatGrows, IsLive
  <2>9. ChatOK(chat, sourceRev)'
    <3> SUFFICES ASSUME NEW c \in Chats
                 PROVE  chat'[c].rev <= sourceRev' /\ (IsLive(chat', c) => chat'[c].rev # 0)
      BY DEF ChatOK, IsLive
    <3>1. CASE chat'[c] = chat[c]
      BY <1>1, <1>2, <2>1, <2>3, <3>1 DEF ChatOK, IsLive
    <3>2. CASE chat'[c] # chat[c]
      BY <2>1, <2>4, <3>2 DEF IsLive
    <3> QED
      BY <3>1, <3>2
  <2>6. pub' = FencedPublication /\ curKey' = k
    BY <1>7 DEF RegisterFresh
  <2>7. KeyInv'
    BY <1>1, <2>6, FencedType, ConstantsOK DEF KeyInv
  <2>8. PubInv' /\ pub.gen < pub'.gen
    <3>1. pub.gen \in Nat
      BY <1>1 DEF TypeOK, Publication
    <3>2. chat' \in ChatTable /\ sourceRev' \in Nat
      BY <1>1 DEF TypeOK, ChatTable
    <3> QED
      BY <1>1, <2>6, <3>1, <3>2, FencedType, EmptyOK DEF PubInv
  <2> QED
    BY <1>1, <1>7, <2>5, <2>7, <2>8, <2>9, InvFromParts DEF RegisterFresh
<1>8. ASSUME NEW k \in Keys, RegisterKey(k)
      PROVE  CoverageInv'
  <2>1. Grows /\ ChatOK(chat, sourceRev)'
    BY <1>1, <1>8, NoGrowth DEF RegisterKey
  <2>2. CASE curKey = None
    <3>1. RegisteredOnly => ~pub.obj
      BY <1>1, <2>2, ConstantsOK DEF KeyInv
    <3>2. KeyInv'
      BY <1>1, <1>8, <2>2, <3>1, ConstantsOK DEF RegisterKey, KeyInv
    <3>3. PubInv'
      BY <1>1, <1>8, <2>1, <2>2, PubFrame DEF RegisterKey
    <3> QED
      BY <1>1, <1>8, <2>1, <2>2, <3>2, <3>3, InvFromParts DEF RegisterKey
  <2>3. CASE curKey # None
    <3>1. pub' = FencedPublication /\ curKey' = k
      BY <1>8, <2>3 DEF RegisterKey
    <3>2. KeyInv'
      BY <1>1, <3>1, FencedType, ConstantsOK DEF KeyInv
    <3>3. PubInv' /\ pub.gen < pub'.gen
      <4>1. pub.gen \in Nat
        BY <1>1 DEF TypeOK, Publication
      <4>2. chat' \in ChatTable /\ sourceRev' \in Nat
        BY <1>1 DEF TypeOK, ChatTable
      <4> QED
        BY <1>1, <3>1, <4>1, <4>2, FencedType, EmptyOK DEF PubInv
    <3> QED
      BY <1>1, <1>8, <2>1, <3>2, <3>3, InvFromParts DEF RegisterKey
  <2> QED
    BY <2>2, <2>3
<1> QED
  BY <1>3, <1>4, <1>5, <1>6, <1>7, <1>8 DEF ClientStep
-----------------------------------------------------------------------------
(* Inline writers. *)

\* What a writer reads is what the publication invariant says of the record.
LEMMA ReadSnap ==
    ASSUME Orderly, CoverageInv, GhostInv, NEW k, NEW ok \in LoadOutcomes(k)
    PROVE  /\ SnapOK(chat, sourceRev, ReadState(ok))
           /\ ReadState(ok).src = sourceRev
           /\ ok = (pub.obj /\ pub.key = k)
           /\ ReadState(ok).ok = ok /\ ReadState(ok).obj = pub.obj
           /\ ReadState(ok).ix = IF ok THEN pub.ix ELSE EmptyIndex
           /\ ~ReadState(ok).obj => ReadState(ok).published = 0
<1>0. /\ ReadState(ok).ok = ok /\ ReadState(ok).obj = pub.obj
      /\ ReadState(ok).ix = IF ok THEN pub.ix ELSE EmptyIndex
      /\ ~ReadState(ok).obj => ReadState(ok).published = 0
  BY DEF ReadState, CoverageInv, PubInv
<1>1. ok = (pub.obj /\ pub.key = k)
  BY DEF LoadOutcomes, Orderly, CoverageInv, TypeOK, Publication
<1>2. chat \in ChatTable /\ sourceRev \in Nat /\ PubInv
  BY DEF CoverageInv, TypeOK, ChatTable
<1>3. CASE ok
  <2>1. /\ ReadState(ok).ix = pub.ix /\ ReadState(ok).published = pub.published
        /\ ReadState(ok).inc = pub.inc /\ ReadState(ok).src = sourceRev
    BY <1>3 DEF ReadState
  <2> QED
    BY <1>0, <1>1, <1>2, <2>1 DEF SnapOK, PubInv
<1>4. CASE ~ok
  <2>1. /\ ReadState(ok).ix = EmptyIndex /\ ReadState(ok).published = pub.published
        /\ ReadState(ok).inc = pub.inc /\ ReadState(ok).src = sourceRev
        /\ ReadState(ok).obj = pub.obj /\ ReadState(ok).ok = ok
    BY <1>4 DEF ReadState
  <2> QED
    BY <1>0, <1>1, <1>2, <1>4, <2>1, EmptyOK DEF SnapOK, PubInv
<1> QED
  BY <1>0, <1>1, <1>3, <1>4

LEMMA TaskOnly ==
    ASSUME CoverageInv, GhostInv, TypeOK', UNCHANGED <<chat, sourceRev, curKey, pub, job>>,
           NEW w \in Workers, task[w].pc # "idle", NEW t, SetTask(w, t),
           TaskOK(chat, sourceRev, t)
    PROVE  CoverageInv'
<1>1. Grows /\ ChatOK(chat, sourceRev)'
  BY NoGrowth DEF CoverageInv
<1>2. KeyInv'
  BY DEF KeyInv, CoverageInv
<1>3. PubInv'
  BY <1>1, PubFrame DEF CoverageInv
<1>4. \A x \in Workers : task'[x] = IF x = w THEN t ELSE task[x]
  BY DEF SetTask, CoverageInv, TypeOK, TaskTypeOK
<1> QED
  BY <1>1, <1>2, <1>3, <1>4, InvFromParts

LEMMA EndTaskInv ==
    ASSUME CoverageInv, GhostInv, TypeOK', UNCHANGED <<chat, sourceRev, curKey, pub, job>>,
           NEW w \in Workers, task[w].pc # "idle", EndTask(w)
    PROVE  CoverageInv'
<1>1. IdleTask.pc = "idle"
  BY DEF IdleTask, NewTask
<1>2. TaskOK(chat, sourceRev, IdleTask)
  BY <1>1 DEF TaskOK
<1> QED
  BY <1>2, TaskOnly DEF EndTask

LEMMA ToPublishInv ==
    ASSUME CoverageInv, GhostInv, TypeOK', UNCHANGED <<chat, sourceRev, curKey, pub, job>>,
           NEW w \in Workers, task[w].pc # "idle", NEW s \in Snapshot, NEW ix \in Index,
           NEW adv \in BOOLEAN, ToPublish(w, s, ix, adv),
           IndexOK(chat, sourceRev, ix), adv => Covers(chat, ix, task[w].rev)
    PROVE  CoverageInv'
<1> DEFINE o   == task[w]
           ix2 == [ix EXCEPT !.inc = ~adv]
           s2  == [s EXCEPT !.ix = ix2]
           t   == [o EXCEPT !.pc = "publish", !.snap = s2,
                     !.covered = IF adv THEN o.rev ELSE s.published,
                     !.inc = ~adv]
<1>1. o \in Task /\ TargetOK(chat, o) /\ o.rev <= sourceRev
  BY DEF CoverageInv, TypeOK, TaskTypeOK, TaskOK, GhostInv, TaskGhostFree
<1>2. SetTask(w, t)
  BY DEF ToPublish
<1>3. s2.ix = ix2
  BY DEF Snapshot
<1>4. /\ t.pc = "publish" /\ t.rev = o.rev /\ t.chat = o.chat /\ t.op = o.op
      /\ t.etag = o.etag /\ t.snap.ix = ix2 /\ t.inc = ~adv
      /\ adv => t.covered = o.rev
  BY <1>1, <1>3 DEF Task
<1>5. IndexOK(chat, sourceRev, ix2) /\ (adv => Covers(chat, ix2, o.rev))
  BY FlagIrrelevant
<1> HIDE DEF t, ix2
<1>6. TargetOK(chat, t)
  BY <1>1, <1>4 DEF TargetOK
<1>7. TaskOK(chat, sourceRev, t)
  BY <1>1, <1>4, <1>5, <1>6 DEF TaskOK
<1> QED
  BY <1>2, <1>7, TaskOnly

LEMMA IndexMergeInv ==
    ASSUME CoverageInv, GhostInv, TypeOK', UNCHANGED <<chat, sourceRev, curKey, pub, job>>,
           NEW w \in Workers, task[w].pc # "idle", task[w].op = "index",
           NEW s \in Snapshot, SnapOK(chat, sourceRev, s), IndexMerge(w, s),
           Live(task[w].chat)
    PROVE  CoverageInv'
<1> DEFINE o == task[w]
           c == o.chat
           e == [etag |-> o.etag, rev |-> o.rev, body |-> o.rev]
<1>1. /\ o \in Task /\ c \in Chats /\ o.etag \in Nat /\ o.rev \in Nat /\ o.rev # 0
      /\ o.rev <= sourceRev /\ o.rev <= chat[c].rev
      /\ \A d \in Chats : chat[d].rev = o.rev => d = c
  <2>1. TargetOK(chat, o) /\ TaskGhostFree(chat, sourceRev, o)
    BY DEF CoverageInv, TaskOK, GhostInv
  <2> QED
    BY <2>1 DEF CoverageInv, TypeOK, TaskTypeOK, TargetOK, TaskGhostFree, EventOf, Task
<1>2. /\ chat \in ChatTable /\ sourceRev \in Nat /\ s.ix \in Index
      /\ s.published \in Nat
  BY DEF CoverageInv, TypeOK, ChatTable, Snapshot
<1>3. IsLive(chat, c)
  BY DEF Live, IsLive
<1>4. CASE EndTask(w)
  BY <1>4, EndTaskInv
<1>5. CASE /\ ToPublish(w, s, Upsert(s.ix, c, e), CanAdvance(s, o.rev))
           /\ ~(Has(s.ix, c) /\ Supersedes(s.ix.chats[c], o.etag, o.rev))
  <2>1. e \in Entry
    BY <1>1 DEF Entry
  <2>2. Upsert(s.ix, c, e) \in Index
    BY <1>1, <1>2, <2>1, UpsertType
  <2>3. ASSUME Has(s.ix, c) PROVE s.ix.chats[c].rev <= o.rev
    <3>1. s.ix.chats[c].rev # 0
      BY <1>1, <2>3 DEF SnapOK, IndexOK, Labelled
    <3>2. s.ix.chats[c].rev \in Nat
      BY <1>1, <1>2 DEF Index, Entry
    <3> QED
      BY <1>1, <1>5, <2>3, <3>1, <3>2 DEF Supersedes
  <2>4. /\ IndexOK(chat, sourceRev, Upsert(s.ix, c, e))
        /\ \A p \in Nat : /\ Covers(chat, s.ix, p)
                          /\ o.rev = p + 1
                          /\ \A d \in Chats : chat[d].rev = p + 1 => d = c
                          => Covers(chat, Upsert(s.ix, c, e), p + 1)
    BY <1>1, <1>2, <1>3, <2>3, UpsertOK DEF SnapOK
  <2>5. ASSUME CanAdvance(s, o.rev) PROVE Covers(chat, Upsert(s.ix, c, e), o.rev)
    <3>1. Covers(chat, s.ix, s.published) /\ o.rev = s.published + 1
      BY <2>5 DEF CanAdvance, SnapOK
    <3> QED
      BY <1>1, <1>2, <2>4, <3>1
  <2>6. CanAdvance(s, o.rev) \in BOOLEAN
    BY DEF CanAdvance, Snapshot
  <2> HIDE DEF e
  <2> QED
    BY <1>5, <2>2, <2>4, <2>5, <2>6, ToPublishInv
<1> QED
  BY <1>4, <1>5 DEF IndexMerge

Registered == RegisteredOnly => curKey # None

\* An accepted publication.
LEMMA PublishInv ==
    ASSUME CoverageInv, GhostInv, UNCHANGED <<chat, sourceRev, curKey>>, Registered,
           NEW s, NEW covered \in Nat, NEW inc \in BOOLEAN, NEW k \in Keys,
           PublishAccepted(s, covered, k), pub' = Published(s, covered, inc, k),
           IndexOK(chat, sourceRev, s.ix), ~inc => Covers(chat, s.ix, covered)
    PROVE  KeyInv' /\ PubInv' /\ pub.gen < pub'.gen
<1>1. pub.gen \in Nat
  BY DEF CoverageInv, TypeOK, Publication
<1>2. /\ pub'.gen = pub.gen + 1 /\ pub'.published = covered /\ pub'.inc = inc
      /\ pub'.key = k /\ pub'.obj = TRUE /\ pub'.ix = s.ix
  BY DEF Published
<1>3. (RegisteredOnly => k = curKey) /\ covered <= sourceRev
  BY DEF PublishAccepted, Registered
<1>4. KeyInv'
  BY <1>2, <1>3, ConstantsOK DEF KeyInv, Registered
<1> QED
  BY <1>1, <1>2, <1>3, <1>4 DEF PubInv

LEMMA TaskPublishInv ==
    ASSUME CoverageInv, GhostInv, TypeOK', NEW w \in Workers, TaskPublish(w)
    PROVE  CoverageInv'
<1> DEFINE t == task[w]
<1>1. /\ t.pc = "publish" /\ PublishAccepted(t.snap, t.covered, t.key)
      /\ pub' = Published(t.snap, t.covered, t.inc, t.key)
      /\ EndTask(w) /\ UNCHANGED <<chat, sourceRev, curKey, job>>
  BY DEF TaskPublish
<1>2. t \in Task /\ t.covered \in Nat /\ t.inc \in BOOLEAN /\ t.key \in Keys
  BY <1>1 DEF CoverageInv, TypeOK, TaskTypeOK, Task
<1>3. Registered
  BY <1>1 DEF CoverageInv, KeyInv, Registered
<1>4. /\ IndexOK(chat, sourceRev, t.snap.ix)
      /\ ~t.inc => Covers(chat, t.snap.ix, t.covered)
  BY <1>1 DEF CoverageInv, TaskOK
<1>5. KeyInv' /\ PubInv' /\ pub.gen < pub'.gen
  BY <1>1, <1>2, <1>3, <1>4, PublishInv
<1>6. Grows /\ ChatOK(chat, sourceRev)'
  BY <1>1, NoGrowth DEF CoverageInv
<1>7. \A x \in Workers : task'[x] = IF x = w THEN IdleTask ELSE task[x]
  BY <1>1 DEF EndTask, SetTask, CoverageInv, TypeOK, TaskTypeOK
<1>8. TaskOK(chat', sourceRev', IdleTask)
  BY DEF TaskOK, IdleTask, NewTask
<1> QED
  BY <1>1, <1>5, <1>6, <1>7, <1>8, InvFromParts

LEMMA TaskStepInv ==
    ASSUME Orderly, CoverageInv, GhostInv, RecreateAllowed => RecreationInv,
           NEW w \in Workers, TaskStep(w) \/ TaskAbandon(w)
    PROVE  CoverageInv'
<1> DEFINE t == task[w]
           c == t.chat
<1>1. TypeOK' /\ TypeOK
  BY TaskStepTypeOK DEF CoverageInv
<1>2. t \in Task /\ t.snap \in Snapshot /\ t.snap.ix \in Index
  BY <1>1 DEF TypeOK, TaskTypeOK, Task, Snapshot
<1>3. /\ t.pc # "idle"
      /\ ~TaskPublish(w) => UNCHANGED <<chat, sourceRev, curKey, pub, job>>
  BY DEF TaskStep, TaskAbandon, IndexRead, IndexProbe, DropCheck, DropRead, TaskPublish,
         TaskConflict
<1>4. /\ c \in Chats /\ TargetOK(chat, t) /\ TaskGhostFree(chat, sourceRev, t)
      /\ t.rev \in Nat /\ sourceRev \in Nat /\ chat[c].rev \in Nat
      /\ chat \in ChatTable
  BY <1>1, <1>2, <1>3 DEF TypeOK, TaskTypeOK, Task, CoverageInv, TaskOK, GhostInv, ChatTable
<1>5. CASE IndexRead(w)
  <2>1. PICK ok \in LoadOutcomes(t.key) :
           IF ReadState(ok).src = t.rev
           THEN IndexMerge(w, ReadState(ok))
           ELSE SetTask(w, [t EXCEPT !.pc = "probe", !.snap = ReadState(ok)])
    BY <1>5 DEF IndexRead
  <2> DEFINE s == ReadState(ok)
  <2>2. s \in Snapshot /\ SnapOK(chat, sourceRev, s) /\ s.src = sourceRev
    BY <1>1, ReadSnap, ReadStateType
  <2>3. t.pc = "read" /\ t.op = "index"
        /\ UNCHANGED <<chat, sourceRev, curKey, pub, job>>
    BY <1>5 DEF IndexRead
  <2> HIDE DEF s
  <2>4. CASE s.src = t.rev
    <3>1. chat[c].rev = t.rev
      BY <1>4, <2>2, <2>3, <2>4 DEF TaskGhostFree, CoverageInv, ChatOK
    <3>2. Live(c)
      BY <1>4, <2>3, <3>1 DEF TaskGhostFree, Live, IsLive
    <3>3. IndexMerge(w, s)
      BY <2>1, <2>4 DEF s
    <3> QED
      BY <1>1, <2>2, <2>3, <3>2, <3>3, IndexMergeInv
  <2>5. CASE s.src # t.rev
    <3> DEFINE t2 == [t EXCEPT !.pc = "probe", !.snap = s]
    <3>1. SetTask(w, t2)
      BY <2>1, <2>5 DEF s
    <3>2. /\ t2.pc = "probe" /\ t2.rev = t.rev /\ t2.chat = t.chat /\ t2.op = t.op
          /\ t2.etag = t.etag /\ t2.snap = s
      BY <1>2 DEF Task
    <3> HIDE DEF t2
    <3>3. TargetOK(chat, t2)
      BY <1>4, <3>2 DEF TargetOK
    <3>4. TaskOK(chat, sourceRev, t2)
      BY <2>2, <2>3, <3>2, <3>3 DEF TaskOK
    <3> QED
      BY <1>1, <1>3, <2>3, <3>1, <3>4, TaskOnly
  <2> QED
    BY <2>4, <2>5
<1>6. CASE IndexProbe(w)
  <2>1. /\ t.pc = "probe" /\ t.op = "index" /\ SnapOK(chat, sourceRev, t.snap)
        /\ UNCHANGED <<chat, sourceRev, curKey, pub, job>>
    BY <1>6 DEF IndexProbe, CoverageInv, TaskOK
  <2>2. CASE EndTask(w)
    BY <1>1, <1>3, <2>1, <2>2, EndTaskInv
  <2>3. CASE Live(c) /\ IndexMerge(w, t.snap)
    BY <1>1, <1>2, <1>3, <2>1, <2>3, IndexMergeInv
  <2>4. CASE ~Live(c) /\ ToPublish(w, t.snap, Remove(t.snap.ix, c), FALSE)
    <3>1. Remove(t.snap.ix, c) \in Index
      BY <1>2, <1>4, EmptyIndexType, UpsertType
    <3>2. IndexOK(chat, sourceRev, Remove(t.snap.ix, c))
      BY <1>2, <1>4, <2>1, <2>4, RemoveOK DEF SnapOK, Live, IsLive
    <3> QED
      BY <1>1, <1>2, <1>3, <2>1, <2>4, <3>1, <3>2, ToPublishInv
  <2> QED
    BY <1>6, <2>2, <2>3, <2>4 DEF IndexProbe
<1>7. CASE DropCheck(w)
  <2>1. t.pc = "check" /\ UNCHANGED <<chat, sourceRev, curKey, pub, job>>
    BY <1>7 DEF DropCheck
  <2> DEFINE t2 == [t EXCEPT !.pc = "read"]
  <2>2. EndTask(w) \/ SetTask(w, t2)
    BY <1>7 DEF DropCheck
  <2>3. /\ t2.pc = "read" /\ t2.rev = t.rev /\ t2.chat = t.chat /\ t2.op = t.op
        /\ t2.etag = t.etag
    BY <1>2 DEF Task
  <2> HIDE DEF t2
  <2>4. TargetOK(chat, t2)
    BY <1>4, <2>3 DEF TargetOK
  <2>5. TaskOK(chat, sourceRev, t2)
    BY <2>3, <2>4 DEF TaskOK
  <2> QED
    BY <1>1, <1>3, <2>1, <2>2, <2>5, TaskOnly, EndTaskInv
<1>8. CASE DropRead(w)
  <2>1. PICK ok \in LoadOutcomes(t.key) :
           \/ EndTask(w)
           \/ /\ ~ok \/ Has(ReadState(ok).ix, c)
              /\ ToPublish(w, ReadState(ok), Remove(ReadState(ok).ix, c),
                           CanAdvance(ReadState(ok), t.rev))
    BY <1>8 DEF DropRead
  <2> DEFINE s == ReadState(ok)
  <2>2. s \in Snapshot /\ SnapOK(chat, sourceRev, s) /\ s.ix \in Index
        /\ s.published \in Nat
    BY <1>1, ReadSnap, ReadStateType DEF Snapshot
  <2>3. t.pc = "read" /\ t.op = "drop" /\ UNCHANGED <<chat, sourceRev, curKey, pub, job>>
    BY <1>8 DEF DropRead
  <2>4. \/ EndTask(w)
        \/ (~ok \/ Has(s.ix, c)) /\ ToPublish(w, s, Remove(s.ix, c), CanAdvance(s, t.rev))
    BY <2>1
  <2>5. /\ s.ok = ok /\ s.ix = IF ok THEN pub.ix ELSE EmptyIndex
        /\ ~s.obj => s.published = 0
    BY ReadSnap
  <2> HIDE DEF s
  <2>6. Remove(s.ix, c) \in Index
    BY <1>4, <2>2, EmptyIndexType, UpsertType
  <2>7. ~IsLive(chat, c) \/ ~Reflects(chat, s.ix, c)
    <3> SUFFICES ASSUME IsLive(chat, c), Reflects(chat, s.ix, c) PROVE FALSE
      OBVIOUS
    <3>1. s.ix.chats[c].body = chat[c].rev
      BY <1>4, <2>2 DEF SnapOK, IndexOK, Honest, Reflects
    <3>2. pub.ix.chats[c].body # chat[c].rev
      BY <1>4, <2>3 DEF TargetOK, RecreationInv, Unindexed, Live, IsLive
    <3>3. EmptyIndex.chats[c].body = 0
      BY <1>4 DEF EmptyIndex, NoEntry
    <3> QED
      BY <2>5, <3>1, <3>2, <3>3 DEF Reflects, Has
  <2>8. /\ IndexOK(chat, sourceRev, Remove(s.ix, c))
        /\ \A p \in Nat : /\ Covers(chat, s.ix, p)
                          /\ \A d \in Chats : chat[d].rev = p + 1
                                                => d = c /\ ~IsLive(chat, c)
                          => Covers(chat, Remove(s.ix, c), p + 1)
    BY <1>4, <2>2, <2>7, RemoveOK DEF SnapOK
  <2>9. ASSUME CanAdvance(s, t.rev), ~ok \/ Has(s.ix, c)
        PROVE  Covers(chat, Remove(s.ix, c), t.rev)
    <3>1. Covers(chat, s.ix, s.published) /\ t.rev = s.published + 1
      BY <2>2, <2>9 DEF CanAdvance, SnapOK
    \* An answer with the revision of another event: the index would be one
    \* that covers the delete and has the chat, or an empty one.
    <3>2. ASSUME ~IsLive(chat, c), chat[c].rev \in 1..(t.rev - 1) PROVE FALSE
      <4>1. chat[c].rev <= s.published /\ s.published # 0
        BY <1>4, <2>2, <3>1, <3>2
      <4>2. ~Has(s.ix, c)
        BY <1>4, <3>1, <3>2, <4>1 DEF Covers
      <4>3. s.obj /\ ~s.ok
        BY <2>2, <2>5, <2>9, <4>1, <4>2 DEF Snapshot
      <4> QED
        BY <2>9, <4>3 DEF CanAdvance
    <3>3. \A d \in Chats : chat[d].rev = t.rev => d = c
      BY <1>3, <1>4, <2>2, <3>1, <3>2 DEF TaskGhostFree, EventOf
    <3>4. chat[c].rev = t.rev => ~IsLive(chat, c)
      BY <1>4, <2>3 DEF TargetOK
    <3> QED
      BY <2>2, <2>8, <3>1, <3>3, <3>4
  <2>10. CanAdvance(s, t.rev) \in BOOLEAN
    BY <2>2 DEF CanAdvance, Snapshot
  <2> QED
    BY <1>1, <1>3, <2>2, <2>3, <2>4, <2>6, <2>8, <2>9, <2>10, ToPublishInv, EndTaskInv
<1>9. CASE TaskPublish(w)
  BY <1>1, <1>9, TaskPublishInv
<1>10. CASE TaskConflict(w)
  <2>1. UNCHANGED <<chat, sourceRev, curKey, pub, job>>
    BY <1>10 DEF TaskConflict
  <2> DEFINE n  == NewTask("read", t.op, c, t.etag, t.rev, t.key)
             t2 == [n EXCEPT !.att = t.att + 1]
  <2>2. EndTask(w) \/ SetTask(w, t2)
    BY <1>10 DEF TaskConflict
  <2>3. /\ t2.pc = "read" /\ t2.rev = t.rev /\ t2.chat = t.chat /\ t2.op = t.op
        /\ t2.etag = t.etag
    BY DEF NewTask
  <2> HIDE DEF t2
  <2>4. TargetOK(chat, t2)
    BY <1>4, <2>3 DEF TargetOK
  <2>5. TaskOK(chat, sourceRev, t2)
    BY <2>3, <2>4 DEF TaskOK
  <2> QED
    BY <1>1, <1>3, <2>1, <2>2, <2>5, TaskOnly, EndTaskInv
<1>11. CASE TaskAbandon(w)
  BY <1>1, <1>3, <1>11, EndTaskInv DEF TaskAbandon
<1> QED
  BY <1>5, <1>6, <1>7, <1>8, <1>9, <1>10, <1>11 DEF TaskStep
-----------------------------------------------------------------------------
(* Reindex jobs. *)

LEMMA JobOnly ==
    ASSUME CoverageInv, GhostInv, TypeOK', UNCHANGED <<chat, sourceRev, curKey, pub, task>>,
           Registered, NEW j \in Jobs, NEW b, SetJob(j, b),
           JobOK(chat, sourceRev, pub, b)
    PROVE  CoverageInv'
<1>1. Grows /\ ChatOK(chat, sourceRev)'
  BY NoGrowth DEF CoverageInv
<1>2. KeyInv'
  BY DEF KeyInv, CoverageInv, Registered
<1>3. PubInv'
  BY <1>1, PubFrame DEF CoverageInv
<1>4. \A i \in Jobs : job'[i] = IF i = j THEN b ELSE job[i]
  BY DEF SetJob, CoverageInv, TypeOK, JobTypeOK
<1> QED
  BY <1>1, <1>2, <1>3, <1>4, InvFromParts

LEMMA EndJobInv ==
    ASSUME CoverageInv, GhostInv, TypeOK', UNCHANGED <<chat, sourceRev, curKey, pub, task>>,
           Registered, NEW j \in Jobs, EndJob(j)
    PROVE  CoverageInv'
<1>1. JobOK(chat, sourceRev, pub, IdleJob(j))
  BY DEF JobOK, IdleJob
<1> QED
  BY <1>1, JobOnly DEF EndJob

LEMMA JobStartInv ==
    ASSUME Orderly, CoverageInv, GhostInv, NEW j \in Jobs, NEW k \in Keys, JobStart(j, k)
    PROVE  CoverageInv'
<1> DEFINE fresh == [IdleJob(j) EXCEPT !.pc = "list", !.key = k, !.target = sourceRev]
           ck    == pub.ix.ckpt
           res   == [fresh EXCEPT !.cursor = ck.cursor, !.target = ck.target,
                                  !.started = ck.started]
<1>1. TypeOK' /\ TypeOK
  BY JobStartTypeOK DEF CoverageInv
<1>2. /\ Registered /\ UNCHANGED <<chat, sourceRev, curKey, pub, task>>
      /\ sourceRev \in 1..sourceRev
  BY <1>1, ConstantsOK DEF JobStart, ClientHas, Registered, TypeOK
<1>3. PICK ok \in LoadOutcomes(k) \cup {FALSE} :
         SetJob(j, IF Resumable(k) /\ ResumeOK(ok) THEN res ELSE fresh)
  BY DEF JobStart
<1>4. fresh.pc = "list" /\ fresh.target = sourceRev
  BY DEF IdleJob
<1>5. res.pc = "list" /\ res.target = ck.target
  BY DEF IdleJob
<1>6. ResumeOK(ok) => ck.target \in 1..sourceRev
  BY DEF ResumeOK, CoverageInv, PubInv, IndexOK, CheckpointOK
<1> HIDE DEF res, fresh
<1>7. JobOK(chat, sourceRev, pub, fresh)
  BY <1>2, <1>4 DEF JobOK
<1>8. ResumeOK(ok) => JobOK(chat, sourceRev, pub, res)
  BY <1>5, <1>6 DEF JobOK
<1> QED
  BY <1>1, <1>2, <1>3, <1>7, <1>8, JobOnly

\* A page holds every row up to the cursor of the next one.
LEMMA PageContents ==
    ASSUME TypeOK, NEW cursor \in Nat, NEW next \in Nat, IsNextCursor(cursor, next),
           NEW c \in Chats, cursor < chat[c].rev, next = 0 \/ chat[c].rev <= next
    PROVE  c \in PageAfter(cursor)
<1>1. \A d \in Chats : chat[d].rev \in Nat
  BY DEF TypeOK
<1>2. c \in RowsAfter(cursor)
  BY <1>1 DEF RowsAfter
<1>3. CASE PageAfter(cursor) = RowsAfter(cursor)
  BY <1>2, <1>3
<1>4. CASE PageAfter(cursor) # RowsAfter(cursor)
  <2>1. PICK last \in PageAfter(cursor) : next = chat[last].rev
    BY <1>4 DEF IsNextCursor
  <2>2. last \in Chats /\ cursor < chat[last].rev
    BY <2>1 DEF PageAfter, RowsAfter
  <2>3. chat[c].rev <= chat[last].rev
    BY <1>1, <2>1, <2>2
  <2> DEFINE Below(d) == {x \in RowsAfter(cursor) : chat[x].rev < chat[d].rev}
  <2>4. Below(c) \subseteq Below(last)
    BY <1>1, <2>2, <2>3 DEF RowsAfter
  <2>5. IsFiniteSet(Below(last))
    <3>1. Below(last) \subseteq Chats
      BY DEF RowsAfter
    <3> QED
      BY <3>1, ConstantsOK, FS_Subset
  <2>6. /\ Cardinality(Below(c)) <= Cardinality(Below(last)) /\ IsFiniteSet(Below(c))
    BY <2>4, <2>5, FS_Subset
  <2>7. Cardinality(Below(c)) \in Nat /\ Cardinality(Below(last)) \in Nat
    BY <2>5, <2>6, FS_CardinalityType
  <2>8. Cardinality(Below(last)) < PageSize
    BY <2>1 DEF PageAfter
  <2>9. Cardinality(Below(c)) < PageSize
    BY <2>6, <2>7, <2>8, ConstantsOK
  <2> QED
    BY <1>2, <2>9 DEF PageAfter
<1> QED
  BY <1>3, <1>4

LEMMA JobListInv ==
    ASSUME CoverageInv, GhostInv, TypeOK', NEW j \in Jobs, JobList(j)
    PROVE  CoverageInv'
<1> DEFINE b == job[j]
<1>1. b.pc = "list" /\ UNCHANGED <<chat, sourceRev, curKey, pub, task>>
  BY DEF JobList
<1>2. TypeOK /\ b \in JobState /\ b.cursor \in Nat /\ Registered
      /\ b.target \in 1..sourceRev
  BY <1>1 DEF CoverageInv, TypeOK, JobTypeOK, JobState, KeyInv, Registered, JobOK
<1> DEFINE todo == {c \in PageAfter(b.cursor) : Live(c)}
           U(next) == [b EXCEPT !.pc = "fetch", !.next = next, !.failed = FALSE,
                                !.items = NoItems, !.att = 0, !.todo = todo]
<1>3. PICK next \in 0..sourceRev : IsNextCursor(b.cursor, next) /\ SetJob(j, U(next))
  BY DEF JobList
<1> DEFINE u == U(next)
<1>4. /\ u.pc = "fetch" /\ u.next = next /\ u.items = NoItems /\ u.todo = todo
      /\ u.cursor = b.cursor /\ u.target = b.target
  BY <1>2 DEF JobState
<1>5. next \in Nat
  BY <1>2 DEF TypeOK
<1>6. \A c \in Chats : NoItems[c].body = 0
  BY DEF NoItems, NoEntry
<1>7. \A c \in todo : IsLive(chat, c)
  BY DEF Live, IsLive
<1>8. SetJob(j, u)
  BY <1>3
<1>9. ASSUME NEW c \in Chats, IsLive(chat, c), b.cursor < chat[c].rev,
             next = 0 \/ chat[c].rev <= next
      PROVE  c \in todo
  <2>1. c \in PageAfter(b.cursor)
    BY <1>2, <1>3, <1>5, <1>9, PageContents
  <2> QED
    BY <1>9, <2>1 DEF Live, IsLive
<1> HIDE DEF u, todo
<1>10. PageOK(chat, u)
  BY <1>4, <1>6, <1>7 DEF PageOK
<1>11. PageFull(chat, u)
  BY <1>4, <1>9 DEF PageFull, InPage
<1>12. JobOK(chat, sourceRev, pub, u)
  BY <1>2, <1>4, <1>10, <1>11 DEF JobOK
<1> QED
  BY <1>1, <1>2, <1>8, <1>12, JobOnly

LEMMA JobFetchInv ==
    ASSUME CoverageInv, GhostInv, TypeOK', NEW j \in Jobs, NEW c \in Chats, JobFetch(j, c)
    PROVE  CoverageInv'
<1> DEFINE b == job[j]
           e == [etag |-> chat[c].etag, rev |-> b.target, body |-> chat[c].rev]
           u == [b EXCEPT !.todo = @ \ {c}, !.items[c] = e]
           v == [b EXCEPT !.todo = @ \ {c}, !.failed = TRUE]
<1>1. b.pc = "fetch" /\ UNCHANGED <<chat, sourceRev, curKey, pub, task>>
  BY DEF JobFetch
<1>2. TypeOK /\ b \in JobState /\ b.target \in 1..sourceRev /\ Registered
      /\ PageOK(chat, b) /\ PageFull(chat, b)
  BY <1>1 DEF CoverageInv, TypeOK, JobTypeOK, KeyInv, Registered, JobOK
<1>3. (Live(c) /\ SetJob(j, u)) \/ SetJob(j, v)
  BY DEF JobFetch
<1>4. /\ u.pc = "fetch" /\ u.todo = b.todo \ {c} /\ u.target = b.target
      /\ u.cursor = b.cursor /\ u.next = b.next /\ u.failed = b.failed
      /\ u.items[c] = e /\ \A d \in Chats \ {c} : u.items[d] = b.items[d]
  BY <1>1, <1>2 DEF JobState
<1>5. /\ v.pc = "fetch" /\ v.todo = b.todo \ {c} /\ v.target = b.target
      /\ v.items = b.items /\ v.failed
  BY <1>1, <1>2 DEF JobState
<1>6. /\ e.rev = b.target /\ e.body = chat[c].rev /\ e.etag = chat[c].etag
  OBVIOUS
<1> HIDE DEF u, v, e
<1>7. Live(c) => JobOK(chat, sourceRev, pub, u)
  <2> SUFFICES ASSUME Live(c) PROVE JobOK(chat, sourceRev, pub, u)
    OBVIOUS
  <2>1. IsLive(chat, c) /\ chat[c].rev # 0
    BY DEF Live, IsLive, CoverageInv, ChatOK
  <2>2. PageOK(chat, u)
    BY <1>1, <1>2, <1>4, <1>6, <2>1 DEF PageOK
  <2>3. PageFull(chat, u)
    BY <1>1, <1>2, <1>4, <1>6, <2>1 DEF PageFull, InPage
  <2> QED
    BY <1>2, <1>4, <2>2, <2>3 DEF JobOK
<1>8. JobOK(chat, sourceRev, pub, v)
  <2>1. PageOK(chat, v) /\ PageFull(chat, v)
    BY <1>1, <1>2, <1>5 DEF PageOK, PageFull
  <2> QED
    BY <1>2, <1>5, <2>1 DEF JobOK
<1> QED
  BY <1>1, <1>2, <1>3, <1>7, <1>8, JobOnly

\* The first page drops what the rebuild is going to replace, and nothing that
\* is newer than the target.
LEMMA FirstPageOK ==
    ASSUME NEW ch \in ChatTable, NEW n \in Nat, ChatOK(ch, n), NEW ix \in Index,
           IndexOK(ch, n, ix), NEW b, b.cursor = 0, b.target \in Nat
    PROVE  LET ix2 == DropStale(b, ix)
           IN  /\ Labelled(n, ix2) /\ Honest(ch, ix2)
               /\ Rebuilt(ch, ix2, b.cursor, b.target)
               /\ \A c \in Chats : b.target < ch[c].rev =>
                     /\ Reflects(ch, ix, c) => Reflects(ch, ix2, c)
                     /\ ~Has(ix, c) => ~Has(ix2, c)
<1> DEFINE ix2 == DropStale(b, ix)
<1>1. \A c \in Chats : /\ ch[c].rev \in Nat /\ ix.chats[c].rev \in Nat
                       /\ ix.chats[c].body \in Nat
  BY DEF ChatTable, Index, Entry
<1>2. \A c \in Chats : \/ ix2.chats[c] = ix.chats[c] /\ b.target < ix.chats[c].rev
                       \/ /\ ix2.chats[c].body = 0 /\ ix2.chats[c].rev = 0
                          /\ ix.chats[c].rev <= b.target
  BY <1>1 DEF DropStale, NoEntry, Index
<1> HIDE DEF ix2
<1>3. Labelled(n, ix2) /\ Honest(ch, ix2)
  BY <1>1, <1>2 DEF IndexOK, Labelled, Honest, Has
<1>4. Rebuilt(ch, ix2, b.cursor, b.target)
  BY <1>1, <1>2 DEF IndexOK, Honest, Rebuilt, Has, ChatOK
<1>5. \A c \in Chats : b.target < ch[c].rev =>
         /\ Reflects(ch, ix, c) => Reflects(ch, ix2, c)
         /\ ~Has(ix, c) => ~Has(ix2, c)
  BY <1>1, <1>2 DEF Reflects, Has
<1> QED
  BY <1>3, <1>4, <1>5 DEF ix2

LEMMA JobReadInv ==
    ASSUME Orderly, CoverageInv, GhostInv, TypeOK', NEW j \in Jobs, JobRead(j)
    PROVE  CoverageInv'
<1> DEFINE b == job[j]
<1>1. /\ b.pc \in {"fetch", "read"} /\ (b.pc = "fetch" => b.todo = {})
      /\ UNCHANGED <<chat, sourceRev, curKey, pub, task>>
  BY DEF JobRead
<1>2. /\ TypeOK /\ b \in JobState /\ b.target \in 1..sourceRev /\ Registered
      /\ PageOK(chat, b) /\ PageFull(chat, b)
      /\ chat \in ChatTable /\ sourceRev \in Nat /\ ChatOK(chat, sourceRev)
  BY <1>1 DEF CoverageInv, TypeOK, JobTypeOK, KeyInv, Registered, JobOK, ChatTable
<1>3. b.target \in Nat /\ b.cursor \in Nat
  BY <1>2 DEF JobState
<1>4. PICK ok \in LoadOutcomes(b.key) :
        LET s  == ReadState(ok)
            ck == s.ix.ckpt
        IN  \/ /\ ck.cursor # 0
               /\ SetJob(j, [b EXCEPT !.pc = "list", !.cursor = ck.cursor,
                                      !.target = ck.target, !.started = ck.started,
                                      !.items = NoItems, !.failed = FALSE])
            \/ EndJob(j)
            \/ /\ \/ b.cursor = 0
                  \/ ck.cursor # 0 /\ CheckpointMatches(b, ck)
               /\ SetJob(j, [b EXCEPT !.pc = "probe", !.todo = Fetched(b),
                                !.snap = [s EXCEPT !.ix = DropStale(b, s.ix)]])
  BY DEF JobRead
<1> DEFINE s   == ReadState(ok)
           ck  == s.ix.ckpt
           ix2 == DropStale(b, s.ix)
           u   == [b EXCEPT !.pc = "list", !.cursor = ck.cursor, !.target = ck.target,
                            !.started = ck.started, !.items = NoItems, !.failed = FALSE]
           v   == [b EXCEPT !.pc = "probe", !.todo = Fetched(b),
                            !.snap = [s EXCEPT !.ix = ix2]]
<1>5. /\ s \in Snapshot /\ s.ix \in Index /\ SnapOK(chat, sourceRev, s)
      /\ ok = (pub.obj /\ pub.key = b.key)
  BY <1>2, ReadSnap, ReadStateType DEF Snapshot
<1>6. s.gen = pub.gen /\ s.obj = pub.obj /\ s.ok = ok
  BY DEF ReadState
<1>7. \/ ck.cursor # 0 /\ SetJob(j, u)
      \/ EndJob(j)
      \/ (b.cursor = 0 \/ (ck.cursor # 0 /\ CheckpointMatches(b, ck))) /\ SetJob(j, v)
  BY <1>4
<1> HIDE DEF s
<1>8. CASE ck.cursor # 0 /\ SetJob(j, u)
  <2>1. u.pc = "list" /\ u.target = ck.target
    BY <1>2 DEF JobState
  <2>2. ck.target \in 1..sourceRev
    BY <1>5, <1>8 DEF SnapOK, IndexOK, CheckpointOK
  <2> HIDE DEF u
  <2>3. JobOK(chat, sourceRev, pub, u)
    BY <2>1, <2>2 DEF JobOK
  <2> QED
    BY <1>1, <1>2, <1>8, <2>3, JobOnly
<1>9. CASE EndJob(j)
  BY <1>1, <1>2, <1>9, EndJobInv
<1>10. CASE (b.cursor = 0 \/ (ck.cursor # 0 /\ CheckpointMatches(b, ck))) /\ SetJob(j, v)
  <2>1. /\ v.pc = "probe" /\ v.todo = Fetched(b) /\ v.target = b.target
        /\ v.cursor = b.cursor /\ v.next = b.next /\ v.failed = b.failed
        /\ v.items = b.items /\ v.key = b.key
        /\ v.snap = [s EXCEPT !.ix = ix2]
    BY <1>2 DEF JobState
  <2>2. /\ v.snap.ix = ix2 /\ v.snap.published = s.published /\ v.snap.inc = s.inc
        /\ v.snap.obj = s.obj /\ v.snap.ok = s.ok /\ v.snap.gen = s.gen
    BY <1>5, <2>1 DEF Snapshot
  <2>3. s.published \in Nat /\ s.published <= sourceRev
    BY <1>5 DEF Snapshot, SnapOK
  <2>4. /\ Labelled(sourceRev, ix2) /\ Honest(chat, ix2)
        /\ Rebuilt(chat, ix2, b.cursor, b.target)
        /\ \A c \in Chats : b.target < chat[c].rev =>
              /\ Reflects(chat, s.ix, c) => Reflects(chat, ix2, c)
              /\ ~Has(s.ix, c) => ~Has(ix2, c)
    <3>1. CASE b.cursor = 0
      BY <1>2, <1>3, <1>5, <3>1, FirstPageOK DEF SnapOK
    <3>2. CASE b.cursor # 0
      <4>1. ix2 = s.ix
        BY <3>2 DEF DropStale
      <4>2. Rebuilt(chat, s.ix, b.cursor, b.target)
        BY <1>5, <1>10, <3>2 DEF SnapOK, IndexOK, CheckpointOK, CheckpointMatches
      <4> HIDE DEF ix2
      <4> QED
        BY <1>5, <4>1, <4>2 DEF SnapOK, IndexOK
    <3> QED
      BY <3>1, <3>2
  <2>5. SetJob(j, v)
    BY <1>10
  <2> HIDE DEF v, ix2
  <2>6. PageOK(chat, v) /\ PageFull(chat, v)
    BY <1>1, <1>2, <2>1 DEF PageOK, PageFull, InPage
  <2>7. SnapFresh(pub, v)
    <3>1. pub.gen \in Nat
      BY <1>2 DEF TypeOK, Publication
    <3> QED
      BY <1>5, <1>6, <2>1, <2>2, <3>1 DEF SnapFresh
  <2>8. v.todo \subseteq Fetched(v)
    BY <2>1 DEF Fetched
  <2>9. \A c \in Chats : v.items[c].body # 0 => c \in v.todo
    BY <2>1 DEF Fetched
  <2>10. ~s.inc /\ (s.obj => s.ok) =>
            \A c \in Chats : b.target < chat[c].rev /\ chat[c].rev <= s.published =>
                /\ IsLive(chat, c) => Reflects(chat, ix2, c)
                /\ ~IsLive(chat, c) => ~Has(ix2, c)
    BY <1>5, <2>4 DEF SnapOK, Covers
  <2>11. MergeOK(chat, sourceRev, v)
    BY <2>1, <2>2, <2>3, <2>4, <2>8, <2>9, <2>10 DEF MergeOK
  <2>12. JobOK(chat, sourceRev, pub, v)
    BY <1>2, <2>1, <2>6, <2>7, <2>11 DEF JobOK
  <2> QED
    BY <1>1, <1>2, <2>5, <2>12, JobOnly
<1> QED
  BY <1>7, <1>8, <1>9, <1>10

LEMMA JobProbeInv ==
    ASSUME CoverageInv, GhostInv, TypeOK', NEW j \in Jobs, NEW c \in Chats, JobProbe(j, c)
    PROVE  CoverageInv'
<1> DEFINE b   == job[j]
           ix  == b.snap.ix
           it  == b.items[c]
           new == IF ~Live(c)
                  THEN Remove(ix, c)
                  ELSE IF \/ chat[c].etag # it.etag
                          \/ Has(ix, c) /\ Supersedes(ix.chats[c], it.etag, b.target)
                       THEN ix
                       ELSE Upsert(ix, c, it)
           u   == [b EXCEPT !.todo = @ \ {c}, !.snap.ix = new]
<1>1. /\ b.pc = "probe" /\ c \in b.todo /\ SetJob(j, u)
      /\ UNCHANGED <<chat, sourceRev, curKey, pub, task>>
  BY DEF JobProbe
<1>2. /\ TypeOK /\ b \in JobState /\ b.target \in 1..sourceRev /\ Registered
      /\ PageOK(chat, b) /\ PageFull(chat, b) /\ MergeOK(chat, sourceRev, b)
      /\ SnapFresh(pub, b)
  BY <1>1 DEF CoverageInv, TypeOK, JobTypeOK, KeyInv, Registered, JobOK
<1>3. /\ b.target \in Nat /\ b.cursor \in Nat /\ b.next \in Nat /\ sourceRev \in Nat
      /\ b.snap \in Snapshot /\ ix \in Index /\ it \in Entry /\ b.snap.published \in Nat
  BY <1>2 DEF JobState, Snapshot, TypeOK
<1>4. \A d \in Chats : /\ chat[d].rev \in Nat /\ chat[d].etag \in Nat
                       /\ ix.chats[d].rev \in Nat /\ ix.chats[d].body \in Nat
                       /\ ix.chats[d].etag \in Nat
  BY <1>2, <1>3 DEF TypeOK, Index, Entry
<1>5. new \in Index
  BY <1>3, UpsertType
<1>6. \A d \in Chats \ {c} : new.chats[d] = ix.chats[d]
  BY <1>3 DEF Upsert, Remove, Index
<1>7. it.body # 0 /\ it.rev = b.target
  BY <1>1, <1>2 DEF MergeOK, Fetched, PageOK
\* What becomes of the entry of c.
<1>8. \/ ~IsLive(chat, c) /\ new.chats[c].body = 0 /\ new.chats[c].rev = 0
      \/ /\ IsLive(chat, c) /\ new.chats[c] = ix.chats[c]
         /\ \/ chat[c].etag # it.etag
            \/ Has(ix, c) /\ Supersedes(ix.chats[c], it.etag, b.target)
      \/ /\ IsLive(chat, c) /\ new.chats[c] = it
         /\ ~(Has(ix, c) /\ Supersedes(ix.chats[c], it.etag, b.target))
  <2>1. CASE ~Live(c)
    <3>1. new = Remove(ix, c)
      BY <2>1
    <3> HIDE DEF new
    <3> QED
      BY <1>3, <2>1, <3>1 DEF Remove, NoEntry, Index, Live, IsLive
  <2>2. CASE Live(c)
    BY <1>3, <2>2 DEF Upsert, Index, Live, IsLive
  <2> QED
    BY <2>1, <2>2
<1>9. Supersedes(ix.chats[c], it.etag, b.target) /\ Has(ix, c) => b.target < ix.chats[c].rev
  BY <1>2, <1>3, <1>4 DEF Supersedes, MergeOK, Labelled
<1>10. b.target < ix.chats[c].rev => Supersedes(ix.chats[c], it.etag, b.target)
  BY <1>2, <1>3, <1>4 DEF Supersedes
<1>11. chat[c].rev <= b.target => it.etag = chat[c].etag /\ it.body = chat[c].rev
  BY <1>2, <1>7 DEF PageOK
<1>12. /\ u.pc = "probe" /\ u.todo = b.todo \ {c} /\ u.target = b.target
       /\ u.cursor = b.cursor /\ u.next = b.next /\ u.failed = b.failed
       /\ u.items = b.items /\ u.key = b.key
       /\ u.snap = [b.snap EXCEPT !.ix = new]
  BY <1>1, <1>2 DEF JobState
<1>13. /\ u.snap.ix = new /\ u.snap.published = b.snap.published
       /\ u.snap.inc = b.snap.inc /\ u.snap.obj = b.snap.obj
       /\ u.snap.ok = b.snap.ok /\ u.snap.gen = b.snap.gen
  BY <1>3, <1>12 DEF Snapshot
<1>14. SetJob(j, u)
  BY <1>1
<1> HIDE DEF u, new, it
<1>15. Labelled(sourceRev, new) /\ Honest(chat, new)
  <2>1. \A d \in Chats \ {c} :
          /\ new.chats[d].rev <= sourceRev /\ (Has(new, d) => new.chats[d].rev # 0)
          /\ Has(new, d) /\ chat[d].rev <= new.chats[d].rev
                => IsLive(chat, d) /\ new.chats[d].body = chat[d].rev
    BY <1>2, <1>6 DEF MergeOK, Labelled, Honest, Has
  <2>2. /\ new.chats[c].rev <= sourceRev /\ (Has(new, c) => new.chats[c].rev # 0)
        /\ Has(new, c) /\ chat[c].rev <= new.chats[c].rev
              => IsLive(chat, c) /\ new.chats[c].body = chat[c].rev
    <3>1. CASE new.chats[c].body = 0 /\ new.chats[c].rev = 0
      BY <1>3, <3>1 DEF Has
    <3>2. CASE new.chats[c] = ix.chats[c]
      BY <1>2, <3>2 DEF MergeOK, Labelled, Honest, Has
    <3>3. CASE IsLive(chat, c) /\ new.chats[c] = it
      BY <1>2, <1>3, <1>7, <1>11, <3>3 DEF Has
    <3> QED
      BY <1>8, <3>1, <3>2, <3>3
  <2> QED
    BY <2>1, <2>2 DEF Labelled, Honest
\* Whoever was reflected still is, and c is if the page listed it.
<1>16. IsLive(chat, c) /\ chat[c].rev <= b.target => Reflects(chat, new, c)
  BY <1>2, <1>3, <1>4, <1>7, <1>8, <1>9, <1>11 DEF Reflects, Has
<1>17. b.target < chat[c].rev =>
         /\ IsLive(chat, c) /\ Reflects(chat, ix, c) => Reflects(chat, new, c)
         /\ ~IsLive(chat, c) => ~Has(new, c)
  BY <1>3, <1>4, <1>8, <1>10 DEF Reflects, Has
<1>18. ~IsLive(chat, c) => ~Has(new, c)
  BY <1>8 DEF Has
<1>19. \A d \in Chats \ {c} : /\ Has(new, d) <=> Has(ix, d)
                              /\ Reflects(chat, new, d) <=> Reflects(chat, ix, d)
  BY <1>6 DEF Has, Reflects
<1>20. Rebuilt(chat, new, b.cursor, b.target)
  BY <1>2, <1>16, <1>18, <1>19 DEF MergeOK, Rebuilt
<1>21. \A d \in Chats : b.items[d].body # 0 /\ d \notin b.todo \ {c} /\ InPage(chat, b, d)
          => Reflects(chat, new, d)
  BY <1>2, <1>16, <1>19 DEF MergeOK, InPage
<1>22. ~b.snap.inc /\ (b.snap.obj => b.snap.ok) =>
          \A d \in Chats : b.target < chat[d].rev /\ chat[d].rev <= b.snap.published =>
              /\ IsLive(chat, d) => Reflects(chat, new, d)
              /\ ~IsLive(chat, d) => ~Has(new, d)
  BY <1>2, <1>17, <1>18, <1>19 DEF MergeOK
<1>23. MergeOK(chat, sourceRev, u)
  <2>1. \A d \in Chats : InPage(chat, u, d) <=> InPage(chat, b, d)
    BY <1>12 DEF InPage
  <2>2. u.todo \subseteq Fetched(u)
    BY <1>2, <1>12 DEF MergeOK, Fetched
  <2>3. u.snap.published <= sourceRev
    BY <1>2, <1>13 DEF MergeOK
  <2> QED
    BY <1>12, <1>13, <1>15, <1>20, <1>21, <1>22, <2>1, <2>2, <2>3 DEF MergeOK
<1>24. PageOK(chat, u) /\ PageFull(chat, u)
  BY <1>1, <1>2, <1>12 DEF PageOK, PageFull, InPage
<1>25. SnapFresh(pub, u)
  BY <1>2, <1>12, <1>13 DEF SnapFresh
<1>26. JobOK(chat, sourceRev, pub, u)
  BY <1>2, <1>12, <1>23, <1>24, <1>25 DEF JobOK
<1> QED
  BY <1>1, <1>2, <1>14, <1>26, JobOnly

LEMMA JobPublishInv ==
    ASSUME Orderly, CoverageInv, GhostInv, TypeOK', NEW j \in Jobs, JobPublish(j)
    PROVE  CoverageInv'
<1> DEFINE b   == job[j]
           ix  == b.snap.ix
           ix2 == PageIndex(b)
           s   == [b.snap EXCEPT !.ix = ix2]
           u   == [b EXCEPT !.pc = "list", !.cursor = b.next, !.prior = b.prior \/ b.failed,
                            !.items = NoItems, !.failed = FALSE, !.snap = NoSnapshot]
<1>1. /\ b.pc = "probe" /\ b.todo = {} /\ PublishAccepted(s, PageCovered(b), b.key)
      /\ pub' = Published(s, PageCovered(b), PageIncomplete(b), b.key)
      /\ EndJob(j) \/ SetJob(j, u)
      /\ UNCHANGED <<chat, sourceRev, curKey, task>>
  BY DEF JobPublish, ReadyToPublish
<1>2. /\ TypeOK /\ b \in JobState /\ b.target \in 1..sourceRev /\ Registered
      /\ PageFull(chat, b) /\ MergeOK(chat, sourceRev, b) /\ SnapFresh(pub, b)
  BY <1>1 DEF CoverageInv, TypeOK, JobTypeOK, KeyInv, Registered, JobOK
<1>3. /\ b.target \in Nat /\ b.cursor \in Nat /\ b.next \in Nat /\ sourceRev \in Nat
      /\ b.snap \in Snapshot /\ ix \in Index /\ b.snap.published \in Nat
  BY <1>2 DEF JobState, Snapshot, TypeOK
<1>4. \A d \in Chats : chat[d].rev \in Nat
  BY <1>2 DEF TypeOK
<1>5. /\ s.ix = ix2 /\ s.gen = b.snap.gen
      /\ ix2.chats = ix.chats
      /\ ix2.ckpt = IF ~b.prior /\ ~b.failed /\ b.next # 0
                    THEN [cursor |-> b.next, target |-> b.target, started |-> b.started]
                    ELSE NoCheckpoint
  BY <1>3 DEF Snapshot, PageIndex, Index
<1>6. /\ PageCovered(b) \in Nat /\ PageIncomplete(b) \in BOOLEAN
  BY <1>2, PageIndexType
\* After a page without failures everything up to its last row is in.
<1>7. ASSUME ~b.failed, NEW c \in Chats, IsLive(chat, c), chat[c].rev <= b.target,
             b.next = 0 \/ chat[c].rev <= b.next
      PROVE  Reflects(chat, ix, c)
  <2>1. CASE chat[c].rev <= b.cursor
    BY <1>2, <1>7, <2>1 DEF MergeOK, Rebuilt
  <2>2. CASE b.cursor < chat[c].rev
    BY <1>1, <1>2, <1>7, <2>2 DEF MergeOK, PageFull, InPage
  <2> QED
    BY <1>3, <1>4, <2>1, <2>2
<1>8. \A c \in Chats : chat[c].rev <= b.target /\ ~IsLive(chat, c) => ~Has(ix, c)
  BY <1>2 DEF MergeOK, Rebuilt
<1> HIDE DEF ix2
<1>9. \A c \in Chats : /\ Has(ix2, c) <=> Has(ix, c)
                       /\ Reflects(chat, ix2, c) <=> Reflects(chat, ix, c)
  BY <1>5 DEF Has, Reflects
<1>10. IndexOK(chat, sourceRev, ix2)
  <2>1. Labelled(sourceRev, ix2) /\ Honest(chat, ix2)
    BY <1>2, <1>5 DEF MergeOK, Labelled, Honest, Has
  <2>2. ASSUME ix2.ckpt.cursor # 0
        PROVE  /\ ix2.ckpt.target = b.target /\ ix2.ckpt.cursor = b.next
               /\ ~b.failed /\ b.next # 0
    BY <1>5, <2>2 DEF NoCheckpoint
  <2>3. CheckpointOK(chat, sourceRev, ix2)
    BY <1>2, <1>7, <1>8, <1>9, <2>2 DEF CheckpointOK, Rebuilt
  <2> QED
    BY <2>1, <2>3 DEF IndexOK
<1>11. ASSUME ~PageIncomplete(b) PROVE Covers(chat, ix2, PageCovered(b))
  <2>1. b.next = 0 /\ ~b.failed /\ (b.target < b.snap.published => ~b.snap.inc)
    BY <1>3, <1>11 DEF PageIncomplete
  <2>2. b.snap.obj => b.snap.ok
    <3>1. b.snap.gen = pub.gen /\ (RegisteredOnly => curKey = b.key)
      BY <1>1, <1>2, <1>5 DEF PublishAccepted, Registered
    <3>2. b.key \in Keys
      BY <1>1, <1>2 DEF TypeOK, JobTypeOK
    <3>3. pub.obj => pub.key = b.key
      BY <3>1, <3>2 DEF Orderly, OneKey, CoverageInv, KeyInv
    <3> QED
      BY <1>2, <3>1, <3>3 DEF SnapFresh
  <2>3. ASSUME NEW c \in Chats, chat[c].rev <= PageCovered(b)
        PROVE  /\ IsLive(chat, c) => Reflects(chat, ix, c)
               /\ ~IsLive(chat, c) => ~Has(ix, c)
    <3>1. CASE chat[c].rev <= b.target
      BY <1>7, <1>8, <2>1, <3>1
    <3>2. CASE b.target < chat[c].rev
      <4>1. b.target < b.snap.published /\ chat[c].rev <= b.snap.published
        BY <1>3, <1>4, <2>3, <3>2 DEF PageCovered
      <4> QED
        BY <1>2, <2>1, <2>2, <3>2, <4>1 DEF MergeOK
    <3> QED
      BY <1>3, <1>4, <3>1, <3>2
  <2> QED
    BY <1>9, <2>3 DEF Covers
<1>12. KeyInv' /\ PubInv' /\ pub.gen < pub'.gen
  <2>1. b.key \in Keys
    BY <1>1, <1>2 DEF TypeOK, JobTypeOK
  <2> QED
    BY <1>1, <1>2, <1>5, <1>6, <1>10, <1>11, <2>1, PublishInv
<1>13. Grows /\ ChatOK(chat, sourceRev)'
  BY <1>1, NoGrowth DEF CoverageInv
<1>14. u.pc = "list" /\ u.target = b.target
  BY <1>2 DEF JobState
<1>15. EndJob(j) \/ SetJob(j, u)
  BY <1>1
<1> HIDE DEF u
<1>16. /\ JobOK(chat', sourceRev', pub', u)
       /\ JobOK(chat', sourceRev', pub', IdleJob(j))
  <2>1. JobOK(chat', sourceRev', pub', u)
    BY <1>1, <1>2, <1>14 DEF JobOK
  <2> QED
    BY <2>1 DEF JobOK, IdleJob
<1>17. \A i \in Jobs : \/ job'[i] = job[i]
                       \/ i = j /\ (job'[i] = u \/ job'[i] = IdleJob(j))
  BY <1>2, <1>15 DEF EndJob, SetJob, TypeOK, JobTypeOK
<1> QED
  BY <1>1, <1>12, <1>13, <1>16, <1>17, InvFromParts

LEMMA JobConflictInv ==
    ASSUME CoverageInv, GhostInv, TypeOK', NEW j \in Jobs, JobConflict(j)
    PROVE  CoverageInv'
<1> DEFINE b == job[j]
           u == [b EXCEPT !.pc = "read", !.att = @ + 1, !.snap = NoSnapshot]
<1>1. /\ b.pc = "probe"
      /\ EndJob(j) \/ SetJob(j, u)
      /\ UNCHANGED <<chat, sourceRev, curKey, pub, task>>
  BY DEF JobConflict, ReadyToPublish
<1>2. /\ TypeOK /\ b \in JobState /\ b.target \in 1..sourceRev /\ Registered
      /\ PageOK(chat, b) /\ PageFull(chat, b)
  BY <1>1 DEF CoverageInv, TypeOK, JobTypeOK, KeyInv, Registered, JobOK
<1>3. /\ u.pc = "read" /\ u.todo = b.todo /\ u.target = b.target
      /\ u.cursor = b.cursor /\ u.next = b.next /\ u.failed = b.failed
      /\ u.items = b.items
  BY <1>2 DEF JobState
<1>4. EndJob(j) \/ SetJob(j, u)
  BY <1>1
<1> HIDE DEF u
<1>5. PageOK(chat, u) /\ PageFull(chat, u)
  BY <1>1, <1>2, <1>3 DEF PageOK, PageFull, InPage
<1>6. JobOK(chat, sourceRev, pub, u)
  BY <1>2, <1>3, <1>5 DEF JobOK
<1> QED
  BY <1>1, <1>2, <1>4, <1>6, JobOnly, EndJobInv

LEMMA JobStepInv ==
    ASSUME Orderly, CoverageInv, GhostInv, NEW j \in Jobs, JobStep(j) \/ JobAbort(j)
    PROVE  CoverageInv'
<1>1. TypeOK'
  BY JobStepTypeOK DEF CoverageInv
<1>2. CASE JobAbort(j)
  <2>1. /\ job[j].pc # "idle" /\ EndJob(j)
        /\ UNCHANGED <<chat, sourceRev, curKey, pub, task>>
    BY <1>2 DEF JobAbort
  <2>2. Registered
    BY <2>1 DEF CoverageInv, KeyInv, Registered
  <2> QED
    BY <1>1, <2>1, <2>2, EndJobInv
<1> QED
  BY <1>1, <1>2, JobListInv, JobFetchInv, JobReadInv, JobProbeInv, JobPublishInv,
     JobConflictInv DEF JobStep
-----------------------------------------------------------------------------
(* The theorems. *)

LEMMA CoverageInit ==
    ASSUME Init
    PROVE  CoverageInv
<1>1. TypeOK
  BY InitTypeOK
<1>2. chat \in ChatTable /\ sourceRev = 0 /\ pub = NoPublication /\ curKey = None
  BY <1>1 DEF Init, TypeOK, ChatTable
<1>3. ChatOK(chat, sourceRev)
  BY DEF Init, ChatOK, IsLive
<1>4. /\ \A w \in Workers : task[w].pc = "idle"
      /\ \A j \in Jobs : job[j].pc = "idle"
  BY DEF Init, IdleTask, NewTask, IdleJob
<1>5. KeyInv
  BY <1>2, <1>4 DEF KeyInv, NoPublication
<1>6. Covers(chat, EmptyIndex, 0)
  <2>1. \A c \in Chats : EmptyIndex.chats[c].body = 0
    BY DEF EmptyIndex, NoEntry
  <2> QED
    BY <2>1 DEF Init, Covers, IsLive, Has
<1>7. PubInv
  BY <1>2, <1>6, EmptyOK DEF PubInv, NoPublication
<1> QED
  BY <1>1, <1>3, <1>4, <1>5, <1>7 DEF CoverageInv, TaskOK, JobOK

LEMMA CoverageStep ==
    ASSUME Orderly, CoverageInv, GhostInv, RecreateAllowed => RecreationInv, [Next]_vars
    PROVE  CoverageInv'
<1>1. CASE UNCHANGED vars
  BY <1>1, TypeStep DEF vars, CoverageInv, KeyInv, PubInv, TypeOK, ChatOK, IsLive
<1> QED
  BY <1>1, ClientInv, TaskStepInv, JobStartInv, JobStepInv DEF Next

LEMMA CoverageImplies ==
    ASSUME CoverageInv
    PROVE  NoMissingChat /\ CheckpointSound
<1>1. \A c \in Chats : Live(c) <=> IsLive(chat, c)
  BY DEF Live, IsLive
<1>2. Honest(chat, pub.ix) /\ CheckpointOK(chat, sourceRev, pub.ix)
      /\ (~pub.inc => Covers(chat, pub.ix, pub.published))
  BY DEF CoverageInv, PubInv, IndexOK
<1>3. NoMissingChat
  BY <1>1, <1>2 DEF NoMissingChat, Covers, Reflects, Honest
<1>4. CheckpointSound
  BY <1>1, <1>2 DEF CheckpointSound, CheckpointOK, Rebuilt, Reflects, Honest
<1> QED
  BY <1>3, <1>4

\* The invariant holds in an orderly environment; GhostInv and, where chat ids are
\* used again, RecreationInv strengthen it to an inductive one.
THEOREM CoverageInvariant == ASSUME Orderly PROVE Spec => []CoverageInv
<1> DEFINE Inv == CoverageInv /\ GhostInv /\ (RecreateAllowed => RecreationInv)
<1>1. Init => Inv
  BY CoverageInit, GhostInit, RecreationInit
<1>2. Inv /\ [Next]_vars => Inv'
  <2> SUFFICES ASSUME Inv, [Next]_vars PROVE Inv'
    OBVIOUS
  <2>1. MissesHarmless /\ (RecreateAllowed => OneEnclave)
    BY DEF Orderly, MissesHarmless
  <2>2. CoverageInv' /\ GhostInv'
    BY <2>1, CoverageStep, GhostStep
  <2>3. RecreateAllowed => RecreationInv'
    BY <2>1, RecreationStep
  <2> QED
    BY <2>2, <2>3
<1>3. Inv => CoverageInv
  OBVIOUS
<1> HIDE DEF Inv
<1> QED
  BY <1>1, <1>2, <1>3, PTL DEF Spec

\* In an orderly environment the publication record never vouches for an index
\* that lacks a chat, whatever replicas, handlers and reindex jobs interleave,
\* fail, conflict and resume (publishSearchIndex, searchReindexPage).  Each
\* condition of Orderly is needed.
THEOREM CoverageHonest == ASSUME Orderly PROVE Spec => []NoMissingChat
<1>1. CoverageInv => NoMissingChat
  BY CoverageImplies
<1> QED
  BY <1>1, CoverageInvariant, PTL

\* In an orderly environment a checkpoint in the published index can be resumed
\* by anybody at any time (loadSearchReindexCheckpoint, searchReindexPage).
THEOREM CheckpointsSound == ASSUME Orderly PROVE Spec => []CheckpointSound
<1>1. CoverageInv => CheckpointSound
  BY CoverageImplies
<1> QED
  BY <1>1, CoverageInvariant, PTL
=============================================================================
