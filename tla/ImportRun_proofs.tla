-------------------------- MODULE ImportRun_proofs --------------------------
(***************************************************************************)
(* Imports, for any archive, any number of jobs, faults, edits and keys:   *)
(* proofs of the type invariant and of the safety invariants of ImportJobs *)
(* and ImportRun.                                                          *)
(***************************************************************************)
EXTENDS ImportRun, FiniteSetTheorems, TLAPS

-----------------------------------------------------------------------------
(* The coordinator. *)

\* Of a live job nothing is about to be deleted and every chunk it counts as
\* received is there; a running one has them all.  Nothing is known of a job that
\* was not created.
Kept ==
    /\ \A j \in Jobs, c \in Chunks :
         <<j, c>> \in sweep => job[j].st \notin {"none", "staging", "running"}
    /\ \A j \in Jobs, c \in Chunks :
         Live(j) /\ job[j].recv[c] = "have" => <<j, c>> \in staged
    /\ \A j \in Jobs : job[j].st = "running" => AllChunksReceived(j)

JobsInv == JobsTypeOK /\ LiveReachable /\ Kept
-----------------------------------------------------------------------------
(* The runs. *)

InHand == {"inspect", "build", "push", "verify", "clean"}

\* Where a run is.
RunKept ==
    /\ nat.pc # "off" => leg.pc = "off"
    /\ (nat.pc # "off" \/ leg.pc # "off") <=> \E j \in Jobs : job[j].st = "running"

AnyKey == {0} \cup KeyIds

\* What is stored, and what a prior release left.
Once(r) ==
    /\ rows[r].st = "absent" => rows[r] = Nothing
    /\ rows[r].st = "prior" => r[1] \in OldConvs /\ r[2] = Prior

\* There is a project for what is restored into it.
HasProject(p) == rows[<<"project", p, 0>>].st # "absent" \/ "project" \in gone

\* An id that an import under the current key passes over, and will always.
Taken(r) == rows[r].st # "absent" /\ ~Ours(r, curKey)

\* The generations before a row are taken, unless the user deleted one of them.
Passed(e, g, p) == e \in gone \/ \A h \in Gens : h < g => Taken(<<e, h, p>>)

\* The variant of a conversation that its first listing has.
FirstAt(c, i) ==
    /\ i \in DOMAIN Listing /\ Listing[i][1] = c
    /\ \A k \in DOMAIN Listing : k < i => Listing[k][1] # c
Variant(c, v) == \E i \in DOMAIN Listing : FirstAt(c, i) /\ Listing[i][2] = v

\* Conversations of which no chat of the earlier release is left.
NotPrior(c) == rows[<<c, Prior, 0>>].st = "absent"

\* What is stored, or may arrive, under r was put there for a reason.  Of entities
\* nothing is claimed that was put under a former key.
Justified(r, proj, k) ==
    /\ r[1] \in Convs => r[2] # Prior /\ Variant(r[1], r[2]) /\ NotPrior(r[1])
    /\ k = curKey /\ r[1] \in Entities => Passed(r[1], r[2], r[3])
    /\ k = curKey /\ r[1] \in {"document", "chat"} => HasProject(proj)

\* Keys are registered one after the other, and a put that is remembered was made.
KeysKept ==
    /\ curKey <= edits + 1
    /\ \A p \in late \cup idem : p.key <= curKey
    /\ \A p \in idem : p.key = curKey => rows[p.row].st # "absent" \/ p.row[1] \in gone

RowsKept ==
    /\ \A r \in Rows : Once(r)
    /\ \A r \in Rows, q \in Gens, k \in AnyKey :
         rows[r].st \in {"ours", "edited"} /\ rows[r].proj = q /\ rows[r].key = k
         => Justified(r, q, k)
    /\ \A p \in late : Justified(p.row, p.proj, p.key)

\* The row that a push met is there, and one that a look found not to be ours stays
\* that way.
Met ==
    nat.pc \in {"verify", "clean"} /\ nat.err = "conflict" /\ Entity \notin gone =>
      /\ rows[Row].st # "absent"
      /\ nat.pc = "clean" => Taken(Row)

\* The row in hand of a native run.
NatShape ==
    /\ nat.key <= curKey
    /\ nat.pc \in InHand => nat.i \in DOMAIN Graph
    /\ nat.pc \in {"build", "push", "verify", "clean"} => nat.g < Generations
    /\ nat.pc \in InHand /\ Entity # "project" => nat.mapped
    /\ nat.pc \in {"key", "next"} => nat.g = 0
    /\ nat.pc \in {"key", "next", "inspect", "build"} => ~nat.pic

\* What a run under the current key has behind it.
NatNow ==
    /\ \A q \in Gens : nat.mapped /\ nat.proj = q => HasProject(q)
    /\ \A e \in Entities, g \in 0..Generations, q \in Gens :
         nat.pc \in InHand /\ Entity = e /\ nat.g = g /\ nat.proj = q
         => Passed(e, g, IF e = "document" THEN q ELSE 0)
    /\ Met

NatKept == NatShape /\ (nat.key = curKey => NatNow)

\* There is a chat of a conversation.
HasChat(c) == c \in gone \/ \E v \in {0, 1, Prior} : rows[<<c, v, 0>>].st # "absent"

\* The workers of a legacy run.
LegKept ==
    /\ leg.key <= curKey
    /\ leg.seen = {Listing[i][1] : i \in 1..(leg.pos - 1)}
    /\ \A c \in Convs, v \in {0, 1} : Active(c) /\ leg.v[c] = v => Variant(c, v)
    /\ \A c \in Convs : leg.at[c] \in {"push", "check"} => NotPrior(c)
    /\ \A c \in Convs :
         leg.at[c] \in {"imported", "skipped"} /\ leg.key = curKey => HasChat(c)

\* A row that has an image, or may be put with one, has it stored.
PicsBase ==
    /\ RestoredReadable
    /\ \A p \in late : p.pic /\ p.key = curKey => p.row \in pics

\* A cleanup has seen that there is no row, or not the one it was about to put, and
\* knows of no request.
PicsHand ==
    /\ nat.pc = "push" /\ nat.pic /\ nat.key = curKey => Row \in pics
    /\ nat.pc \in {"build", "push", "verify", "clean"} /\ nat.key = curKey
       => rows[Row].key # curKey \/ rows[Row].st = "ours"
    /\ nat.pc = "clean" => /\ nat.key = curKey => rows[Row].key # curKey
                           /\ \A p \in late : p.row # Row

\* A run under a former key is the only one, so nothing it cleans up is of the
\* current key.
PicsApart ==
    nat.pc # "off" /\ nat.key # curKey =>
      /\ \A r \in Rows : r[1] \in Entities => rows[r].key # curKey
      /\ \A p \in late : p.row[1] \in Entities => p.key # curKey

PicsKept == PicsBase /\ PicsHand /\ PicsApart

ImportInv ==
    /\ TypeOK /\ JobsInv
    /\ RunKept /\ KeysKept /\ RowsKept /\ NatKept /\ LegKept
    /\ ~RowsMove => PicsKept
-----------------------------------------------------------------------------
(* The coordinator keeps its part. *)

JobType == [st : {"none", "staging", "running", "completed", "failed", "lost"},
            src : Sources \cup {"none"}, recv : [Chunks -> {"no", "pending", "have"}],
            stalled : BOOLEAN]

Pending(j, c) == job[j].recv[c] = "pending" /\ (SlowHandlers \/ job[j].st = "staging")

JobsTyped ==
    /\ cur \in 0..MaxJobs /\ job \in [Jobs -> JobType]
    /\ staged \subseteq Jobs \X Chunks /\ upl \subseteq Jobs \X Chunks
    /\ sweep \subseteq Jobs \X Chunks /\ leaked \subseteq Jobs \X Chunks
    /\ wedged \in BOOLEAN /\ faults \in 0..MaxFaults
    /\ \A j \in Jobs, c \in Chunks : <<j, c>> \in upl => Pending(j, c)

LEMMA JobsTypedIs == JobsTypeOK <=> JobsTyped
<1>1. JobsTypeOK => JobsTyped
  BY DEF JobsTypeOK, JobsTyped, JobType, Pending
<1>2. JobsTyped => JobsTypeOK
  BY DEF JobsTypeOK, JobsTyped, JobType, Pending
<1> QED
  BY <1>1, <1>2

LEMMA JobsTypedNext == JobsTypeOK' <=> JobsTyped'
<1>1. JobsTypeOK' => JobsTyped'
  BY DEF JobsTypeOK, JobsTyped, JobType, Pending
<1>2. JobsTyped' => JobsTypeOK'
  BY DEF JobsTypeOK, JobsTyped, JobType, Pending
<1> QED
  BY <1>1, <1>2

LEMMA JobsNat == MaxJobs \in Nat /\ MaxFaults \in Nat /\ Jobs = 1..MaxJobs /\ 0 \notin Jobs /\ Jobs \subseteq 0..MaxJobs
BY ImportJobsConstants DEF Jobs

LEMMA JobsInitial == JobsInit => JobsInv
<1> SUFFICES ASSUME JobsInit PROVE JobsInv
  OBVIOUS
<1>1. NoJob \in JobType /\ NoJob.st = "none"
  BY DEF NoJob, JobType
<1>2. JobsTyped
  <2>1. job \in [Jobs -> JobType] /\ cur \in 0..MaxJobs /\ faults \in 0..MaxFaults
    BY <1>1, JobsNat DEF JobsInit
  <2> QED
    BY <2>1, Zenon DEF JobsInit, JobsTyped
<1>3. LiveReachable /\ Kept
  BY <1>1 DEF JobsInit, LiveReachable, Live, Kept
<1> QED
  BY <1>2, <1>3, JobsTypedIs DEF JobsInv

\* One job becomes r; the map and the chunk sets follow.
JobsKeepType ==
    /\ cur' \in 0..MaxJobs /\ faults' \in 0..MaxFaults /\ wedged' \in BOOLEAN
    /\ staged' \subseteq Jobs \X Chunks /\ upl' \subseteq Jobs \X Chunks
    /\ sweep' \subseteq Jobs \X Chunks /\ leaked' \subseteq Jobs \X Chunks

MapFollows(j, r) ==
    /\ \A i \in Jobs \ {j} : Live(i) => cur' = i
    /\ r.st \in {"staging", "running"} => cur' = j

OthersKept(j) ==
    \A i \in Jobs \ {j}, d \in Chunks :
        /\ <<i, d>> \in upl' => <<i, d>> \in upl
        /\ <<i, d>> \in sweep' => <<i, d>> \in sweep
        /\ <<i, d>> \in staged => <<i, d>> \in staged'

ChunksFollow(j, r) ==
    \A d \in Chunks :
        /\ <<j, d>> \in upl' => r.recv[d] = "pending" /\ (SlowHandlers \/ r.st = "staging")
        /\ <<j, d>> \in sweep' => r.st \notin {"none", "staging", "running"}
        /\ r.st \in {"staging", "running"} /\ r.recv[d] = "have" => <<j, d>> \in staged'
        /\ r.st = "running" => r.recv[d] = "have"

JobTo(j, r) ==
    /\ r \in JobType /\ job' = [job EXCEPT ![j] = r]
    /\ JobsKeepType /\ MapFollows(j, r) /\ OthersKept(j) /\ ChunksFollow(j, r)

LEMMA JobsStep ==
    ASSUME JobsInv, NEW j \in Jobs, NEW r, JobTo(j, r)
    PROVE  JobsInv'
<1> USE DEF JobTo, JobsKeepType, MapFollows, OthersKept, ChunksFollow
<1>1. JobsTyped /\ LiveReachable /\ Kept
  BY JobsTypedIs DEF JobsInv
<1>2. job \in [Jobs -> JobType]
  BY <1>1 DEF JobsTyped
<1>3. job'[j] = r /\ (\A i \in Jobs \ {j} : job'[i] = job[i]) /\ job' \in [Jobs -> JobType]
  BY <1>2
<1>4. JobsTyped'
  <2>1. ASSUME NEW i \in Jobs, NEW c \in Chunks, <<i, c>> \in upl'
        PROVE  Pending(i, c)'
    <3>1. CASE i = j
      BY <1>3, <2>1, <3>1 DEF Pending
    <3>2. CASE i # j
      BY <1>1, <1>3, <2>1, <3>2 DEF Pending, JobsTyped
    <3> QED
      BY <3>1, <3>2
  <2> QED
    BY <1>3, <2>1 DEF JobsTyped, JobType, Jobs
<1>5. LiveReachable'
  BY <1>1, <1>3 DEF LiveReachable, Live, Jobs
<1>6. Kept'
  <2>1. ASSUME NEW i \in Jobs, NEW c \in Chunks
        PROVE  /\ <<i, c>> \in sweep' => job'[i].st \notin {"none", "staging", "running"}
               /\ job'[i].st \in {"staging", "running"} /\ job'[i].recv[c] = "have" => <<i, c>> \in staged'
               /\ job'[i].st = "running" => job'[i].recv[c] = "have"
    <3>1. CASE i = j
      BY <1>3, <2>1, <3>1
    <3>2. CASE i # j
      BY <1>1, <1>3, <2>1, <3>2 DEF Kept, Live, AllChunksReceived
    <3> QED
      BY <3>1, <3>2
  <2> QED
    BY <2>1 DEF Kept, Live, AllChunksReceived, Jobs
<1> QED
  BY <1>4, <1>5, <1>6, JobsTypedNext DEF JobsInv

\* The facts of JobsInv, as the steps use them.
LEMMA JobsFacts ==
    ASSUME JobsInv
    PROVE  /\ job \in [Jobs -> JobType] /\ cur \in 0..MaxJobs /\ faults \in 0..MaxFaults
           /\ wedged \in BOOLEAN
           /\ staged \subseteq Jobs \X Chunks /\ upl \subseteq Jobs \X Chunks
           /\ sweep \subseteq Jobs \X Chunks /\ leaked \subseteq Jobs \X Chunks
           /\ \A j \in Jobs : Live(j) => cur = j
           /\ \A j \in Jobs, c \in Chunks :
                /\ <<j, c>> \in upl => Pending(j, c)
                /\ <<j, c>> \in sweep => job[j].st \notin {"none", "staging", "running"}
                /\ Live(j) /\ job[j].recv[c] = "have" => <<j, c>> \in staged
                /\ job[j].st = "running" => job[j].recv[c] = "have"
BY JobsTypedIs DEF JobsInv, JobsTyped, LiveReachable, Kept, AllChunksReceived

LEMMA FaultType == JobsInv /\ Fault => faults' \in 0..MaxFaults
BY JobsFacts, JobsNat DEF Fault

LEMMA CreateStep ==
    ASSUME JobsInv, NEW src \in Sources, Create(src)
    PROVE  JobsInv' /\ \A j \in Jobs : job'[j].st = "running" <=> job[j].st = "running"
<1>1. PICK j \in Jobs : /\ job[j] = NoJob /\ cur' = j
                         /\ job' = [job EXCEPT ![j].st = "staging", ![j].src = src]
  BY DEF Create
<1> DEFINE r == [job[j] EXCEPT !.st = "staging", !.src = src]
<1>2. r \in JobType /\ r.st = "staging" /\ (\A c \in Chunks : r.recv[c] = "no") /\ job[j].st = "none"
  <2>1. job[j] \in JobType /\ job[j].st = "none" /\ job[j].recv = [c \in Chunks |-> "no"]
    <3>1. NoJob \in JobType /\ NoJob.st = "none" /\ NoJob.recv = [c \in Chunks |-> "no"]
      BY DEF NoJob, JobType
    <3> QED
      BY <1>1, <3>1
  <2> QED
    BY <2>1 DEF JobType
<1>3. job' = [job EXCEPT ![j] = r] /\ \A i \in Jobs \ {j} : job'[i] = job[i]
  BY <1>1, JobsFacts
<1>4. \A i \in Jobs : ~Live(i)
  BY JobsFacts, JobsNat DEF Create, Live, Ended
<1>5. \A c \in Chunks : <<j, c>> \notin upl /\ <<j, c>> \notin sweep
  BY <1>1, <1>2, JobsFacts DEF Pending, NoJob
<1>6. job'[j] = r
  BY <1>3, JobsFacts
<1> HIDE DEF r
<1>7. JobTo(j, r)
  BY <1>1, <1>2, <1>3, <1>4, <1>5, JobsFacts, JobsNat DEF JobTo, JobsKeepType, MapFollows, OthersKept, ChunksFollow, Create
<1> QED
  BY <1>2, <1>3, <1>6, <1>7, JobsStep

LEMMA BeginChunkStep ==
    ASSUME JobsInv, NEW j \in Jobs, NEW c \in Chunks, BeginChunk(j, c)
    PROVE  JobsInv' /\ \A i \in Jobs : job'[i].st = "running" <=> job[i].st = "running"
<1> DEFINE r == [job[j] EXCEPT !.recv[c] = "pending"]
<1>1. job \in [Jobs -> JobType]
  BY JobsFacts
<1>2. /\ r \in JobType /\ r.st = job[j].st /\ r.recv[c] = "pending"
      /\ \A d \in Chunks \ {c} : r.recv[d] = job[j].recv[d]
  BY <1>1 DEF JobType
<1>3. job' = [job EXCEPT ![j] = r] /\ job'[j] = r /\ \A i \in Jobs \ {j} : job'[i] = job[i]
  BY <1>1 DEF BeginChunk
<1> HIDE DEF r
<1>4. upl' \subseteq Jobs \X Chunks /\ \A i \in Jobs, d \in Chunks : <<i, d>> \in upl' => <<i, d>> \in upl \/ (i = j /\ d = c)
  BY JobsFacts DEF BeginChunk
<1>5. SlowHandlers \/ job[j].st = "staging"
  BY DEF BeginChunk
<1>6. job[j].st # "running"
  BY DEF BeginChunk, Reaped
<1>7. ChunksFollow(j, r)
  BY <1>2, <1>4, <1>5, <1>6, JobsFacts DEF BeginChunk, Pending, Live, ChunksFollow
<1>8. JobTo(j, r)
  <2>1. MapFollows(j, r)
    BY <1>2, JobsFacts DEF BeginChunk, Live, MapFollows
  <2>2. OthersKept(j)
    BY <1>4 DEF BeginChunk, OthersKept
  <2>3. JobsKeepType
    BY <1>4, JobsFacts DEF BeginChunk, JobsKeepType
  <2> QED
    BY <1>2, <1>3, <1>7, <2>1, <2>2, <2>3 DEF JobTo
<1> QED
  BY <1>2, <1>3, <1>8, JobsStep

LEMMA PutChunkStep ==
    ASSUME JobsInv, NEW j \in Jobs, NEW c \in Chunks, PutChunk(j, c)
    PROVE  JobsInv' /\ \A i \in Jobs : job'[i].st = "running" <=> job[i].st = "running"
<1>1. PICK ok \in BOOLEAN :
        /\ job' = [job EXCEPT ![j].recv[c] = ReceivedAfter(ok)]
        /\ IF ok THEN staged' = staged \cup {<<j, c>>} /\ UNCHANGED faults
           ELSE Fault /\ staged' \in {staged, staged \cup {<<j, c>>}}
  BY DEF PutChunk
<1> DEFINE x == ReceivedAfter(ok)
           r == [job[j] EXCEPT !.recv[c] = x]
<1>2. job \in [Jobs -> JobType]
  BY JobsFacts
<1>3. x \in {"no", "have"} /\ (x = "have" => ok)
  BY DEF ReceivedAfter
<1> HIDE DEF x
<1>4. /\ r \in JobType /\ r.st = job[j].st /\ r.recv[c] = x
      /\ \A d \in Chunks \ {c} : r.recv[d] = job[j].recv[d]
  BY <1>2, <1>3 DEF JobType
<1>5. job' = [job EXCEPT ![j] = r] /\ job'[j] = r /\ \A i \in Jobs \ {j} : job'[i] = job[i]
  BY <1>1, <1>2 DEF x
<1> HIDE DEF r
<1>6. job[j].st # "running" /\ (SlowHandlers \/ job[j].st = "staging")
  BY JobsFacts DEF PutChunk, Pending
<1>7. /\ staged \subseteq staged' /\ staged' \subseteq Jobs \X Chunks /\ faults' \in 0..MaxFaults
      /\ x = "have" => <<j, c>> \in staged'
  BY <1>1, <1>3, JobsFacts, FaultType
<1>8. upl' = upl \ {<<j, c>>} /\ UNCHANGED <<cur, sweep, leaked, wedged>>
  BY DEF PutChunk
<1>9. ChunksFollow(j, r)
  BY <1>4, <1>6, <1>7, <1>8, JobsFacts DEF Pending, Live, ChunksFollow
<1>10. JobTo(j, r)
  <2>1. MapFollows(j, r)
    BY <1>4, <1>8, JobsFacts DEF Live, MapFollows
  <2>2. OthersKept(j)
    BY <1>7, <1>8 DEF OthersKept
  <2>3. JobsKeepType
    BY <1>7, <1>8, JobsFacts DEF JobsKeepType
  <2> QED
    BY <1>4, <1>5, <1>9, <2>1, <2>2, <2>3 DEF JobTo
<1> QED
  BY <1>4, <1>5, <1>10, JobsStep

LEMMA StartStep ==
    ASSUME JobsInv, NEW j \in Jobs, Start(j)
    PROVE  JobsInv' /\ job'[j].st = "running" /\ \A i \in Jobs : job[i].st # "running"
<1> DEFINE r == [job[j] EXCEPT !.st = "running"]
<1>1. job \in [Jobs -> JobType]
  BY JobsFacts
<1>2. r \in JobType /\ r.st = "running" /\ r.recv = job[j].recv
  BY <1>1 DEF JobType
<1>3. job' = [job EXCEPT ![j] = r] /\ job'[j] = r
  BY <1>1 DEF Start
<1> HIDE DEF r
<1>4. \A c \in Chunks : /\ job[j].recv[c] = "have" /\ <<j, c>> \in staged
                         /\ <<j, c>> \notin upl /\ <<j, c>> \notin sweep
  BY JobsFacts DEF Start, AllChunksReceived, Live, Pending
<1>5. \A i \in Jobs \ {j} : ~Live(i)
  BY JobsFacts DEF Start
<1>6. JobTo(j, r)
  BY <1>2, <1>3, <1>4, <1>5, JobsFacts DEF JobTo, JobsKeepType, MapFollows, OthersKept, ChunksFollow, Start
<1> QED
  BY <1>2, <1>3, <1>5, <1>6, JobsStep DEF Live, Start

\* Reapers and ends of runs: a live job ends and its chunks are up for deletion.
LEMMA EndStep ==
    ASSUME JobsInv, NEW j \in Jobs, NEW st \in {"completed", "failed"},
           job[j].st \in {"staging", "running"}, \A c \in Chunks : <<j, c>> \notin upl,
           job' = [job EXCEPT ![j].st = st], CleanupStaging(j), cur' \in {0, cur},
           wedged' \in BOOLEAN, faults' \in 0..MaxFaults, UNCHANGED <<staged, upl, leaked>>
    PROVE  JobsInv' /\ job'[j].st = st /\ \A i \in Jobs \ {j} : job'[i].st = job[i].st /\ ~Live(i)
<1> DEFINE r == [job[j] EXCEPT !.st = st]
<1>1. job \in [Jobs -> JobType]
  BY JobsFacts
<1>2. r \in JobType /\ r.st = st /\ r.recv = job[j].recv
  BY <1>1 DEF JobType
<1>3. job' = [job EXCEPT ![j] = r] /\ job'[j] = r /\ \A i \in Jobs \ {j} : job'[i] = job[i]
  BY <1>1
<1> HIDE DEF r
<1>4. \A i \in Jobs \ {j} : ~Live(i)
  BY JobsFacts DEF Live
<1>5. cur' \in 0..MaxJobs
  BY JobsFacts, JobsNat
<1>6. sweep' \subseteq Jobs \X Chunks /\ \A i \in Jobs \ {j}, c \in Chunks : <<i, c>> \in sweep' => <<i, c>> \in sweep
  BY JobsFacts DEF CleanupStaging
<1>7. JobTo(j, r)
  BY <1>2, <1>3, <1>4, <1>5, <1>6, JobsFacts DEF JobTo, JobsKeepType, MapFollows, OthersKept, ChunksFollow
<1> QED
  BY <1>2, <1>3, <1>4, <1>7, JobsStep

LEMMA ReapStep ==
    ASSUME JobsInv, NEW j \in Jobs, Reap(j)
    PROVE  JobsInv' /\ \A i \in Jobs : job'[i].st = "running" <=> job[i].st = "running"
<1>1. /\ job[j].st = "staging" /\ (\A c \in Chunks : <<j, c>> \notin upl)
      /\ job' = [job EXCEPT ![j].st = "failed"] /\ CleanupStaging(j) /\ cur' = 0
      /\ wedged' \in BOOLEAN /\ faults' \in 0..MaxFaults /\ UNCHANGED <<staged, upl, leaked>>
  BY JobsFacts DEF Reap, StaleStaging
<1> QED
  BY <1>1, EndStep

LEMMA EndRunStep ==
    ASSUME JobsInv, NEW j \in Jobs, NEW st \in {"completed", "failed"}, EndRun(j, st),
           job[j].st = "running", faults' \in 0..MaxFaults
    PROVE  JobsInv' /\ \A i \in Jobs : job'[i].st # "running"
<1>1. \A c \in Chunks : <<j, c>> \notin upl
  BY JobsFacts DEF Pending
<1>2. /\ job' = [job EXCEPT ![j].st = st] /\ CleanupStaging(j) /\ cur' = cur
      /\ wedged' \in BOOLEAN /\ UNCHANGED <<staged, upl, leaked>>
  BY DEF EndRun
<1> QED
  BY <1>1, <1>2, EndStep DEF Live

LEMMA SweepChunkStep ==
    ASSUME JobsInv, NEW j \in Jobs, NEW c \in Chunks, SweepChunk(j, c)
    PROVE  JobsInv' /\ UNCHANGED job
<1>1. /\ <<j, c>> \in sweep /\ sweep' = sweep \ {<<j, c>>} /\ UNCHANGED <<cur, job, upl, wedged>>
      /\ staged \ {<<j, c>>} \subseteq staged' /\ staged' \subseteq staged
      /\ leaked' \subseteq Jobs \X Chunks /\ faults' \in 0..MaxFaults
  BY JobsFacts, FaultType DEF SweepChunk
<1>2. ~Live(j)
  BY <1>1, JobsFacts DEF Live
<1>3. JobsTyped'
  BY <1>1, JobsTypedIs DEF JobsInv, JobsTyped, Pending, JobType, Jobs
<1>4. LiveReachable'
  BY <1>1 DEF JobsInv, LiveReachable, Live
<1>5. Kept'
  BY <1>1, <1>2 DEF JobsInv, Kept, Live, AllChunksReceived
<1> QED
  BY <1>1, <1>3, <1>4, <1>5, JobsTypedNext DEF JobsInv

LEMMA RetireStep ==
    ASSUME JobsInv, NEW j \in Jobs, Retire(j)
    PROVE  JobsInv' /\ UNCHANGED job
<1>1. /\ cur' = DeleteIfSame(j) /\ ~Live(j)
      /\ UNCHANGED <<job, staged, upl, sweep, leaked, wedged, faults>>
  BY DEF Retire, Live, Ended
<1>2. JobsTyped'
  BY <1>1, JobsTypedIs, JobsNat DEF JobsInv, JobsTyped, Pending, JobType, Jobs, DeleteIfSame
<1>3. LiveReachable' /\ Kept'
  BY <1>1 DEF JobsInv, LiveReachable, Kept, AllChunksReceived, Live, DeleteIfSame
<1> QED
  BY <1>1, <1>2, <1>3, JobsTypedNext DEF JobsInv

\* Steps that only count faults or hang.
LEMMA QuietStep ==
    ASSUME JobsInv, UNCHANGED <<cur, job, staged, upl, sweep, leaked>>,
           wedged' \in BOOLEAN, faults' \in 0..MaxFaults
    PROVE  JobsInv'
<1>1. JobsTyped'
  BY JobsTypedIs DEF JobsInv, JobsTyped, Pending, JobType, Jobs
<1>2. LiveReachable' /\ Kept'
  BY DEF JobsInv, LiveReachable, Kept, AllChunksReceived, Live
<1> QED
  BY <1>1, <1>2, JobsTypedNext DEF JobsInv

LEMMA WatchdogStep ==
    ASSUME JobsInv, NEW j \in Jobs, Watchdog(j)
    PROVE  JobsInv' /\ \A i \in Jobs : job'[i].st = "running" <=> job[i].st = "running"
<1> DEFINE r == [job[j] EXCEPT !.stalled = TRUE]
<1>1. job \in [Jobs -> JobType]
  BY JobsFacts
<1>2. r \in JobType /\ r.st = job[j].st /\ r.recv = job[j].recv /\ job[j].st = "running"
  BY <1>1 DEF JobType, Watchdog, Stalled
<1>3. job' = [job EXCEPT ![j] = r] /\ job'[j] = r /\ \A i \in Jobs \ {j} : job'[i] = job[i]
  BY <1>1 DEF Watchdog
<1> HIDE DEF r
<1>4. UNCHANGED <<cur, staged, upl, sweep, leaked, faults>> /\ wedged' = FALSE
  BY DEF Watchdog
<1>5. \A c \in Chunks : /\ r.recv[c] = "have" /\ <<j, c>> \in staged
                         /\ <<j, c>> \notin upl /\ <<j, c>> \notin sweep
  BY <1>2, JobsFacts DEF Live, Pending
<1>6. (\A i \in Jobs : Live(i) => cur = i) /\ cur = j
  BY <1>2, JobsFacts DEF Live
<1>7. JobTo(j, r)
  BY <1>2, <1>3, <1>4, <1>5, <1>6, JobsFacts DEF JobTo, JobsKeepType, MapFollows, OthersKept, ChunksFollow
<1> QED
  BY <1>2, <1>3, <1>7, JobsStep

LEMMA RestartStep ==
    ASSUME JobsInv, Restart
    PROVE  JobsInv' /\ \A j \in Jobs : job'[j].st # "running"
<1> DEFINE lost(j) == [NoJob EXCEPT !.st = "lost", !.src = job[j].src]
<1>1. job \in [Jobs -> JobType]
  BY JobsFacts
<1>2. \A j \in Jobs : lost(j) \in JobType /\ lost(j).st = "lost"
  BY <1>1 DEF JobType, NoJob
<1>3. job' = [j \in Jobs |-> IF Live(j) THEN lost(j) ELSE job[j]]
  BY DEF Restart
<1> HIDE DEF lost
<1>4. job' \in [Jobs -> JobType] /\ \A j \in Jobs : job'[j].st \notin {"staging", "running"}
  BY <1>1, <1>2, <1>3 DEF Live
<1>5. /\ cur' = 0 /\ upl' = {} /\ sweep' = {} /\ wedged' = FALSE /\ UNCHANGED staged
      /\ leaked' = leaked \cup staged /\ faults' \in 0..MaxFaults
  BY FaultType DEF Restart
<1>6. JobsTyped'
  <2>1. cur' \in 0..MaxJobs /\ leaked' \subseteq Jobs \X Chunks /\ staged' \subseteq Jobs \X Chunks
    BY <1>5, JobsFacts, JobsNat
  <2> QED
    BY <1>4, <1>5, <2>1 DEF JobsTyped, JobType, Jobs
<1>7. LiveReachable' /\ Kept'
  BY <1>4, <1>5 DEF LiveReachable, Kept, Live, AllChunksReceived
<1> QED
  BY <1>4, <1>6, <1>7, JobsTypedNext DEF JobsInv

\* The coordinator's steps neither start nor end a run.
LEMMA CoordinatorStep ==
    ASSUME JobsInv, Coordinator
    PROVE  JobsInv' /\ \A j \in Jobs : job'[j].st = "running" <=> job[j].st = "running"
<1>1. ASSUME NEW j \in Jobs, Wedge(j) PROVE JobsInv' /\ UNCHANGED job
  BY <1>1, QuietStep, FaultType DEF Wedge
<1> QED
  BY <1>1, CreateStep, ReapStep, RetireStep, WatchdogStep, BeginChunkStep, PutChunkStep, SweepChunkStep
     DEF Coordinator
-----------------------------------------------------------------------------
(* Rows. *)

LEMMA GraphIs ==
    /\ DOMAIN Graph = 1..3 /\ Len(Graph) = 3
    /\ Entities = {"project", "document", "chat"}
    /\ Graph[1] = "project" /\ Graph[2] = "document" /\ Graph[3] = "chat"
<1>1. Graph[1] = "project" /\ Graph[2] = "document" /\ Graph[3] = "chat" /\ DOMAIN Graph = 1..3 /\ Len(Graph) = 3
  BY DEF Graph
<1> QED
  BY <1>1 DEF Entities

LEMMA GensNat == Generations \in Nat \ {0} /\ Gens = 0..(Generations - 1) /\ 0 \in Gens /\ Gens \subseteq Nat
BY ImportRunConstants DEF Gens

\* The ids there are, and what they look like.
LEMMA RowsHave ==
    /\ \A c \in Convs, v \in {0, 1, Prior} : <<c, v, 0>> \in Rows
    /\ \A e \in {"project", "chat"}, g \in Gens : <<e, g, 0>> \in Rows
    /\ \A g, p \in Gens : <<"document", g, p>> \in Rows
    /\ \A r \in Rows : /\ r = <<r[1], r[2], r[3]>>
                        /\ \/ r[1] \in Convs /\ r[2] \in {0, 1, Prior} /\ r[3] = 0
                           \/ r[1] \in {"project", "chat"} /\ r[2] \in Gens /\ r[3] = 0
                           \/ r[1] = "document" /\ r[2] \in Gens /\ r[3] \in Gens
<1>1. \A c \in Convs, v \in {0, 1, Prior} : <<c, v, 0>> \in Rows
  BY DEF Rows
<1>2. \A e \in {"project", "chat"}, g \in Gens : <<e, g, 0>> \in Rows
  BY GraphIs DEF Rows
<1>3. \A g, p \in Gens : <<"document", g, p>> \in Rows
  BY DEF Rows
<1>4. ASSUME NEW r \in Rows
      PROVE  /\ r = <<r[1], r[2], r[3]>>
             /\ \/ r[1] \in Convs /\ r[2] \in {0, 1, Prior} /\ r[3] = 0
                \/ r[1] \in {"project", "chat"} /\ r[2] \in Gens /\ r[3] = 0
                \/ r[1] = "document" /\ r[2] \in Gens /\ r[3] \in Gens
  <2>1. CASE r \in {<<c, v, 0>> : c \in Convs, v \in {0, 1, Prior}}
    BY <2>1
  <2>2. CASE r \in {<<e, g, 0>> : e \in Entities \ {"document"}, g \in Gens}
    BY <2>2, GraphIs
  <2>3. CASE r \in {<<"document", g, p>> : g, p \in Gens}
    BY <2>3
  <2> QED
    BY <2>1, <2>2, <2>3 DEF Rows
<1> QED
  BY <1>1, <1>2, <1>3, <1>4

LEMMA ConvsApart == \A c \in Convs : c \notin Entities /\ c \notin {"project", "document", "chat"}
BY ImportRunConstants, GraphIs

\* The row of an entity at a generation.
RowAt(e, g, p) == <<e, g, IF e = "document" THEN p ELSE 0>>

LEMMA EntityRows ==
    ASSUME NEW e \in Entities, NEW g \in Gens, NEW p \in Gens
    PROVE  RowAt(e, g, p) \in Rows
BY RowsHave, GraphIs DEF RowAt
-----------------------------------------------------------------------------
(* The world: what is stored and what is under way. *)

LEMMA Keys == /\ KeyIds = 1..(MaxEdits + 1) /\ KeyIds \subseteq Nat /\ AnyKey \subseteq Nat
              /\ 0 \in AnyKey /\ 1 \in KeyIds /\ MaxEdits \in Nat /\ KeyIds \subseteq AnyKey
BY ImportRunConstants DEF KeyIds, AnyKey

RowType == [st : {"absent", "ours", "edited", "prior"}, pic : BOOLEAN, proj : Gens, key : AnyKey]

WorldType ==
    /\ rows \in [Rows -> RowType]
    /\ curKey \in KeyIds
    /\ idem \subseteq Puts
    /\ late \subseteq Puts
    /\ pics \subseteq Rows
    /\ gone \subseteq Convs \cup Entities
    /\ edits \in 0..MaxEdits

WorldInv == WorldType /\ KeysKept /\ RowsKept

LEMMA NothingIs == /\ Nothing \in RowType /\ Nothing.st = "absent" /\ ~Nothing.pic /\ Nothing.key = 0
BY GensNat, Keys DEF Nothing, RowType

LEMMA PutIs ==
    ASSUME NEW p \in Puts
    PROVE  p.row \in Rows /\ p.pic \in BOOLEAN /\ p.proj \in Gens /\ p.key \in AnyKey
BY DEF Puts, AnyKey

\* What no step takes back, a fresh start under a new key excepted.
Grow ==
    /\ curKey' = curKey
    /\ gone \subseteq gone'
    /\ \A r \in Rows :
         /\ Taken(r) => Taken(r)' \/ r[1] \in gone'
         /\ rows[r].st # "absent" => rows'[r].st # "absent" \/ r[1] \in gone'
    /\ \A c \in Convs : NotPrior(c) => NotPrior(c)'

LEMMA ProjectStays == ASSUME Grow, NEW p \in Gens, HasProject(p) PROVE HasProject(p)'
<1>1. <<"project", p, 0>> \in Rows /\ <<"project", p, 0>>[1] = "project"
  BY RowsHave
<1> QED
  BY <1>1 DEF Grow, HasProject

LEMMA PassedStays ==
    ASSUME Grow, NEW e \in Entities, NEW g, NEW p \in Gens, e # "document" => p = 0, Passed(e, g, p)
    PROVE  Passed(e, g, p)'
<1>1. \A h \in Gens : <<e, h, p>> \in Rows /\ <<e, h, p>>[1] = e
  BY RowsHave, GraphIs
<1>2. CASE e \in gone
  BY <1>2 DEF Grow, Passed
<1>3. CASE e \notin gone'
  <2>1. \A h \in Gens : h < g => Taken(<<e, h, p>>)'
    BY <1>1, <1>3 DEF Grow, Passed
  <2> QED
    BY <2>1 DEF Passed, Gens
<1> QED
  BY <1>2, <1>3 DEF Passed

LEMMA ChatStays == ASSUME Grow, NEW c \in Convs, HasChat(c) PROVE HasChat(c)'
<1>1. \A v \in {0, 1, Prior} : <<c, v, 0>> \in Rows /\ <<c, v, 0>>[1] = c
  BY RowsHave
<1> QED
  BY <1>1 DEF Grow, HasChat

LEMMA JustifiedStays ==
    ASSUME Grow, NEW r \in Rows, NEW proj \in Gens, NEW k, Justified(r, proj, k)
    PROVE  Justified(r, proj, k)'
<1>1. r[1] \in Entities => r[3] \in Gens /\ (r[1] # "document" => r[3] = 0)
  BY RowsHave, GensNat, ConvsApart
<1>2. k = curKey /\ r[1] \in Entities => Passed(r[1], r[2], r[3])'
  BY <1>1, PassedStays DEF Justified
<1>3. k = curKey /\ r[1] \in {"document", "chat"} => HasProject(proj)'
  BY ProjectStays DEF Justified
<1>4. r[1] \in Convs => NotPrior(r[1])'
  BY DEF Justified, Grow
<1>5. r[1] \in Convs => r[2] # Prior /\ Variant(r[1], r[2])'
  BY DEF Justified, Variant, FirstAt
<1>6. curKey' = curKey
  BY DEF Grow
<1> QED
  BY <1>2, <1>3, <1>4, <1>5, <1>6 DEF Justified

\* Requests come and go; those that are carried out may be remembered.
May(p) == p.key <= curKey /\ Justified(p.row, p.proj, p.key)

LateKept == late' \subseteq {p \in Puts : p \in late \/ May(p)}

IdemKept ==
    idem' \subseteq {p \in Puts : p \in idem \/ (p.key <= curKey /\ rows'[p.row].st # "absent")}

\* A step that leaves the rows, or changes one of them.
RowsGo ==
    \A r \in Rows, q \in Gens, k \in AnyKey :
       rows'[r].st \in {"ours", "edited"} /\ rows'[r].proj = q /\ rows'[r].key = k
       => Justified(r, q, k)

Goes ==
    /\ LateKept /\ IdemKept /\ RowsGo
    /\ rows' \in [Rows -> RowType] /\ (\A r \in Rows : Once(r)')
    /\ gone' \subseteq Convs \cup Entities /\ pics' \subseteq Rows
    /\ edits' \in 0..MaxEdits /\ edits <= edits'

\* A step up on the right keeps a bound.
LEMMA BelowNext ==
    \A a, b, c \in Nat : a <= b + 1 /\ b <= c => a <= c + 1
OBVIOUS

LEMMA WorldGoes ==
    ASSUME WorldInv, Grow, Goes
    PROVE  WorldInv'
<1>1. WorldType /\ KeysKept /\ RowsKept /\ curKey' = curKey
  BY DEF WorldInv, Grow
<1>2. late' \subseteq Puts /\ idem' \subseteq Puts
  BY DEF Goes, LateKept, IdemKept
<1>3. WorldType'
  BY <1>1, <1>2 DEF WorldType, Goes, RowType, AnyKey
<1>4. ASSUME NEW p \in late' PROVE p.key <= curKey /\ Justified(p.row, p.proj, p.key)'
  <2>1. p.row \in Rows /\ p.proj \in Gens
    BY <1>2, PutIs
  <2>2. p.key <= curKey /\ Justified(p.row, p.proj, p.key)
    BY <1>1 DEF RowsKept, KeysKept, Goes, LateKept, May
  <2> QED
    BY <2>1, <2>2, JustifiedStays
<1>5. ASSUME NEW p \in idem'
      PROVE  p.key <= curKey /\ (p.key = curKey => rows'[p.row].st # "absent" \/ p.row[1] \in gone')
  <2>1. p.row \in Rows
    BY <1>2, PutIs
  <2>2. CASE p \in idem
    BY <1>1, <2>1, <2>2 DEF KeysKept, Grow
  <2>3. CASE p.key <= curKey /\ rows'[p.row].st # "absent"
    BY <2>3
  <2> QED
    BY <2>2, <2>3 DEF Goes, IdemKept
<1>6. curKey <= edits' + 1
  <2>1. curKey \in Nat /\ curKey <= edits + 1
    BY <1>1, Keys DEF KeysKept, WorldType
  <2>2. edits \in 0..MaxEdits /\ edits' \in 0..MaxEdits /\ edits <= edits'
    BY <1>1 DEF WorldType, Goes
  <2>3. edits \in Nat /\ edits' \in Nat
    BY <2>2, ImportRunConstants
  <2> QED
    BY <2>1, <2>2, <2>3, BelowNext
<1>7. KeysKept'
  <2>1. \A p \in late' \cup idem' : p.key <= curKey
    BY <1>4, <1>5
  <2> QED
    BY <1>1, <1>5, <1>6, <2>1 DEF KeysKept
<1>8. ASSUME NEW r \in Rows, NEW q \in Gens, NEW k \in AnyKey,
             rows'[r].st \in {"ours", "edited"}, rows'[r].proj = q, rows'[r].key = k
      PROVE  Justified(r, q, k)'
  <2>1. Justified(r, q, k)
    BY <1>8 DEF Goes, RowsGo
  <2> QED
    BY <2>1, JustifiedStays
<1>9. RowsKept'
  BY <1>4, <1>8 DEF RowsKept, Goes, Rows, Gens, AnyKey, KeyIds
<1> QED
  BY <1>3, <1>7, <1>9 DEF WorldInv

LEMMA QuietWorld ==
    ASSUME WorldInv, UNCHANGED <<rows, curKey, idem, gone>>, LateKept, pics' \subseteq Rows,
           edits' = edits
    PROVE  WorldInv' /\ Grow
<1>1. Grow
  BY DEF Grow, Taken, Ours, NotPrior
<1>2. IdemKept /\ RowsGo /\ \A r \in Rows : Once(r)'
  BY DEF WorldInv, WorldType, RowsKept, IdemKept, RowsGo, Once
<1>3. Goes
  BY <1>2, Keys DEF Goes, WorldInv, WorldType
<1> QED
  BY <1>1, <1>3, WorldGoes

\* A step that changes one row.
RowTo(r, x) ==
    /\ x \in RowType /\ rows' = [rows EXCEPT ![r] = x] /\ curKey' = curKey
    /\ x.st = "absent" => x = Nothing
    /\ x.st # "prior"
    /\ Taken(r) => (x.st # "absent" /\ ~(x.st = "ours" /\ x.key = curKey)) \/ r[1] \in gone'
    /\ rows[r].st # "absent" => x.st # "absent" \/ r[1] \in gone'
    /\ r[1] \in Convs /\ r[2] = Prior => x.st = "absent"
    /\ \A q \in Gens, k \in AnyKey :
         x.st \in {"ours", "edited"} /\ x.proj = q /\ x.key = k => Justified(r, q, k)
    /\ gone \subseteq gone' /\ gone' \subseteq Convs \cup Entities
    /\ pics' \subseteq Rows /\ edits' \in 0..MaxEdits /\ edits <= edits'

LEMMA RowWorld ==
    ASSUME WorldInv, NEW r \in Rows, NEW x, RowTo(r, x), LateKept, IdemKept
    PROVE  WorldInv' /\ Grow
<1>1. WorldType /\ RowsKept /\ KeysKept
  BY DEF WorldInv
<1>2. /\ rows'[r] = x /\ \A q \in Rows \ {r} : rows'[q] = rows[q]
      /\ rows' \in [Rows -> RowType]
  BY <1>1 DEF RowTo, WorldType
<1>3. Grow
  <2>1. ASSUME NEW s \in Rows
        PROVE  /\ Taken(s) => Taken(s)' \/ s[1] \in gone'
               /\ rows[s].st # "absent" => rows'[s].st # "absent" \/ s[1] \in gone'
    <3>1. CASE s = r
      BY <1>2, <3>1 DEF RowTo, Taken, Ours
    <3>2. CASE s # r
      BY <1>2, <3>2 DEF RowTo, Taken, Ours
    <3> QED
      BY <3>1, <3>2
  <2>2. ASSUME NEW c \in Convs, NotPrior(c) PROVE NotPrior(c)'
    <3>1. <<c, Prior, 0>> \in Rows /\ <<c, Prior, 0>>[1] = c /\ <<c, Prior, 0>>[2] = Prior
      BY RowsHave
    <3> QED
      BY <1>2, <2>2, <3>1 DEF RowTo, NotPrior
  <2> QED
    BY <2>1, <2>2 DEF Grow, RowTo
<1>4. RowsGo
  BY <1>1, <1>2 DEF RowsKept, RowTo, RowsGo
<1>5. \A s \in Rows : Once(s)'
  BY <1>1, <1>2 DEF RowsKept, Once, RowTo
<1>6. Goes
  BY <1>2, <1>4, <1>5 DEF Goes, RowTo
<1> QED
  BY <1>3, <1>6, WorldGoes

\* The row that a put makes.
Made(p) == [st |-> "ours", pic |-> p.pic, proj |-> p.proj, key |-> p.key]

Commits(p) ==
    /\ rows[p.row].st = "absent" /\ rows' = [rows EXCEPT ![p.row] = Made(p)]
    /\ idem' \in {idem, idem \cup {p}}

LEMMA CommitIs ==
    ASSUME NEW p, Commit(p) PROVE Commits(p) \/ UNCHANGED <<rows, idem>>
BY DEF Commit, Commits, Made

LEMMA MadeIs ==
    ASSUME NEW p \in Puts
    PROVE  /\ Made(p) \in RowType /\ Made(p).st = "ours" /\ Made(p).proj = p.proj
           /\ Made(p).key = p.key /\ Made(p).pic = p.pic
BY PutIs DEF Made, RowType

LEMMA CommitWorld ==
    ASSUME WorldInv, NEW p \in Puts, May(p), Commit(p), UNCHANGED <<curKey, gone, edits>>,
           LateKept, pics' \subseteq Rows
    PROVE  WorldInv' /\ Grow
<1>0. p.row \in Rows
  BY PutIs
<1>1. CASE UNCHANGED <<rows, idem>>
  BY <1>1, QuietWorld
<1>2. CASE Commits(p)
  <2> DEFINE x == Made(p)
  <2>1. x \in RowType /\ x.st = "ours" /\ x.proj = p.proj /\ x.key = p.key
    BY MadeIs
  <2>2. rows' = [rows EXCEPT ![p.row] = x] /\ rows[p.row].st = "absent"
    BY <1>2 DEF Commits
  <2> HIDE DEF x
  <2>3. p.row[1] \in Convs => p.row[2] # Prior
    BY DEF May, Justified
  <2>4. RowTo(p.row, x)
    BY <2>1, <2>2, <2>3, Keys DEF RowTo, WorldInv, WorldType, May, Taken
  <2>5. rows'[p.row] = x
    BY <1>0, <2>2 DEF WorldInv, WorldType
  <2>6. IdemKept
    BY <1>2, <2>1, <2>5 DEF Commits, IdemKept, May, WorldInv, WorldType
  <2> QED
    BY <1>0, <2>4, <2>6, RowWorld
<1> QED
  BY <1>1, <1>2, CommitIs

LEMMA UserType == WorldInv /\ UserActs => edits' \in 0..MaxEdits /\ edits <= edits' /\ edits' = edits + 1
BY ImportRunConstants DEF WorldInv, WorldType, UserActs

LEMMA EditWorld ==
    ASSUME WorldInv, NEW r \in Rows, Edit(r)
    PROVE  WorldInv' /\ Grow
<1> DEFINE x == [rows[r] EXCEPT !.st = "edited"]
<1>1. /\ WorldType /\ RowsKept /\ rows[r].st = "ours" /\ UNCHANGED <<curKey, idem, late, pics, gone>>
  BY DEF WorldInv, Edit
<1>2. x \in RowType /\ x.st = "edited" /\ x.proj = rows[r].proj /\ x.key = rows[r].key
  BY <1>1 DEF WorldType, RowType
<1>3. rows' = [rows EXCEPT ![r] = x]
  BY <1>1 DEF Edit, WorldType
<1>4. \A q \in Gens, k \in AnyKey : rows[r].proj = q /\ rows[r].key = k => Justified(r, q, k)
  BY <1>1 DEF RowsKept
<1>5. rows[r].proj \in Gens /\ rows[r].key \in AnyKey
  BY <1>1 DEF WorldType, RowType
<1>6. r[1] \in Convs => r[2] # Prior
  BY <1>4, <1>5 DEF Justified
<1>7. edits' \in 0..MaxEdits /\ edits <= edits'
  BY UserType DEF Edit, Touch
<1> HIDE DEF x
<1>8. RowTo(r, x)
  BY <1>1, <1>2, <1>3, <1>4, <1>6, <1>7 DEF RowTo, WorldType
<1>9. LateKept /\ IdemKept
  BY <1>1 DEF LateKept, IdemKept, WorldType
<1> QED
  BY <1>8, <1>9, RowWorld

LEMMA DeleteWorld ==
    ASSUME WorldInv, NEW r \in Rows, DeleteRow(r)
    PROVE  WorldInv' /\ Grow
<1>1. /\ WorldType /\ RowsKept /\ UNCHANGED <<curKey, idem, late>>
      /\ pics' = pics \ {r} /\ gone' = gone \cup {r[1]} /\ rows' = [rows EXCEPT ![r] = Nothing]
  BY DEF WorldInv, DeleteRow
<1>2. edits' \in 0..MaxEdits /\ edits <= edits'
  BY UserType DEF DeleteRow, Touch
<1>3. r[1] \in gone' /\ gone' \subseteq Convs \cup Entities
  BY <1>1, RowsHave, GraphIs DEF WorldType
<1>4. RowTo(r, Nothing)
  BY <1>1, <1>2, <1>3, NothingIs DEF RowTo, WorldType
<1>5. LateKept /\ IdemKept
  BY <1>1 DEF LateKept, IdemKept, WorldType
<1> QED
  BY <1>4, <1>5, RowWorld

\* Under the new key nothing is stored, nor on its way.
LEMMA RotateWorld ==
    ASSUME WorldInv, Rotate
    PROVE  /\ WorldInv' /\ curKey' = curKey + 1 /\ curKey \in Nat
           /\ \A c \in Convs : NotPrior(c)'
           /\ \A r \in Rows : rows'[r] = Nothing
<1>1. /\ WorldType /\ RowsKept /\ KeysKept /\ UNCHANGED <<idem, late, gone>>
      /\ curKey' = curKey + 1 /\ rows' = [r \in Rows |-> Nothing] /\ pics' = {}
  BY DEF WorldInv, Rotate
<1>2. edits' \in 0..MaxEdits /\ edits' = edits + 1
  BY UserType DEF Rotate
<1>3. curKey \in Nat /\ edits \in Nat /\ curKey' <= edits' + 1
  BY <1>1, <1>2, Keys DEF WorldType, KeysKept
<1>4. curKey' \in KeyIds
  BY <1>1, <1>2, <1>3, Keys
<1>5. \A r \in Rows : rows'[r] = Nothing
  BY <1>1
<1>6. \A c \in Convs : NotPrior(c)'
  BY <1>5, RowsHave, NothingIs DEF NotPrior
<1>7. \A p \in late' \cup idem' : p.key <= curKey /\ p.key \in Nat /\ p.key # curKey' /\ p.key <= curKey'
  <2> SUFFICES ASSUME NEW p \in late \cup idem PROVE p.key <= curKey /\ p.key \in Nat
    BY <1>1, <1>3
  <2>1. p \in Puts
    BY <1>1 DEF WorldType
  <2> QED
    BY <1>1, <2>1, PutIs, Keys DEF KeysKept
<1>8. WorldType'
  <2>1. rows' \in [Rows -> RowType]
    BY <1>1, NothingIs
  <2> QED
    BY <1>1, <1>2, <1>4, <2>1 DEF WorldType, RowType, AnyKey
<1>9. KeysKept'
  BY <1>3, <1>7 DEF KeysKept
<1>10. \A p \in late' : Justified(p.row, p.proj, p.key)'
  <2> SUFFICES ASSUME NEW p \in late PROVE Justified(p.row, p.proj, p.key)'
    BY <1>1
  <2>1. p.key # curKey' /\ Justified(p.row, p.proj, p.key)
    BY <1>1, <1>7 DEF RowsKept
  <2> QED
    BY <1>6, <2>1 DEF Justified, Variant, FirstAt
<1>11. RowsKept'
  BY <1>5, <1>10, NothingIs DEF RowsKept, Once, Rows, Gens
<1> QED
  BY <1>1, <1>3, <1>5, <1>6, <1>8, <1>9, <1>11 DEF WorldInv
-----------------------------------------------------------------------------
(* The runs: types and what stays. *)

NatRec == [pc : {"off", "key", "next"} \cup InHand, key : AnyKey, i : 1..4, g : 0..Generations,
           proj : Gens, mapped : BOOLEAN, pic : BOOLEAN,
           err : {"none", "unclear", "refused", "conflict"}]

LegRec == [pc : {"off", "key", "parse", "wait"}, key : AnyKey, pos : 1..(Len(Listing) + 1),
           bad : BOOLEAN, abort : BOOLEAN, seen : SUBSET Convs, at : [Convs -> WorkerStates],
           v : [Convs -> {0, 1}], try : [Convs -> 1..ImportRetryMaxAttempts]]

Workers == {c \in Convs : Active(c)}

LegType == leg \in LegRec /\ Cardinality(Workers) <= Pool

LEMMA NatRecIs ==
    NatRec = [pc : {"off", "key", "next", "inspect", "build", "push", "verify", "clean"},
              key : {0} \cup KeyIds, i : 1..(Len(Graph) + 1), g : 0..Generations, proj : Gens,
              mapped : BOOLEAN, pic : BOOLEAN, err : {"none", "unclear", "refused", "conflict"}]
<1>1. Len(Graph) + 1 = 4
  BY GraphIs
<1>2. {"off", "key", "next"} \cup InHand = {"off", "key", "next", "inspect", "build", "push", "verify", "clean"}
  BY DEF InHand
<1> QED
  BY <1>1, <1>2, Zenon DEF NatRec, AnyKey

LEMMA TypeParts == TypeOK <=> JobsTypeOK /\ WorldType /\ nat \in NatRec /\ LegType
BY NatRecIs, Zenon DEF TypeOK, WorldType, RowType, LegRec, LegType, Workers, AnyKey

LEMMA TypePartsNext == TypeOK' <=> JobsTypeOK' /\ WorldType' /\ nat' \in NatRec /\ LegType'
<1>1. TypeOK' => JobsTypeOK' /\ WorldType' /\ nat' \in NatRec /\ LegType'
  BY NatRecIs, Zenon DEF TypeOK, WorldType, RowType, LegRec, LegType, Workers, AnyKey
<1>2. JobsTypeOK' /\ WorldType' /\ nat' \in NatRec /\ LegType' => TypeOK'
  BY NatRecIs, Zenon DEF TypeOK, WorldType, RowType, LegRec, LegType, Workers, AnyKey
<1> QED
  BY <1>1, <1>2

LEMMA InvParts ==
    ImportInv <=> /\ JobsInv /\ WorldInv /\ nat \in NatRec /\ LegType
                  /\ RunKept /\ NatKept /\ LegKept /\ (~RowsMove => PicsKept)
BY TypeParts DEF ImportInv, JobsInv, WorldInv

LEMMA InvPartsNext ==
    ImportInv' <=> /\ JobsInv' /\ WorldInv' /\ nat' \in NatRec /\ LegType'
                   /\ RunKept' /\ NatKept' /\ LegKept' /\ (~RowsMove => PicsKept')
BY TypePartsNext DEF ImportInv, JobsInv, WorldInv

\* The entity in hand, and its row while there are generations left.
LEMMA HandFacts ==
    ASSUME nat \in NatRec, NatShape, nat.pc \in InHand
    PROVE  /\ nat.i \in 1..3 /\ Entity \in Entities /\ Entity \notin Convs
           /\ nat.g \in 0..Generations /\ nat.proj \in Gens /\ nat.key \in AnyKey
           /\ nat.g < Generations =>
                /\ nat.g \in Gens /\ Row \in Rows /\ Row[1] = Entity /\ Row[2] = nat.g
                /\ Row = RowAt(Entity, nat.g, nat.proj)
                /\ Entity = "project" => Row = <<"project", nat.g, 0>>
<1>1. /\ nat.i \in 1..3 /\ nat.g \in 0..Generations /\ nat.proj \in Gens /\ nat.key \in AnyKey
  BY GraphIs DEF NatRec, NatShape
<1>2. Entity \in Entities /\ Entity \notin Convs
  BY <1>1, GraphIs, ConvsApart DEF Entity, Entities
<1>3. ASSUME nat.g < Generations
      PROVE  /\ nat.g \in Gens /\ Row \in Rows /\ Row[1] = Entity /\ Row[2] = nat.g
             /\ Row = RowAt(Entity, nat.g, nat.proj)
             /\ Entity = "project" => Row = <<"project", nat.g, 0>>
  <2>1. nat.g \in Gens
    BY <1>1, <1>3, GensNat
  <2>2. Row = RowAt(Entity, nat.g, nat.proj)
    BY DEF Row, RowAt
  <2>3. Row \in Rows
    BY <1>1, <1>2, <2>1, <2>2, EntityRows
  <2>4. Row[1] = Entity /\ Row[2] = nat.g
    BY DEF Row
  <2> QED
    BY <2>1, <2>2, <2>3, <2>4 DEF Row
<1> QED
  BY <1>1, <1>2, <1>3

\* The projects restored and the generations passed stay so.
LEMMA HandStays ==
    ASSUME Grow, NatNow, nat \in NatRec
    PROVE  /\ \A q \in Gens : nat.mapped /\ nat.proj = q => HasProject(q)'
           /\ \A e \in Entities, g \in 0..Generations, q \in Gens :
                nat.pc \in InHand /\ Entity = e /\ nat.g = g /\ nat.proj = q
                => Passed(e, g, IF e = "document" THEN q ELSE 0)'
<1>1. ASSUME NEW q \in Gens, nat.mapped, nat.proj = q
      PROVE  HasProject(q)'
  BY <1>1, ProjectStays DEF NatNow
<1>2. ASSUME NEW e \in Entities, NEW g \in 0..Generations, NEW q \in Gens,
             nat.pc \in InHand, Entity = e, nat.g = g, nat.proj = q
      PROVE  Passed(e, g, IF e = "document" THEN q ELSE 0)'
  <2> DEFINE p == IF e = "document" THEN q ELSE 0
  <2>1. Passed(e, g, p) /\ p \in Gens /\ (e # "document" => p = 0)
    BY <1>2, GensNat DEF NatNow
  <2> HIDE DEF p
  <2>2. Passed(e, g, p)'
    BY <2>1, PassedStays
  <2> QED
    BY <2>2 DEF p
<1> QED
  BY <1>1, <1>2

LEMMA NatStays ==
    ASSUME NatKept, nat \in NatRec, Grow, UNCHANGED nat
    PROVE  NatKept'
<1>1. curKey' = curKey /\ gone \subseteq gone'
  BY DEF Grow
<1>2. NatShape'
  BY <1>1 DEF NatKept, NatShape, InHand, Entity
<1>3. ASSUME nat.key = curKey PROVE NatNow'
  <2>1. NatNow
    BY <1>3 DEF NatKept
  <2>2. Met'
    <3> SUFFICES ASSUME nat.pc \in {"verify", "clean"}, nat.err = "conflict", Entity \notin gone'
                 PROVE  rows'[Row].st # "absent" /\ (nat.pc = "clean" => Taken(Row)')
      BY DEF Met, Entity, Row, Taken, Ours
    <3>1. Row \in Rows /\ Row[1] = Entity
      BY HandFacts DEF NatKept, NatShape, InHand
    <3>2. rows[Row].st # "absent" /\ (nat.pc = "clean" => Taken(Row))
      BY <1>1, <2>1 DEF NatNow, Met
    <3>3. PICK r \in Rows : r = Row
      BY <3>1
    <3>4. rows'[r].st # "absent" /\ (nat.pc = "clean" => Taken(r)')
      BY <3>1, <3>2, <3>3 DEF Grow
    <3> QED
      BY <3>3, <3>4 DEF Row, Entity, Taken, Ours
  <2> QED
    BY <2>1, <2>2, HandStays DEF NatNow, InHand, Entity, Entities, Gens
<1> QED
  BY <1>1, <1>2, <1>3 DEF NatKept

LEMMA NatAway ==
    ASSUME nat'.pc \in {"off", "key"}, nat'.err = "none", nat'.g = 0, nat'.mapped = FALSE,
           nat'.pic = FALSE, nat'.key <= curKey'
    PROVE  NatKept'
BY DEF NatKept, NatShape, NatNow, Met, InHand

LEMMA LegStays ==
    ASSUME LegKept, Grow, UNCHANGED leg
    PROVE  LegKept'
<1>1. \A c \in Convs : leg.at[c] \in {"push", "check"} => NotPrior(c)'
  BY DEF LegKept, Grow
<1>2. \A c \in Convs : leg.at[c] \in {"imported", "skipped"} /\ leg.key = curKey => HasChat(c)'
  BY ChatStays DEF LegKept
<1>3. \A c \in Convs, v \in {0, 1} : Active(c)' /\ leg.v[c] = v => Variant(c, v)
  BY DEF LegKept, Active
<1> QED
  BY <1>1, <1>2, <1>3 DEF LegKept, Variant, FirstAt, Grow

NewLeg == {NoLeg, [NoLeg EXCEPT !.pc = "key", !.key = curKey]}

LEMMA LegAway ==
    ASSUME curKey \in KeyIds, curKey' = curKey, leg' \in NewLeg
    PROVE  LegKept' /\ leg' \in LegRec /\ \A c \in Convs : ~Active(c)'
<1>1. /\ leg'.seen = {} /\ leg'.pos = 1 /\ leg'.key \in {0, curKey} /\ \A c \in Convs : leg'.at[c] = "none"
  <2>1. CASE leg' = NoLeg
    BY <2>1 DEF NoLeg
  <2>2. CASE leg' = [NoLeg EXCEPT !.pc = "key", !.key = curKey]
    BY <2>2 DEF NoLeg
  <2> QED
    BY <2>1, <2>2 DEF NewLeg
<1>2. leg' \in LegRec
  <2>1. 1 \in 1..(Len(Listing) + 1) /\ 1 \in 1..ImportRetryMaxAttempts /\ {0, curKey} \subseteq AnyKey
    BY ImportRunConstants, Keys DEF ImportRetryMaxAttempts
  <2>2. NoLeg \in LegRec
    BY <2>1, Zenon DEF NoLeg, LegRec, WorkerStates
  <2>3. [NoLeg EXCEPT !.pc = "key", !.key = curKey] \in LegRec
    BY <2>1, <2>2 DEF LegRec
  <2> QED
    BY <2>2, <2>3 DEF NewLeg
<1>3. {Listing[i][1] : i \in 1..(1 - 1)} = {}
  OBVIOUS
<1>4. leg'.key <= curKey
  BY <1>1, Keys
<1> QED
  BY <1>1, <1>2, <1>3, <1>4 DEF LegKept, Active

LEMMA PoolFalls ==
    ASSUME LegType, Workers' \subseteq Workers
    PROVE  Cardinality(Workers') <= Pool
<1>1. IsFiniteSet(Workers)
  BY ImportRunConstants, FS_Subset DEF Workers
<1>2. /\ Cardinality(Workers') <= Cardinality(Workers) /\ Cardinality(Workers) <= Pool
      /\ IsFiniteSet(Workers')
  BY <1>1, FS_Subset DEF LegType
<1> QED
  BY <1>1, <1>2, FS_CardinalityType, ImportRunConstants

\* Steps that store and delete nothing.
LEMMA PicsQuiet ==
    ASSUME PicsKept, UNCHANGED <<rows, curKey, late, pics>>,
           \/ nat' = nat
           \/ nat'.pc = "off"
           \/ /\ nat'.pc \in {"key", "next", "inspect"}
              /\ nat'.key = curKey \/ (nat'.key = nat.key /\ nat.pc # "off")
    PROVE  PicsKept'
<1>1. PicsBase'
  BY DEF PicsKept, PicsBase, RestoredReadable
<1>2. PicsHand'
  BY DEF PicsKept, PicsHand, Row, Entity
<1>3. PicsApart'
  BY DEF PicsKept, PicsApart
<1> QED
  BY <1>1, <1>2, <1>3 DEF PicsKept
-----------------------------------------------------------------------------
(* Moves of a native run. *)

Running == \E j \in Jobs : job[j].st = "running"

LEMMA NatFacts ==
    ASSUME ImportInv
    PROVE  /\ nat \in NatRec /\ NatKept /\ NatShape /\ WorldInv /\ WorldType
           /\ nat.key \in AnyKey /\ curKey \in KeyIds /\ nat.key <= curKey
BY InvParts DEF NatKept, NatShape, WorldInv, WorldType, NatRec

\* An entity is done.
DoneTo(m, q) ==
    nat' = [nat EXCEPT !.pc = "next", !.i = nat.i + 1, !.g = 0, !.err = "none", !.pic = FALSE,
                       !.mapped = m, !.proj = q]

LEMMA DoneStep ==
    ASSUME ImportInv, Grow, nat.i \in 1..3, NEW m \in BOOLEAN, NEW q \in Gens, DoneTo(m, q),
           nat.key = curKey /\ m => HasProject(q)'
    PROVE  nat' \in NatRec /\ NatKept' /\ nat'.pc = "next" /\ nat'.key = nat.key
<1>1. nat \in NatRec /\ NatShape
  BY NatFacts
<1>2. /\ nat' \in NatRec /\ nat'.pc = "next" /\ nat'.g = 0 /\ nat'.err = "none" /\ nat'.pic = FALSE
      /\ nat'.mapped = m /\ nat'.proj = q /\ nat'.key = nat.key
  <2>1. 0 \in 0..Generations /\ nat.i + 1 \in 1..4
    BY GensNat
  <2> QED
    BY <1>1, <2>1 DEF NatRec, DoneTo
<1>3. curKey' = curKey
  BY DEF Grow
<1>4. NatShape'
  BY <1>1, <1>2, <1>3 DEF NatShape, InHand
<1>5. nat.key = curKey => NatNow'
  BY <1>2 DEF NatNow, Met, InHand, Gens
<1> QED
  BY <1>2, <1>3, <1>4, <1>5 DEF NatKept

LEMMA DoneOk ==
    ASSUME ImportInv, Grow, nat.pc \in InHand, nat.g \in Gens, Done(TRUE),
           nat.key = curKey => \A g \in Gens : nat.g = g /\ Entity = "project" => HasProject(g)'
    PROVE  nat' \in NatRec /\ NatKept' /\ nat'.pc = "next" /\ nat'.key = nat.key
<1>1. nat \in NatRec /\ NatKept /\ nat.i \in 1..3
  BY NatFacts, HandFacts
<1>2. nat.mapped \in BOOLEAN /\ nat.proj \in Gens
  BY <1>1 DEF NatRec
<1>3. CASE Entity = "project"
  <2>1. DoneTo(TRUE, nat.g)
    BY <1>3, Zenon DEF Done, DoneTo
  <2>2. PICK g \in Gens : g = nat.g
    OBVIOUS
  <2>3. DoneTo(TRUE, g) /\ (nat.key = curKey => HasProject(g)')
    BY <1>3, <2>1, <2>2
  <2> QED
    BY <1>1, <2>3, DoneStep
<1>4. CASE Entity # "project"
  <2>1. PICK m \in BOOLEAN, q \in Gens : m = nat.mapped /\ q = nat.proj
    BY <1>2
  <2>2. DoneTo(m, q)
    BY <1>4, <2>1, Zenon DEF Done, DoneTo
  <2>3. nat.key = curKey /\ m => HasProject(q)'
    BY <1>1, <2>1, ProjectStays DEF NatKept, NatNow
  <2> QED
    BY <1>1, <2>2, <2>3, DoneStep
<1> QED
  BY <1>3, <1>4

LEMMA DoneFail ==
    ASSUME ImportInv, Grow, nat.i \in 1..3, Done(FALSE)
    PROVE  nat' \in NatRec /\ NatKept' /\ nat'.pc = "next" /\ nat'.key = nat.key
<1>1. nat \in NatRec /\ NatKept
  BY NatFacts
<1>2. PICK q \in Gens : q = nat.proj
  BY <1>1 DEF NatRec
<1>3. CASE Entity = "project"
  <2>1. DoneTo(FALSE, q)
    BY <1>2, <1>3, Zenon DEF Done, DoneTo
  <2> QED
    BY <2>1, DoneStep
<1>4. CASE Entity # "project"
  <2>1. PICK m \in BOOLEAN : m = nat.mapped
    BY <1>1 DEF NatRec
  <2>2. DoneTo(m, q)
    BY <1>2, <1>4, <2>1, Zenon DEF Done, DoneTo
  <2>3. nat.key = curKey /\ m => HasProject(q)'
    BY <1>1, <1>2, <2>1, ProjectStays DEF NatKept, NatNow
  <2> QED
    BY <2>2, <2>3, DoneStep
<1> QED
  BY <1>3, <1>4

\* The same entity, the same row.
LEMMA HandMoves ==
    ASSUME ImportInv, Grow, nat.pc \in InHand, nat.g < Generations,
           NEW pc \in InHand \ {"inspect"}, NEW err \in {"none", "unclear", "refused", "conflict"},
           NEW pic \in BOOLEAN, pc = "build" => ~pic,
           nat' = [nat EXCEPT !.pc = pc, !.err = err, !.pic = pic],
           nat.key = curKey => Met'
    PROVE  /\ nat' \in NatRec /\ NatKept' /\ nat'.pc = pc /\ nat'.pic = pic /\ Row' = Row
           /\ nat'.key = nat.key /\ Entity' = Entity /\ nat'.err = err
<1>1. nat \in NatRec /\ NatKept /\ NatShape
  BY NatFacts
<1>2. /\ nat' \in NatRec /\ nat'.pc = pc /\ nat'.err = err /\ nat'.pic = pic /\ nat'.key = nat.key
      /\ nat'.i = nat.i /\ nat'.g = nat.g /\ nat'.proj = nat.proj /\ nat'.mapped = nat.mapped
  BY <1>1 DEF NatRec, InHand
<1>3. Row' = Row /\ Entity' = Entity /\ curKey' = curKey
  BY <1>2 DEF Row, Entity, Grow
<1>4. NatShape'
  BY <1>1, <1>2, <1>3 DEF NatShape, InHand
<1>5. ASSUME nat.key = curKey PROVE NatNow'
  <2>1. NatNow
    BY <1>1, <1>5 DEF NatKept
  <2> QED
    BY <1>1, <1>2, <1>3, <1>5, <2>1, HandStays DEF NatNow, Entities, Gens
<1> QED
  BY <1>2, <1>3, <1>4, <1>5 DEF NatKept

\* The next generation, past a row that is taken.
LEMMA PassOn ==
    ASSUME ImportInv, Grow, nat.pc \in InHand, nat.g < Generations, NextGeneration,
           nat.key = curKey => Taken(Row) \/ Entity \in gone
    PROVE  nat' \in NatRec /\ NatKept' /\ nat'.pc = "inspect" /\ nat'.key = nat.key
<1>1. nat \in NatRec /\ NatKept /\ NatShape
  BY NatFacts
<1>2. /\ nat.i \in 1..3 /\ Entity \in Entities /\ nat.g \in Gens /\ nat.proj \in Gens /\ Row \in Rows
      /\ Row = RowAt(Entity, nat.g, nat.proj)
  BY <1>1, HandFacts
<1>3. /\ nat' \in NatRec /\ nat'.pc = "inspect" /\ nat'.err = "none" /\ nat'.pic = FALSE
      /\ nat'.i = nat.i /\ nat'.g = nat.g + 1 /\ nat'.proj = nat.proj /\ nat'.mapped = nat.mapped
      /\ nat'.key = nat.key
  <2>1. nat.g + 1 \in 0..Generations /\ "inspect" \in {"off", "key", "next"} \cup InHand
    BY <1>2, GensNat DEF InHand
  <2> QED
    BY <1>1, <2>1 DEF NatRec, NextGeneration
<1>4. Entity' = Entity /\ curKey' = curKey
  BY <1>3 DEF Entity, Grow
<1>5. NatShape'
  BY <1>1, <1>3, <1>4 DEF NatShape, InHand
<1>6. ASSUME nat.key = curKey PROVE NatNow'
  <2>1. NatNow
    BY <1>1, <1>6 DEF NatKept
  <2>2. \A q \in Gens : nat.mapped /\ nat.proj = q => HasProject(q)'
    BY <1>1, <2>1, HandStays
  <2>3. ASSUME NEW e \in Entities, NEW g \in 0..Generations, NEW q \in Gens,
               Entity = e, nat.g + 1 = g, nat.proj = q
        PROVE  Passed(e, g, IF e = "document" THEN q ELSE 0)'
    <3> DEFINE p == IF e = "document" THEN q ELSE 0
    <3>1. Passed(e, nat.g, p) /\ p \in Gens /\ (e # "document" => p = 0)
      BY <1>2, <2>1, <2>3, GensNat DEF NatNow
    <3>2. Row = <<e, nat.g, p>>
      BY <1>2, <2>3 DEF RowAt
    <3> HIDE DEF p
    <3>3. \A h \in Gens : h < g => h < nat.g \/ h = nat.g
      BY <1>2, <2>3, GensNat
    <3>4. Passed(e, g, p)
      BY <1>6, <2>3, <3>1, <3>2, <3>3 DEF Passed
    <3>5. Passed(e, g, p)'
      BY <3>1, <3>4, PassedStays
    <3> QED
      BY <3>5 DEF p
  <2> QED
    BY <1>3, <1>4, <2>2, <2>3 DEF NatNow, Met, InHand, Entities, Gens
<1> QED
  BY <1>3, <1>4, <1>5, <1>6 DEF NatKept
-----------------------------------------------------------------------------
(* The parts put together. *)

\* A step in which no run starts or ends, and only the native run moves.
NatMoves ==
    /\ nat.pc \in InHand \cup {"next"} /\ nat'.pc \in InHand \cup {"next"}
    /\ UNCHANGED <<cur, job, staged, upl, sweep, leaked, wedged, leg>>
    /\ faults' = faults \/ Fault

LEMMA NatAssembled ==
    ASSUME ImportInv, NatMoves, WorldInv', Grow, nat' \in NatRec, NatKept', ~RowsMove => PicsKept'
    PROVE  ImportInv'
<1>1. /\ JobsInv /\ WorldInv /\ nat \in NatRec /\ LegType
      /\ RunKept /\ NatKept /\ LegKept
  BY InvParts
<1>2. UNCHANGED leg /\ faults' \in 0..MaxFaults /\ wedged' \in BOOLEAN
  BY <1>1, FaultType, JobsFacts DEF NatMoves
<1>3. JobsInv'
  BY <1>1, <1>2, QuietStep DEF NatMoves
<1>4. LegKept'
  BY <1>1, <1>2, LegStays
<1>5. LegType'
  BY <1>1, <1>2 DEF LegType, LegRec, Workers, Active
<1>6. RunKept'
  BY <1>1, <1>2 DEF RunKept, NatMoves, InHand, Jobs
<1> QED
  BY <1>3, <1>4, <1>5, <1>6, InvPartsNext

\* What is stored of a row, and under which key, after a put.
PutsOnly(p) ==
    \A s \in Rows :
       \/ rows'[s] = rows[s]
       \/ s = p.row /\ rows[s].st = "absent" /\ rows'[s] = Made(p)

LEMMA CommitOnly ==
    ASSUME WorldType, NEW p \in Puts, Commit(p)
    PROVE  PutsOnly(p)
<1>1. CASE UNCHANGED <<rows, idem>>
  BY <1>1 DEF PutsOnly
<1>2. CASE Commits(p)
  BY <1>2 DEF PutsOnly, Commits, WorldType
<1> QED
  BY <1>1, <1>2, CommitIs

\* A create keeps images where they are needed.
LEMMA PicsCommit ==
    ASSUME WorldType, PicsBase, NEW p \in Puts, PutsOnly(p), curKey' = curKey,
           p.pic /\ p.key = curKey => p.row \in pics,
           pics \subseteq pics', late' \subseteq late
    PROVE  PicsBase'
<1>1. Made(p).pic = p.pic /\ Made(p).key = p.key
  BY MadeIs
<1>2. ASSUME NEW s \in Rows, rows'[s].pic, rows'[s].key = curKey PROVE s \in pics'
  <2>1. CASE rows'[s] = rows[s]
    BY <1>2, <2>1, Zenon DEF PicsBase, RestoredReadable
  <2>2. CASE s = p.row /\ rows'[s] = Made(p)
    BY <1>1, <1>2, <2>2, Zenon
  <2> QED
    BY <2>1, <2>2 DEF PutsOnly
<1> QED
  BY <1>2, Zenon DEF PicsBase, RestoredReadable
-----------------------------------------------------------------------------
(* The steps of a native run. *)

LEMMA ProjectThere ==
    ASSUME ImportInv, nat.pc \in InHand, nat.g < Generations,
           Entity = "project" => rows'[Row].st # "absent" \/ "project" \in gone'
    PROVE  nat.g \in Gens /\ \A g \in Gens : nat.g = g /\ Entity = "project" => HasProject(g)'
BY NatFacts, HandFacts DEF HasProject

LEMMA SameWorld ==
    ASSUME ImportInv, UNCHANGED <<rows, curKey, idem, late, gone, edits>>, pics' \subseteq Rows
    PROVE  WorldInv' /\ Grow
<1>1. WorldInv
  BY InvParts
<1>2. LateKept
  BY <1>1 DEF LateKept, WorldInv, WorldType
<1> QED
  BY <1>1, <1>2, QuietWorld

LEMMA PicsAre == ImportInv => pics \subseteq Rows
BY InvParts DEF WorldInv, WorldType

LEMMA NatNextStep ==
    ASSUME ImportInv, nat.pc = "next", nat.i \in 1..3, UNCHANGED <<jobVars, leg, World>>,
           IF Blocked THEN Done(FALSE) ELSE nat' = [nat EXCEPT !.pc = "inspect"]
    PROVE  ImportInv'
<1>1. WorldInv' /\ Grow
  BY SameWorld, PicsAre DEF World
<1>2. nat \in NatRec /\ NatKept /\ NatShape /\ (~RowsMove => PicsKept)
  BY NatFacts, InvParts
<1>3. nat' \in NatRec /\ NatKept' /\ nat'.pc \in {"next", "inspect"} /\ nat'.key = nat.key
  <2>1. CASE Blocked
    BY <1>1, <2>1, DoneFail
  <2>2. CASE ~Blocked
    <3>1. /\ nat' \in NatRec /\ nat'.pc = "inspect" /\ nat'.g = 0 /\ ~nat'.pic /\ nat'.key = nat.key
          /\ nat'.i = nat.i /\ nat'.mapped = nat.mapped /\ nat'.proj = nat.proj
      BY <1>2, <2>2 DEF NatRec, InHand, NatShape
    <3>2. Entity' = Entity /\ (Entity # "project" => nat'.mapped) /\ nat'.i \in DOMAIN Graph
      BY <2>2, <3>1, GraphIs DEF Entity, Blocked
    <3>3. curKey' = curKey
      BY <1>1 DEF Grow
    <3>4. NatShape'
      BY <1>2, <3>1, <3>2, <3>3 DEF NatShape, InHand
    <3>5. ASSUME nat.key = curKey PROVE NatNow'
      <4>1. \A q \in Gens : nat.mapped /\ nat.proj = q => HasProject(q)'
        BY <1>1, <1>2, <3>5, ProjectStays DEF NatKept, NatNow
      <4>2. \A e \in Entities, q \in Gens : Passed(e, 0, q)'
        BY GensNat DEF Passed
      <4>3. \A e \in Entities, q \in Gens : Passed(e, 0, IF e = "document" THEN q ELSE 0)'
        BY <4>2, GensNat
      <4> QED
        BY <3>1, <3>2, <4>1, <4>3 DEF NatNow, Met, InHand, Entities, Gens
    <3> QED
      BY <3>1, <3>3, <3>4, <3>5 DEF NatKept
  <2> QED
    BY <2>1, <2>2
<1>4. NatMoves
  BY <1>3 DEF NatMoves, InHand, jobVars
<1>5. ~RowsMove => PicsKept'
  BY <1>2, <1>3, PicsQuiet DEF World
<1> QED
  BY <1>1, <1>3, <1>4, <1>5, NatAssembled

\* An entity that is done, or passed on, leaves the world as it is.
LEMMA NatQuiet ==
    ASSUME ImportInv, nat.pc \in InHand, UNCHANGED World, KeepJobs, UNCHANGED leg,
           faults' = faults \/ Fault, nat' \in NatRec, NatKept', nat'.pc \in {"next", "inspect"},
           nat'.key = nat.key
    PROVE  ImportInv'
<1>1. WorldInv' /\ Grow
  BY SameWorld, PicsAre DEF World
<1>2. nat.pc # "off"
  BY DEF InHand
<1>3. ~RowsMove => PicsKept'
  BY <1>2, InvParts, PicsQuiet DEF World
<1>4. NatMoves
  BY DEF NatMoves, KeepJobs, InHand
<1> QED
  BY <1>1, <1>3, <1>4, NatAssembled

LEMMA InspectStep == ASSUME ImportInv, Inspect PROVE ImportInv'
<1>1. WorldInv' /\ Grow
  BY SameWorld, PicsAre DEF World, Inspect
<1>2. /\ nat \in NatRec /\ NatKept /\ NatShape /\ nat.pc = "inspect" /\ nat.pc \in InHand
      /\ nat.i \in 1..3 /\ nat.g \in 0..Generations
  BY NatFacts, HandFacts DEF Inspect, InHand
<1>3. UNCHANGED World /\ KeepJobs /\ UNCHANGED leg /\ (faults' = faults \/ Fault)
  BY DEF Inspect
<1>4. CASE Done(FALSE)
  BY <1>1, <1>2, <1>3, <1>4, DoneFail, NatQuiet
<1>5. CASE nat.g < Generations /\ Ours(Row, nat.key) /\ Done(TRUE)
  <2>1. rows'[Row].st # "absent"
    BY <1>3, <1>5 DEF World, Ours
  <2>2. nat.g \in Gens /\ \A g \in Gens : nat.g = g /\ Entity = "project" => HasProject(g)'
    BY <1>2, <1>5, <2>1, ProjectThere
  <2> QED
    BY <1>1, <1>2, <1>3, <1>5, <2>2, DoneOk, NatQuiet
<1>6. CASE nat.g < Generations /\ Occupied(Row, nat.key) /\ NextGeneration
  <2>1. nat.key = curKey => Taken(Row)
    BY <1>6 DEF Occupied, Taken
  <2> QED
    BY <1>1, <1>2, <1>3, <1>6, <2>1, PassOn, NatQuiet
<1>7. CASE nat.g < Generations /\ rows[Row].st = "absent" /\ nat' = [nat EXCEPT !.pc = "build"]
  <2>1. nat.err \in {"none", "unclear", "refused", "conflict"} /\ nat.pic = FALSE
    BY <1>2 DEF NatRec, NatShape
  <2>2. nat' = [nat EXCEPT !.pc = "build", !.err = nat.err, !.pic = FALSE] /\ nat'.pc = "build"
    BY <1>2, <1>7, <2>1 DEF NatRec
  <2>3. /\ nat' \in NatRec /\ NatKept' /\ nat'.pc = "build" /\ Row' = Row /\ nat'.key = nat.key
    <3>1. "build" \in InHand \ {"inspect"} /\ FALSE \in BOOLEAN /\ Met'
      BY <2>2 DEF InHand, Met
    <3> QED
      BY <1>1, <1>2, <1>7, <2>1, <2>2, <3>1, HandMoves
  <2>4. ASSUME ~RowsMove PROVE PicsKept'
    <3>1. PicsKept /\ Row \in Rows
      BY <1>2, <1>7, <2>4, HandFacts, InvParts
    <3>2. rows[Row].key = 0 /\ curKey # 0
      BY <1>7, <3>1, NatFacts, NothingIs, Keys DEF WorldInv, RowsKept, Once
    <3>3. PicsBase' /\ PicsHand' /\ PicsApart'
      BY <1>2, <1>3, <2>3, <3>1, <3>2 DEF World, PicsKept, PicsBase, PicsHand, PicsApart, RestoredReadable
    <3> QED
      BY <3>3 DEF PicsKept
  <2>5. NatMoves
    BY <1>2, <1>3, <2>3 DEF NatMoves, KeepJobs, InHand
  <2> QED
    BY <1>1, <2>3, <2>4, <2>5, NatAssembled
<1> QED
  BY <1>2, <1>4, <1>5, <1>6, <1>7 DEF Inspect, NotSeen

LEMMA BuildStep == ASSUME ImportInv, Build PROVE ImportInv'
<1>1. /\ nat \in NatRec /\ NatShape /\ nat.pc = "build" /\ nat.pc \in InHand /\ nat.g < Generations
  BY NatFacts DEF Build, InHand, NatShape
<1>2. Row \in Rows /\ pics \subseteq Rows
  BY <1>1, HandFacts, PicsAre
<1>3. /\ KeepJobs /\ UNCHANGED <<leg, rows, curKey, idem, late, gone, edits>> /\ (faults' = faults \/ Fault)
      /\ pics \subseteq pics' /\ pics' \subseteq Rows
  BY <1>2 DEF Build
<1>4. WorldInv' /\ Grow
  BY <1>3, SameWorld
<1>5. "push" \in InHand \ {"inspect"} /\ nat.err \in {"none", "unclear", "refused", "conflict"} /\ "push" # "build"
  BY <1>1 DEF InHand, NatRec
<1>6. /\ nat' \in NatRec /\ NatKept' /\ nat'.pc = "push" /\ Row' = Row /\ nat'.key = nat.key
      /\ nat'.pic = TRUE => Row \in pics'
  <2>1. CASE pics' = pics \cup {Row} /\ nat' = [nat EXCEPT !.pc = "push", !.pic = TRUE]
    <3>1. nat' = [nat EXCEPT !.pc = "push", !.err = nat.err, !.pic = TRUE] /\ Row \in pics'
          /\ Met'
      BY <1>1, <2>1 DEF NatRec, Met
    <3> QED
      BY <1>1, <1>4, <1>5, <3>1, HandMoves
  <2>2. CASE nat' = [nat EXCEPT !.pc = "push"]
    <3>1. nat.pic = FALSE
      BY <1>1 DEF NatRec, NatShape
    <3>2. nat' = [nat EXCEPT !.pc = "push", !.err = nat.err, !.pic = FALSE] /\ Met'
      BY <1>1, <2>2, <3>1 DEF NatRec, Met
    <3> QED
      BY <1>1, <1>4, <1>5, <3>2, HandMoves
  <2> QED
    BY <2>1, <2>2 DEF Build
<1>7. ASSUME ~RowsMove PROVE PicsKept'
  <2>1. PicsBase /\ PicsHand /\ PicsApart
    BY <1>7, InvParts DEF PicsKept
  <2>2. PicsBase'
    BY <1>3, <2>1 DEF PicsBase, RestoredReadable
  <2>3. nat'.pic => Row' \in pics'
    BY <1>6 DEF NatRec
  <2>4. nat.key = curKey => rows'[Row'].key # curKey \/ rows'[Row'].st = "ours"
    BY <1>1, <1>3, <1>6, <2>1 DEF PicsHand
  <2>5. PicsHand'
    BY <1>3, <1>6, <2>3, <2>4 DEF PicsHand
  <2>6. PicsApart'
    BY <1>1, <1>3, <1>6, <2>1 DEF PicsApart
  <2> QED
    BY <2>2, <2>5, <2>6 DEF PicsKept
<1>8. NatMoves
  BY <1>1, <1>3, <1>6 DEF NatMoves, KeepJobs, InHand
<1> QED
  BY <1>4, <1>6, <1>7, <1>8, NatAssembled

\* The answer to a create that was carried out.
LEMMA VerdictFacts ==
    ASSUME WorldInv, NEW p \in Puts, Commit(p), gone' = gone
    PROVE  /\ Verdict(p) = "ok" /\ p.key = curKey => rows'[p.row].st # "absent" \/ p.row[1] \in gone'
           /\ Verdict(p) = "conflict" => rows'[p.row].st # "absent"
<1>1. p.row \in Rows /\ rows \in [Rows -> RowType]
  BY PutIs DEF WorldInv, WorldType
<1>2. CASE p \in idem
  <2>1. Remembered(p) /\ Verdict(p) = "ok"
    BY <1>2 DEF Remembered, Verdict
  <2>2. UNCHANGED rows
    BY <2>1 DEF Commit
  <2> QED
    BY <1>2, <2>1, <2>2 DEF WorldInv, KeysKept
<1>3. CASE p \notin idem /\ Remembered(p)
  BY <1>3 DEF Verdict
<1>4. CASE p \notin idem /\ ~Remembered(p) /\ rows[p.row].st # "absent"
  BY <1>4 DEF Commit
<1>5. CASE p \notin idem /\ ~Remembered(p) /\ rows[p.row].st = "absent"
  BY <1>1, <1>5 DEF Commit
<1> QED
  BY <1>2, <1>3, <1>4, <1>5

\* What is pushed may be there.
LEMMA RestoredIs ==
    ASSUME ImportInv, nat.pc \in InHand, nat.g < Generations
    PROVE  /\ Restored \in Puts /\ May(Restored)
           /\ Restored.row = Row /\ Restored.pic = nat.pic /\ Restored.key = nat.key
<1>1. nat \in NatRec /\ NatKept /\ NatShape
  BY NatFacts
<1>2. /\ Row \in Rows /\ Row[1] = Entity /\ Entity \in Entities /\ Entity \notin Convs
      /\ nat.g \in 0..Generations /\ nat.proj \in Gens /\ nat.key \in AnyKey /\ nat.pic \in BOOLEAN
      /\ Row = RowAt(Entity, nat.g, nat.proj)
  BY <1>1, HandFacts DEF NatRec
<1> DEFINE proj == IF Entity = "project" THEN 0 ELSE nat.proj
<1>3. proj \in Gens
  BY <1>2, GensNat
<1>4. /\ Restored.row = Row /\ Restored.pic = nat.pic /\ Restored.key = nat.key /\ Restored.proj = proj
      /\ Restored \in Puts
  BY <1>2, <1>3 DEF Restored, Puts, AnyKey
<1>5. ASSUME nat.key = curKey
      PROVE  Passed(Row[1], Row[2], Row[3]) /\ (Row[1] \in {"document", "chat"} => HasProject(proj))
  <2>1. NatNow
    BY <1>1, <1>5 DEF NatKept
  <2>2. Passed(Entity, nat.g, IF Entity = "document" THEN nat.proj ELSE 0)
    BY <1>2, <2>1 DEF NatNow
  <2>3. Row[1] = Entity /\ Row[2] = nat.g /\ Row[3] = IF Entity = "document" THEN nat.proj ELSE 0
    BY DEF Row
  <2>4. Entity # "project" => HasProject(nat.proj)
    BY <1>1, <1>2, <2>1 DEF NatNow, NatShape
  <2> QED
    BY <1>2, <2>2, <2>3, <2>4
<1> HIDE DEF proj
<1>6. Justified(Row, proj, nat.key)
  BY <1>2, <1>5 DEF Justified
<1>7. nat.key <= curKey
  BY <1>1 DEF NatShape
<1> QED
  BY <1>4, <1>6, <1>7 DEF May

LEMMA PushEntityStep == ASSUME ImportInv, PushEntity PROVE ImportInv'
<1>1. /\ nat \in NatRec /\ NatShape /\ nat.pc = "push" /\ nat.pc \in InHand /\ nat.g < Generations
      /\ nat.pic \in BOOLEAN
  BY NatFacts DEF PushEntity, InHand, NatShape, NatRec
<1>2. Row \in Rows /\ Row[1] = Entity /\ Entity \in Entities /\ pics \subseteq Rows /\ nat.i \in 1..3
  BY <1>1, HandFacts, PicsAre
<1>3. KeepJobs /\ UNCHANGED <<leg, curKey, pics, gone, edits>>
  BY DEF PushEntity
<1>4. WorldInv /\ WorldType /\ (~RowsMove => PicsBase /\ PicsHand /\ PicsApart)
  BY InvParts DEF PicsKept, WorldInv
<1>5. PICK p \in Puts : /\ p = Restored /\ May(p)
                         /\ p.row = Row /\ p.pic = nat.pic /\ p.key = nat.key
  BY <1>1, RestoredIs
<1>6. PICK answer \in {"ok", "unclear", "refused", "conflict"} :
        /\ PushRow(p, Cancelled, answer)
        /\ IF answer = "ok" THEN Done(TRUE)
           ELSE nat' = [nat EXCEPT !.pc = "verify", !.err = answer]
  BY <1>5 DEF PushEntity
<1>7. ASSUME answer # "ok", Grow, answer = "conflict" => rows'[Row].st # "absent"
      PROVE  /\ nat' \in NatRec /\ NatKept' /\ nat'.pc = "verify" /\ Row' = Row /\ nat'.key = nat.key
  <2>1. nat' = [nat EXCEPT !.pc = "verify", !.err = answer, !.pic = nat.pic]
    BY <1>1, <1>6, <1>7 DEF NatRec
  <2>2. nat'.pc = "verify" /\ nat'.err = answer /\ Row' = Row
    BY <1>1, <2>1 DEF NatRec, Row, Entity
  <2>3. "verify" \in InHand \ {"inspect"} /\ "verify" # "build" /\ Met'
    BY <1>7, <2>2 DEF InHand, Met
  <2> QED
    BY <1>1, <1>7, <2>1, <2>3, HandMoves, Zenon
<1>8. CASE Commit(p) /\ answer = Verdict(p) /\ UNCHANGED <<late, faults>>
  <2>1. LateKept
    BY <1>4, <1>8 DEF LateKept, WorldType
  <2>2. WorldInv' /\ Grow
    BY <1>2, <1>3, <1>4, <1>5, <1>8, <2>1, CommitWorld
  <2>3. /\ answer = "ok" /\ nat.key = curKey => rows'[Row].st # "absent" \/ Entity \in gone'
        /\ answer = "conflict" => rows'[Row].st # "absent"
    BY <1>2, <1>3, <1>4, <1>5, <1>8, VerdictFacts
  <2>4. /\ nat' \in NatRec /\ NatKept' /\ nat'.key = nat.key
        /\ nat'.pc = "next" \/ (nat'.pc = "verify" /\ Row' = Row)
    <3>1. CASE answer = "ok"
      <4>1. nat.g \in Gens
        BY <1>1, HandFacts
      <4>2. nat.key = curKey => \A g \in Gens : nat.g = g /\ Entity = "project" => HasProject(g)'
        BY <1>1, <2>3, <3>1, ProjectThere
      <4> QED
        BY <1>1, <1>6, <2>2, <3>1, <4>1, <4>2, DoneOk
    <3>2. CASE answer # "ok"
      BY <1>7, <2>2, <2>3, <3>2
    <3> QED
      BY <3>1, <3>2
  <2>5. ASSUME ~RowsMove PROVE PicsKept'
    <3>1. p.pic /\ p.key = curKey => p.row \in pics
      BY <1>1, <1>4, <1>5, <2>5, Zenon DEF PicsHand
    <3>2. PutsOnly(p) /\ Made(p).st = "ours" /\ Made(p).key = nat.key
      BY <1>4, <1>5, <1>8, CommitOnly, MadeIs
    <3>3. PicsBase'
      BY <1>3, <1>4, <1>8, <2>5, <3>1, <3>2, PicsCommit
    <3>4. nat.key = curKey => rows'[Row].key # curKey \/ rows'[Row].st = "ours"
      BY <1>1, <1>2, <1>4, <2>5, <3>2 DEF PicsHand, PutsOnly
    <3>5. PicsHand'
      BY <1>3, <2>4, <3>4 DEF PicsHand
    <3>6. PicsApart'
      <4> SUFFICES ASSUME nat.key # curKey
                   PROVE  /\ \A r \in Rows : r[1] \in Entities => rows'[r].key # curKey
                          /\ \A q \in late' : q.row[1] \in Entities => q.key # curKey
        BY <1>3, <2>4 DEF PicsApart
      <4>1. /\ \A r \in Rows : r[1] \in Entities => rows[r].key # curKey
            /\ \A q \in late : q.row[1] \in Entities => q.key # curKey
        BY <1>1, <1>4, <2>5 DEF PicsApart
      <4> QED
        BY <1>8, <3>2, <4>1 DEF PutsOnly
    <3> QED
      BY <3>3, <3>5, <3>6 DEF PicsKept
  <2>6. NatMoves
    BY <1>1, <1>3, <1>8, <2>4 DEF NatMoves, KeepJobs, InHand
  <2> QED
    BY <2>2, <2>4, <2>5, <2>6, NatAssembled
<1>9. CASE /\ answer \in {"unclear", "refused"} /\ UNCHANGED <<rows, idem>>
           /\ late' \subseteq late \cup {p}
           /\ faults' = faults \/ Fault
  <2>1. LateKept
    BY <1>4, <1>5, <1>9 DEF LateKept, WorldType
  <2>2. WorldInv' /\ Grow
    BY <1>2, <1>3, <1>4, <1>9, <2>1, QuietWorld
  <2>3. nat' \in NatRec /\ NatKept' /\ nat'.pc = "verify" /\ Row' = Row /\ nat'.key = nat.key
    BY <1>7, <1>9, <2>2
  <2>4. ASSUME ~RowsMove PROVE PicsKept'
    <3>1. p.pic /\ p.key = curKey => p.row \in pics
      BY <1>1, <1>4, <1>5, <2>4, Zenon DEF PicsHand
    <3>2. \A q \in late' : q.pic /\ q.key = curKey => q.row \in pics
      BY <1>4, <1>9, <2>4, <3>1, Zenon DEF PicsBase
    <3>3. PicsBase'
      BY <1>3, <1>4, <1>9, <2>4, <3>2 DEF PicsBase, RestoredReadable
    <3>4. PicsHand'
      BY <1>1, <1>3, <1>4, <1>9, <2>3, <2>4 DEF PicsHand
    <3>5. PicsApart'
      BY <1>1, <1>3, <1>4, <1>5, <1>9, <2>3, <2>4 DEF PicsApart
    <3> QED
      BY <3>3, <3>4, <3>5 DEF PicsKept
  <2>5. NatMoves
    BY <1>1, <1>3, <1>9, <2>3 DEF NatMoves, KeepJobs, InHand
  <2> QED
    BY <2>2, <2>3, <2>4, <2>5, NatAssembled
<1> QED
  BY <1>6, <1>8, <1>9 DEF PushRow

LEMMA VerifyStep == ASSUME ImportInv, Verify PROVE ImportInv'
<1>1. WorldInv' /\ Grow
  BY SameWorld, PicsAre DEF World, Verify
<1>2. /\ nat \in NatRec /\ NatKept /\ NatShape /\ nat.pc = "verify" /\ nat.pc \in InHand
      /\ nat.i \in 1..3 /\ nat.g < Generations /\ nat.pic \in BOOLEAN
  BY NatFacts, HandFacts DEF Verify, InHand, NatShape, NatRec
<1>3. UNCHANGED World /\ KeepJobs /\ UNCHANGED leg /\ (faults' = faults \/ Fault)
  BY DEF Verify
<1>4. CASE Done(FALSE)
  BY <1>1, <1>2, <1>3, <1>4, DoneFail, NatQuiet
<1>5. CASE Ours(Row, nat.key) /\ Done(TRUE)
  <2>1. rows'[Row].st # "absent"
    BY <1>3, <1>5 DEF World, Ours
  <2>2. nat.g \in Gens /\ \A g \in Gens : nat.g = g /\ Entity = "project" => HasProject(g)'
    BY <1>2, <2>1, ProjectThere
  <2> QED
    BY <1>1, <1>2, <1>3, <1>5, <2>2, DoneOk, NatQuiet
<1>6. CASE ~Ours(Row, nat.key) /\ nat' = [nat EXCEPT !.pc = "clean"]
  <2>1. nat.err \in {"none", "unclear", "refused", "conflict"} /\ "clean" \in InHand \ {"inspect"} /\ "clean" # "build"
    BY <1>2 DEF NatRec, InHand
  <2>2. /\ nat' = [nat EXCEPT !.pc = "clean", !.err = nat.err, !.pic = nat.pic]
        /\ nat'.err = nat.err /\ Row' = Row /\ Entity' = Entity
    BY <1>2, <1>6 DEF NatRec, Row, Entity
  <2>3. nat.key = curKey => Met'
    <3> SUFFICES ASSUME nat.key = curKey, nat.err = "conflict", Entity \notin gone
                 PROVE  rows[Row].st # "absent" /\ ~Ours(Row, curKey)
      BY <1>3, <2>2 DEF Met, World, Taken, Ours
    <3> QED
      BY <1>2, <1>6 DEF NatKept, NatNow, Met
  <2>4. nat' \in NatRec /\ NatKept' /\ nat'.pc = "clean" /\ Row' = Row /\ nat'.key = nat.key
    BY <1>1, <1>2, <2>1, <2>2, <2>3, HandMoves, Zenon
  <2>5. ASSUME ~RowsMove PROVE PicsKept'
    <3>1. PicsBase /\ PicsHand /\ PicsApart /\ \A p \in late : p.row # Row
      BY <2>5, InvParts DEF Verify, PicsKept
    <3>2. nat.key = curKey => rows[Row].key # curKey
      BY <1>2, <1>6, <3>1 DEF PicsHand, Ours
    <3>3. PicsBase' /\ PicsApart'
      BY <1>2, <1>3, <2>4, <3>1 DEF World, PicsBase, PicsApart, RestoredReadable
    <3>4. PicsHand'
      BY <1>3, <2>4, <3>1, <3>2 DEF World, PicsHand
    <3> QED
      BY <3>3, <3>4 DEF PicsKept
  <2>6. NatMoves
    BY <1>2, <1>3, <2>4 DEF NatMoves, KeepJobs, InHand
  <2> QED
    BY <1>1, <2>4, <2>5, <2>6, NatAssembled
<1> QED
  BY <1>4, <1>5, <1>6 DEF Verify, Unverified

LEMMA CleanStep == ASSUME ImportInv, Clean PROVE ImportInv'
<1>1. /\ nat \in NatRec /\ NatKept /\ NatShape /\ nat.pc = "clean" /\ nat.pc \in InHand
      /\ nat.i \in 1..3 /\ nat.g < Generations
  BY NatFacts, HandFacts DEF Clean, InHand, NatShape
<1>2. Row \in Rows /\ Row[1] = Entity /\ Entity \in Entities /\ pics \subseteq Rows
  BY <1>1, HandFacts, PicsAre
<1>3. /\ KeepJobs /\ UNCHANGED <<leg, rows, curKey, idem, late, gone, edits>> /\ (faults' = faults \/ Fault)
      /\ pics' \in {pics, pics \ {Row}}
  BY DEF Clean
<1>4. WorldInv' /\ Grow
  BY <1>2, <1>3, SameWorld
<1>5. nat' \in NatRec /\ NatKept' /\ nat'.pc \in {"next", "inspect"} /\ nat'.key = nat.key
  <2>1. CASE nat.err = "conflict" /\ NextGeneration
    <3>1. nat.key = curKey => Taken(Row) \/ Entity \in gone
      BY <1>1, <2>1 DEF NatKept, NatNow, Met
    <3> QED
      BY <1>1, <1>4, <2>1, <3>1, PassOn
  <2>2. CASE Done(FALSE)
    BY <1>1, <1>4, <2>2, DoneFail
  <2> QED
    BY <2>1, <2>2 DEF Clean
<1>6. ASSUME ~RowsMove PROVE PicsKept'
  <2>1. /\ PicsBase /\ PicsApart
        /\ nat.key = curKey => rows[Row].key # curKey
        /\ \A p \in late : p.row # Row
    BY <1>1, <1>6, InvParts DEF PicsKept, PicsHand
  <2>2. rows[Row].key # curKey
    BY <1>1, <1>2, <2>1 DEF PicsApart
  <2>3. ASSUME NEW r \in Rows, rows[r].pic, rows[r].key = curKey PROVE r \in pics'
    BY <1>3, <2>1, <2>2, <2>3 DEF PicsBase, RestoredReadable
  <2>4. PicsBase'
    BY <1>3, <2>1, <2>3 DEF PicsBase, RestoredReadable
  <2>5. PicsHand'
    BY <1>5 DEF PicsHand
  <2>6. PicsApart'
    BY <1>1, <1>3, <1>5, <2>1 DEF PicsApart
  <2> QED
    BY <2>4, <2>5, <2>6 DEF PicsKept
<1>7. NatMoves
  BY <1>1, <1>3, <1>5 DEF NatMoves, KeepJobs, InHand
<1> QED
  BY <1>4, <1>5, <1>6, <1>7, NatAssembled
-----------------------------------------------------------------------------
(* The steps of a legacy run. *)

\* A step in which no run starts or ends, and only the legacy run moves.
LegMoves ==
    /\ leg.pc = "off" <=> leg'.pc = "off"
    /\ UNCHANGED <<cur, job, staged, upl, sweep, leaked, wedged, nat>>
    /\ faults' = faults \/ Fault

LEMMA LegAssembled ==
    ASSUME ImportInv, LegMoves, WorldInv', Grow, LegType', LegKept', ~RowsMove => PicsKept'
    PROVE  ImportInv'
<1>1. /\ JobsInv /\ WorldInv /\ nat \in NatRec /\ LegType
      /\ RunKept /\ NatKept /\ LegKept
  BY InvParts
<1>2. UNCHANGED nat /\ faults' \in 0..MaxFaults /\ wedged' \in BOOLEAN
  BY <1>1, FaultType, JobsFacts DEF LegMoves
<1>3. JobsInv'
  BY <1>1, <1>2, QuietStep DEF LegMoves
<1>4. NatKept' /\ nat' \in NatRec
  BY <1>1, <1>2, NatStays
<1>5. RunKept'
  BY <1>1, <1>2 DEF RunKept, LegMoves, Jobs
<1> QED
  BY <1>3, <1>4, <1>5, InvPartsNext

\* What becomes of one worker.
WorkerTo(c, at, n, abort) ==
    leg' = [leg EXCEPT !.at[c] = at, !.try[c] = n, !.abort = abort]

\* What is known of the one it becomes.
WorkerKnows(c, at) ==
    /\ at \in {"push", "check"} => NotPrior(c)'
    /\ at \in {"imported", "skipped"} /\ leg.key = curKey => HasChat(c)'

WorkerMoved == LegType' /\ LegKept' /\ leg'.pc = leg.pc

LEMMA WorkerStep ==
    ASSUME ImportInv, Grow, NEW c \in Convs, Active(c), NEW at \in WorkerStates,
           NEW n \in 1..ImportRetryMaxAttempts, NEW abort \in BOOLEAN, WorkerTo(c, at, n, abort),
           WorkerKnows(c, at)
    PROVE  WorkerMoved
<1>1. leg \in LegRec /\ LegType /\ LegKept
  BY InvParts DEF LegType
<1>2. /\ leg'.pc = leg.pc /\ leg'.pos = leg.pos /\ leg'.seen = leg.seen /\ leg'.v = leg.v
      /\ leg'.at = [leg.at EXCEPT ![c] = at] /\ leg'.key = leg.key
  BY <1>1 DEF LegRec, WorkerTo
<1>3. leg' \in LegRec
  BY <1>1 DEF LegRec, WorkerTo
<1>4. leg'.at[c] = at /\ \A d \in Convs \ {c} : leg'.at[d] = leg.at[d]
  BY <1>1, <1>2 DEF LegRec
<1>5. Workers' \subseteq Workers
  BY <1>4 DEF Workers, Active
<1>6. LegType'
  <2>1. Cardinality(Workers') <= Pool
    BY <1>1, <1>5, PoolFalls
  <2> QED
    BY <1>3, <2>1 DEF LegType, LegRec
<1>7. LegKept'
  <2>1. \A d \in Convs : Active(d)' => Active(d)
    BY <1>4 DEF Active
  <2>2. \A d \in Convs, v \in {0, 1} : Active(d)' /\ leg'.v[d] = v => Variant(d, v)
    BY <1>1, <1>2, <2>1 DEF LegKept
  <2>3. ASSUME NEW d \in Convs
        PROVE  /\ leg'.at[d] \in {"push", "check"} => NotPrior(d)'
               /\ leg'.at[d] \in {"imported", "skipped"} /\ leg.key = curKey => HasChat(d)'
    <3>1. CASE d = c
      BY <1>4, <3>1 DEF WorkerKnows
    <3>2. CASE d # c
      BY <1>1, <1>4, <3>2, ChatStays DEF LegKept, Grow
    <3> QED
      BY <3>1, <3>2
  <2> QED
    BY <1>1, <1>2, <2>2, <2>3 DEF LegKept, Variant, FirstAt, Grow
<1> QED
  BY <1>2, <1>6, <1>7 DEF WorkerMoved

LEMMA OutcomeStep ==
    ASSUME ImportInv, Grow, NEW c \in Convs, Active(c), NEW to \in WorkerStates, Outcome(c, to),
           WorkerKnows(c, to)
    PROVE  WorkerMoved
<1>1. leg \in LegRec
  BY InvParts DEF LegType
<1>2. leg.abort \in BOOLEAN /\ 1 \in 1..ImportRetryMaxAttempts
  BY <1>1 DEF LegRec, ImportRetryMaxAttempts
<1>3. WorkerTo(c, to, 1, leg.abort)
  BY <1>1 DEF WorkerTo, Outcome, LegRec
<1> QED
  BY <1>2, <1>3, WorkerStep, Zenon

LEMMA FailStep ==
    ASSUME ImportInv, Grow, NEW c \in Convs, Active(c), Outcome(c, "failed")
    PROVE  WorkerMoved
<1>1. "failed" \in WorkerStates /\ WorkerKnows(c, "failed")
  BY DEF WorkerStates, WorkerKnows
<1> QED
  BY <1>1, OutcomeStep

LEMMA AgainStep ==
    ASSUME ImportInv, Grow, NEW c \in Convs, Active(c), Again(c)
    PROVE  WorkerMoved
<1>1. leg \in LegRec /\ LegKept
  BY InvParts DEF LegType
<1>2. PICK at \in WorkerStates, n \in 1..ImportRetryMaxAttempts, abort \in BOOLEAN :
        at = leg.at[c] /\ n = leg.try[c] + 1 /\ abort = leg.abort
  BY <1>1 DEF LegRec, ImportRetryMaxAttempts, Again
<1>3. WorkerTo(c, at, n, abort)
  BY <1>1, <1>2 DEF WorkerTo, Again, LegRec
<1>4. WorkerKnows(c, at)
  BY <1>1, <1>2 DEF LegKept, Active, WorkerKnows, Grow
<1> QED
  BY <1>3, <1>4, WorkerStep

LEMMA AbortStep ==
    ASSUME ImportInv, Grow, NEW c \in Convs, Active(c), Abort(c)
    PROVE  WorkerMoved
<1>1. leg \in LegRec
  BY InvParts DEF LegType
<1>2. leg.try[c] \in 1..ImportRetryMaxAttempts /\ "none" \in WorkerStates
  BY <1>1 DEF LegRec, WorkerStates
<1>3. WorkerTo(c, "none", leg.try[c], TRUE) /\ WorkerKnows(c, "none")
  BY <1>1 DEF WorkerTo, Abort, LegRec, WorkerKnows
<1> QED
  BY <1>2, <1>3, WorkerStep

\* A worker that only looks.
LEMMA WorkerLooks ==
    ASSUME ImportInv, KeepJobs, UNCHANGED <<nat, World>>, faults' = faults \/ Fault, WorkerMoved
    PROVE  ImportInv'
<1>1. WorldInv' /\ Grow
  BY SameWorld, PicsAre DEF World
<1>2. ~RowsMove => PicsKept'
  BY InvParts, PicsQuiet DEF World
<1>3. LegMoves
  BY DEF LegMoves, WorkerMoved, KeepJobs
<1> QED
  BY <1>1, <1>2, <1>3, LegAssembled DEF WorkerMoved

LEMMA ProbeStep == ASSUME ImportInv, NEW c \in Convs, Probe(c) PROVE ImportInv'
<1>1. /\ Grow /\ Active(c) /\ KeepJobs /\ UNCHANGED <<nat, World>> /\ (faults' = faults \/ Fault)
      /\ rows' = rows /\ gone' = gone
  BY SameWorld, PicsAre DEF Probe, World, Active
<1>2. ASSUME rows[<<c, Prior, 0>>].st = "absent", Outcome(c, "push") PROVE WorkerMoved
  <2>1. "push" \in WorkerStates /\ WorkerKnows(c, "push")
    BY <1>1, <1>2 DEF WorkerStates, WorkerKnows, NotPrior
  <2> QED
    BY <1>1, <1>2, <2>1, OutcomeStep
<1>3. ASSUME rows[<<c, Prior, 0>>].st # "absent", Outcome(c, "skipped") PROVE WorkerMoved
  <2>1. "skipped" \in WorkerStates /\ WorkerKnows(c, "skipped")
    BY <1>1, <1>3 DEF WorkerStates, WorkerKnows, HasChat
  <2> QED
    BY <1>1, <1>3, <2>1, OutcomeStep
<1>4. WorkerMoved
  BY <1>1, <1>2, <1>3, FailStep, AgainStep, AbortStep DEF Probe
<1> QED
  BY <1>1, <1>4, WorkerLooks

\* A chat is no row of a restore.
LEMMA ChatFacts ==
    ASSUME ImportInv, NEW c \in Convs, leg.at[c] \in {"push", "check"}
    PROVE  /\ Chat(c) \in Rows /\ Chat(c)[1] = c /\ leg.v[c] \in {0, 1}
           /\ Imported(c) \in Puts /\ May(Imported(c)) /\ Imported(c).row = Chat(c)
           /\ ~Imported(c).pic /\ Imported(c).key = leg.key
<1>1. leg \in LegRec /\ LegKept
  BY InvParts DEF LegType
<1>2. leg.v[c] \in {0, 1} /\ leg.key \in AnyKey
  BY <1>1 DEF LegRec
<1>3. Chat(c) \in Rows /\ Chat(c)[1] = c /\ Chat(c)[2] = leg.v[c]
  BY <1>2, RowsHave DEF Chat
<1>4. Variant(c, leg.v[c]) /\ NotPrior(c)
  BY <1>1, <1>2 DEF LegKept, Active
<1>5. Justified(Chat(c), 0, leg.key)
  BY <1>2, <1>3, <1>4, ConvsApart DEF Justified, Prior
<1>6. /\ Imported(c) \in Puts /\ Imported(c).row = Chat(c) /\ Imported(c).proj = 0
      /\ ~Imported(c).pic /\ Imported(c).key = leg.key
  BY <1>2, <1>3, GensNat DEF Imported, Puts, AnyKey
<1>7. leg.key <= curKey
  BY <1>1 DEF LegKept
<1> QED
  BY <1>2, <1>3, <1>5, <1>6, <1>7 DEF May

\* A worker reports a chat that is there.
LEMMA ImportedStep ==
    ASSUME ImportInv, Grow, NEW c \in Convs, leg.at[c] \in {"push", "check"}, Outcome(c, "imported"),
           leg.key = curKey => rows'[Chat(c)].st # "absent" \/ c \in gone'
    PROVE  WorkerMoved
<1>1. PICK v \in {0, 1} : v = leg.v[c]
  BY ChatFacts
<1>2. leg.key = curKey => rows'[<<c, v, 0>>].st # "absent" \/ c \in gone'
  BY <1>1 DEF Chat
<1>3. "imported" \in WorkerStates /\ WorkerKnows(c, "imported") /\ Active(c)
  BY <1>2 DEF WorkerStates, WorkerKnows, HasChat, Active
<1> QED
  BY <1>3, OutcomeStep

LEMMA CheckStep == ASSUME ImportInv, NEW c \in Convs, Check(c) PROVE ImportInv'
<1>1. /\ Grow /\ Active(c) /\ KeepJobs /\ UNCHANGED <<nat, World>> /\ (faults' = faults \/ Fault)
      /\ rows' = rows /\ leg.at[c] = "check"
  BY SameWorld, PicsAre DEF Check, World, Active
<1>2. CASE Ours(Chat(c), leg.key) /\ Outcome(c, "imported")
  BY <1>1, <1>2, ImportedStep, WorkerLooks DEF Ours
<1>3. CASE Outcome(c, "failed")
  BY <1>1, <1>3, FailStep, WorkerLooks
<1> QED
  BY <1>2, <1>3 DEF Check

\* Nothing happens to the row in hand that PicsHand does not allow.
HandKept ==
    nat.pc \in {"build", "push", "verify", "clean"} =>
        /\ Row \in pics => Row \in pics'
        /\ rows'[Row] = rows[Row] \/ (nat.pc # "clean" /\ rows'[Row].st = "ours")
        /\ nat.pc = "clean" => \A p \in late' : p \in late \/ p.row # Row

LEMMA PicsHandStays ==
    ASSUME PicsHand, UNCHANGED <<nat, curKey>>, HandKept
    PROVE  PicsHand'
<1>1. Row' = Row
  BY DEF Row, Entity
<1>2. nat.pic => nat'.pic
  OBVIOUS
<1> QED
  BY <1>1, <1>2 DEF PicsHand, HandKept

\* The row a restore has in hand is one.
LEMMA DecidedRow ==
    ASSUME ImportInv, nat.pc \in {"build", "push", "verify", "clean"}
    PROVE  Row \in Rows /\ Row[1] \in Entities
<1>1. nat.pc \in InHand /\ nat.g < Generations
  BY NatFacts DEF InHand, NatShape
<1> QED
  BY <1>1, NatFacts, HandFacts

\* Chats leave what is known of restores alone.
LEMMA PicsChat ==
    ASSUME ImportInv, PicsKept, NEW p \in Puts, p.row[1] \in Convs, ~p.pic,
           UNCHANGED <<curKey, pics, nat>>,
           \/ Commit(p) /\ UNCHANGED late
           \/ UNCHANGED rows /\ late' \subseteq late \cup {p}
    PROVE  PicsKept'
<1>1. WorldType /\ PicsBase /\ PicsHand /\ PicsApart
  BY NatFacts DEF PicsKept
<1>2. \A r \in Rows : r[1] \in Entities => rows'[r] = rows[r]
  <2>1. CASE Commit(p)
    BY <1>1, <2>1, CommitOnly, ConvsApart DEF PutsOnly
  <2> QED
    BY <2>1
<1>3. \A q \in late' : q \in late \/ q = p
  OBVIOUS
<1>4. PicsBase'
  <2>1. CASE Commit(p) /\ UNCHANGED late
    BY <1>1, <2>1, CommitOnly, PicsCommit
  <2>2. CASE UNCHANGED rows
    BY <1>1, <1>3, <2>2, Zenon DEF PicsBase, RestoredReadable
  <2> QED
    BY <2>1, <2>2
<1>5. HandKept
  BY <1>2, <1>3, DecidedRow, ConvsApart DEF HandKept
<1>6. PicsApart'
  BY <1>1, <1>2, <1>3, ConvsApart DEF PicsApart
<1> QED
  BY <1>1, <1>4, <1>5, <1>6, PicsHandStays DEF PicsKept

LEMMA PushChatStep == ASSUME ImportInv, NEW c \in Convs, PushChat(c) PROVE ImportInv'
<1>1. Active(c) /\ KeepJobs /\ UNCHANGED <<nat, curKey, pics, gone, edits>> /\ leg.at[c] = "push"
  BY DEF PushChat, Active
<1>2. PICK p \in Puts : /\ p = Imported(c) /\ May(p) /\ p.row = Chat(c) /\ ~p.pic /\ p.key = leg.key
                         /\ p.row[1] = c
  BY <1>1, ChatFacts
<1>3. WorldInv /\ WorldType /\ pics \subseteq Rows
  BY NatFacts, PicsAre
<1>4. PICK answer \in {"ok", "unclear", "refused", "conflict"} :
         /\ PushRow(p, Stopped, answer)
         /\ \/ answer = "ok" /\ Outcome(c, "imported")
            \/ answer = "conflict" /\ Outcome(c, "check")
            \/ answer = "refused" /\ Outcome(c, "failed")
            \/ answer = "unclear" /\ ~Stopped /\ Again(c)
            \/ answer = "unclear" /\ (Stopped \/ LastTry(c)) /\ GivesUp(c)
  BY <1>2 DEF PushChat
<1>5. /\ WorldInv' /\ Grow /\ (faults' = faults \/ Fault)
      /\ ~RowsMove => PicsKept'
      /\ answer = "ok" /\ leg.key = curKey => rows'[Chat(c)].st # "absent" \/ c \in gone'
  <2>1. CASE Commit(p) /\ answer = Verdict(p) /\ UNCHANGED <<late, faults>>
    <3>1. LateKept
      BY <1>3, <2>1 DEF LateKept, WorldType
    <3>2. WorldInv' /\ Grow
      BY <1>1, <1>2, <1>3, <2>1, <3>1, CommitWorld
    <3>3. ~RowsMove => PicsKept'
      BY <1>1, <1>2, <2>1, InvParts, PicsChat
    <3>4. answer = "ok" /\ leg.key = curKey => rows'[Chat(c)].st # "absent" \/ c \in gone'
      BY <1>1, <1>2, <1>3, <2>1, VerdictFacts
    <3> QED
      BY <2>1, <3>2, <3>3, <3>4
  <2>2. CASE /\ UNCHANGED <<rows, idem>> /\ (faults' = faults \/ Fault) /\ answer # "ok"
             /\ late' \subseteq late \cup {p}
    <3>1. LateKept
      BY <1>2, <1>3, <2>2 DEF LateKept, WorldType
    <3>2. WorldInv' /\ Grow
      BY <1>1, <1>3, <2>2, <3>1, QuietWorld
    <3>3. ~RowsMove => PicsKept'
      BY <1>1, <1>2, <2>2, InvParts, PicsChat
    <3> QED
      BY <2>2, <3>2, <3>3
  <2> QED
    BY <1>4, <2>1, <2>2 DEF PushRow
<1>6. ASSUME Outcome(c, "check") PROVE WorkerMoved
  <2>1. NotPrior(c)
    BY <1>1, InvParts DEF LegKept
  <2>2. WorkerKnows(c, "check") /\ "check" \in WorkerStates
    BY <1>5, <2>1 DEF WorkerStates, WorkerKnows, Grow
  <2> QED
    BY <1>1, <1>5, <1>6, <2>2, OutcomeStep
<1>7. WorkerMoved
  <2>1. CASE answer = "ok" /\ Outcome(c, "imported")
    BY <1>1, <1>5, <2>1, ImportedStep
  <2>2. CASE Outcome(c, "check")
    BY <1>6, <2>2
  <2>3. CASE Outcome(c, "failed")
    BY <1>1, <1>5, <2>3, FailStep
  <2>4. CASE Again(c)
    BY <1>1, <1>5, <2>4, AgainStep
  <2> QED
    BY <1>4, <2>1, <2>2, <2>3, <2>4 DEF GivesUp
<1>8. LegMoves
  BY <1>1, <1>5, <1>7 DEF LegMoves, WorkerMoved, KeepJobs
<1> QED
  BY <1>5, <1>7, <1>8, LegAssembled DEF WorkerMoved

\* The parser: the first copy of a conversation gives the variant of its chat.
LEMMA Listed ==
    ASSUME NEW i \in 1..Len(Listing)
    PROVE  i \in DOMAIN Listing /\ Listing[i][1] \in Convs /\ Listing[i][2] \in {0, 1}
BY ImportRunConstants

LEMMA SeenGrows ==
    ASSUME NEW i \in 1..Len(Listing)
    PROVE  {Listing[k][1] : k \in 1..((i + 1) - 1)} = {Listing[k][1] : k \in 1..(i - 1)} \cup {Listing[i][1]}
<1>1. 1..((i + 1) - 1) = 1..(i - 1) \cup {i}
  BY ImportRunConstants
<1> QED
  BY <1>1

LEMMA LegSame ==
    ASSUME LegKept, Grow, leg'.at = leg.at, leg'.v = leg.v, leg'.key = leg.key,
           leg'.seen = {Listing[k][1] : k \in 1..(leg'.pos - 1)}
    PROVE  LegKept'
<1>1. \A d \in Convs, v \in {0, 1} : Active(d)' /\ leg'.v[d] = v => Variant(d, v)
  BY DEF LegKept, Active
<1>2. \A d \in Convs : leg'.at[d] \in {"push", "check"} => NotPrior(d)'
  BY DEF LegKept, Grow
<1>3. \A d \in Convs : leg'.at[d] \in {"imported", "skipped"} /\ leg.key = curKey => HasChat(d)'
  BY ChatStays DEF LegKept
<1> QED
  BY <1>1, <1>2, <1>3 DEF LegKept, Variant, FirstAt, Grow

\* The parser goes on, or stops.
LEMMA ParserStep ==
    ASSUME ImportInv, KeepJobs, UNCHANGED <<nat, World>>, faults' = faults \/ Fault,
           leg.pc # "off", leg'.pc \in {"parse", "wait"}, LegType', LegKept'
    PROVE  ImportInv'
<1>1. WorldInv' /\ Grow
  BY SameWorld, PicsAre DEF World
<1>2. ~RowsMove => PicsKept'
  BY InvParts, PicsQuiet DEF World
<1>3. LegMoves
  <2>1. leg'.pc # "off"
    OBVIOUS
  <2>2. leg.pc = "off" <=> leg'.pc = "off"
    BY <2>1
  <2> QED
    BY <2>2, Zenon DEF LegMoves, KeepJobs
<1> QED
  BY <1>1, <1>2, <1>3, LegAssembled

LEMMA EmitStep == ASSUME ImportInv, Emit PROVE ImportInv'
<1> DEFINE i == leg.pos
           c == Listing[i][1]
           w == Listing[i][2]
<1>1. Grow /\ KeepJobs /\ UNCHANGED <<nat, World>> /\ faults' = faults
  BY SameWorld, PicsAre DEF Emit, World, KeepJobs, jobVars
<1>2. leg \in LegRec /\ LegType /\ LegKept /\ leg.pc = "parse" /\ i \in 1..Len(Listing)
  BY InvParts, ImportRunConstants DEF LegType, LegRec, Emit
<1>3. c \in Convs /\ w \in {0, 1} /\ i \in DOMAIN Listing
  BY <1>2, Listed
<1>4. leg.seen = {Listing[k][1] : k \in 1..(i - 1)}
  BY <1>2 DEF LegKept
<1>5. i + 1 \in 1..(Len(Listing) + 1)
  BY <1>2, ImportRunConstants
<1>6. {Listing[k][1] : k \in 1..((i + 1) - 1)} = leg.seen \cup {c}
  BY <1>2, <1>4, SeenGrows
<1>7. CASE c \in leg.seen /\ leg' = [leg EXCEPT !.pos = i + 1]
  <2>1. /\ leg' \in LegRec /\ leg'.pc = "parse" /\ leg'.pos = i + 1 /\ leg'.seen = leg.seen
        /\ leg'.at = leg.at /\ leg'.v = leg.v /\ leg'.key = leg.key
    BY <1>2, <1>5, <1>7 DEF LegRec
  <2>2. {Listing[k][1] : k \in 1..(leg'.pos - 1)} = leg.seen
    BY <1>6, <1>7, <2>1
  <2>3. LegType'
    BY <1>2, <2>1 DEF LegType, LegRec, Workers, Active
  <2>4. LegKept'
    BY <1>1, <1>2, <2>1, <2>2, LegSame
  <2> QED
    BY <1>1, <1>2, <2>1, <2>3, <2>4, ParserStep
\* The conversation goes to a worker.
<1>8. CASE /\ c \notin leg.seen /\ Cardinality(Workers) < Pool
           /\ leg' = [leg EXCEPT !.pos = i + 1, !.seen = leg.seen \cup {c}, !.at[c] = "probe", !.v[c] = w]
  <2> HIDE DEF w
  <2>1. /\ leg'.pc = "parse" /\ leg'.pos = i + 1 /\ leg'.seen = leg.seen \cup {c}
        /\ leg'.at = [leg.at EXCEPT ![c] = "probe"] /\ leg'.v = [leg.v EXCEPT ![c] = w]
        /\ leg'.key = leg.key
    BY <1>2, <1>8 DEF LegRec
  <2>2. leg' \in LegRec
    <3>1. /\ [leg.at EXCEPT ![c] = "probe"] \in [Convs -> WorkerStates]
          /\ [leg.v EXCEPT ![c] = w] \in [Convs -> {0, 1}] /\ leg.seen \cup {c} \in SUBSET Convs
      BY <1>2, <1>3 DEF LegRec, WorkerStates
    <3>2. leg' = [leg EXCEPT !.pos = i + 1, !.seen = leg.seen \cup {c},
                             !.at = [leg.at EXCEPT ![c] = "probe"], !.v = [leg.v EXCEPT ![c] = w]]
      BY <1>2, <1>8 DEF LegRec
    <3> HIDE DEF c
    <3> QED
      BY <1>2, <1>5, <3>1, <3>2 DEF LegRec
  <2>3. /\ leg'.at[c] = "probe" /\ \A d \in Convs \ {c} : leg'.at[d] = leg.at[d]
        /\ leg'.v[c] = w /\ \A d \in Convs \ {c} : leg'.v[d] = leg.v[d]
    BY <1>2, <1>3, <2>1 DEF LegRec
  <2>4. Variant(c, w)
    <3>1. \A k \in DOMAIN Listing : k < i => Listing[k][1] # c
      <4>1. \A k \in 1..(i - 1) : Listing[k][1] # c
        BY <1>4, <1>8
      <4> QED
        BY <4>1, <1>2, ImportRunConstants
    <3> QED
      BY <1>3, <3>1 DEF Variant, FirstAt, w
  <2> HIDE DEF c
  <2>5. LegType'
    <3>1. Workers' = Workers \cup {c}
      BY <1>3, <2>3 DEF Workers, Active
    <3>2. IsFiniteSet(Workers)
      BY ImportRunConstants, FS_Subset DEF Workers
    <3>3. Cardinality(Workers') \in {Cardinality(Workers), Cardinality(Workers) + 1}
      BY <3>1, <3>2, FS_AddElement
    <3>4. Cardinality(Workers') <= Pool
      BY <1>8, <3>2, <3>3, FS_CardinalityType, ImportRunConstants
    <3> QED
      BY <2>2, <3>4 DEF LegType, LegRec
  <2>6. LegKept'
    <3>1. \A d \in Convs, v \in {0, 1} : Active(d)' /\ leg'.v[d] = v => Variant(d, v)
      BY <1>2, <2>3, <2>4 DEF LegKept, Active
    <3>2. ASSUME NEW d \in Convs, leg'.at[d] \in {"push", "check"} PROVE NotPrior(d)'
      BY <1>1, <1>2, <2>3, <3>2 DEF LegKept, Grow
    <3>3. leg'.seen = {Listing[k][1] : k \in 1..(leg'.pos - 1)}
      BY <1>6, <2>1
    <3>4. ASSUME NEW d \in Convs, leg'.at[d] \in {"imported", "skipped"}, leg.key = curKey
          PROVE  HasChat(d)'
      BY <1>1, <1>2, <2>3, <3>4, ChatStays DEF LegKept
    <3> QED
      BY <1>1, <1>2, <2>1, <3>1, <3>2, <3>3, <3>4 DEF LegKept, Variant, FirstAt, Grow
  <2> QED
    BY <1>1, <1>2, <2>1, <2>5, <2>6, ParserStep
<1> QED
  BY <1>7, <1>8 DEF Emit, Workers

LEMMA ParseEndStep == ASSUME ImportInv, ParseEnd PROVE ImportInv'
<1>1. Grow /\ KeepJobs /\ UNCHANGED <<nat, World>> /\ (faults' = faults \/ Fault)
  BY SameWorld, PicsAre DEF ParseEnd, ParserRejects, World
<1>2. leg \in LegRec /\ LegType /\ LegKept /\ leg.pc = "parse"
  BY InvParts DEF LegType, ParseEnd
<1>3. PICK bad \in BOOLEAN : leg' = [leg EXCEPT !.pc = "wait", !.bad = bad]
  <2>1. CASE leg' = [leg EXCEPT !.pc = "wait", !.bad = leg.pos <= Len(Listing)]
    <3>1. (leg.pos <= Len(Listing)) \in BOOLEAN
      OBVIOUS
    <3> QED
      BY <2>1, <3>1, Zenon
  <2>2. CASE ParserRejects
    BY <2>2, Zenon DEF ParserRejects
  <2> QED
    BY <2>1, <2>2 DEF ParseEnd
<1>4. /\ leg' \in LegRec /\ leg'.pc = "wait" /\ leg'.pos = leg.pos /\ leg'.seen = leg.seen
      /\ leg'.at = leg.at /\ leg'.v = leg.v /\ leg'.key = leg.key
  BY <1>2, <1>3 DEF LegRec
<1>5. LegType'
  BY <1>2, <1>4 DEF LegType, LegRec, Workers, Active
<1>6. leg'.seen = {Listing[k][1] : k \in 1..(leg'.pos - 1)}
  BY <1>2, <1>4 DEF LegKept
<1>7. LegKept'
  BY <1>1, <1>2, <1>4, <1>6, LegSame
<1> QED
  BY <1>1, <1>2, <1>4, <1>5, <1>7, ParserStep
-----------------------------------------------------------------------------
(* Starts and ends of runs. *)

LEMMA CoordinatorInv == ASSUME ImportInv, JobsInv', Running' <=> Running, UNCHANGED runVars PROVE ImportInv'
<1>1. /\ nat \in NatRec /\ LegType /\ RunKept /\ NatKept /\ LegKept
      /\ UNCHANGED <<World, nat, leg>>
  BY InvParts DEF runVars, World
<1>2. WorldInv' /\ Grow
  BY <1>1, SameWorld, PicsAre DEF World
<1>3. NatKept' /\ LegKept'
  BY <1>1, <1>2, NatStays, LegStays
<1>4. LegType'
  BY <1>1 DEF LegType, LegRec, Workers, Active
<1>5. RunKept'
  BY <1>1 DEF RunKept, Running
<1>6. ~RowsMove => PicsKept'
  BY <1>1, InvParts, PicsQuiet DEF World
<1> QED
  BY <1>1, <1>2, <1>3, <1>4, <1>5, <1>6, InvPartsNext

\* The runs are over, the world stays.
RunsOff == ~Running' /\ nat' = NoNat /\ leg'.pc = "off" /\ UNCHANGED World

LEMMA NoNatIs ==
    /\ NoNat \in NatRec /\ NoNat.pc = "off" /\ NoNat.key = 0
    /\ NoNat.err = "none" /\ NoNat.g = 0 /\ NoNat.mapped = FALSE /\ NoNat.pic = FALSE
<1>1. 0 \in Gens /\ 0 \in 0..Generations /\ "off" \in {"off", "key", "next"} \cup InHand /\ 0 \in AnyKey
  BY GensNat, Keys
<1> QED
  BY <1>1 DEF NoNat, NatRec

LEMMA RunsOffInv ==
    ASSUME ImportInv, JobsInv', RunsOff, LegType', LegKept'
    PROVE  ImportInv'
<1>1. WorldInv' /\ Grow
  BY SameWorld, PicsAre DEF World, RunsOff
<1>2. 0 <= curKey'
  BY <1>1, Keys DEF WorldInv, WorldType
<1>3. nat' \in NatRec /\ NatKept' /\ nat'.pc = "off"
  BY <1>2, NoNatIs, NatAway DEF RunsOff
<1>4. RunKept'
  BY <1>3 DEF RunKept, RunsOff, Running
<1>5. ~RowsMove => PicsKept'
  BY <1>3, InvParts, PicsQuiet DEF World, RunsOff
<1> QED
  BY <1>1, <1>3, <1>4, <1>5, InvPartsNext

LEMMA NoLegType ==
    ASSUME ImportInv, curKey' = curKey, leg' \in NewLeg
    PROVE  LegType' /\ LegKept'
<1>1. leg' \in LegRec /\ LegKept' /\ Workers' = {}
  BY NatFacts, LegAway DEF Workers
<1>2. Cardinality(Workers') <= Pool
  BY <1>1, FS_EmptySet, ImportRunConstants
<1> QED
  BY <1>1, <1>2 DEF LegType, LegRec

LEMMA RestartInv == ASSUME ImportInv, RestartEnclave PROVE ImportInv'
<1>1. JobsInv' /\ ~Running'
  BY InvParts, RestartStep DEF RestartEnclave, Running, Jobs
<1>2. nat' = NoNat /\ leg' = NoLeg /\ UNCHANGED World /\ curKey' = curKey
  BY DEF RestartEnclave, World
<1>3. LegType' /\ LegKept' /\ leg'.pc = "off"
  BY <1>2, NoLegType DEF NoLeg, NewLeg
<1> QED
  BY <1>1, <1>2, <1>3, RunsOffInv DEF RunsOff

LEMMA FinishInv ==
    ASSUME ImportInv, NEW j \in Jobs, NEW st \in {"completed", "failed"}, Finish(j, st),
           job[j].st = "running", faults' \in 0..MaxFaults
    PROVE  ImportInv'
<1>1. JobsInv /\ LegType /\ LegKept /\ leg \in LegRec
  BY InvParts DEF LegType
<1>2. JobsInv' /\ ~Running'
  BY <1>1, EndRunStep DEF Finish, Running, Jobs
<1>3. nat' = NoNat /\ UNCHANGED World /\ curKey' = curKey
  BY DEF Finish, World
<1>4. Grow
  BY <1>3, SameWorld, PicsAre DEF World
<1>5. CASE leg' = NoLeg
  <2>1. LegType' /\ LegKept' /\ leg'.pc = "off"
    BY <1>3, <1>5, NoLegType DEF NoLeg, NewLeg
  <2> QED
    BY <1>2, <1>3, <2>1, RunsOffInv DEF RunsOff
<1>6. CASE leg' = [leg EXCEPT !.pc = "off"]
  <2>1. /\ leg' \in LegRec /\ leg'.pc = "off" /\ leg'.pos = leg.pos /\ leg'.seen = leg.seen
        /\ leg'.at = leg.at /\ leg'.v = leg.v /\ leg'.key = leg.key
    BY <1>1, <1>6 DEF LegRec
  <2>2. LegType'
    BY <1>1, <2>1 DEF LegType, LegRec, Workers, Active
  <2>3. leg'.seen = {Listing[k][1] : k \in 1..(leg'.pos - 1)}
    BY <1>1, <2>1 DEF LegKept
  <2>4. LegKept'
    BY <1>1, <1>4, <2>1, <2>3, LegSame
  <2> QED
    BY <1>2, <1>3, <2>1, <2>2, <2>4, RunsOffInv DEF RunsOff
<1> QED
  BY <1>5, <1>6 DEF Finish

LEMMA StartInv == ASSUME ImportInv, NEW j \in Jobs, StartRun(j) PROVE ImportInv'
<1>1. /\ JobsInv /\ nat \in NatRec /\ LegType /\ RunKept /\ NatKept /\ LegKept
  BY InvParts
<1>2. JobsInv' /\ Running' /\ ~Running
  BY <1>1, StartStep DEF StartRun, Running, Jobs
<1>3. nat.pc = "off" /\ leg.pc = "off"
  BY <1>1, <1>2 DEF RunKept, Running
<1>4. WorldInv' /\ Grow /\ UNCHANGED World /\ curKey' = curKey
  BY SameWorld, PicsAre DEF World, StartRun
<1>5. CASE nat' = [NoNat EXCEPT !.pc = "key", !.key = curKey] /\ UNCHANGED leg
  <2>1. curKey \in AnyKey /\ curKey \in Nat
    BY NatFacts, Keys
  <2>2. /\ nat' \in NatRec /\ nat'.pc = "key" /\ nat'.key = curKey
        /\ nat'.err = "none" /\ nat'.g = 0 /\ nat'.mapped = FALSE /\ nat'.pic = FALSE
    BY <1>5, <2>1, NoNatIs DEF NatRec
  <2>3. nat'.key <= curKey'
    BY <1>4, <2>1, <2>2
  <2>4. NatKept'
    BY <2>2, <2>3, NatAway
  <2>5. LegKept' /\ LegType'
    BY <1>1, <1>4, <1>5, LegStays DEF LegType, LegRec, Workers, Active
  <2>6. RunKept'
    BY <1>2, <1>3, <1>5, <2>2 DEF RunKept, Running
  <2>7. ~RowsMove => PicsKept'
    BY <1>4, <2>2, InvParts, PicsQuiet DEF World
  <2> QED
    BY <1>2, <1>4, <2>2, <2>4, <2>5, <2>6, <2>7, InvPartsNext
<1>6. CASE leg' = [NoLeg EXCEPT !.pc = "key", !.key = curKey] /\ UNCHANGED nat
  <2>1. LegType' /\ LegKept' /\ leg'.pc = "key"
    BY <1>4, <1>6, NoLegType DEF NoLeg, NewLeg
  <2>2. NatKept' /\ nat' \in NatRec /\ nat'.pc = "off"
    BY <1>1, <1>3, <1>4, <1>6, NatStays
  <2>3. RunKept'
    BY <1>2, <2>1, <2>2 DEF RunKept, Running
  <2>4. ~RowsMove => PicsKept'
    BY <1>4, <1>6, InvParts, PicsQuiet DEF World
  <2> QED
    BY <1>2, <1>4, <2>1, <2>2, <2>3, <2>4, InvPartsNext
<1> QED
  BY <1>5, <1>6 DEF StartRun

LEMMA OpenedInv == ASSUME ImportInv, "key" \in {nat.pc, leg.pc}, Opened PROVE ImportInv'
<1>1. /\ JobsInv /\ nat \in NatRec /\ LegType /\ leg \in LegRec /\ RunKept /\ NatKept /\ LegKept
      /\ NatShape
  BY InvParts DEF LegType, NatKept
<1>2. WorldInv' /\ Grow /\ UNCHANGED <<World, jobVars>>
  BY SameWorld, PicsAre DEF World, Opened
<1>3. JobsInv' /\ Running' = Running
  BY <1>1, <1>2, QuietStep, JobsFacts DEF jobVars, Running, Jobs
<1>4. CASE nat.pc = "key" /\ nat' = [nat EXCEPT !.pc = "next"] /\ UNCHANGED leg
  <2>1. /\ nat' \in NatRec /\ nat'.pc = "next" /\ nat'.g = nat.g /\ nat'.pic = nat.pic
        /\ nat'.mapped = nat.mapped /\ nat'.proj = nat.proj /\ nat'.key = nat.key /\ curKey' = curKey
    BY <1>1, <1>2, <1>4 DEF NatRec, World
  <2>2. nat.key = curKey => \A q \in Gens : nat.mapped /\ nat.proj = q => HasProject(q)'
    BY <1>1, <1>2, ProjectStays DEF NatKept, NatNow
  <2>3. NatShape'
    BY <1>1, <1>4, <2>1 DEF NatShape, InHand
  <2>4. NatKept'
    BY <2>1, <2>2, <2>3 DEF NatKept, NatNow, Met, InHand, Gens
  <2>5. LegKept' /\ LegType'
    BY <1>1, <1>2, <1>4, LegStays DEF LegType, LegRec, Workers, Active
  <2>6. RunKept'
    BY <1>1, <1>3, <1>4, <2>1 DEF RunKept, Running
  <2>7. ~RowsMove => PicsKept'
    BY <1>2, <1>4, <2>1, InvParts, PicsQuiet DEF World
  <2> QED
    BY <1>2, <1>3, <2>1, <2>4, <2>5, <2>6, <2>7, InvPartsNext
<1>5. CASE leg.pc = "key" /\ leg' = [leg EXCEPT !.pc = "parse"] /\ UNCHANGED nat
  <2>1. /\ leg' \in LegRec /\ leg'.pc = "parse" /\ leg'.pos = leg.pos /\ leg'.seen = leg.seen
        /\ leg'.at = leg.at /\ leg'.v = leg.v /\ leg'.key = leg.key
    BY <1>1, <1>5 DEF LegRec
  <2>2. LegType'
    BY <1>1, <2>1 DEF LegType, LegRec, Workers, Active
  <2>3. leg'.seen = {Listing[k][1] : k \in 1..(leg'.pos - 1)}
    BY <1>1, <2>1 DEF LegKept
  <2>4. LegKept'
    BY <1>1, <1>2, <2>1, <2>3, LegSame
  <2>5. KeepJobs /\ faults' = faults
    BY <1>2 DEF KeepJobs, jobVars
  <2> QED
    BY <1>2, <1>5, <2>1, <2>2, <2>4, <2>5, ParserStep
<1> QED
  BY <1>4, <1>5 DEF Opened

LEMMA StepInv == ASSUME ImportInv, NEW j \in Jobs, Step(j) PROVE ImportInv'
<1>1. JobsInv /\ nat \in NatRec
  BY InvParts
<1>2. job[j].st = "running" /\ faults \in 0..MaxFaults
  BY <1>1, JobsFacts DEF Step
<1>3. ASSUME Open(j) PROVE ImportInv'
  <2>1. CASE Opened
    BY <1>3, <2>1, OpenedInv DEF Open
  <2>2. CASE Finish(j, "failed") /\ faults' \in 0..MaxFaults
    BY <1>2, <2>2, FinishInv
  <2> QED
    BY <1>1, <1>2, <1>3, <2>1, <2>2, FaultType DEF Open, ArchiveRejected, BackupRejected
<1>4. ASSUME NatNext(j) PROVE ImportInv'
  <2>1. CASE Finish(j, "completed") /\ UNCHANGED faults
    BY <1>2, <2>1, FinishInv
  <2>2. CASE ~(nat.i > Len(Graph))
    <3>1. nat.i \in 1..3
      BY <1>1, <2>2, GraphIs DEF NatRec
    <3> QED
      BY <1>4, <2>2, <3>1, NatNextStep DEF NatNext
  <2> QED
    BY <1>4, <2>1, <2>2 DEF NatNext
<1>5. ASSUME LegEnd(j) PROVE ImportInv'
  <2>1. PICK st \in {"completed", "failed"} : Finish(j, st)
    BY <1>5 DEF LegEnd
  <2>2. faults' \in 0..MaxFaults
    BY <1>2, <1>5 DEF LegEnd
  <2> QED
    BY <1>2, <2>1, <2>2, FinishInv
<1> QED
  BY <1>3, <1>4, <1>5, InspectStep, BuildStep, PushEntityStep, VerifyStep, CleanStep,
     EmitStep, ParseEndStep, ProbeStep, PushChatStep, CheckStep DEF Step

LEMMA PanicInv == ASSUME ImportInv, NEW j \in Jobs, job[j].st = "running", Panic(j) PROVE ImportInv'
<1>1. Finish(j, "failed") /\ faults' \in 0..MaxFaults
  BY InvParts, FaultType DEF Panic
<1> QED
  BY <1>1, FinishInv
-----------------------------------------------------------------------------
(* Late requests and the user. *)

LEMMA WorldMoves ==
    ASSUME ImportInv, UNCHANGED <<jobVars, nat, leg>>, WorldInv', NatKept', LegKept', ~RowsMove => PicsKept'
    PROVE  ImportInv'
<1>1. /\ JobsInv /\ nat \in NatRec /\ LegType /\ RunKept
  BY InvParts
<1>2. JobsInv'
  BY <1>1, QuietStep, JobsFacts DEF jobVars
<1>3. LegType'
  BY <1>1 DEF LegType, LegRec, Workers, Active
<1>4. RunKept'
  BY <1>1 DEF RunKept, jobVars, Jobs
<1> QED
  BY <1>1, <1>2, <1>3, <1>4, InvPartsNext

LEMMA WorldGrows ==
    ASSUME ImportInv, UNCHANGED <<jobVars, nat, leg>>, WorldInv', Grow, ~RowsMove => PicsKept'
    PROVE  ImportInv'
BY InvParts, NatStays, LegStays, WorldMoves

LEMMA LatePutInv == ASSUME ImportInv, NEW p \in late, LatePut(p) PROVE ImportInv'
<1>1. WorldInv /\ WorldType /\ RowsKept /\ KeysKept /\ pics \subseteq Rows
  BY NatFacts, PicsAre DEF WorldInv
<1>2. p \in Puts /\ May(p)
  BY <1>1 DEF WorldType, RowsKept, KeysKept, May
<1>3. UNCHANGED <<jobVars, curKey, pics, nat, leg, gone, edits>> /\ late' \subseteq late
  BY DEF LatePut
<1>4. LateKept
  BY <1>1, <1>3 DEF LateKept, WorldType
<1>5. (Commit(p) \/ UNCHANGED <<rows, idem>>) /\ PutsOnly(p)
  BY <1>1, <1>2, CommitOnly DEF LatePut, PutsOnly
<1>6. WorldInv' /\ Grow
  BY <1>1, <1>2, <1>3, <1>4, <1>5, CommitWorld, QuietWorld
<1>7. ASSUME ~RowsMove PROVE PicsKept'
  <2>1. PicsBase /\ PicsHand /\ PicsApart
    BY <1>7, InvParts DEF PicsKept
  <2>2. Made(p).st = "ours" /\ Made(p).key = p.key
    BY <1>2, MadeIs
  <2>3. p.pic /\ p.key = curKey => p.row \in pics
    BY <2>1, Zenon DEF PicsBase
  <2>4. PicsBase'
    BY <1>1, <1>2, <1>3, <1>5, <2>1, <2>3, PicsCommit
  <2>5. HandKept
    <3> SUFFICES ASSUME nat.pc \in {"build", "push", "verify", "clean"} PROVE HandKept
      BY DEF HandKept
    <3>1. Row \in Rows
      BY DecidedRow
    <3>2. nat.pc = "clean" => p.row # Row
      BY <2>1 DEF PicsHand
    <3> QED
      BY <1>3, <1>5, <2>2, <3>1, <3>2 DEF HandKept, PutsOnly
  <2>6. PicsApart'
    BY <1>3, <1>5, <2>1, <2>2 DEF PicsApart, PutsOnly
  <2> QED
    BY <1>3, <2>1, <2>4, <2>5, <2>6, PicsHandStays DEF PicsKept
<1> QED
  BY <1>3, <1>6, <1>7, WorldGrows

LEMMA EditInv == ASSUME ImportInv, NEW r \in Rows, Edit(r) PROVE ImportInv'
<1>1. WorldInv /\ WorldType
  BY NatFacts
<1>2. WorldInv' /\ Grow
  BY <1>1, EditWorld
<1>3. /\ UNCHANGED <<jobVars, curKey, idem, late, pics, nat, leg, gone>>
      /\ rows' = [rows EXCEPT ![r].st = "edited"]
  BY DEF Edit
<1>4. ASSUME ~RowsMove PROVE PicsKept'
  <2>1. PicsBase /\ PicsHand /\ PicsApart
    BY <1>4, InvParts DEF PicsKept
  <2>2. /\ rows'[r].pic = rows[r].pic /\ rows'[r].key = rows[r].key
        /\ \A s \in Rows : s # r => rows'[s] = rows[s]
    BY <1>1, <1>3 DEF WorldType, RowType
  <2>3. \A s \in Rows : rows'[s].pic = rows[s].pic /\ rows'[s].key = rows[s].key
    BY <2>2
  <2>4. PicsBase'
    BY <1>3, <2>1, <2>3 DEF PicsBase, RestoredReadable
  <2>5. ~Decided(r)
    BY <1>4 DEF Edit, Touch
  <2>6. HandKept
    BY <1>3, <2>2, <2>5, DecidedRow DEF HandKept, Decided
  <2>7. PicsApart'
    BY <1>3, <2>1, <2>3 DEF PicsApart
  <2> QED
    BY <1>3, <2>1, <2>4, <2>6, <2>7, PicsHandStays DEF PicsKept
<1> QED
  BY <1>2, <1>3, <1>4, WorldGrows

LEMMA DeleteInv == ASSUME ImportInv, NEW r \in Rows, DeleteRow(r) PROVE ImportInv'
<1>1. WorldInv /\ WorldType /\ curKey # 0
  BY NatFacts, Keys
<1>2. WorldInv' /\ Grow
  BY <1>1, DeleteWorld
<1>3. /\ UNCHANGED <<jobVars, curKey, idem, late, nat, leg>> /\ rows' = [rows EXCEPT ![r] = Nothing]
      /\ pics' = pics \ {r}
  BY DEF DeleteRow
<1>4. ASSUME ~RowsMove PROVE PicsKept'
  <2>1. PicsBase /\ PicsHand /\ PicsApart
    BY <1>4, InvParts DEF PicsKept
  <2>2. rows'[r].key = 0 /\ \A s \in Rows : s # r => rows'[s] = rows[s]
    BY <1>1, <1>3, NothingIs DEF WorldType
  <2>3. ~Decided(r)
    BY <1>4 DEF DeleteRow, Touch
  <2>4. ASSUME NEW s \in Rows, rows'[s].pic, rows'[s].key = curKey PROVE s \in pics'
    <3>1. s # r
      BY <1>1, <2>2, <2>4
    <3>2. rows[s].pic /\ rows[s].key = curKey
      BY <2>2, <2>4, <3>1, Zenon
    <3> QED
      BY <1>3, <2>1, <3>1, <3>2 DEF PicsBase, RestoredReadable
  <2>5. ASSUME NEW p \in late', p.pic, p.key = curKey PROVE p.row \in pics'
    <3>1. p.row # r
      BY <1>3, <2>3, <2>5, Zenon DEF Decided
    <3> QED
      BY <1>3, <2>1, <2>5, <3>1 DEF PicsBase
  <2>6. PicsBase'
    BY <1>3, <2>4, <2>5 DEF PicsBase, RestoredReadable
  <2>7. HandKept
    BY <1>3, <2>2, <2>3, DecidedRow DEF HandKept, Decided
  <2>8. PicsApart'
    BY <1>1, <1>3, <2>1, <2>2 DEF PicsApart
  <2> QED
    BY <1>3, <2>1, <2>6, <2>7, <2>8, PicsHandStays DEF PicsKept
<1> QED
  BY <1>2, <1>3, <1>4, WorldGrows

\* Nobody who is under way has the new key, and under it there is nothing.
LEMMA RotateInv == ASSUME ImportInv, Rotate PROVE ImportInv'
<1>1. WorldInv /\ NatKept /\ NatShape /\ LegKept /\ nat \in NatRec /\ leg \in LegRec
  BY NatFacts, InvParts DEF LegType
<1>2. /\ WorldInv' /\ curKey' = curKey + 1 /\ curKey \in Nat
      /\ \A c \in Convs : NotPrior(c)'
      /\ \A r \in Rows : rows'[r] = Nothing
  BY <1>1, RotateWorld
<1>3. UNCHANGED <<jobVars, idem, late, nat, leg, gone>>
  BY DEF Rotate
<1>4. nat.key <= curKey' /\ leg.key <= curKey' /\ nat.key # curKey' /\ leg.key # curKey'
  <2>1. nat.key <= curKey /\ leg.key <= curKey /\ nat.key \in Nat /\ leg.key \in Nat
    BY <1>1, Keys DEF NatShape, LegKept, NatRec, LegRec
  <2> QED
    BY <1>2, <2>1
<1>5. NatKept'
  <2>1. NatShape'
    BY <1>1, <1>3, <1>4 DEF NatShape, InHand, Entity
  <2> QED
    BY <1>3, <1>4, <2>1 DEF NatKept
<1>6. LegKept'
  <2>1. \A c \in Convs, v \in {0, 1} : Active(c)' /\ leg.v[c] = v => Variant(c, v)
    BY <1>1, <1>3 DEF LegKept, Active
  <2> QED
    BY <1>1, <1>2, <1>3, <1>4, <2>1 DEF LegKept, Variant, FirstAt
<1>7. ASSUME ~RowsMove PROVE PicsKept'
  <2>1. PicsHand
    BY <1>7, InvParts DEF PicsKept
  <2>2. \A p \in late' : p.key # curKey'
    <3> SUFFICES ASSUME NEW p \in late PROVE p.key # curKey'
      BY <1>3
    <3>1. p \in Puts /\ p.key <= curKey
      BY <1>1 DEF WorldInv, WorldType, KeysKept
    <3> QED
      BY <1>2, <3>1, PutIs, Keys
  <2>3. \A r \in Rows : rows'[r].key # curKey'
    BY <1>2, NothingIs
  <2>4. PicsBase'
    BY <2>2, <2>3 DEF PicsBase, RestoredReadable
  <2>5. PicsApart'
    BY <2>2, <2>3 DEF PicsApart
  <2>6. PicsHand'
    BY <1>3, <1>4, <2>1 DEF PicsHand, Row, Entity
  <2> QED
    BY <2>4, <2>5, <2>6 DEF PicsKept
<1> QED
  BY <1>2, <1>3, <1>5, <1>6, <1>7, WorldMoves
-----------------------------------------------------------------------------
(* The invariant. *)

LEMMA ImportInitial == Init => ImportInv
<1> SUFFICES ASSUME Init PROVE ImportInv
  OBVIOUS
<1>1. JobsInv
  BY JobsInitial DEF Init
<1>2. nat = NoNat /\ leg = NoLeg /\ curKey = 1 /\ edits = 0 /\ idem = {} /\ late = {} /\ pics = {} /\ gone = {}
  BY DEF Init
<1>3. PICK k \in {0, 1} :
        rows = [r \in Rows |-> IF r[1] \in OldConvs /\ r[2] = Prior
                               THEN [Nothing EXCEPT !.st = "prior", !.key = k] ELSE Nothing]
  BY DEF Init
<1> DEFINE old == [Nothing EXCEPT !.st = "prior", !.key = k]
<1>4. old \in RowType /\ old.st = "prior" /\ ~old.pic
  BY NothingIs, Keys DEF Nothing, RowType
<1> HIDE DEF old
<1>5. ASSUME NEW r \in Rows
      PROVE  \/ rows[r] = old /\ r[1] \in OldConvs /\ r[2] = Prior
             \/ rows[r] = Nothing
  <2>1. rows[r] = IF r[1] \in OldConvs /\ r[2] = Prior THEN old ELSE Nothing
    BY <1>3 DEF old
  <2> QED
    BY <2>1, Zenon
<1>6. WorldType
  <2>1. rows \in [Rows -> RowType]
    <3>1. ASSUME NEW r \in Rows
          PROVE  (IF r[1] \in OldConvs /\ r[2] = Prior THEN old ELSE Nothing) \in RowType
      BY <1>4, NothingIs, Zenon
    <3> QED
      BY <1>3, <3>1, Zenon DEF old
  <2>2. 0 \in 0..MaxEdits /\ 1 \in KeyIds
    BY Keys
  <2> QED
    BY <1>2, <2>1, <2>2 DEF WorldType
<1>7. KeysKept
  BY <1>2 DEF KeysKept
<1>8. RowsKept
  <2>1. ASSUME NEW r \in Rows PROVE Once(r) /\ rows[r].st \notin {"ours", "edited"}
    BY <1>4, <1>5, NothingIs DEF Once
  <2> QED
    BY <1>2, <2>1 DEF RowsKept
<1>9. nat \in NatRec /\ NatKept
  <2>1. nat.key <= curKey
    BY <1>2, NoNatIs
  <2> QED
    BY <1>2, <2>1, NoNatIs DEF NatKept, NatShape, NatNow, Met, InHand
<1>10. LegType /\ LegKept
  <2>1. leg.seen = {} /\ leg.pos = 1 /\ leg.key = 0 /\ \A c \in Convs : leg.at[c] = "none"
    BY <1>2 DEF NoLeg
  <2>2. 1 \in 1..(Len(Listing) + 1) /\ 1 \in 1..ImportRetryMaxAttempts /\ 0 \in AnyKey
    BY ImportRunConstants, Keys DEF ImportRetryMaxAttempts
  <2>3. NoLeg \in LegRec
    BY <2>2, Zenon DEF NoLeg, LegRec, WorkerStates
  <2>4. Cardinality(Workers) <= Pool
    <3>1. Workers = {}
      BY <2>1 DEF Workers, Active
    <3> QED
      BY <3>1, FS_EmptySet, ImportRunConstants
  <2>5. {Listing[i][1] : i \in 1..(1 - 1)} = {}
    OBVIOUS
  <2> QED
    BY <1>2, <2>1, <2>3, <2>4, <2>5 DEF LegType, LegKept, Active
<1>11. RunKept
  <2>1. \A j \in Jobs : job[j].st # "running"
    BY DEF Init, JobsInit, NoJob
  <2> QED
    BY <1>2, <2>1 DEF RunKept, NoNat, NoLeg
<1>12. PicsKept
  <2>1. nat.pc = "off"
    BY <1>2, NoNatIs
  <2>2. \A r \in Rows : ~rows[r].pic
    <3> SUFFICES ASSUME NEW r \in Rows PROVE ~rows[r].pic
      OBVIOUS
    <3>1. rows[r] = old \/ rows[r] = Nothing
      BY <1>5
    <3> QED
      BY <1>4, <3>1, NothingIs, Zenon
  <2> QED
    BY <1>2, <2>1, <2>2 DEF PicsKept, PicsBase, PicsHand, PicsApart, RestoredReadable
<1> QED
  BY <1>1, <1>6, <1>7, <1>8, <1>9, <1>10, <1>11, <1>12, InvParts DEF WorldInv

LEMMA ImportStep == ImportInv /\ [Next]_vars => ImportInv'
<1> SUFFICES ASSUME ImportInv, [Next]_vars PROVE ImportInv'
  OBVIOUS
<1>1. CASE UNCHANGED vars
  <2>1. UNCHANGED <<jobVars, nat, leg, World>>
    BY <1>1 DEF vars, runVars, World
  <2>2. WorldInv' /\ Grow
    BY <2>1, SameWorld, PicsAre DEF World
  <2>3. ~RowsMove => PicsKept'
    BY <2>1, InvParts, PicsQuiet DEF World
  <2> QED
    BY <2>1, <2>2, <2>3, WorldGrows
<1>2. CASE Coordinator /\ UNCHANGED runVars
  <2>1. JobsInv' /\ (Running' <=> Running)
    BY <1>2, InvParts, CoordinatorStep DEF Running, Jobs
  <2> QED
    BY <1>2, <2>1, CoordinatorInv
<1> QED
  BY <1>1, <1>2, StartInv, StepInv, PanicInv, EditInv, DeleteInv, LatePutInv, RotateInv, RestartInv
     DEF Next

\* Of every import, whatever the archive and however jobs, requests, faults, edits
\* and fresh starts interleave, the whole invariant holds.
THEOREM ImportInvariant == Spec => []ImportInv
BY ImportInitial, ImportStep, PTL DEF Spec

\* The state of coordinator, runs and controlplane is well formed; a chunk under
\* way is one its job waits for, and the pool never has more workers than its limit.
THEOREM ImportTyped == Spec => []TypeOK
<1>1. ImportInv => TypeOK
  BY DEF ImportInv
<1> QED
  BY <1>1, ImportInvariant, PTL

\* The coordinator's map holds every job that is staging or running: the retention
\* timer of a finished job never removes its successor.
THEOREM ImportReachable == Spec => []LiveReachable
<1>1. ImportInv => LiveReachable
  BY DEF ImportInv, JobsInv
<1> QED
  BY <1>1, ImportInvariant, PTL

\* A run finds its whole archive, even when upload handlers are overtaken by the
\* reaper: beginChunk and start agree on what was received, and cleanups never
\* touch the chunks of a live job.
THEOREM ImportStaged == Spec => []StagedForRun
<1>1. ImportInv => StagedForRun
  <2> SUFFICES ASSUME ImportInv, NEW j \in Jobs, job[j].st = "running", NEW c \in Chunks
               PROVE  <<j, c>> \in staged
    BY DEF StagedForRun
  <2> QED
    BY JobsFacts, InvParts DEF Live
<1> QED
  BY <1>1, ImportInvariant, PTL

\* What the current key opens was put there for a reason.
LEMMA OursJustified ==
    ASSUME ImportInv, NEW r \in Rows, Ours(r, curKey)
    PROVE  rows[r].proj \in Gens /\ Justified(r, rows[r].proj, curKey)
<1>1. WorldType /\ RowsKept /\ curKey \in AnyKey
  BY NatFacts, Keys DEF WorldInv
<1>2. rows[r].proj \in Gens
  BY <1>1 DEF WorldType, RowType
<1> QED
  BY <1>1, <1>2 DEF RowsKept, Ours

\* restoreNativeEntity restores documents and chats only into a project that was
\* restored, under whichever generation of its id.
THEOREM ImportPlaced == Spec => []Placed
<1>1. ImportInv => Placed
  <2> SUFFICES ASSUME ImportInv, NEW r \in Rows, r[1] \in {"document", "chat"}, Ours(r, curKey)
               PROVE  rows[<<"project", rows[r].proj, 0>>].st # "absent" \/ "project" \in gone
    BY DEF Placed
  <2> QED
    BY OursJustified DEF Justified, HasProject
<1> QED
  BY <1>1, ImportInvariant, PTL

LEMMA VariantUnique ==
    ASSUME NEW c, NEW v, NEW w, Variant(c, v), Variant(c, w)
    PROVE  v = w
<1>1. PICK i \in DOMAIN Listing : FirstAt(c, i) /\ Listing[i][2] = v
  BY DEF Variant
<1>2. PICK k \in DOMAIN Listing : FirstAt(c, k) /\ Listing[k][2] = w
  BY DEF Variant
<1>3. i \in Nat /\ k \in Nat
  BY ImportRunConstants
<1>4. ~(i < k) /\ ~(k < i)
  BY <1>1, <1>2 DEF FirstAt
<1>5. i = k
  BY <1>3, <1>4
<1> QED
  BY <1>1, <1>2, <1>5

\* A chat of a conversation is the one of the earlier release, or there is none of
\* that.
LEMMA OneChat ==
    ASSUME ImportInv, NEW c \in Convs, NEW u \in {0, 1, Prior}, rows[<<c, u, 0>>].st # "absent"
    PROVE  u = Prior \/ (u # Prior /\ Variant(c, u) /\ NotPrior(c))
<1> DEFINE r == <<c, u, 0>>
<1>1. r \in Rows /\ r[1] = c /\ r[2] = u
  BY RowsHave
<1>2. WorldType /\ RowsKept
  BY NatFacts DEF WorldInv
<1>3. /\ Once(r) /\ rows[r].proj \in Gens /\ rows[r].key \in AnyKey
      /\ rows[r].st \in {"ours", "edited", "prior"}
  BY <1>1, <1>2 DEF RowsKept, WorldType, RowType
<1> HIDE DEF r
<1>4. CASE rows[r].st = "prior"
  BY <1>1, <1>3, <1>4 DEF Once
<1>5. CASE rows[r].st \in {"ours", "edited"}
  <2>1. Justified(r, rows[r].proj, rows[r].key)
    BY <1>1, <1>2, <1>3, <1>5 DEF RowsKept
  <2> QED
    BY <1>1, <2>1 DEF Justified
<1> QED
  BY <1>3, <1>4, <1>5

\* Repeated imports, repeated pushes, late requests, look-ups and new keys never
\* bring a second chat of a conversation, nor a second unedited copy of an entity
\* that the user's key opens, whether or not the controlplane remembers idempotency
\* keys.
THEOREM ImportNoDuplicate == Spec => []NoDuplicate
<1>1. ASSUME ImportInv PROVE NoDuplicate
  <2>1. ASSUME NEW c \in Convs, NEW v \in {0, 1, Prior}, NEW w \in {0, 1, Prior},
               rows[<<c, v, 0>>].st # "absent", rows[<<c, w, 0>>].st # "absent"
        PROVE  v = w
    <3>1. v = Prior \/ (v # Prior /\ Variant(c, v) /\ NotPrior(c))
      BY <1>1, <2>1, OneChat
    <3>2. w = Prior \/ (w # Prior /\ Variant(c, w) /\ NotPrior(c))
      BY <1>1, <2>1, OneChat
    <3> QED
      BY <2>1, <3>1, <3>2, VariantUnique DEF NotPrior
  <2>2. ASSUME NEW r \in Rows, NEW s \in Rows, r[1] \in Entities \ gone, Ours(r, curKey),
               Ours(s, curKey), r[1] = s[1], r[3] = s[3], r[2] \in Gens, s[2] \in Gens
        PROVE  ~(r[2] < s[2])
    <3>1. Passed(s[1], s[2], s[3])
      BY <1>1, <2>2, OursJustified DEF Justified
    <3>2. r = <<s[1], r[2], s[3]>>
      BY <2>2, RowsHave
    <3> QED
      BY <2>2, <3>1, <3>2 DEF Passed, Taken
  <2>3. ASSUME NEW r \in Rows, NEW s \in Rows, r[1] \in Entities \ gone, s[1] \in Entities \ gone,
               Ours(r, curKey), Ours(s, curKey), r[1] = s[1], r[3] = s[3]
        PROVE  r = s
    <3>1. r[2] \in Gens /\ s[2] \in Gens
      BY <2>3, RowsHave, ConvsApart
    <3>2. r[2] = s[2]
      BY <2>2, <2>3, <3>1, GensNat
    <3>3. r = <<r[1], r[2], r[3]>> /\ s = <<s[1], s[2], s[3]>>
      BY RowsHave
    <3> QED
      BY <2>3, <3>2, <3>3
  <2> QED
    BY <2>1, <2>3 DEF NoDuplicate
<1> QED
  BY <1>1, ImportInvariant, PTL

\* As long as no row changes under a restore that has looked at it, the cleanup
\* after a push that did not succeed never takes an image a chat refers to.
THEOREM ImportReadable == ASSUME ~RowsMove PROVE Spec => []RestoredReadable
<1>1. ImportInv => RestoredReadable
  BY DEF ImportInv, PicsKept, PicsBase
<1> QED
  BY <1>1, ImportInvariant, PTL

\* What sealImportedChat and restoreNativeEntity count as there is there, whether
\* the answer came from a push, an idempotency table or a look, even under rows that
\* move and parsers that panic.
THEOREM ImportReported == Spec => []ReportedThere
<1>1. ASSUME ImportInv PROVE ReportedThere
  <2>1. nat \in NatRec /\ NatKept /\ LegKept
    BY <1>1, InvParts
  <2>2. nat.proj \in Gens
    BY <2>1 DEF NatRec
  <2>3. nat.mapped /\ nat.key = curKey => HasProject(nat.proj)
    BY <2>1, <2>2 DEF NatKept, NatNow
  <2> QED
    BY <2>1, <2>3 DEF ReportedThere, LegKept, HasChat, HasProject
<1> QED
  BY <1>1, ImportInvariant, PTL
=============================================================================
