------------------------- MODULE ReindexJobs_proofs -------------------------
(***************************************************************************)
(* Kickoffs cannot stack rebuilds, for any number of kickoffs and jobs:    *)
(* proofs of TypeOK and OneRebuild.                                        *)
(***************************************************************************)
EXTENDS ReindexJobs, FiniteSetTheorems, TLAPS

-----------------------------------------------------------------------------
(* The inductive invariant. *)

\* A job that was never created is nowhere.
Created ==
    /\ \A j \in Jobs : job[j].pc = "none" <=> job[j].st = "none"
    /\ cur # 0 => job[cur].st # "none"

\* A kickoff that is about to launch its job is the only one to, and the job it
\* replaced is another one.
Launching ==
    /\ \A k \in Kickoffs : kick[k].pc = "launch" =>
         kick[k].mine \in Jobs /\ job[kick[k].mine].pc = "new" /\ kick[k].seen # kick[k].mine
    /\ \A k, m \in Kickoffs :
         kick[k].pc = "launch" /\ kick[m].pc = "launch" /\ kick[k].mine = kick[m].mine => k = m

ReindexInv == TypeOK /\ OneRebuild /\ Created /\ Launching

JobType == [pc : {"none", "new", "wait", "load", "page", "publish", "done"},
            st : {"none", "running", "clean", "partial", "failed"},
            fp : Requests \cup {"none"}, ctx : BOOLEAN, pred : Jobs \cup {0}, gap : BOOLEAN]
KickType == [pc : {"idle", "ask", "launch"}, fp : Requests \cup {"none"},
             seen : Jobs \cup {0}, mine : Jobs \cup {0}]
Final == {"clean", "partial", "failed"}

LEMMA Typed ==
    TypeOK <=> /\ {cur, reset} \subseteq Jobs \cup {0}
               /\ job \in [Jobs -> JobType] /\ kick \in [Kickoffs -> KickType]
               /\ \A j \in Jobs : job[j].pc = "done" <=> job[j].st \in Final
BY DEF TypeOK, JobType, KickType, Final

LEMMA TypedNext ==
    TypeOK' <=> /\ {cur', reset'} \subseteq Jobs \cup {0}
                /\ job' \in [Jobs -> JobType] /\ kick' \in [Kickoffs -> KickType]
                /\ \A j \in Jobs : job'[j].pc = "done" <=> job'[j].st \in Final
BY DEF TypeOK, JobType, KickType, Final

LEMMA ZeroNoJob == 0 \notin Jobs
BY ReindexConstants, FS_CardinalityType
-----------------------------------------------------------------------------
(* Steps of the jobs. *)

\* What a step makes of a job: it may end, but not begin, to be one that runs with
\* a live context, and a job that was not launched stays so.
Becomes(j, r) ==
    /\ r \in JobType
    /\ r.pc = "done" <=> r.st \in Final
    /\ r.pc = "none" <=> r.st = "none"
    /\ job[j].st # "none" => r.st # "none"
    /\ job[j].pc = "new" => r.pc = "new"
    /\ r.st = "running" /\ ~r.ctx => Running(j) /\ ~job[j].ctx

LEMMA JobStep ==
    ASSUME ReindexInv, NEW j \in Jobs, NEW r, Becomes(j, r),
           job' = [job EXCEPT ![j] = r], UNCHANGED <<cur, kick>>,
           reset' = reset \/ (reset' = 0 /\ reset = j /\ r.ctx)
    PROVE  ReindexInv'
<1>1. /\ job \in [Jobs -> JobType] /\ kick \in [Kickoffs -> KickType] /\ r \in JobType
      /\ {cur, reset} \subseteq Jobs \cup {0}
      /\ \A i \in Jobs : job[i].pc = "done" <=> job[i].st \in Final
  BY Typed DEF ReindexInv, Becomes
<1>2. job'[j] = r /\ \A i \in Jobs \ {j} : job'[i] = job[i]
  BY <1>1
<1>3. TypeOK'
  <2>1. job' \in [Jobs -> JobType] /\ {cur', reset'} \subseteq Jobs \cup {0}
    BY <1>1
  <2>2. \A i \in Jobs : job'[i].pc = "done" <=> job'[i].st \in Final
    BY <1>1, <1>2 DEF Becomes
  <2> QED
    BY <1>1, <2>1, <2>2, TypedNext
<1>4. OneRebuild'
  <2>1. ASSUME NEW i \in Jobs, job'[i].st = "running", ~job'[i].ctx
        PROVE  cur' = i \/ reset' = i \/ \E k \in Kickoffs : kick'[k].pc = "launch" /\ kick'[k].seen = i
    <3>1. Running(i) /\ ~job[i].ctx
      BY <1>2, <2>1 DEF Becomes, Running
    <3>2. reset = i => reset' = i
      BY <1>2, <2>1
    <3> QED
      BY <3>1, <3>2 DEF ReindexInv, OneRebuild
  <2> QED
    BY <2>1 DEF OneRebuild, Running
<1>5. Created'
  BY <1>1, <1>2 DEF ReindexInv, Created, Becomes
<1>6. Launching'
  BY <1>1, <1>2 DEF ReindexInv, Launching, Becomes
<1> QED
  BY <1>3, <1>4, <1>5, <1>6 DEF ReindexInv

\* The end of a run.
LEMMA FinishStep ==
    ASSUME ReindexInv, NEW j \in Jobs, NEW st \in Final, Finish(j, st),
           job[j].pc # "new", UNCHANGED <<cur, kick, reset>>
    PROVE  ReindexInv'
<1> DEFINE r == [NoJob EXCEPT !.pc = "done", !.st = st, !.ctx = TRUE,
                              !.fp = IF cur = j THEN job[j].fp ELSE "none"]
<1>1. job \in [Jobs -> JobType]
  BY Typed DEF ReindexInv
<1>2. r \in JobType /\ r.pc = "done" /\ r.st = st /\ r.ctx = TRUE
  BY <1>1 DEF JobType, NoJob, Final
<1>3. job' = [job EXCEPT ![j] = r]
  BY DEF Finish
<1> HIDE DEF r
<1>4. Becomes(j, r)
  BY <1>2 DEF Becomes, Final
<1> QED
  BY <1>3, <1>4, JobStep

LEMMA RunStepStep ==
    ASSUME ReindexInv, NEW j \in Jobs, RunStep(j)
    PROVE  ReindexInv'
<1>1. /\ job \in [Jobs -> JobType] /\ UNCHANGED <<cur, kick, reset>>
      /\ job[j].pc = "done" <=> job[j].st \in Final
      /\ job[j].pc = "none" <=> job[j].st = "none"
  BY Typed DEF ReindexInv, Created, RunStep
\* A run goes on.
<1>2. ASSUME NEW pc \in {"load", "page", "publish"}, NEW gap \in BOOLEAN,
             job[j].pc \in {"wait", "load", "page", "publish"},
             job' = [job EXCEPT ![j] = [job[j] EXCEPT !.pc = pc, !.gap = gap]]
      PROVE  ReindexInv'
  <2> DEFINE r == [job[j] EXCEPT !.pc = pc, !.gap = gap]
  <2>1. r \in JobType /\ r.pc = pc /\ r.st = job[j].st /\ r.ctx = job[j].ctx
    BY <1>1, <1>2 DEF JobType
  <2>2. job[j].st \notin Final \cup {"none"}
    BY <1>1, <1>2
  <2> HIDE DEF r
  <2>3. Becomes(j, r)
    BY <1>1, <1>2, <2>1, <2>2 DEF Becomes, Running, Final
  <2> QED
    BY <1>1, <1>2, <2>3, JobStep DEF r
<1>3. ASSUME NEW pc \in {"load", "page", "publish"},
             job[j].pc \in {"wait", "load", "page", "publish"},
             job' = [job EXCEPT ![j].pc = pc]
      PROVE  ReindexInv'
  <2>1. [job[j] EXCEPT !.pc = pc] = [job[j] EXCEPT !.pc = pc, !.gap = job[j].gap]
    BY <1>1 DEF JobType
  <2>2. job' = [job EXCEPT ![j] = [job[j] EXCEPT !.pc = pc, !.gap = job[j].gap]]
    BY <1>3, <2>1
  <2>3. job[j].gap \in BOOLEAN
    BY <1>1 DEF JobType
  <2> QED
    BY <1>2, <1>3, <2>2, <2>3
<1>4. ASSUME NEW st \in Final, Finish(j, st), job[j].pc # "new"
      PROVE  ReindexInv'
  BY <1>1, <1>4, FinishStep
<1>5. CASE RunBegins(j)
  BY <1>3, <1>5 DEF RunBegins
<1>6. CASE Load(j)
  BY <1>3, <1>4, <1>6 DEF Load, Broken, CutShort, Final
<1>7. CASE Page(j)
  BY <1>3, <1>4, <1>7 DEF Page, CutShort, Final
<1>8. CASE Publish(j)
  <2>1. ASSUME NEW gap \in {job[j].gap, TRUE}, job' = [job EXCEPT ![j].pc = "page", ![j].gap = gap]
        PROVE  ReindexInv'
    <3>1. gap \in BOOLEAN
      BY <1>1 DEF JobType
    <3>2. job' = [job EXCEPT ![j] = [job[j] EXCEPT !.pc = "page", !.gap = gap]]
      BY <2>1
    <3> QED
      BY <1>2, <1>8, <3>1, <3>2 DEF Publish
  <2> QED
    BY <1>4, <1>8, <2>1 DEF Publish, Broken, CutShort, Final
<1> QED
  BY <1>5, <1>6, <1>7, <1>8 DEF RunStep

\* Contexts that end.
LEMMA ContextStep ==
    ASSUME ReindexInv, NEW j \in Jobs, job' = [job EXCEPT ![j].ctx = TRUE], UNCHANGED <<cur, kick>>,
           reset' = reset \/ (reset' = 0 /\ reset = j)
    PROVE  ReindexInv'
<1> DEFINE r == [job[j] EXCEPT !.ctx = TRUE]
<1>1. /\ job \in [Jobs -> JobType]
      /\ job[j].pc = "done" <=> job[j].st \in Final
      /\ job[j].pc = "none" <=> job[j].st = "none"
  BY Typed DEF ReindexInv, Created
<1>2. r \in JobType /\ r.pc = job[j].pc /\ r.st = job[j].st /\ r.ctx = TRUE
  BY <1>1 DEF JobType
<1>3. job' = [job EXCEPT ![j] = r]
  OBVIOUS
<1> HIDE DEF r
<1>4. Becomes(j, r)
  BY <1>1, <1>2 DEF Becomes
<1> QED
  BY <1>2, <1>3, <1>4, JobStep
-----------------------------------------------------------------------------
(* Steps of the kickoffs. *)

\* The new job takes the place of the one in the map, which the kickoff will cancel.
LEMMA ReplaceStep ==
    ASSUME ReindexInv, NEW k \in Kickoffs, kick[k].pc # "launch",
           NEW q \in Requests \cup {"none"}, Replace(k, q, cur), UNCHANGED reset
    PROVE  ReindexInv'
<1>1. /\ job \in [Jobs -> JobType] /\ kick \in [Kickoffs -> KickType]
      /\ {cur, reset} \subseteq Jobs \cup {0}
      /\ \A i \in Jobs : job[i].pc = "done" <=> job[i].st \in Final
  BY Typed DEF ReindexInv
<1>2. PICK j \in Jobs :
        /\ job[j].st = "none"
        /\ job' = [job EXCEPT ![j] = [NoJob EXCEPT !.pc = "new", !.st = "running", !.fp = q]]
        /\ cur' = j
        /\ kick' = [kick EXCEPT ![k] = [NoKick EXCEPT !.pc = "launch", !.seen = cur, !.mine = j]]
  BY DEF Replace
<1> DEFINE r == [NoJob EXCEPT !.pc = "new", !.st = "running", !.fp = q]
           o == [NoKick EXCEPT !.pc = "launch", !.seen = cur, !.mine = j]
<1>3. r \in JobType /\ r.pc = "new" /\ r.st = "running"
  BY DEF JobType, NoJob
<1>4. o \in KickType /\ o.pc = "launch" /\ o.seen = cur /\ o.mine = j
  BY <1>1 DEF KickType, NoKick
<1>5. /\ job'[j] = r /\ \A i \in Jobs \ {j} : job'[i] = job[i]
      /\ kick'[k] = o /\ \A m \in Kickoffs \ {k} : kick'[m] = kick[m]
  BY <1>1, <1>2
<1>6. job' \in [Jobs -> JobType] /\ kick' \in [Kickoffs -> KickType]
  BY <1>1, <1>2, <1>3, <1>4
<1> HIDE DEF r, o
<1>7. TypeOK'
  <2>1. \A i \in Jobs : job'[i].pc = "done" <=> job'[i].st \in Final
    BY <1>1, <1>3, <1>5 DEF Final
  <2> QED
    BY <1>1, <1>2, <1>6, <2>1, TypedNext
<1>8. OneRebuild'
  <2>1. ASSUME NEW i \in Jobs, job'[i].st = "running", ~job'[i].ctx
        PROVE  cur' = i \/ reset' = i \/ \E m \in Kickoffs : kick'[m].pc = "launch" /\ kick'[m].seen = i
    <3>1. CASE i = j
      BY <1>2, <3>1
    <3>2. CASE i # j
      <4>1. Running(i) /\ ~job[i].ctx
        BY <1>5, <2>1, <3>2 DEF Running
      <4>2. CASE cur = i
        BY <1>4, <1>5, <4>2
      <4>3. CASE reset = i
        BY <4>3
      <4>4. CASE \E m \in Kickoffs : kick[m].pc = "launch" /\ kick[m].seen = i
        BY <1>5, <4>4
      <4> QED
        BY <4>1, <4>2, <4>3, <4>4 DEF ReindexInv, OneRebuild
    <3> QED
      BY <3>1, <3>2
  <2> QED
    BY <2>1 DEF OneRebuild, Running
<1>9. Created'
  BY <1>2, <1>3, <1>5 DEF ReindexInv, Created
<1>10. Launching'
  <2>1. \A m \in Kickoffs : kick[m].pc = "launch" => kick[m].mine # j
    BY <1>2 DEF ReindexInv, Launching, Created
  <2>2. cur # j
    BY <1>2, ZeroNoJob DEF ReindexInv, Created
  <2> QED
    BY <1>3, <1>4, <1>5, <2>1, <2>2 DEF ReindexInv, Launching
<1> QED
  BY <1>7, <1>8, <1>9, <1>10 DEF ReindexInv

\* A kickoff that has no job to launch and gets none.
LEMMA AskStep ==
    ASSUME ReindexInv, NEW k \in Kickoffs, kick[k].pc # "launch",
           NEW o \in KickType, o.pc # "launch", kick' = [kick EXCEPT ![k] = o],
           UNCHANGED <<cur, job, reset>>
    PROVE  ReindexInv'
<1>1. /\ job \in [Jobs -> JobType] /\ kick \in [Kickoffs -> KickType]
      /\ {cur, reset} \subseteq Jobs \cup {0}
      /\ \A i \in Jobs : job[i].pc = "done" <=> job[i].st \in Final
  BY Typed DEF ReindexInv
<1>2. kick'[k] = o /\ \A m \in Kickoffs \ {k} : kick'[m] = kick[m]
  BY <1>1
<1>3. TypeOK'
  BY <1>1, TypedNext
<1>4. OneRebuild' /\ Created' /\ Launching'
  BY <1>2 DEF ReindexInv, OneRebuild, Running, Created, Launching
<1> QED
  BY <1>3, <1>4 DEF ReindexInv

LEMMA ConsiderStep ==
    ASSUME ReindexInv, NEW k \in Kickoffs, kick[k].pc # "launch",
           NEW q \in Requests \cup {"none"}, Consider(k, q), UNCHANGED reset
    PROVE  ReindexInv'
<1>1. NoKick \in KickType /\ NoKick.pc = "idle"
  BY DEF NoKick, KickType
<1>2. CASE kick' = [kick EXCEPT ![k] = NoKick] /\ UNCHANGED <<cur, job>>
  BY <1>1, <1>2, AskStep
<1>3. CASE /\ kick' = [kick EXCEPT ![k] = [NoKick EXCEPT !.pc = "ask", !.fp = q, !.seen = cur]]
           /\ UNCHANGED <<cur, job>>
  <2> DEFINE o == [NoKick EXCEPT !.pc = "ask", !.fp = q, !.seen = cur]
  <2>1. o \in KickType /\ o.pc = "ask"
    BY DEF NoKick, KickType, ReindexInv, TypeOK
  <2>2. kick' = [kick EXCEPT ![k] = o]
    BY <1>3
  <2> HIDE DEF o
  <2> QED
    BY <1>3, <2>1, <2>2, AskStep
<1>4. CASE Replace(k, q, cur)
  BY <1>4, ReplaceStep
<1> QED
  BY <1>2, <1>3, <1>4 DEF Consider

LEMMA AnsweredStep ==
    ASSUME ReindexInv, NEW k \in Kickoffs, Answered(k)
    PROVE  ReindexInv'
<1>1. kick[k].pc # "launch" /\ kick[k].fp \in Requests \cup {"none"} /\ UNCHANGED reset
  BY Typed DEF Answered, ReindexInv, KickType
<1>2. CASE kick' = [kick EXCEPT ![k] = NoKick] /\ UNCHANGED <<cur, job>>
  <2>1. NoKick \in KickType /\ NoKick.pc = "idle"
    BY DEF NoKick, KickType
  <2> QED
    BY <1>1, <1>2, <2>1, AskStep
<1>3. CASE SameJob(k) /\ Replace(k, kick[k].fp, kick[k].seen)
  BY <1>1, <1>3, ReplaceStep DEF SameJob
<1>4. CASE Consider(k, kick[k].fp)
  BY <1>1, <1>4, ConsiderStep
<1> QED
  BY <1>2, <1>3, <1>4 DEF Answered

\* What a launch does to the jobs.
LaunchedJobs(j, e) ==
    /\ job' \in [Jobs -> JobType] /\ job'[j].pc = "wait"
    /\ \A i \in Jobs : /\ job'[i].st = job[i].st
                       /\ i # j => job'[i].pc = job[i].pc
                       /\ job'[i].ctx = job[i].ctx \/ job'[i].ctx = TRUE
    /\ e \in Jobs /\ Running(e) => job'[e].ctx = TRUE

\* The job that was replaced is cancelled before anybody forgets it.
LEMMA Launched ==
    ASSUME ReindexInv, NEW k \in Kickoffs, kick[k].pc = "launch",
           NEW j, j = kick[k].mine, NEW e, e = kick[k].seen,
           kick' = [kick EXCEPT ![k] = NoKick], UNCHANGED <<cur, reset>>,
           LaunchedJobs(j, e)
    PROVE  ReindexInv'
<1> USE DEF LaunchedJobs
<1>1. /\ job \in [Jobs -> JobType] /\ kick \in [Kickoffs -> KickType]
      /\ {cur, reset} \subseteq Jobs \cup {0}
      /\ \A i \in Jobs : job[i].pc = "done" <=> job[i].st \in Final
      /\ \A i \in Jobs : job[i].pc = "none" <=> job[i].st = "none"
  BY Typed DEF ReindexInv, Created
<1>2. j \in Jobs /\ job[j].pc = "new"
  BY DEF ReindexInv, Launching
<1>3. NoKick \in KickType /\ NoKick.pc = "idle"
  BY DEF NoKick, KickType
<1>4. /\ kick'[k] = NoKick /\ \A m \in Kickoffs \ {k} : kick'[m] = kick[m]
      /\ kick' \in [Kickoffs -> KickType]
  BY <1>1, <1>3
<1>5. TypeOK'
  <2>1. \A i \in Jobs : job'[i].pc = "done" <=> job'[i].st \in Final
    BY <1>1, <1>2
  <2> QED
    BY <1>1, <1>4, <2>1, TypedNext
<1>6. OneRebuild'
  <2>1. ASSUME NEW i \in Jobs, job'[i].st = "running", ~job'[i].ctx
        PROVE  cur' = i \/ reset' = i \/ \E m \in Kickoffs : kick'[m].pc = "launch" /\ kick'[m].seen = i
    <3>1. Running(i) /\ ~job[i].ctx /\ i # e
      BY <2>1 DEF Running
    <3>2. CASE \E m \in Kickoffs : kick[m].pc = "launch" /\ kick[m].seen = i
      BY <1>4, <3>1, <3>2
    <3> QED
      BY <3>1, <3>2 DEF ReindexInv, OneRebuild
  <2> QED
    BY <2>1 DEF OneRebuild, Running
<1>7. Created'
  <2>1. \A i \in Jobs : job'[i].pc = "none" <=> job'[i].st = "none"
    BY <1>1, <1>2
  <2>2. cur # 0 => job'[cur].st # "none"
    BY <1>1 DEF ReindexInv, Created
  <2> QED
    BY <2>1, <2>2 DEF Created
<1>8. Launching'
  BY <1>3, <1>4 DEF ReindexInv, Launching
<1> QED
  BY <1>5, <1>6, <1>7, <1>8 DEF ReindexInv

LEMMA LaunchStep ==
    ASSUME ReindexInv, NEW k \in Kickoffs, Launch(k)
    PROVE  ReindexInv'
<1>1. job \in [Jobs -> JobType] /\ kick \in [Kickoffs -> KickType]
  BY Typed DEF ReindexInv
<1>2. PICK e \in Jobs \cup {0}, j \in Jobs : e = kick[k].seen /\ j = kick[k].mine /\ e # j
  BY <1>1 DEF Launch, ReindexInv, Launching, KickType
<1>3. /\ kick[k].pc = "launch" /\ kick' = [kick EXCEPT ![k] = NoKick] /\ UNCHANGED <<cur, reset>>
      /\ job' = Supersede(k)
  BY DEF Launch
<1>4. CASE e # 0 /\ Running(e)
  <2> DEFINE r == [job[j] EXCEPT !.pc = "wait", !.pred = e]
             x == [job[e] EXCEPT !.ctx = TRUE]
  <2>1. job' = [i \in Jobs |-> IF i = j THEN r ELSE IF i = e THEN x ELSE job[i]]
    BY <1>2, <1>3, <1>4 DEF Supersede
  <2>2. e \in Jobs
    BY <1>2, <1>4
  <2>3. r \in JobType /\ r.pc = "wait" /\ r.st = job[j].st /\ r.ctx = job[j].ctx
    BY <1>1, <2>2 DEF JobType
  <2>4. x \in JobType /\ x.pc = job[e].pc /\ x.st = job[e].st /\ x.ctx = TRUE
    BY <1>1, <2>2 DEF JobType
  <2> HIDE DEF r, x
  <2>5. /\ job' \in [Jobs -> JobType] /\ job'[j] = r /\ job'[e] = x
        /\ \A i \in Jobs \ {j, e} : job'[i] = job[i]
    BY <1>1, <1>2, <2>1, <2>2, <2>3, <2>4
  <2>6. LaunchedJobs(j, e)
    BY <1>2, <2>3, <2>4, <2>5 DEF LaunchedJobs
  <2> QED
    BY <1>2, <1>3, <2>6, Launched
<1>5. CASE ~(e # 0 /\ Running(e))
  <2> DEFINE r == [job[j] EXCEPT !.pc = "wait", !.pred = 0]
  <2>1. job' = [i \in Jobs |-> IF i = j THEN r ELSE job[i]]
    BY <1>2, <1>3, <1>5 DEF Supersede
  <2>2. r \in JobType /\ r.pc = "wait" /\ r.st = job[j].st /\ r.ctx = job[j].ctx
    BY <1>1 DEF JobType
  <2> HIDE DEF r
  <2>3. /\ job' \in [Jobs -> JobType] /\ job'[j] = r
        /\ \A i \in Jobs \ {j} : job'[i] = job[i]
    BY <1>1, <2>1, <2>2
  <2>4. ~(e \in Jobs /\ Running(e))
    BY <1>5, ZeroNoJob
  <2>5. LaunchedJobs(j, e)
    BY <2>2, <2>3, <2>4 DEF LaunchedJobs
  <2> QED
    BY <1>2, <1>3, <2>5, Launched
<1> QED
  BY <1>4, <1>5
-----------------------------------------------------------------------------
(* The theorems. *)

LEMMA ReindexInit == Init => ReindexInv
<1> SUFFICES ASSUME Init PROVE ReindexInv
  OBVIOUS
<1>1. TypeOK
  BY DEF Init, TypeOK, NoJob, NoKick
<1>2. OneRebuild /\ Created /\ Launching
  BY DEF Init, NoJob, NoKick, OneRebuild, Running, Created, Launching
<1> QED
  BY <1>1, <1>2 DEF ReindexInv

LEMMA ReindexStep == ReindexInv /\ [Next]_vars => ReindexInv'
<1> SUFFICES ASSUME ReindexInv, [Next]_vars PROVE ReindexInv'
  OBVIOUS
<1>1. ASSUME NEW k \in Kickoffs, NEW q \in Requests, StartOrGet(k, q) PROVE ReindexInv'
  BY <1>1, ConsiderStep DEF StartOrGet
<1>2. ASSUME NEW j \in Jobs, Expire(j) PROVE ReindexInv'
  BY <1>2, ContextStep DEF Expire
<1>3. ASSUME NEW j \in Jobs, Retire(j) PROVE ReindexInv'
  <2>1. TypeOK'
    BY <1>3, Typed, TypedNext DEF Retire, DeleteIfSame, ReindexInv
  <2>2. ~Running(j)
    BY <1>3, Typed DEF Retire, ReindexInv, Running, Final
  <2>3. OneRebuild' /\ Created' /\ Launching'
    BY <1>3, <2>2 DEF Retire, DeleteIfSame, ReindexInv, OneRebuild, Running, Created, Launching
  <2> QED
    BY <2>1, <2>3 DEF ReindexInv
<1>4. CASE Reset
  <2>1. TypeOK'
    BY <1>4, Typed, TypedNext DEF Reset, ReindexInv
  <2>2. OneRebuild' /\ Created' /\ Launching'
    BY <1>4, ZeroNoJob DEF Reset, ReindexInv, OneRebuild, Running, Created, Launching
  <2> QED
    BY <2>1, <2>2 DEF ReindexInv
<1>5. CASE ResetCancel
  <2>1. reset \in Jobs
    BY <1>5 DEF ResetCancel, ReindexInv, TypeOK
  <2> QED
    BY <1>5, <2>1, ContextStep DEF ResetCancel
<1>6. CASE UNCHANGED vars
  BY <1>6 DEF vars, ReindexInv, TypeOK, OneRebuild, Running, Created, Launching
<1> QED
  BY <1>1, <1>2, <1>3, <1>4, <1>5, <1>6, LaunchStep, AnsweredStep, RunStepStep DEF Next

\* The state of coordinator and runner stays in its type, and a job's done channel
\* is closed exactly when it has its final status, on every way a run ends.
THEOREM ReindexTyped == Spec => []TypeOK
<1>1. ReindexInv => TypeOK
  BY DEF ReindexInv
<1> QED
  BY <1>1, ReindexInit, ReindexStep, PTL DEF Spec

\* Of any number of kickoffs, resets and retirements around StartOrGet's unlocked
\* health probe and its launch after the unlock, none leaves a rebuild running that
\* the map does not hold and nobody is about to cancel.
THEOREM ReindexOneRebuild == Spec => []OneRebuild
<1>1. ReindexInv => OneRebuild
  BY DEF ReindexInv
<1> QED
  BY <1>1, ReindexInit, ReindexStep, PTL DEF Spec
=============================================================================
