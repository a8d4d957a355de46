----------------------------- MODULE ReindexJobs -----------------------------
(***************************************************************************)
(* The reindex coordinator of one enclave, for one user, and the runner of *)
(* its jobs.                                                               *)
(*                                                                         *)
(* Kickoffs, from tabs, from queries that found embeddings to repair, and  *)
(* the reset of the search after a fresh start, run side by side with the  *)
(* goroutines of the jobs, numbered in the order of their creation.  What  *)
(* a page does to the index is in SearchCoverage, what happens to its      *)
(* embedding calls in InferenceGate: here they succeed or not.             *)
(***************************************************************************)
EXTENDS Naturals, FiniteSets

CONSTANTS
    Jobs,      \* 1..n, bound: jobs created
    Kickoffs,  \* handlers that call StartOrGet
    MayReset   \* may the user start afresh?

ASSUME ReindexConstants ==
    /\ IsFiniteSet(Jobs) /\ Jobs = 1..Cardinality(Jobs)
    /\ MayReset \in BOOLEAN

VARIABLES
    cur,   \* the job in the coordinator's map, or 0
    job,   \* the jobs
    kick,  \* the kickoffs
    reset  \* a job taken off the map by a reset and not cancelled yet, or 0

vars == <<cur, job, kick, reset>>

\* Fingerprints: a full rebuild under one of two key sets, an embedding repair.
Requests == {"keysA", "keysB", "repair"}

\* pc: of the goroutine; ctx: the context is cancelled, or out of budget; pred: the
\* predecessor; gap: coverageFailure, with which a run is also partial; st: a run
\* that completed is "clean" or "partial".
NoJob == [pc |-> "none", st |-> "none", fp |-> "none", ctx |-> FALSE, pred |-> 0, gap |-> FALSE]
NoKick == [pc |-> "idle", fp |-> "none", seen |-> 0, mine |-> 0]

\* Type invariant.
TypeOK ==
    /\ {cur, reset} \subseteq Jobs \cup {0}
    /\ job \in [Jobs -> [pc : {"none", "new", "wait", "load", "page", "publish", "done"},
                         st : {"none", "running", "clean", "partial", "failed"},
                         fp : Requests \cup {"none"}, ctx : BOOLEAN, pred : Jobs \cup {0},
                         gap : BOOLEAN]]
    /\ kick \in [Kickoffs -> [pc : {"idle", "ask", "launch"}, fp : Requests \cup {"none"},
                              seen : Jobs \cup {0}, mine : Jobs \cup {0}]]
    \* a job is done exactly when it has a final status
    /\ \A j \in Jobs : job[j].pc = "done" <=> job[j].st \in {"clean", "partial", "failed"}

Init ==
    /\ cur = 0 /\ reset = 0
    /\ job = [j \in Jobs |-> NoJob]
    /\ kick = [k \in Kickoffs |-> NoKick]
-----------------------------------------------------------------------------
(* StartOrGet. *)

Running(j) == job[j].st = "running"

\* After a clean completion the health of the index decides.
BlocksRestart(j) == Running(j) \/ job[j].st = "clean"

Joins(e, q) == e # 0 /\ Running(e) /\ (q = "repair" \/ job[e].fp = q)
Asks(e, q) == e # 0 /\ job[e].fp = q /\ ~Running(e) /\ BlocksRestart(e)

\* A new job, in the place of e.
Replace(k, q, e) ==
    \E j \in Jobs :
        /\ job[j].st = "none" /\ \A i \in 1..(j - 1) : job[i].st # "none"
        /\ job' = [job EXCEPT ![j] = [NoJob EXCEPT !.pc = "new", !.st = "running", !.fp = q]]
        /\ cur' = j
        /\ kick' = [kick EXCEPT ![k] = [NoKick EXCEPT !.pc = "launch", !.seen = e, !.mine = j]]

Consider(k, q) ==
    \/ Joins(cur, q) /\ kick' = [kick EXCEPT ![k] = NoKick] /\ UNCHANGED <<cur, job>>
    \/ /\ Asks(cur, q)
       /\ kick' = [kick EXCEPT ![k] = [NoKick EXCEPT !.pc = "ask", !.fp = q, !.seen = cur]]
       /\ UNCHANGED <<cur, job>>
    \/ ~Joins(cur, q) /\ ~Asks(cur, q) /\ Replace(k, q, cur)

StartOrGet(k, q) ==
    /\ kick[k].pc = "idle"
    /\ Consider(k, q)
    /\ UNCHANGED reset

\* Mutant: goes on with the job seen before the lock was left.
SameAnyway(k) == TRUE

SameJob(k) == cur = kick[k].seen

\* searchIndexNeedsRepair answered, or failed; the lock is taken again.
Answered(k) ==
    /\ kick[k].pc = "ask"
    /\ \/ kick' = [kick EXCEPT ![k] = NoKick] /\ UNCHANGED <<cur, job>>
       \/ SameJob(k) /\ Replace(k, kick[k].fp, kick[k].seen)
       \/ ~SameJob(k) /\ Consider(k, kick[k].fp)
    /\ UNCHANGED reset

\* A job that is still running is cancelled, and waited for by its successor.
Supersede(k) ==
    LET e == kick[k].seen
        superseded == e # 0 /\ Running(e)
    IN [j \in Jobs |->
          IF j = kick[k].mine
          THEN [job[j] EXCEPT !.pc = "wait", !.pred = IF superseded THEN e ELSE 0]
          ELSE IF j = e /\ superseded THEN [job[j] EXCEPT !.ctx = TRUE] ELSE job[j]]

Launch(k) ==
    /\ kick[k].pc = "launch"
    /\ job' = Supersede(k)
    /\ kick' = [kick EXCEPT ![k] = NoKick]
    /\ UNCHANGED <<cur, reset>>
-----------------------------------------------------------------------------
(* Cancel of resetSearchForUser: off the map, then cancelled. *)

Reset ==
    /\ MayReset /\ reset = 0 /\ cur # 0
    /\ reset' = cur /\ cur' = 0
    /\ UNCHANGED <<job, kick>>

ResetCancel ==
    /\ reset # 0
    /\ job' = [job EXCEPT ![reset].ctx = TRUE]
    /\ reset' = 0
    /\ UNCHANGED <<cur, kick>>

\* The budget of a job runs out.
Expire(j) ==
    /\ Running(j) /\ ~job[j].ctx
    /\ job' = [job EXCEPT ![j].ctx = TRUE]
    /\ UNCHANGED <<cur, kick, reset>>

DeleteIfSame(j) == IF cur = j THEN 0 ELSE cur

\* The retention of a finished job ends.
Retire(j) ==
    /\ job[j].pc = "done" /\ cur # 0
    /\ cur' = DeleteIfSame(j)
    /\ UNCHANGED <<job, kick, reset>>
-----------------------------------------------------------------------------
(* run and runSearchReindex. *)

\* Mutant: closes done and leaves the status.
FinishSilently(j, st) == job' = [job EXCEPT ![j].pc = "done", ![j].ctx = TRUE]

\* The deferred cancel ends the context.  The fingerprint matters while the job is
\* in the map.
Finish(j, st) ==
    job' = [job EXCEPT ![j] = [NoJob EXCEPT !.pc = "done", !.st = st, !.ctx = TRUE,
                                            !.fp = IF cur = j THEN job[j].fp ELSE "none"]]

\* A run whose context ended is partial; a rebuild has failed if a page left a gap.
CutShort(j) == Finish(j, IF job[j].gap /\ job[j].fp # "repair" THEN "failed" ELSE "partial")

\* Loads and publications of a repair do not tell a cancelled call from a failed one.
Broken(j) ==
    IF job[j].ctx /\ job[j].fp # "repair" THEN CutShort(j) ELSE Finish(j, "failed")

\* Mutant: waits for a predecessor to succeed, whatever its own context.
AfterSuccess(j) ==
    \A p \in Jobs : job[j].pred = p => job[p].st = "clean"

\* The predecessor is done, or the context of the job itself.
MayRun(j) == job[j].ctx \/ \A p \in Jobs : job[j].pred = p => job[p].pc = "done"

RunBegins(j) ==
    /\ job[j].pc = "wait" /\ MayRun(j)
    /\ job' = [job EXCEPT ![j].pc = "load"]

\* The publication state and the checkpoint.  A repair gives up without a usable
\* index, or without anything to repair.
Load(j) ==
    /\ job[j].pc = "load"
    /\ \/ ~job[j].ctx /\ job' = [job EXCEPT ![j].pc = "page"]
       \/ Broken(j)
       \/ ~job[j].ctx /\ job[j].fp = "repair" /\ \E st \in {"clean", "partial"} : Finish(j, st)

\* The top of the loop, the pull of a page and its embedding.  Without vectors a
\* rebuild goes on, a repair stops.
Page(j) ==
    /\ job[j].pc = "page"
    /\ \/ job[j].ctx /\ CutShort(j)
       \/ ~job[j].ctx /\ Finish(j, "failed")
       \/ ~job[j].ctx /\ job' = [job EXCEPT ![j].pc = "publish"]
       \/ ~job[j].ctx /\ job[j].fp = "repair" /\ Finish(j, "partial")

\* The page is published, or not; chats that could not be read leave a gap; it was
\* the last page, or not.
Publish(j) ==
    /\ job[j].pc = "publish"
    /\ \/ \E gap \in {job[j].gap, TRUE} :
            \/ job' = [job EXCEPT ![j].pc = "page", ![j].gap = gap]
            \/ Finish(j, IF ~gap THEN "clean" ELSE IF job[j].fp = "repair" THEN "partial" ELSE "failed")
       \/ Broken(j)

RunStep(j) ==
    /\ \/ RunBegins(j) \/ Load(j) \/ Page(j) \/ Publish(j)
    /\ UNCHANGED <<cur, kick, reset>>

Next ==
    \/ \E k \in Kickoffs : Launch(k) \/ Answered(k) \/ \E q \in Requests : StartOrGet(k, q)
    \/ \E j \in Jobs : Expire(j) \/ Retire(j) \/ RunStep(j)
    \/ Reset \/ ResetCancel

Spec == Init /\ [][Next]_vars

\* Every goroutine goes on, and the budget of a job runs out in the end; clients
\* and resets need not do anything.
FairSpec ==
    /\ Spec
    /\ \A k \in Kickoffs : WF_vars(Launch(k))
    /\ \A j \in Jobs : /\ WF_vars(RunStep(j)) /\ WF_vars(Expire(j))
-----------------------------------------------------------------------------
\* Kickoffs cannot stack rebuilds: a job that is running and not cancelled is the
\* one the map holds, or somebody is about to cancel it.
OneRebuild ==
    \A j \in Jobs : Running(j) /\ ~job[j].ctx =>
        cur = j \/ reset = j \/ \E k \in Kickoffs : kick[k].pc = "launch" /\ kick[k].seen = j

\* Every job that was started ends, and with it the life of the keys it holds,
\* along any chain of successors: since there are finitely many jobs, in the end
\* none is running.
JobsEnd == <>[](\A j \in Jobs : ~Running(j))

\* "Two rebuilds must not interleave writes to the same index object": a rebuild
\* pages only when the ones before it have wound down.
RebuildsApart ==
    Cardinality({j \in Jobs : job[j].pc \in {"page", "publish"}}) <= 1
=============================================================================
