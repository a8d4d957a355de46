----------------------------- MODULE ImportJobs -----------------------------
(***************************************************************************)
(* The import coordinator of one enclave, for one user: create a job,      *)
(* stage the chunks of an archive in buckets, start, and clean up.         *)
(*                                                                         *)
(* Everything but the staged chunks is in memory.  The map of the          *)
(* coordinator holds one job per user; jobs are numbered in the order of   *)
(* their creation.  Request handlers, the timer that reaps stale uploads,  *)
(* the goroutine of the run, its stall watchdog and the retention timers   *)
(* run side by side.  What a run does is in ImportRun.                     *)
(***************************************************************************)
EXTENDS Naturals, FiniteSets

CONSTANTS
    Chunks,       \* chunks of the archive
    Sources,      \* "native": a tinfoil_backup; "legacy": every other source
    SlowHandlers, \* may an upload handler be overtaken by the reaper after its lookup?
    MaxJobs,      \* bound: jobs created
    MaxFaults     \* bound: failed calls, crashes, panics, wedged calls

ASSUME ImportJobsConstants ==
    /\ Sources \subseteq {"native", "legacy"}
    /\ SlowHandlers \in BOOLEAN
    /\ {MaxJobs, MaxFaults} \subseteq Nat

VARIABLES
    cur,     \* the job in the coordinator's map; 0 when there is none
    job,     \* the jobs: status, source, chunks received, cancelled by the watchdog
    staged,  \* buckets: staged chunks
    upl,     \* chunk uploads between beginChunk and the answer of buckets
    sweep,   \* chunks a cleanup is about to delete
    leaked,  \* chunks whose deletion failed, or that a restart forgot (history)
    wedged,  \* the run hangs in a call
    faults   \* how much of MaxFaults is used up

jobVars == <<cur, job, staged, upl, sweep, leaked, wedged, faults>>

Jobs == 1..MaxJobs
NoJob == [st |-> "none", src |-> "none", recv |-> [c \in Chunks |-> "no"], stalled |-> FALSE]

Live(j)  == job[j].st \in {"staging", "running"}
Ended(j) == job[j].st \in {"completed", "failed"}

\* Type invariant of the coordinator.
JobsTypeOK ==
    /\ cur \in 0..MaxJobs
    /\ job \in [Jobs -> [st : {"none", "staging", "running", "completed", "failed", "lost"},
                         src : Sources \cup {"none"}, recv : [Chunks -> {"no", "pending", "have"}],
                         stalled : BOOLEAN]]
    /\ staged \cup upl \cup sweep \cup leaked \subseteq Jobs \X Chunks
    /\ wedged \in BOOLEAN
    /\ faults \in 0..MaxFaults
    \* a chunk is being uploaded for a job that knows it, and waits for it
    /\ \A u \in upl : /\ job[u[1]].recv[u[2]] = "pending"
                      /\ SlowHandlers \/ job[u[1]].st = "staging"

JobsInit ==
    /\ cur = 0 /\ faults = 0 /\ wedged = FALSE
    /\ job = [j \in Jobs |-> NoJob]
    /\ staged = {} /\ upl = {} /\ sweep = {} /\ leaked = {}
-----------------------------------------------------------------------------
Fault == faults < MaxFaults /\ faults' = faults + 1

\* Create: refused while a job is staging or running; a finished one is replaced.
\* All jobs are about the same archive.
Create(src) ==
    /\ \A j \in Jobs : job[j].src \in {src, "none"}
    /\ \A j \in Jobs : cur = j => Ended(j)
    /\ \E j \in Jobs :
         /\ job[j] = NoJob /\ \A i \in 1..(j - 1) : job[i] # NoJob
         /\ cur' = j
         /\ job' = [job EXCEPT ![j].st = "staging", ![j].src = src]
    /\ UNCHANGED <<staged, upl, sweep, leaked, wedged, faults>>

\* beginChunk asks whether the job was started, not for its status.
Reaped(j) == job[j].st = "failed" /\ \E c \in Chunks : job[j].recv[c] # "have"

\* importUpload looks the job up, stageImportChunk begins the chunk.  Between the
\* two the reaper may have failed the job.  A chunk that is there, or on its way,
\* is answered from the job.
BeginChunk(j, c) ==
    /\ \/ j = cur /\ job[j].st = "staging"
       \/ SlowHandlers /\ Reaped(j)
    /\ job[j].recv[c] = "no"
    /\ job' = [job EXCEPT ![j].recv[c] = "pending"]
    /\ upl' = upl \cup {<<j, c>>}
    /\ UNCHANGED <<cur, staged, sweep, leaked, wedged, faults>>

\* Mutant: the chunk counts as received whatever buckets answers.
ReceivedAnyway(ok) == "have"

ReceivedAfter(ok) == IF ok THEN "have" ELSE "no"

\* buckets answers, or does not, and the object may be there all the same.
PutChunk(j, c) ==
    /\ <<j, c>> \in upl
    /\ upl' = upl \ {<<j, c>>}
    /\ \E ok \in BOOLEAN :
         /\ job' = [job EXCEPT ![j].recv[c] = ReceivedAfter(ok)]
         /\ IF ok THEN staged' = staged \cup {<<j, c>>} /\ UNCHANGED faults
            ELSE Fault /\ staged' \in {staged, staged \cup {<<j, c>>}}
    /\ UNCHANGED <<cur, sweep, leaked, wedged>>

AllChunksReceived(j) == \A c \in Chunks : job[j].recv[c] = "have"

\* A second start finds the job started and is answered with its status.
Start(j) ==
    /\ cur = j /\ job[j].st = "staging" /\ AllChunksReceived(j)
    /\ job' = [job EXCEPT ![j].st = "running"]
    /\ UNCHANGED <<cur, staged, upl, sweep, leaked, wedged, faults>>
-----------------------------------------------------------------------------
\* Mutant: deletes what the job counted as received.
CleanupReceived(j) ==
    sweep' = sweep \cup {<<j, c>> : c \in {d \in Chunks : job[j].recv[d] = "have"}}

\* Every chunk of the archive, received or not.
CleanupStaging(j) == sweep' = sweep \cup ({j} \X Chunks)

\* Mutant: an upload is no progress.
StaleWhileUploading(j) == job[j].st = "staging"

\* An upload without progress for the whole retention, which is longer than any
\* put takes.
StaleStaging(j) == job[j].st = "staging" /\ \A c \in Chunks : <<j, c>> \notin upl

Reap(j) ==
    /\ cur = j /\ StaleStaging(j)
    /\ job' = [job EXCEPT ![j].st = "failed"]
    /\ cur' = 0
    /\ CleanupStaging(j)
    /\ UNCHANGED <<staged, upl, leaked, wedged, faults>>

\* The runner returned or panicked: the job gets its final status, once, the keys
\* are zeroed, and the chunks go.
EndRun(j, status) ==
    /\ job' = [job EXCEPT ![j].st = status]
    /\ CleanupStaging(j)
    /\ wedged' = FALSE
    /\ UNCHANGED <<cur, staged, upl, leaked>>

\* Deletes in buckets are best effort; a chunk that was never put is no error.
SweepChunk(j, c) ==
    /\ <<j, c>> \in sweep
    /\ sweep' = sweep \ {<<j, c>>}
    /\ \/ staged' = staged \ {<<j, c>>} /\ UNCHANGED <<leaked, faults>>
       \/ /\ <<j, c>> \in staged /\ Fault
          /\ leaked' = leaked \cup {<<j, c>>} /\ UNCHANGED staged
    /\ UNCHANGED <<cur, job, upl, wedged>>

\* Mutant: whatever job the map holds.
DeleteWhatever(j) == 0

DeleteIfSame(j) == IF cur = j THEN 0 ELSE cur

\* The retention of a finished job ends.
Retire(j) ==
    /\ Ended(j) /\ cur # 0
    /\ cur' = DeleteIfSame(j)
    /\ UNCHANGED <<job, staged, upl, sweep, leaked, wedged, faults>>

\* A dependency never answers.
Wedge(j) ==
    /\ job[j].st = "running" /\ ~wedged /\ ~job[j].stalled
    /\ Fault
    /\ wedged' = TRUE
    /\ UNCHANGED <<cur, job, staged, upl, sweep, leaked>>

\* Mutant: the timer fires once and is not armed again after progress.
NeverStalled(j) == FALSE

Stalled(j) == job[j].st = "running" /\ wedged

\* The watchdog cancels the run; whatever it hung in returns.
Watchdog(j) ==
    /\ Stalled(j)
    /\ wedged' = FALSE
    /\ job' = [job EXCEPT ![j].stalled = TRUE]
    /\ UNCHANGED <<cur, staged, upl, sweep, leaked, faults>>

\* The enclave restarts: jobs, handlers, timers and keys are gone.
Restart ==
    /\ Fault
    /\ cur' = 0
    /\ job' = [j \in Jobs |-> IF Live(j) THEN [NoJob EXCEPT !.st = "lost", !.src = job[j].src]
                             ELSE job[j]]
    /\ upl' = {} /\ sweep' = {} /\ wedged' = FALSE
    /\ leaked' = leaked \cup staged
    /\ UNCHANGED staged

Coordinator ==
    \/ \E src \in Sources : Create(src)
    \/ \E j \in Jobs :
         \/ Reap(j) \/ Retire(j) \/ Wedge(j) \/ Watchdog(j)
         \/ \E c \in Chunks : BeginChunk(j, c) \/ PutChunk(j, c) \/ SweepChunk(j, c)

\* What the coordinator's timers and handlers do without a client.
Timers ==
    \E j \in Jobs : \/ Reap(j) \/ Watchdog(j)
                    \/ \E c \in Chunks : PutChunk(j, c) \/ SweepChunk(j, c)
-----------------------------------------------------------------------------
\* Every job that is staging or running is the one the map holds: the retention
\* timer of a finished job never removes its successor, which could then neither
\* be polled, nor reaped, nor keep a second import from starting.
LiveReachable == \A j \in Jobs : Live(j) => cur = j

\* A run has its whole archive: from the start until its end every chunk it
\* counted as received is staged, through failed and repeated puts, reapers and
\* the cleanups of other jobs.
StagedForRun == \A j \in Jobs : job[j].st = "running" => {j} \X Chunks \subseteq staged

\* Whatever becomes of the jobs, no staged chunk stays behind, except where its
\* one deletion failed or a restart forgot it.
StagingReclaimed == <>[](staged \subseteq leaked)

\* Every import that was started ends, even when a dependency never answers: since
\* there are finitely many, in the end none is running.
ImportsEnd == <>[](\A j \in Jobs : job[j].st # "running")
=============================================================================
