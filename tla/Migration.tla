------------------------------ MODULE Migration ------------------------------
(***************************************************************************)
(* The migrate-all job: it rewraps every legacy row under the user's       *)
(* current key, next to the devices of BlobSync.                           *)
(*                                                                         *)
(* The job walks the scopes one after the other and, within a scope, pages *)
(* of rows the controlplane lists as retryable.  Each row is read,         *)
(* decrypted and resealed with a compare-and-set, re-read when that loses. *)
(* A row that could not be migrated is reported to the controlplane, which *)
(* keeps it off the list for a day.  The job stops early when its budget   *)
(* ends or the enclave goes down.  Clients poll it, and a finished job     *)
(* answers polls until it is reaped.                                       *)
(***************************************************************************)
EXTENDS BlobSync

CONSTANTS
    Scopes,      \* the scopes in the order of migrateAllWithProgress
    ScopeOf,     \* scope of each row
    MigKeys,     \* keys the request carries
    PageLimit,   \* migrateAllScopeMaxBatch
    MaxRuns,     \* bound: jobs started
    MayCancel    \* the budget may end or the enclave shut down

\* Every scope the envelope knows is one the job walks.
ASSUME MigrationConstants ==
    /\ Scopes \in Seq(STRING)
    /\ IsFiniteSet(Rows)
    /\ \A r \in Rows : \E i \in 1..Len(Scopes) : ScopeOf[r] = Scopes[i]
    /\ MigKeys \subseteq Keys
    /\ PageLimit \in Nat \ {0} /\ MaxRuns \in Nat
    /\ MayCancel \in BOOLEAN

MigrateRewrapMaxRetries == 3

VARIABLES
    mig,      \* the user's migration job
    stamped,  \* controlplane: rows in the cooldown of a recorded failure
    runs

migVars == <<mig, stamped, runs>>
vars == <<syncVars, migVars>>

\* scope: index of the current scope; ids: rows of the page still to do;
\* row, try, got, life: the row in hand; moved, rest: of the page; blocked: rows given
\* up; partial: what the job will report; cool: rows in a cooldown when the run
\* began (history).
NoJob == [st |-> "idle", target |-> "none", cancel |-> FALSE, scope |-> 1, ids |-> {},
          row |-> "none", try |-> 1, got |-> Absent, life |-> 0, moved |-> 0, rest |-> 0,
          blocked |-> {}, partial |-> FALSE, cool |-> {}]

JobStates == {"idle", "start", "page", "rows", "get", "seal", "record", "completed", "failed"}

MigType ==
    [st : JobStates, target : Keys \cup {"none"}, cancel : BOOLEAN,
     scope : 1..(Len(Scopes) + 1), ids : SUBSET Rows, row : Rows \cup {"none"},
     try : 1..MigrateRewrapMaxRetries, got : RowType, life : Nat, moved : Nat,
     rest : Nat, blocked : SUBSET Rows, partial : BOOLEAN, cool : SUBSET Rows]

MigTypeOK == mig \in MigType /\ stamped \subseteq Rows /\ runs \in Nat

\* Type invariant.
TypeOK == SyncTypeOK /\ MigTypeOK

Init == SyncInit /\ mig = NoJob /\ stamped = {} /\ runs = 0
-----------------------------------------------------------------------------
Running == mig.st \notin {"idle", "completed", "failed"}

\* finish.
Ended(st, partial) == [mig EXCEPT !.st = st, !.ids = {}, !.partial = partial]

\* StartOrGet: a running or retained job answers for itself; otherwise a new
\* one starts, detached from the request.
StartOrGet(k) ==
    /\ mig.st = "idle"
    /\ runs < MaxRuns
    /\ runs' = runs + 1
    /\ mig' = [NoJob EXCEPT !.st = "start", !.target = k, !.cool = stamped]
    /\ UNCHANGED <<syncVars, stamped>>

\* ensureCurrentKeyRegistered; the read of the current key may fail.
EnsureKey ==
    /\ mig.st = "start"
    /\ \/ /\ mig' = IF curKey = mig.target THEN [mig EXCEPT !.st = "page"]
                    ELSE Ended("failed", FALSE)
          /\ UNCHANGED used
       \/ Fault /\ mig' = Ended("failed", FALSE)
    /\ UNCHANGED <<blob, curKey, idem, idemDel, wire, op, view, prim, life, gone,
                   stamped, runs>>

\* needs-migration: a page of the legacy rows that are not in their cooldown,
\* and how many of those there are.
Retryable(s) == {r \in Rows : ScopeOf[r] = s /\ blob[r].fmt = "legacy"} \ stamped
PagesOf(s) == {ids \in SUBSET Retryable(s) :
                 Cardinality(ids) = IF Cardinality(Retryable(s)) < PageLimit
                                    THEN Cardinality(Retryable(s)) ELSE PageLimit}

\* Top of the page loop: out of time, or list a page; a refused token ends the
\* run as partial, any other error fails it.
NextPage ==
    /\ mig.st = "page"
    /\ \/ /\ mig.cancel
          /\ mig' = Ended("completed", TRUE)
          /\ UNCHANGED used
       \/ /\ ~mig.cancel
          /\ \E ids \in PagesOf(Scopes[mig.scope]) :
               mig' = [mig EXCEPT !.st = "rows", !.ids = ids, !.moved = 0,
                         !.rest = Cardinality(Retryable(Scopes[mig.scope]))]
          /\ UNCHANGED used
       \/ /\ ~mig.cancel
          /\ Fault
          /\ mig' \in {Ended("completed", TRUE), Ended("failed", FALSE)}
    /\ UNCHANGED <<blob, curKey, idem, idemDel, wire, op, view, prim, life, gone,
                   stamped, runs>>

\* Migrate takes the rows of the page one by one, while there is time.
NextRow ==
    /\ mig.st = "rows" /\ ~mig.cancel
    /\ \E r \in mig.ids :
         mig' = [mig EXCEPT !.st = "get", !.row = r, !.try = 1, !.ids = @ \ {r}]
    /\ UNCHANGED <<syncVars, stamped, runs>>

\* Mutant: one page per scope.
ScopeDoneAfterPage(moved, left) == TRUE

ScopeDone(moved, left) == moved = 0 \/ left = 0

\* After a page: the scope is finished when nothing was migrated or nothing is
\* left, and the run when it was the last scope.
PageEnd ==
    /\ mig.st = "rows"
    /\ mig.cancel \/ mig.ids = {}
    /\ LET left == IF mig.moved < mig.rest THEN mig.rest - mig.moved ELSE 0
       IN  mig' = IF ~ScopeDone(mig.moved, left)
                  THEN [mig EXCEPT !.st = "page", !.ids = {}]
                  ELSE IF mig.scope < Len(Scopes)
                  THEN [mig EXCEPT !.st = "page", !.ids = {}, !.scope = @ + 1]
                  ELSE Ended("completed", FALSE)
    /\ UNCHANGED <<syncVars, stamped, runs>>

RowMigrated == mig' = [mig EXCEPT !.st = "rows", !.moved = @ + 1, !.got = Absent, !.life = 0]

\* migrateOne gave up.  If the run is being torn down by now the row stays as it is;
\* otherwise it is blocked, and that is to be recorded.
RowBlocked ==
    mig' = IF mig.cancel
           THEN [mig EXCEPT !.st = "rows", !.got = Absent, !.life = 0]
           ELSE [mig EXCEPT !.st = "record", !.blocked = @ \cup {mig.row},
                            !.got = Absent, !.life = 0]

\* RecordMigrationFailure, whose error is ignored.  The run may be cancelled since it
\* looked, and the request may have been sent before that or not.
RecordFailure ==
    /\ mig.st = "record"
    /\ mig' = [mig EXCEPT !.st = "rows"]
    /\ stamped' \in {stamped, stamped \cup {mig.row}}
    /\ UNCHANGED <<syncVars, runs>>

\* Mutant: does not look at the version of the envelope.
OpensWithTarget(row) == row.key = mig.target

SealedForTarget(row) == row.fmt = "v2" /\ row.key = mig.target

\* GetBlob of migrateOne: gone, already sealed under the target, not to be
\* decrypted, or to be resealed.  A cancelled run's calls fail.
RowGet ==
    LET row == blob[mig.row] IN
    /\ mig.st = "get"
    /\ \/ /\ ~mig.cancel
          /\ \/ SealedForTarget(row) /\ RowMigrated
             \/ (~Present(row) \/ row.key \notin MigKeys) /\ RowBlocked
             \/ /\ row.key \in MigKeys /\ ~SealedForTarget(row)
                /\ mig' = [mig EXCEPT !.st = "seal", !.got = row, !.life = life[mig.row]]
          /\ UNCHANGED used
       \/ mig.cancel /\ RowBlocked /\ UNCHANGED used
       \/ Fault /\ RowBlocked
    /\ UNCHANGED <<blob, curKey, idem, idemDel, wire, op, view, prim, life, gone,
                   stamped, runs>>

\* rewrapBlob of what was read; a row that moved is read again.
RowSeal ==
    LET stale == StaleRewrap(blob[mig.row], mig.got.etag)
        row   == Resealed(blob[mig.row], mig.target, mig.got.val)
    IN  /\ mig.st = "seal"
        /\ \/ /\ ~mig.cancel
              /\ IF stale THEN KeepBlobs ELSE SetBlob(mig.row, row)
              /\ IF ~stale THEN RowMigrated
                 ELSE IF mig.try < MigrateRewrapMaxRetries
                 THEN mig' = [mig EXCEPT !.st = "get", !.try = @ + 1, !.got = Absent, !.life = 0]
                 ELSE RowBlocked
              /\ UNCHANGED used
           \/ mig.cancel /\ KeepBlobs /\ RowBlocked /\ UNCHANGED used
           \/ /\ Fault
              /\ IF stale THEN KeepBlobs ELSE SetBlob(mig.row, row)
              /\ RowBlocked
        /\ UNCHANGED <<curKey, idem, idemDel, wire, op, view, prim, stamped, runs>>

\* The budget of the run ends, or the enclave shuts down.
Cancel ==
    /\ MayCancel /\ Running /\ ~mig.cancel
    /\ mig' = [mig EXCEPT !.cancel = TRUE]
    /\ UNCHANGED <<syncVars, stamped, runs>>

\* The retention of a finished job ends.
Reap ==
    /\ mig.st \in {"completed", "failed"}
    /\ mig' = NoJob
    /\ UNCHANGED <<syncVars, stamped, runs>>

\* The cooldown of a recorded failure ends.
Cooldown(r) ==
    /\ r \in stamped
    /\ stamped' = stamped \ {r}
    /\ UNCHANGED <<syncVars, mig, runs>>

MigStep ==
    EnsureKey \/ NextPage \/ NextRow \/ PageEnd \/ RowGet \/ RowSeal \/ RecordFailure

MigNext ==
    \/ \E k \in Ring : StartOrGet(k)
    \/ MigStep
    \/ Cancel
    \/ Reap
    \/ \E r \in Rows : Cooldown(r)

Next == (SyncNext /\ UNCHANGED migVars) \/ MigNext

Spec == Init /\ [][Next]_vars

\* The job's goroutine keeps running once started.
FairSpec == Spec /\ WF_vars(MigStep)
-----------------------------------------------------------------------------
\* No content is replaced that its writer did not know of: the only step that
\* changes the content of a row is the arrival of a put, and if the row was not
\* deleted since its device looked, the content replaced is the one it saw.
\* ("The enclave never merges, never silently overwrites": Push; the rewraps of
\* pullOne and migrateOne reseal what is there, "never stale plaintext over newer
\* bytes".)  Etags start over when a row is created again, so a request that read
\* the row in a former life of it is excluded.
NoSilentOverwrite ==
    [][\A r \in Rows :
         Present(blob[r]) /\ Present(blob'[r]) /\ blob'[r].val # blob[r].val
         => \/ KnowingPut(r)
            \/ PullOfFormerLife(r)
            \/ mig.st = "seal" /\ mig' # mig /\ mig.row = r /\ mig.life # life[r]]_vars

\* A run that reports everything done, unblocked and in time, left no legacy
\* row of any scope behind, but those that an earlier run had put into their
\* cooldown: nobody creates legacy rows, and rows that moved under the job were
\* re-read, not skipped.
MigrateComplete ==
    mig.st = "completed" /\ ~mig.partial /\ ~mig.cancel /\ mig.blocked = {}
    => \A r \in Rows : blob[r].fmt # "legacy" \/ r \in mig.cool

\* Every migration run comes to an end, however often rows are rewritten or
\* deleted under it.
MigrationEnds == Running ~> ~Running

\* ops.go: "if work remains, the response sets Partial=true and the client
\* schedules a follow-up".
PartialWhenWorkRemains ==
    mig.st = "completed" /\ ~mig.partial
    => \A r \in Rows : ~(blob[r].fmt = "legacy" /\ blob[r].key \in MigKeys
                         /\ r \notin stamped)
=============================================================================
