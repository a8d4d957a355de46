------------------------------ MODULE ImportRun ------------------------------
(***************************************************************************)
(* What a run of an import does, on top of the coordinator of ImportJobs.  *)
(*                                                                         *)
(* Legacy exports: a parser hands conversations to a pool of workers; each *)
(* asks for a chat imported by an earlier release, then creates the chat   *)
(* under an id derived from the conversation.  Native backups: projects,   *)
(* documents and chats one by one; an entity is restored under the first   *)
(* generation of its derived ids that is free, or skipped if it finds its  *)
(* own restore marker there.                                               *)
(*                                                                         *)
(* An archive may be imported again, after a failure or a restart or for   *)
(* no reason, while the user edits and deletes what was imported.          *)
(***************************************************************************)
EXTENDS ImportJobs, Sequences

CONSTANTS
    Listing,     \* the export: conversations as listed, with the variant of their id
    Convs,       \* the conversations of the export
    OldConvs,    \* the ones an earlier release has imported already
    Generations, \* maxRestoreGenerations
    Remembers,   \* does the controlplane remember idempotency keys?
    Pool,        \* importChatConcurrency
    RowsMove,    \* may a row change under a restore: edited or deleted from the first
                 \* look on, or created after the look that follows an unclear push?
    ParserPanics,\* may the parser panic while workers run?
    MaxEdits     \* bound: edits, deletes and fresh starts by the user

ASSUME ImportRunConstants ==
    /\ IsFiniteSet(Convs) /\ OldConvs \subseteq Convs
    /\ Convs \cap {"project", "document", "chat"} = {}
    /\ Listing \in Seq(Convs \X {0, 1})
    /\ {Generations, Pool} \subseteq Nat \ {0}
    /\ MaxEdits \in Nat
    /\ {RowsMove, ParserPanics, Remembers} \subseteq BOOLEAN

\* The backup: a project, and a document and a chat with an image in it.
Graph == <<"project", "document", "chat">>
Entities == {Graph[i] : i \in DOMAIN Graph}

\* Row ids.  A conversation has an id for each creation time it is listed with (0
\* and 1) and one of the earlier release (2); an entity has one per generation,
\* documents per generation of their project.
Gens == 0..(Generations - 1)
Prior == 2
Rows == {<<c, v, 0>> : c \in Convs, v \in {0, 1, Prior}}
        \cup {<<e, g, 0>> : e \in Entities \ {"document"}, g \in Gens}
        \cup {<<"document", g, p>> : g, p \in Gens}

VARIABLES
    rows,   \* controlplane: what is stored under each id, its image, project and key
    curKey, \* controlplane: the registered key
    idem,   \* controlplane: committed puts whose idempotency key it remembers
    late,   \* puts that may still arrive
    pics,   \* images stored, by the id of their chat
    nat,    \* the native run
    leg,    \* the legacy run
    gone,   \* entities and conversations of which the user deleted a row (history)
    edits

runVars == <<rows, curKey, idem, late, pics, nat, leg, gone, edits>>
vars == <<jobVars, runVars>>
World == <<rows, curKey, idem, late, pics, gone, edits>>

\* The user's keys, in the order they are registered.  0 is a key nobody has.
KeyIds == 1..(MaxEdits + 1)

Nothing == [st |-> "absent", pic |-> FALSE, proj |-> 0, key |-> 0]

Puts == [row : Rows, pic : BOOLEAN, proj : Gens, key : {0} \cup KeyIds]

\* key: the one the request of the run carries; i, g: the entity in hand and its
\* generation; proj, mapped: the restored project; pic: the image of the chat in hand
\* was uploaded; err: what its push came to.
NoNat == [pc |-> "off", key |-> 0, i |-> 1, g |-> 0, proj |-> 0, mapped |-> FALSE,
          pic |-> FALSE, err |-> "none"]

\* pos: of the parser; bad: it failed; abort: a worker reported a definite failure;
\* at, v, try: of the worker of each conversation.
NoLeg == [pc |-> "off", key |-> 0, pos |-> 1, bad |-> FALSE, abort |-> FALSE, seen |-> {},
          at |-> [c \in Convs |-> "none"], v |-> [c \in Convs |-> 0],
          try |-> [c \in Convs |-> 1]]

ImportRetryMaxAttempts == 3

WorkerStates == {"none", "probe", "push", "check", "imported", "skipped", "failed"}

Active(c) == leg.at[c] \in {"probe", "push", "check"}

\* Type invariant.
TypeOK ==
    /\ JobsTypeOK
    /\ rows \in [Rows -> [st : {"absent", "ours", "edited", "prior"}, pic : BOOLEAN,
                          proj : Gens, key : {0} \cup KeyIds]]
    /\ curKey \in KeyIds
    /\ idem \subseteq Puts
    /\ late \subseteq Puts
    /\ pics \subseteq Rows
    /\ nat \in [pc : {"off", "key", "next", "inspect", "build", "push", "verify", "clean"},
                key : {0} \cup KeyIds, i : 1..(Len(Graph) + 1), g : 0..Generations,
                proj : Gens, mapped : BOOLEAN, pic : BOOLEAN,
                err : {"none", "unclear", "refused", "conflict"}]
    /\ leg \in [pc : {"off", "key", "parse", "wait"}, key : {0} \cup KeyIds,
                pos : 1..(Len(Listing) + 1),
                bad : BOOLEAN, abort : BOOLEAN, seen : SUBSET Convs, at : [Convs -> WorkerStates],
                v : [Convs -> {0, 1}], try : [Convs -> 1..ImportRetryMaxAttempts]]
    /\ gone \subseteq Convs \cup Entities
    /\ edits \in 0..MaxEdits
    \* the pool never has more workers than its limit
    /\ Cardinality({c \in Convs : Active(c)}) <= Pool

Init ==
    /\ JobsInit
    \* a chat of the earlier release may be sealed under a key that is lost by now
    /\ \E k \in {0, 1} :
         rows = [r \in Rows |-> IF r[1] \in OldConvs /\ r[2] = Prior
                                THEN [Nothing EXCEPT !.st = "prior", !.key = k] ELSE Nothing]
    /\ curKey = 1
    /\ idem = {} /\ late = {} /\ pics = {} /\ gone = {} /\ edits = 0
    /\ nat = NoNat /\ leg = NoLeg
-----------------------------------------------------------------------------
(* Push, create-only, under a derived idempotency key.  The operation hash covers
   everything there is to a put: its path, key and plaintext. *)

\* chatIdemKey, restoreIdemKey: the one of a document does not say which project.
IdemKey(r) == <<r[1], r[2]>>
Remembered(p) == \E q \in idem : IdemKey(q.row) = IdemKey(p.row)

\* What the controlplane makes of a create: a replay, another operation under the
\* same idempotency key, a conflict, or a new row.
Verdict(p) ==
    IF p \in idem THEN "ok"
    ELSE IF Remembered(p) THEN "refused"
    ELSE IF rows[p.row].st # "absent" THEN "conflict"
    ELSE "ok"

Commit(p) ==
    IF ~Remembered(p) /\ rows[p.row].st = "absent"
    THEN /\ rows' = [rows EXCEPT ![p.row] = [st |-> "ours", pic |-> p.pic, proj |-> p.proj,
                                             key |-> p.key]]
         /\ idem' = IF Remembers THEN idem \cup {p} ELSE idem
    ELSE UNCHANGED <<rows, idem>>

\* One call of Push and its answer.  Unclear: the answer is lost, or the call timed
\* out or was cancelled, and the request may be on its way still.
PushRow(p, stop, answer) ==
    \/ /\ ~stop
       /\ Commit(p)
       /\ answer = Verdict(p)
       /\ UNCHANGED <<late, faults>>
    \/ /\ answer = "unclear"
       /\ IF stop THEN UNCHANGED faults ELSE Fault
       /\ late' = late \cup {p}
       /\ UNCHANGED <<rows, idem>>
    \/ /\ answer = "refused" /\ Fault
       /\ UNCHANGED <<rows, idem, late>>

\* It arrives after all, or is lost.
LatePut(p) ==
    /\ p \in late
    /\ late' = late \ {p}
    /\ Commit(p) \/ UNCHANGED <<rows, idem>>
    /\ UNCHANGED <<jobVars, curKey, pics, nat, leg, gone, edits>>

\* What a look with key k finds: the marker of the restore, or a row without it,
\* or one that key cannot open.
Ours(r, k) == rows[r].st = "ours" /\ rows[r].key = k
-----------------------------------------------------------------------------
(* Start and end of a run. *)

\* The watchdog cancelled the run.
Cancelled == \E j \in Jobs : job[j].st = "running" /\ job[j].stalled

StartRun(j) ==
    /\ Start(j)
    /\ IF job[j].src = "native"
       THEN nat' = [NoNat EXCEPT !.pc = "key", !.key = curKey] /\ UNCHANGED leg
       ELSE leg' = [NoLeg EXCEPT !.pc = "key", !.key = curKey] /\ UNCHANGED nat
    /\ UNCHANGED World

\* Workers that are still active stay so.
Finish(j, status) ==
    /\ EndRun(j, status)
    /\ nat' = NoNat
    /\ leg' = IF \E c \in Convs : Active(c) THEN [leg EXCEPT !.pc = "off"] ELSE NoLeg
    /\ UNCHANGED World

\* ensureCurrentKeyRegistered, then the staged archive is opened and hashed.
KeyRegistered == curKey = IF nat.pc = "key" THEN nat.key ELSE leg.key

Opened ==
    /\ ~Cancelled /\ KeyRegistered
    /\ IF nat.pc = "key" THEN nat' = [nat EXCEPT !.pc = "next"] /\ UNCHANGED leg
                         ELSE leg' = [leg EXCEPT !.pc = "parse"] /\ UNCHANGED nat
    /\ UNCHANGED <<jobVars, World>>

\* A chunk cannot be read, or the archive breaks a limit of any source.
ArchiveRejected(j) == Fault /\ Finish(j, "failed")

\* A native backup is checked as a whole before anything is restored.
BackupRejected(j) == nat.pc = "key" /\ Fault /\ Finish(j, "failed")

Open(j) ==
    /\ "key" \in {nat.pc, leg.pc}
    /\ \/ Opened
       \/ ArchiveRejected(j)
       \/ BackupRejected(j)
       \/ (Cancelled \/ ~KeyRegistered) /\ Finish(j, "failed") /\ UNCHANGED faults

RestartEnclave == Restart /\ nat' = NoNat /\ leg' = NoLeg /\ UNCHANGED World
-----------------------------------------------------------------------------
(* The native run: restoreNativeEntity of one entity after the other. *)

Entity == Graph[nat.i]
Row == <<Entity, nat.g, IF Entity = "document" THEN nat.proj ELSE 0>>
KeepJobs == UNCHANGED <<cur, job, staged, upl, sweep, leaked, wedged>>

\* An entity is done; a restored project maps the ones that belong to it.
Done(ok) ==
    nat' = [nat EXCEPT !.pc = "next", !.i = @ + 1, !.g = 0, !.err = "none", !.pic = FALSE,
              !.mapped = IF Entity = "project" THEN ok ELSE @,
              !.proj = IF Entity = "project" /\ ok THEN nat.g ELSE @]

NextGeneration ==
    nat' = [nat EXCEPT !.pc = "inspect", !.g = @ + 1, !.err = "none", !.pic = FALSE]

\* Mutant: goes on with the first id of the project.
NeverBlocked == FALSE

Blocked == Entity # "project" /\ ~nat.mapped

\* Failures of single entities do not fail the run.
NatNext(j) ==
    /\ nat.pc = "next"
    /\ IF nat.i > Len(Graph) THEN Finish(j, "completed") /\ UNCHANGED faults
       ELSE /\ IF Blocked THEN Done(FALSE) ELSE nat' = [nat EXCEPT !.pc = "inspect"]
            /\ UNCHANGED <<jobVars, leg, World>>

\* Mutant: an id that cannot be looked at counts as occupied.
OccupiedUnlessSeen == NextGeneration

\* A look that fails decides nothing: the entity fails.
NotSeen == Done(FALSE)

\* A row without the marker, or one the key of the run does not open: no matter
\* whose it is.
Occupied(r, k) == rows[r].st # "absent" /\ ~Ours(r, k)

\* inspectRestoreCandidate: skip what is there with its marker, pass over what is
\* there without it, build where there is nothing.
Inspect ==
    /\ nat.pc = "inspect"
    /\ \/ nat.g = Generations /\ Done(FALSE) /\ UNCHANGED faults
       \/ /\ nat.g < Generations /\ ~Cancelled
          /\ \/ Ours(Row, nat.key) /\ Done(TRUE)
             \/ Occupied(Row, nat.key) /\ NextGeneration
             \/ rows[Row].st = "absent" /\ nat' = [nat EXCEPT !.pc = "build"]
          /\ UNCHANGED faults
       \/ nat.g < Generations /\ Cancelled /\ NotSeen /\ UNCHANGED faults
       \/ nat.g < Generations /\ Fault /\ NotSeen
    /\ KeepJobs /\ UNCHANGED <<leg, World>>

\* buildNativeChatPayload: an image that cannot be uploaded is left out.
Build ==
    /\ nat.pc = "build"
    /\ \/ /\ Entity = "chat" /\ ~Cancelled
          /\ pics' = pics \cup {Row}
          /\ nat' = [nat EXCEPT !.pc = "push", !.pic = TRUE]
          /\ UNCHANGED faults
       \/ /\ IF Entity # "chat" \/ Cancelled THEN UNCHANGED faults ELSE Fault
          /\ nat' = [nat EXCEPT !.pc = "push"]
          /\ UNCHANGED pics
    /\ KeepJobs /\ UNCHANGED <<leg, rows, curKey, idem, late, gone, edits>>

\* What is put: documents and chats name their project.
Restored == [row |-> Row, pic |-> nat.pic, key |-> nat.key,
             proj |-> IF Entity = "project" THEN 0 ELSE nat.proj]

PushEntity ==
    /\ nat.pc = "push"
    /\ \E answer \in {"ok", "unclear", "refused", "conflict"} :
         /\ PushRow(Restored, Cancelled, answer)
         /\ IF answer = "ok" THEN Done(TRUE)
            ELSE nat' = [nat EXCEPT !.pc = "verify", !.err = answer]
    /\ KeepJobs /\ UNCHANGED <<leg, curKey, pics, gone, edits>>

\* Mutant: a look that fails counts as nothing there.
AbsentUnlessSeen == nat' = [nat EXCEPT !.pc = "clean"]

\* The entity fails, and what it uploaded stays.
Unverified == Done(FALSE)

\* After a push that did not succeed: is the row there after all?
Verify ==
    /\ nat.pc = "verify"
    /\ RowsMove \/ \A p \in late : p.row # Row
    /\ \/ /\ ~Cancelled
          /\ IF Ours(Row, nat.key) THEN Done(TRUE) ELSE nat' = [nat EXCEPT !.pc = "clean"]
          /\ UNCHANGED faults
       \/ Cancelled /\ Unverified /\ UNCHANGED faults
       \/ Fault /\ Unverified
    /\ KeepJobs /\ UNCHANGED <<leg, World>>

\* cleanupNativeAttachments, as far as it gets; after a conflict the next id.
Clean ==
    /\ nat.pc = "clean"
    /\ \/ pics' = (IF nat.pic THEN pics \ {Row} ELSE pics) /\ UNCHANGED faults
       \/ nat.pic /\ Fault /\ UNCHANGED pics
    /\ IF nat.err = "conflict" THEN NextGeneration ELSE Done(FALSE)
    /\ KeepJobs /\ UNCHANGED <<leg, rows, curKey, idem, late, gone, edits>>
-----------------------------------------------------------------------------
(* The legacy run: the parser. *)

Stopped == leg.abort \/ Cancelled

\* emit: the first copy of a conversation goes to a worker, when one is free.
Emit ==
    LET c == Listing[leg.pos][1] IN
    /\ leg.pc = "parse" /\ leg.pos <= Len(Listing) /\ ~Stopped
    /\ IF c \in leg.seen THEN leg' = [leg EXCEPT !.pos = @ + 1]
       ELSE /\ Cardinality({d \in Convs : Active(d)}) < Pool
            /\ leg' = [leg EXCEPT !.pos = @ + 1, !.seen = @ \cup {c}, !.at[c] = "probe",
                                  !.v[c] = Listing[leg.pos][2]]
    /\ UNCHANGED <<jobVars, nat, World>>

\* A limit is reached, or a file the parser does not understand.
ParserRejects == Fault /\ leg' = [leg EXCEPT !.pc = "wait", !.bad = TRUE]

\* The last file of the archive, a stopped pool, or a rejection.
ParseEnd ==
    /\ leg.pc = "parse"
    /\ \/ /\ leg.pos > Len(Listing) \/ Stopped
          /\ leg' = [leg EXCEPT !.pc = "wait", !.bad = leg.pos <= Len(Listing)]
          /\ UNCHANGED faults
       \/ ParserRejects
    /\ KeepJobs /\ UNCHANGED <<nat, World>>

AllBack == \A c \in Convs : ~Active(c)

\* workers.Wait, then the error of a worker before the one of the parser.
LegEnd(j) ==
    /\ leg.pc = "wait" /\ AllBack
    /\ Finish(j, IF leg.abort \/ leg.bad THEN "failed" ELSE "completed")
    /\ UNCHANGED faults

\* runGuarded turns a panic of the runner into a failure of the job; nobody waits
\* for the workers then.
Panic(j) ==
    /\ ParserPanics \/ AllBack
    /\ Fault
    /\ Finish(j, "failed")
-----------------------------------------------------------------------------
(* The legacy run: importOneChat, one worker per conversation in hand. *)

Chat(c) == <<c, leg.v[c], 0>>
Outcome(c, to) == leg' = [leg EXCEPT !.at[c] = to, !.try[c] = 1]
Again(c) == leg.try[c] < ImportRetryMaxAttempts /\ leg' = [leg EXCEPT !.try[c] = @ + 1]
LastTry(c) == leg.try[c] = ImportRetryMaxAttempts
Abort(c) == leg' = [leg EXCEPT !.at[c] = "none", !.abort = TRUE]

\* priorImportedChatExistsWithRetry.  A transient error is retried and then fails
\* the chat; a definite one, a row that does not open among them, or a cancelled
\* context aborts the run.
Probe(c) ==
    LET prior == rows[<<c, Prior, 0>>] IN
    /\ leg.at[c] = "probe"
    /\ \/ /\ ~Stopped
          /\ \/ prior.st = "absent" /\ Outcome(c, "push")
             \/ prior.st # "absent" /\ prior.key = leg.key /\ Outcome(c, "skipped")
             \/ prior.st # "absent" /\ prior.key # leg.key /\ Abort(c)
          /\ UNCHANGED faults
       \/ /\ Fault
          /\ Again(c) \/ (LastTry(c) /\ Outcome(c, "failed")) \/ Abort(c)
       \/ Stopped /\ Abort(c) /\ UNCHANGED faults
    /\ KeepJobs /\ UNCHANGED <<nat, World>>

Imported(c) == [row |-> Chat(c), pic |-> FALSE, proj |-> 0, key |-> leg.key]

\* Mutant: takes a push without an answer for done.
GivesUpCounted(c) == Outcome(c, "imported")

GivesUp(c) == Outcome(c, "failed")

\* sealImportedChat: an unclear push is repeated, a conflict looked into; every
\* other error fails the chat.
PushChat(c) ==
    /\ leg.at[c] = "push"
    /\ \E answer \in {"ok", "unclear", "refused", "conflict"} :
         /\ PushRow(Imported(c), Stopped, answer)
         /\ \/ answer = "ok" /\ Outcome(c, "imported")
            \/ answer = "conflict" /\ Outcome(c, "check")
            \/ answer = "refused" /\ Outcome(c, "failed")
            \/ answer = "unclear" /\ ~Stopped /\ Again(c)
            \/ answer = "unclear" /\ (Stopped \/ LastTry(c)) /\ GivesUp(c)
    /\ KeepJobs /\ UNCHANGED <<nat, curKey, pics, gone, edits>>

\* A conflict with the chat of an earlier import of the same conversation is success.
Check(c) ==
    /\ leg.at[c] = "check"
    /\ \/ /\ ~Stopped
          /\ Outcome(c, IF Ours(Chat(c), leg.key) THEN "imported" ELSE "failed")
          /\ UNCHANGED faults
       \/ /\ IF Stopped THEN UNCHANGED faults ELSE Fault
          /\ Outcome(c, "failed")
    /\ KeepJobs /\ UNCHANGED <<nat, World>>
-----------------------------------------------------------------------------
(* The user. *)

\* The row a restore has in hand, looked at to decide about its uploads, or one that
\* may be put with its image still.
Decided(r) ==
    \/ nat.pc \in {"build", "push", "verify", "clean"} /\ r = Row
    \/ \E p \in late : p.row = r /\ p.pic
UserActs == edits < MaxEdits /\ edits' = edits + 1
Touch(r) == UserActs /\ (RowsMove \/ ~Decided(r))

\* A client saves a changed version, without the restore marker.
Edit(r) ==
    /\ rows[r].st = "ours"
    /\ Touch(r)
    /\ rows' = [rows EXCEPT ![r].st = "edited"]
    /\ UNCHANGED <<jobVars, curKey, idem, late, pics, nat, leg, gone>>

DeleteRow(r) ==
    /\ rows[r].st # "absent"
    /\ Touch(r)
    /\ rows' = [rows EXCEPT ![r] = Nothing]
    /\ pics' = pics \ {r}
    /\ gone' = gone \cup {r[1]}
    /\ UNCHANGED <<jobVars, curKey, idem, late, nat, leg>>

\* The account starts afresh under a new key (start_fresh; other registrations are
\* refused while there are rows under another key).  A run goes on with its own.
Rotate ==
    /\ UserActs
    /\ curKey' = curKey + 1
    /\ rows' = [r \in Rows |-> Nothing]
    /\ pics' = {}
    /\ UNCHANGED <<jobVars, idem, late, nat, leg, gone>>
-----------------------------------------------------------------------------
Step(j) ==
    /\ job[j].st = "running" /\ ~wedged
    /\ \/ Open(j)
       \/ NatNext(j) \/ Inspect \/ Build \/ PushEntity \/ Verify \/ Clean
       \/ Emit \/ ParseEnd \/ LegEnd(j)
       \/ \E c \in Convs : Probe(c) \/ PushChat(c) \/ Check(c)

Next ==
    \/ Coordinator /\ UNCHANGED runVars
    \/ \E j \in Jobs : StartRun(j) \/ Step(j) \/ (job[j].st = "running" /\ Panic(j))
    \/ \E r \in Rows : Edit(r) \/ DeleteRow(r)
    \/ \E p \in late : LatePut(p)
    \/ Rotate
    \/ RestartEnclave

Spec == Init /\ [][Next]_vars

\* The goroutine of the run goes on unless it hangs in a call, handlers and timers
\* do their part, requests arrive or are lost; clients and the user need not do
\* anything.
FairSpec ==
    /\ Spec
    /\ WF_vars(\/ Timers /\ UNCHANGED runVars
               \/ \E j \in Jobs : Step(j)
               \/ \E p \in late : LatePut(p))
-----------------------------------------------------------------------------
\* Nothing is imported twice: however often an archive is imported, through lost
\* answers, late requests, failed looks, restarts, edits and new keys, a conversation
\* never has two chats, one of the earlier release included; and an entity never two
\* unedited restored copies in the same place that the user's key opens, unless the
\* user deleted one in between (which makes its id free again).
NoDuplicate ==
    /\ \A c \in Convs, v, w \in {0, 1, Prior} :
         rows[<<c, v, 0>>].st # "absent" /\ rows[<<c, w, 0>>].st # "absent" => v = w
    /\ \A r, s \in {q \in Rows : q[1] \in Entities \ gone /\ Ours(q, curKey)} :
         r[1] = s[1] /\ r[3] = s[3] => r = s

\* As NoDuplicate, but of all copies: restoreNativeEntity skips what it finds
\* restored.  Not so under a new key: a run that began under the old one leaves rows
\* that the next import cannot read, and passes over.
NoSecondCopy ==
    \A r, s \in {q \in Rows : q[1] \in Entities \ gone /\ rows[q].st = "ours"} :
       r[1] = s[1] /\ r[3] = s[3] => r = s

\* A restored chat that the user can open has its image: the cleanup after a failed
\* push never takes an image that a committed chat refers to.
RestoredReadable == \A r \in Rows : rows[r].pic /\ rows[r].key = curKey => r \in pics

\* What belongs to a project is restored into a project that was restored.
Placed ==
    \A r \in Rows : r[1] \in {"document", "chat"} /\ Ours(r, curKey)
        => rows[<<"project", rows[r].proj, 0>>].st # "absent" \/ "project" \in gone

\* What a run counts as imported or skipped is there, through unclear pushes, answers
\* from the idempotency table and conflicts looked into: a chat of the conversation,
\* and the project that documents and chats are put into; unless the user deleted it,
\* or started afresh under another key.
ReportedThere ==
    /\ \A c \in Convs \ gone :
         leg.at[c] \in {"imported", "skipped"} /\ leg.key = curKey
         => \E v \in {0, 1, Prior} : rows[<<c, v, 0>>].st # "absent"
    /\ nat.mapped /\ nat.key = curKey
       => rows[<<"project", nat.proj, 0>>].st # "absent" \/ "project" \in gone

\* No worker outlives its run: when a job has its final status, its keys are zeroed
\* and its chunks deleted, nobody seals, uploads or pushes for it any more.  Not so
\* when the parser panics.
NoWorkerOutlivesRun == \A c \in Convs : Active(c) => leg.pc # "off"

\* import_test.go: a run the stall watchdog cancelled is reported as failed, timed out.
StallReported == \A j \in Jobs : job[j].stalled => job[j].st # "completed"
=============================================================================
