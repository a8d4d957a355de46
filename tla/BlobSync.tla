------------------------------ MODULE BlobSync ------------------------------
(***************************************************************************)
(* Push, pull, delete and key registration of several devices of one user. *)
(*                                                                         *)
(* A device holds a view of each row, the etag and content it last saw,    *)
(* and one request at a time.  The enclave keeps nothing between requests; *)
(* what orders devices is the compare-and-set of the controlplane, and its *)
(* table of idempotency keys if it has one: operationHashForBlob counts on *)
(* it, the mirror in the repository has none.  Requests and answers may be *)
(* lost, and a put may arrive after its sender stopped waiting for it.     *)
(*                                                                         *)
(* The index and the attachments that follow a push or a delete are in     *)
(* SearchCoverage and Attachments.                                         *)
(***************************************************************************)
EXTENDS BlobStore, Sequences

CONSTANTS
    Rows,        \* ids of rows
    Devices,
    Ring,        \* keys the user's devices hold
    Remembers,   \* does the controlplane remember idempotency keys?
    MaxDeletes,  \* bound: delete requests
    MaxPulls,    \* bound: pull requests
    MaxFaults,   \* bound: lost messages, timeouts, refusals, abandoned requests
    MaxResets    \* bound: key registrations

ASSUME SyncConstants ==
    /\ {MaxDeletes, MaxPulls, MaxFaults, MaxResets} \subseteq Nat
    /\ Ring \subseteq Keys
    /\ Remembers \in BOOLEAN

PutBlobMaxAttempts == 2
DeleteMaxRetries   == 3

VARIABLES
    blob,    \* controlplane: the rows
    curKey,  \* controlplane: the registered key
    idem,    \* controlplane: etag a push was last committed under, by idempotency key
    idemDel, \* controlplane: deletes done, by idempotency key
    wire,    \* puts on their way
    op,      \* per device: its request, or the last answer
    view,    \* per device and row: etag, content and life it last saw
    prim,    \* per device: its primary key
    life,    \* how often each row has been deleted (history)
    gone,    \* per device: the row of its delete has been absent since it asked (history)
    used     \* how much of each bound is used up

syncVars == <<blob, curKey, idem, idemDel, wire, op, view, prim, life, gone, used>>
-----------------------------------------------------------------------------
Unseen == [etag |-> 0, val |-> 0, life |-> 0]

Idle(answer, w, seen) == [kind |-> "idle", said |-> answer, w |-> w, seen |-> seen]

Puts == [dev : Devices, row : Rows, w : Contents, im : Nat, key : Keys,
         base : [etag : Nat, val : Nat, life : Nat], try : 1..PutBlobMaxAttempts]

Requests ==
    [kind : {"idle"}, said : {"none", "ok", "conflict", "unread", "deleted", "error"},
     w : 0..MaxWrites, seen : Nat]
    \cup [kind : {"push", "unsure"}, put : Puts]
    \cup [kind : {"pull"}, row : Rows, can : BOOLEAN, ph : {"get", "seal", "fill"},
          got : RowType, life : Nat, etag : Nat]
    \cup [kind : {"delete", "delunsure"}, row : Rows, n : Nat, given : Nat, im : Nat,
          ph : {"get", "cas"}, try : 1..DeleteMaxRetries]

Bounds == [w : Nat, del : Nat, pull : Nat, fault : Nat, reset : Nat]

\* Type invariant of the devices and the rows.
SyncTypeOK ==
    /\ blob \in [Rows -> RowType]
    /\ curKey \in Keys
    /\ idem \in [Contents -> [etag : Nat, life : Nat]]
    /\ idemDel \subseteq [n : Nat, try : 1..DeleteMaxRetries, im : Nat]
    /\ wire \subseteq Puts
    /\ op \in [Devices -> Requests]
    /\ view \in [Devices -> [Rows -> [etag : Nat, val : 0..MaxWrites, life : Nat]]]
    /\ prim \in [Devices -> Keys]
    /\ life \in [Rows -> Nat]
    /\ gone \in [Devices -> BOOLEAN]
    /\ used \in Bounds

SyncInit ==
    /\ blob \in [Rows -> {Absent} \cup {Legacy(k) : k \in Keys}]
    /\ curKey \in Ring
    /\ idem = [w \in Contents |-> [etag |-> 0, life |-> 0]]
    /\ idemDel = {}
    /\ wire = {}
    /\ op = [d \in Devices |-> Idle("none", 0, 0)]
    /\ view = [d \in Devices |-> [r \in Rows |-> Unseen]]
    /\ prim = [d \in Devices |-> curKey]
    /\ life = [r \in Rows |-> 0]
    /\ gone = [d \in Devices |-> FALSE]
    /\ used = [w |-> 1, del |-> 0, pull |-> 0, fault |-> 0, reset |-> 0]
-----------------------------------------------------------------------------
\* Spend one unit of a bound.
Spend(what, max) == used[what] < max /\ used' = [used EXCEPT ![what] = @ + 1]
Fault == Spend("fault", MaxFaults)

\* The controlplane replaces rows; a delete in progress notes an absence.
SetBlobs(b) ==
    /\ blob' = b
    /\ life' = [r \in Rows |-> IF Present(blob[r]) /\ ~Present(b[r])
                               THEN life[r] + 1 ELSE life[r]]
    /\ gone' = [d \in Devices |->
                  \/ gone[d]
                  \/ op[d].kind \in {"delete", "delunsure"} /\ ~Present(b[op[d].row])]
SetBlob(r, row) == SetBlobs([blob EXCEPT ![r] = row])
KeepBlobs == UNCHANGED <<blob, life, gone>>

Answer(d, said, w, seen) == op' = [op EXCEPT ![d] = Idle(said, w, seen)]
SeeRow(d, r, etag, v, n) ==
    view' = [view EXCEPT ![d][r] = [etag |-> etag, val |-> v, life |-> n]]
SeeNothing(d, r) == view' = [view EXCEPT ![d][r] = Unseen]
-----------------------------------------------------------------------------
(* Push. *)

\* A new content, put over what the device last saw of the row.
Push(d, r) ==
    LET put == [dev |-> d, row |-> r, w |-> used.w + 1, im |-> view[d][r].etag,
                key |-> prim[d], base |-> view[d][r], try |-> 1]
    IN  /\ op[d].kind = "idle"
        /\ Spend("w", MaxWrites)
        /\ op' = [op EXCEPT ![d] = [kind |-> "push", put |-> put]]
        /\ wire' = wire \cup {put}
        /\ KeepBlobs
        /\ UNCHANGED <<curKey, idem, idemDel, view, prim>>

\* A controlplane that remembers answers a push it has seen from its table: the
\* operation hash covers the plaintext, so every attempt of a push has the same.
Replayed(put) == Remembers /\ idem[put.w].etag # 0

\* What a put does to the table.
PutBlob(put) ==
    IF Replayed(put) \/ StaleMatch(blob[put.row], put.im)
    THEN KeepBlobs /\ UNCHANGED idem
    ELSE LET row == Stored(blob[put.row], put.key, put.w)
         IN  /\ SetBlob(put.row, row)
             /\ idem' = [idem EXCEPT ![put.w] = [etag |-> row.etag, life |-> life[put.row]]]

Awaited(put) == op[put.dev].kind = "push" /\ op[put.dev].put = put

\* The answer of a put reaches the device: ok with the etag, or SYNC_CONFLICT
\* with the current etag, and the user may decide to overwrite what is there.
PutAnswered(put) ==
    LET d == put.dev  r == put.row IN
    /\ put \in wire /\ Awaited(put)
    /\ wire' = wire \ {put}
    /\ PutBlob(put)
    /\ IF ~Replayed(put) /\ StaleMatch(blob[r], put.im)
       THEN /\ Answer(d, "conflict", put.w, blob[r].etag)
            /\ \/ UNCHANGED view
               \/ SeeRow(d, r, blob[r].etag, blob[r].val, life[r])
       ELSE /\ Answer(d, "ok", put.w, idem'[put.w].etag)
            /\ SeeRow(d, r, idem'[put.w].etag, put.w, idem'[put.w].life)
    /\ UNCHANGED <<curKey, idemDel, prim, used>>

\* A put nobody waits for any more takes effect all the same.
PutLate(put) ==
    /\ put \in wire /\ ~Awaited(put)
    /\ wire' = wire \ {put}
    /\ PutBlob(put)
    /\ UNCHANGED <<curKey, idemDel, op, view, prim, used>>

PutDropped(put) ==
    /\ put \in wire
    /\ Fault
    /\ wire' = wire \ {put}
    /\ KeepBlobs
    /\ UNCHANGED <<curKey, idem, idemDel, op, view, prim>>

\* A definite refusal that is no conflict: the token expired, too many requests.
PutRefused(put) ==
    /\ put \in wire /\ Awaited(put)
    /\ Fault
    /\ wire' = wire \ {put}
    /\ Answer(put.dev, "error", put.w, 0)
    /\ KeepBlobs
    /\ UNCHANGED <<curKey, idem, idemDel, view, prim>>

\* Mutant: one attempt too many.
SendsOnceMore(put) == put.try <= PutBlobMaxAttempts

SendsAgain(put) == put.try < PutBlobMaxAttempts

\* No usable answer (AmbiguousPutBlobError): once more with the same headers,
\* then PutBlobOutcomeUnknownError.
PutAmbiguous(d) ==
    /\ op[d].kind = "push"
    /\ Fault
    /\ LET put == op[d].put  again == [put EXCEPT !.try = @ + 1]
       IN  IF SendsAgain(put)
           THEN /\ wire' = wire \cup {again}
                /\ op' = [op EXCEPT ![d].put = again]
           ELSE /\ op' = [op EXCEPT ![d].kind = "unsure"]
                /\ UNCHANGED wire
    /\ KeepBlobs
    /\ UNCHANGED <<curKey, idem, idemDel, view, prim>>

\* The device repeats a push of unknown outcome under its idempotency key.
PushAgain(d) ==
    /\ op[d].kind = "unsure"
    /\ LET put == [op[d].put EXCEPT !.try = 1]
       IN  /\ op' = [op EXCEPT ![d] = [kind |-> "push", put |-> put]]
           /\ wire' = wire \cup {put}
    /\ KeepBlobs
    /\ UNCHANGED <<curKey, idem, idemDel, view, prim, used>>
-----------------------------------------------------------------------------
(* Pull of one row; the rows of a batch are independent, each fetched once. *)

\* currentPrimaryKeyIs: a rewrap under another key than the registered one is
\* refused, so Pull asks once and leaves it.
CanRewrap(d) == curKey = prim[d]

Pull(d, r) ==
    /\ op[d].kind = "idle"
    /\ Spend("pull", MaxPulls)
    /\ op' = [op EXCEPT ![d] = [kind |-> "pull", row |-> r, can |-> CanRewrap(d),
                ph |-> "get", got |-> Absent, life |-> 0, etag |-> 0]]
    /\ KeepBlobs
    /\ UNCHANGED <<curKey, idem, idemDel, wire, view, prim>>

PullGet(d) ==
    LET o == op[d]  row == blob[o.row]
        next(ph) == op' = [op EXCEPT ![d] = [o EXCEPT !.ph = ph, !.got = row,
                             !.life = life[o.row], !.etag = row.etag]]
    IN  /\ o.kind = "pull" /\ o.ph = "get"
        /\ \/ /\ ~Present(row)
              /\ Answer(d, "unread", 0, 0)
              /\ SeeNothing(d, o.row)
           \/ /\ Present(row) /\ row.key \notin Ring
              /\ Answer(d, "unread", 0, row.etag)
              /\ UNCHANGED view
           \/ /\ Present(row) /\ row.key \in Ring
              /\ next(IF row.fmt = "legacy" /\ o.can THEN "seal" ELSE "fill")
              /\ UNCHANGED view
        /\ KeepBlobs
        /\ UNCHANGED <<curKey, idem, idemDel, wire, prim, used>>

\* Mutant: takes the etag of the conflict that the rewrap met.
AnsweredEtagOfConflict(o, stale, row) == IF stale THEN blob[o.row].etag ELSE row.etag

\* With the plaintext that was read goes the etag of its rewrap, or its own if that
\* failed.
AnsweredEtag(o, stale, row) == IF stale THEN o.etag ELSE row.etag

\* Lazy rewrap under the primary key; if it fails, or its answer is lost, the
\* device gets the row as it was read.
PullSeal(d) ==
    LET o == op[d]  stale == StaleRewrap(blob[o.row], o.etag)
        row == Resealed(blob[o.row], prim[d], o.got.val)
    IN  /\ o.kind = "pull" /\ o.ph = "seal"
        /\ IF stale THEN KeepBlobs ELSE SetBlob(o.row, row)
        /\ \/ /\ op' = [op EXCEPT ![d].ph = "fill", ![d].etag = AnsweredEtag(o, stale, row)]
              /\ UNCHANGED used
           \/ Fault /\ op' = [op EXCEPT ![d].ph = "fill"]
        /\ UNCHANGED <<curKey, idem, idemDel, wire, view, prim>>

\* The activity time of an older row is recorded on the way; then the answer.
PullFill(d) ==
    LET o == op[d] IN
    /\ o.kind = "pull" /\ o.ph = "fill"
    /\ \/ /\ IF o.got.act = 0 /\ ActivityOf(o.got.val) # 0
             THEN SetBlob(o.row, Backfilled(blob[o.row], o.etag, o.got.val))
             ELSE KeepBlobs
          /\ UNCHANGED used
       \/ Fault /\ KeepBlobs
    /\ Answer(d, "ok", 0, o.etag)
    /\ SeeRow(d, o.row, o.etag, o.got.val, o.life)
    /\ UNCHANGED <<curKey, idem, idemDel, wire, prim>>
-----------------------------------------------------------------------------
(* Delete: with an If-Match one compare-and-set, without one up to three, each
   of the etag just read. *)

Delete(d, r, given) ==
    /\ op[d].kind = "idle"
    /\ Spend("del", MaxDeletes)
    /\ op' = [op EXCEPT ![d] = [kind |-> "delete", row |-> r, n |-> used.del + 1,
                given |-> given, im |-> given, try |-> 1,
                ph |-> IF given = 0 THEN "get" ELSE "cas"]]
    /\ gone' = [gone EXCEPT ![d] = ~Present(blob[r])]
    /\ UNCHANGED <<blob, life, curKey, idem, idemDel, wire, view, prim>>

Deleted(d) == Answer(d, "deleted", 0, 0) /\ SeeNothing(d, op[d].row)

DeleteGet(d) ==
    LET o == op[d] IN
    /\ o.kind = "delete" /\ o.ph = "get"
    /\ IF Present(blob[o.row])
       THEN /\ op' = [op EXCEPT ![d].ph = "cas", ![d].im = blob[o.row].etag]
            /\ UNCHANGED view
       ELSE Deleted(d)
    /\ KeepBlobs
    /\ UNCHANGED <<curKey, idem, idemDel, wire, prim, used>>

\* The retry counter is part of the idempotency key of an attempt.
SameKey(o) == {e \in idemDel : Remembers /\ e.n = o.n /\ e.try = o.try}

\* Mutant: a row that moved counts as deleted.
CasOutcomeLenient(o) ==
    IF SameKey(o) = {} THEN "done"
    ELSE IF \E e \in SameKey(o) : e.im = o.im THEN "done" ELSE "clash"

\* What a compare-and-set of a delete comes to: committed now or before, another
\* If-Match under the same idempotency key, another round, or a conflict.
CasOutcome(o) ==
    IF \E e \in SameKey(o) : e.im = o.im THEN "done"
    ELSE IF SameKey(o) # {} THEN "clash"
    ELSE IF ~StaleMatch(blob[o.row], o.im) THEN "done"
    ELSE IF o.given = 0 /\ o.try < DeleteMaxRetries THEN "again"
    ELSE "stale"

\* deleteOnce and what Delete makes of its answer, if there is one.
DeleteCas(d) ==
    LET o == op[d]  out == CasOutcome(o) IN
    /\ o.kind = "delete" /\ o.ph = "cas"
    /\ IF SameKey(o) = {} /\ ~StaleMatch(blob[o.row], o.im)
       THEN /\ SetBlob(o.row, Absent)
            /\ idemDel' = idemDel \cup {[n |-> o.n, try |-> o.try, im |-> o.im]}
       ELSE KeepBlobs /\ UNCHANGED idemDel
    /\ \/ out = "done" /\ Deleted(d) /\ UNCHANGED used
       \/ /\ out = "again"
          /\ op' = [op EXCEPT ![d].ph = "get", ![d].try = @ + 1]
          /\ UNCHANGED <<view, used>>
       \/ /\ out \in {"clash", "stale"}
          /\ Answer(d, IF out = "clash" THEN "error" ELSE "conflict", 0, 0)
          /\ UNCHANGED <<view, used>>
       \/ /\ Fault
          /\ op' = [op EXCEPT ![d].kind = "delunsure"]
          /\ UNCHANGED view
    /\ UNCHANGED <<curKey, idem, wire, prim>>

\* The device repeats a delete it has no answer of, under its idempotency key.
DeleteAgain(d) ==
    /\ op[d].kind = "delunsure"
    /\ op' = [op EXCEPT ![d].kind = "delete", ![d].try = 1, ![d].im = op[d].given,
                        ![d].ph = IF op[d].given = 0 THEN "get" ELSE "cas"]
    /\ KeepBlobs
    /\ UNCHANGED <<curKey, idem, idemDel, wire, view, prim, used>>

\* A device or its enclave goes away in the middle of a request, or a read fails.
Abandon(d) ==
    /\ op[d].kind # "idle"
    /\ Fault
    /\ Answer(d, "none", 0, 0)
    /\ KeepBlobs
    /\ UNCHANGED <<curKey, idem, idemDel, wire, view, prim>>
-----------------------------------------------------------------------------
(* Key registration: start_fresh wipes the rows, the other ways are refused
   while a row is sealed under another key.  The If-Match is the key the device
   knows, or "*". *)

RegisterKey(d, k, fresh, star) ==
    /\ op[d].kind = "idle"
    /\ Spend("reset", MaxResets)
    /\ IF /\ star \/ prim[d] = curKey
          /\ fresh \/ \A r \in Rows : blob[r].fmt = "v2" => blob[r].key = k
       THEN /\ IF fresh THEN SetBlobs([r \in Rows |-> Absent]) ELSE KeepBlobs
            /\ curKey' = k
            /\ prim' = [prim EXCEPT ![d] = k]
            /\ Answer(d, "ok", 0, 0)
       ELSE /\ KeepBlobs
            /\ Answer(d, "error", 0, 0)
            /\ UNCHANGED <<curKey, prim>>
    /\ UNCHANGED <<idem, idemDel, wire, view>>

SyncNext ==
    \/ \E d \in Devices, r \in Rows :
          \/ Push(d, r)
          \/ Pull(d, r)
          \/ \E given \in {0, view[d][r].etag} : Delete(d, r, given)
    \/ \E put \in wire :
          PutAnswered(put) \/ PutLate(put) \/ PutDropped(put) \/ PutRefused(put)
    \/ \E d \in Devices :
          \/ PutAmbiguous(d) \/ PushAgain(d)
          \/ PullGet(d) \/ PullSeal(d) \/ PullFill(d)
          \/ DeleteGet(d) \/ DeleteCas(d) \/ DeleteAgain(d)
          \/ Abandon(d)
          \/ \E k \in Ring, fresh, star \in BOOLEAN : RegisterKey(d, k, fresh, star)
-----------------------------------------------------------------------------
(* What the devices rely on. *)

\* The two ways a content may legitimately replace another one: the arrival of a
\* put of a device that saw what it replaces, and (excluded by the properties
\* below) a request whose row was deleted and created again since it looked.
KnowingPut(r) ==
    \E put \in wire \ wire' :
       /\ put.row = r /\ put.w = blob'[r].val
       /\ put.base.life = life[r] => put.base.val = blob[r].val
PullOfFormerLife(r) ==
    \E d \in Devices : /\ op[d].kind = "pull" /\ op[d].ph = "seal" /\ op'[d] # op[d]
                       /\ op[d].row = r /\ op[d].life # life[r]

\* An etag stands for a content: a device that holds the current etag of a row holds
\* the row's content with it, whether it was told by a put, by a replay, by a conflict
\* or by a pull, whose plaintext was read before the rewrap its etag comes from.  The
\* next compare-and-set of the device relies on nothing else.  (Etags start over when
\* a row is created again: what was seen in a former life is excluded.)
EtagNamesContent ==
    \A d \in Devices, r \in Rows :
       Present(blob[r]) /\ view[d][r].etag = blob[r].etag /\ view[d][r].life = life[r]
       => view[d][r].val = blob[r].val

\* A delete that is answered OK did its job: at some moment since the device
\* first asked the row was absent, also when the answer comes from a retry, a
\* 404 or the idempotency table.
DeleteHonest ==
    \A d \in Devices : op[d].kind = "idle" /\ op[d].said = "deleted" => gone[d]

\* An activity time on a row is that of the row's content: a backfill computed
\* from a plaintext that was read before never lands on another one, through
\* rewraps and racing pushes.  (Backfills reach a row of another life only if
\* it was deleted and created again up to the same etag: life = 0 excludes it.)
ActivityOfContent ==
    \A r \in Rows : life[r] = 0 /\ blob[r].act # 0 => blob[r].act = blob[r].val
=============================================================================
