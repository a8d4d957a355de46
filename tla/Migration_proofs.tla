-------------------------- MODULE Migration_proofs --------------------------
(***************************************************************************)
(* Devices and the migration job, for any number of rows, devices, keys,   *)
(* faults and runs: proofs of the type invariant and of every safety       *)
(* property of BlobSync and Migration.                                     *)
(***************************************************************************)
EXTENDS Migration, FiniteSetTheorems, TLAPS

-----------------------------------------------------------------------------
(* The inductive invariant. *)

\* What somebody read of a row in its n-th life holds up: the row, now in its
\* m-th life, is not older than what was read, and the same if the etag is.
SeenIn(row, m, etag, v, n) ==
    /\ n <= m
    /\ n = m => /\ Present(row) /\ etag <= row.etag
                /\ etag = row.etag => v = row.val

ActivityOk(row, m) == m = 0 /\ row.act # 0 => row.act = row.val

\* The puts somebody waits for, or that may still arrive.
Pushing(d) == op[d].kind \in {"push", "unsure"}
Outstanding == wire \cup {op[d].put : d \in {e \in Devices : Pushing(e)}}

\* A put is made against what its device saw; once committed, its device may be
\* told so at any time.
PutOK(p) ==
    /\ p.w <= used.w
    /\ p.im = p.base.etag
    /\ p.base.etag # 0 =>
         SeenIn(blob[p.row], life[p.row], p.base.etag, p.base.val, p.base.life)
    /\ idem[p.w].etag # 0 =>
         SeenIn(blob[p.row], life[p.row], idem[p.w].etag, p.w, idem[p.w].life)

PutsKept ==
    /\ \A p \in Outstanding : PutOK(p)
    /\ \A p, q \in Outstanding : p.w = q.w => p.row = q.row
    /\ \A w \in Contents : w > used.w => idem[w].etag = 0

ViewsKept ==
    \A d \in Devices, r \in Rows :
       view[d][r].etag # 0 =>
         SeenIn(blob[r], life[r], view[d][r].etag, view[d][r].val, view[d][r].life)

PullOK(o) ==
    o.kind = "pull" /\ o.ph # "get" =>
      /\ Present(o.got)
      /\ SeenIn(blob[o.row], life[o.row], o.etag, o.got.val, o.life)

PullsKept == \A d \in Devices : PullOK(op[d])

\* A delete under way has noted every absence of its row, and the commits of its
\* own attempts in particular.
Deletes(d) == op[d].kind \in {"delete", "delunsure"}

DeletesKept ==
    /\ \A d \in Devices : Deletes(d) =>
         /\ op[d].n <= used.del
         /\ ~Present(blob[op[d].row]) => gone[d]
         /\ \A e \in idemDel : e.n = op[d].n => gone[d]
    /\ \A e \in idemDel : e.n <= used.del
    /\ \A d, e \in Devices : Deletes(d) /\ Deletes(e) /\ op[d].n = op[e].n => d = e
    /\ DeleteHonest

ActsKept == \A r \in Rows : ActivityOk(blob[r], life[r])

SyncInv == SyncTypeOK /\ PutsKept /\ ViewsKept /\ PullsKept /\ DeletesKept /\ ActsKept
-----------------------------------------------------------------------------
\* The row the job has in hand.
HandKept ==
    /\ mig.st \in {"get", "seal", "record"} => mig.row \in Rows /\ mig.target \in Keys
    /\ mig.st = "record" => mig.blocked # {}
    /\ mig.st # "idle" => mig.target \in Keys
    /\ mig.st = "seal" =>
         /\ Present(mig.got)
         /\ SeenIn(blob[mig.row], life[mig.row], mig.got.etag, mig.got.val, mig.life)

\* So far nothing went wrong in the run.
Clean == ~mig.cancel /\ mig.blocked = {}

Settled(r) == blob[r].fmt # "legacy" \/ r \in mig.cool

PageSize == IF mig.rest < PageLimit THEN mig.rest ELSE PageLimit

\* A clean run has settled the scopes behind it; of the page in work it counts
\* every row as moved, in hand or still to do, and a page that is not cut short by
\* the limit holds every row of the scope that is not settled.
RunKept ==
    /\ mig.st # "idle" /\ mig.blocked = {} => stamped \subseteq mig.cool
    /\ Running /\ Clean =>
         \A i \in 1..Len(Scopes), r \in Rows :
            i < mig.scope /\ ScopeOf[r] = Scopes[i] => Settled(r)
    /\ mig.st \in {"rows", "get", "seal"} /\ Clean =>
         /\ mig.moved + Cardinality(mig.ids) + (IF mig.st = "rows" THEN 0 ELSE 1) = PageSize
         /\ mig.rest <= PageLimit =>
              \A r \in Rows : ScopeOf[r] = Scopes[mig.scope] =>
                 Settled(r) \/ r \in mig.ids \/ (mig.st # "rows" /\ r = mig.row)
    /\ MigrateComplete

MigInv == MigTypeOK /\ HandKept /\ RunKept

Inv == SyncInv /\ MigInv
-----------------------------------------------------------------------------
(* Rows. *)

LEMMA RowFields ==
  ASSUME NEW row \in RowType
  PROVE  /\ row.etag \in Nat /\ row.val \in 0..MaxWrites /\ row.act \in 0..MaxWrites
         /\ Present(row) => /\ row.etag \in Nat \ {0} /\ row.key \in Keys
                            /\ row.fmt \in {"v2", "legacy"} /\ row.val \in Contents
         /\ ~Present(row) => row = Absent
         /\ row.fmt = "legacy" => Present(row)
  BY StoreConstants DEF RowType, Absent, Present, Contents

LEMMA AbsentRow == Absent \in RowType /\ ~Present(Absent) /\ Absent.fmt # "legacy"
                   /\ Absent.act = 0
  BY DEF RowType, Absent, Present

LEMMA LegacyRow ==
  ASSUME NEW k \in Keys PROVE Legacy(k) \in RowType /\ Legacy(k).act = 0
  BY StoreConstants DEF RowType, Legacy, Contents

\* The ways a row, in its m-th life, is replaced: it goes forward, or it is gone.
Forward(row, new) ==
    /\ Present(new)
    /\ Present(row) => \/ new.etag > row.etag
                       \/ new.etag = row.etag /\ new.val = row.val
    /\ new.fmt = "legacy" => row.fmt = "legacy"

LEMMA StoredRow ==
  ASSUME NEW row \in RowType, NEW k \in Keys, NEW v \in Contents
  PROVE  LET new == Stored(row, k, v) IN
         /\ new \in RowType /\ Forward(row, new) /\ new.val = v
         /\ new.act # 0 => new.act = new.val
<1> DEFINE e == row.etag + 1
           a == ActivityOf(v)
<1>1. e \in Nat \ {0} /\ e > row.etag
  BY RowFields
<1>2. a \in {0, v} /\ v \in 1..MaxWrites
  BY DEF ActivityOf, Contents
<1>3. Stored(row, k, v) = [etag |-> e, key |-> k, fmt |-> "v2", val |-> v, act |-> a]
  BY DEF Stored
<1> HIDE DEF e, a
<1> QED
  BY <1>1, <1>2, <1>3, StoreConstants DEF RowType, Forward, Present, Contents

LEMMA ResealedRow ==
  ASSUME NEW row \in RowType, NEW k \in Keys, NEW v \in Contents, Present(row)
  PROVE  LET new == Resealed(row, k, v) IN
         /\ new \in RowType /\ Forward(row, new) /\ new.fmt = "v2"
         /\ new.val = v /\ new.act = row.act /\ new.etag = row.etag + 1
<1> DEFINE e == row.etag + 1
           new == Resealed(row, k, v)
<1>1. e \in Nat \ {0} /\ e > row.etag
  BY RowFields
<1>2. row \in [etag : Nat \ {0}, key : Keys, fmt : {"v2", "legacy"},
               val : Contents, act : 0..MaxWrites]
  BY RowFields DEF RowType, Absent, Present
<1>3. new = [row EXCEPT !.etag = e, !.key = k, !.fmt = "v2", !.val = v]
  BY DEF Resealed
<1> HIDE DEF e
<1>4. new = [etag |-> e, key |-> k, fmt |-> "v2", val |-> v, act |-> row.act]
  BY <1>2, <1>3
<1> HIDE DEF new
<1>5. new \in RowType /\ Forward(row, new) /\ new.fmt = "v2" /\ new.val = v
      /\ new.act = row.act /\ new.etag = e
  BY <1>1, <1>4, RowFields DEF RowType, Forward, Present
<1> QED
  BY <1>5 DEF e, new

LEMMA BackfilledRow ==
  ASSUME NEW row \in RowType, NEW etag, NEW v \in 0..MaxWrites
  PROVE  LET new == Backfilled(row, etag, v) IN
         /\ new \in RowType
         /\ Present(row) => Forward(row, new)
         /\ ~Present(row) => new = row
         /\ new # row => Present(row) /\ row.etag = etag /\ new.act = v /\ new.val = row.val
<1>1. CASE Present(row) /\ row.act = 0 /\ row.etag = etag
  <2>1. Backfilled(row, etag, v) = [row EXCEPT !.act = v]
    BY <1>1 DEF Backfilled
  <2> QED
    BY <1>1, <2>1, RowFields DEF RowType, Forward, Present, Absent
<1>2. CASE ~(Present(row) /\ row.act = 0 /\ row.etag = etag)
  <2>1. Backfilled(row, etag, v) = row
    BY <1>2 DEF Backfilled
  <2> QED
    BY <2>1, RowFields DEF Forward
<1> QED
  BY <1>1, <1>2

\* One step of a row and of its count of lives.
Grows(row, new, m, n) ==
    \/ n > m
    \/ n = m /\ (Present(row) => Forward(row, new))

LEMMA SeenKept ==
  ASSUME NEW row \in RowType, NEW new \in RowType, NEW m \in Nat, NEW n \in Nat,
         NEW etag \in Nat, NEW v, NEW k \in Nat,
         Grows(row, new, m, n), SeenIn(row, m, etag, v, k)
  PROVE  SeenIn(new, n, etag, v, k)
<1>1. CASE n > m
  BY <1>1 DEF SeenIn
<1>2. CASE n = m /\ k # m
  BY <1>2 DEF SeenIn
<1>3. CASE n = m /\ k = m
  <2>1. Present(row) /\ etag <= row.etag /\ (etag = row.etag => v = row.val)
    BY <1>3 DEF SeenIn
  <2>2. Forward(row, new)
    BY <1>3, <2>1 DEF Grows
  <2>3. row.etag \in Nat /\ new.etag \in Nat
    BY RowFields
  <2> QED
    BY <1>3, <2>1, <2>2, <2>3 DEF Forward, SeenIn
<1> QED
  BY <1>1, <1>2, <1>3 DEF Grows
-----------------------------------------------------------------------------
(* Requests. *)

LEMMA PutFields ==
  ASSUME NEW p \in Puts
  PROVE  /\ p.dev \in Devices /\ p.row \in Rows /\ p.w \in Contents /\ p.im \in Nat
         /\ p.key \in Keys /\ p.try \in 1..PutBlobMaxAttempts
         /\ p.base.etag \in Nat /\ p.base.val \in Nat /\ p.base.life \in Nat
  BY DEF Puts

LEMMA RequestKinds ==
  ASSUME NEW o \in Requests
  PROVE  /\ o.kind \in {"idle", "push", "unsure", "pull", "delete", "delunsure"}
         /\ o.kind \in {"push", "unsure"} => o \in [kind : {"push", "unsure"}, put : Puts]
         /\ o.kind = "pull" =>
              o \in [kind : {"pull"}, row : Rows, can : BOOLEAN, ph : {"get", "seal", "fill"},
                     got : RowType, life : Nat, etag : Nat]
         /\ o.kind \in {"delete", "delunsure"} =>
              o \in [kind : {"delete", "delunsure"}, row : Rows, n : Nat, given : Nat,
                     im : Nat, ph : {"get", "cas"}, try : 1..DeleteMaxRetries]
  BY DEF Requests

LEMMA RequestFields ==
  ASSUME NEW o \in Requests
  PROVE  /\ o.kind \in {"push", "unsure"} => o.put \in Puts
         /\ o.kind = "pull" =>
              /\ o.row \in Rows /\ o.ph \in {"get", "seal", "fill"} /\ o.got \in RowType
              /\ o.life \in Nat /\ o.etag \in Nat
         /\ o.kind \in {"delete", "delunsure"} =>
              /\ o.row \in Rows /\ o.n \in Nat /\ o.given \in Nat /\ o.im \in Nat
              /\ o.ph \in {"get", "cas"} /\ o.try \in 1..DeleteMaxRetries
  BY RequestKinds

LEMMA IdleRequest ==
  ASSUME NEW said \in {"none", "ok", "conflict", "unread", "deleted", "error"},
         NEW w \in 0..MaxWrites, NEW seen \in Nat
  PROVE  /\ Idle(said, w, seen) \in Requests
         /\ Idle(said, w, seen).kind = "idle" /\ Idle(said, w, seen).said = said
         /\ Idle(said, w, seen).seen = seen
  BY DEF Idle, Requests
-----------------------------------------------------------------------------
(* What a step does to the rows: each goes forward or begins a new life, no row
   becomes a legacy one, and a delete under way notices an absence. *)

RowsGo ==
    \A r \in Rows : /\ Grows(blob[r], blob'[r], life[r], life'[r])
                    /\ blob'[r].fmt = "legacy" => blob[r].fmt = "legacy"

GoneGoes ==
    \A d \in Devices :
       /\ gone[d] => gone'[d]
       /\ Deletes(d) /\ ~Present(blob'[op[d].row]) => gone'[d] \/ ~Present(blob[op[d].row])

BlobsTyped ==
    /\ blob \in [Rows -> RowType] /\ life \in [Rows -> Nat] /\ gone \in [Devices -> BOOLEAN]

BlobsGo == BlobsTyped' /\ RowsGo /\ GoneGoes /\ ActsKept'

LEMMA KeepGoes ==
  ASSUME SyncTypeOK, ActsKept, KeepBlobs
  PROVE  BlobsGo
<1>1. blob' = blob /\ life' = life /\ gone' = gone
  BY DEF KeepBlobs
<1>2. BlobsTyped' /\ ActsKept'
  BY <1>1 DEF SyncTypeOK, BlobsTyped, ActsKept, ActivityOk
<1>3. RowsGo
  <2> SUFFICES ASSUME NEW r \in Rows PROVE Grows(blob[r], blob[r], life[r], life[r])
    BY <1>1 DEF RowsGo
  <2> QED
    BY DEF Grows, Forward
<1>4. GoneGoes
  BY <1>1 DEF GoneGoes
<1> QED
  BY <1>2, <1>3, <1>4 DEF BlobsGo

LEMMA SetGoes ==
  ASSUME SyncTypeOK, ActsKept, NEW r \in Rows, NEW row \in RowType, SetBlob(r, row),
         Present(row) => Forward(blob[r], row) /\ ActivityOk(row, life[r])
  PROVE  /\ BlobsGo
         /\ blob' = [blob EXCEPT ![r] = row]
         /\ Present(row) => life' = life
         /\ \A d \in Devices : Deletes(d) /\ ~Present(row) /\ op[d].row = r => gone'[d]
<1>1. blob \in [Rows -> RowType] /\ life \in [Rows -> Nat] /\ op \in [Devices -> Requests]
  BY DEF SyncTypeOK
<1>2. /\ blob' = [blob EXCEPT ![r] = row]
      /\ life' = [q \in Rows |-> IF Present(blob[q]) /\ ~Present(blob'[q])
                                 THEN life[q] + 1 ELSE life[q]]
      /\ gone' = [d \in Devices |->
                    \/ gone[d]
                    \/ op[d].kind \in {"delete", "delunsure"} /\ ~Present(blob'[op[d].row])]
  BY DEF SetBlob, SetBlobs
<1>3. blob' \in [Rows -> RowType] /\ life' \in [Rows -> Nat] /\ gone' \in [Devices -> BOOLEAN]
  BY <1>1, <1>2
<1>4. GoneGoes
  BY <1>2 DEF GoneGoes, Deletes
<1>5. ASSUME NEW q \in Rows
      PROVE  /\ Grows(blob[q], blob'[q], life[q], life'[q])
             /\ blob'[q].fmt = "legacy" => blob[q].fmt = "legacy"
             /\ ActivityOk(blob'[q], life'[q])
  <2>1. life[q] \in Nat /\ blob[q] \in RowType
    BY <1>1
  <2>2. CASE q = r /\ Present(row)
    <3>1. blob'[q] = row /\ life'[q] = life[q] /\ Forward(blob[q], row) /\ ActivityOk(row, life[q])
      BY <1>1, <1>2, <2>2
    <3> QED
      BY <3>1 DEF Grows, Forward
  <2>3. CASE q = r /\ ~Present(row)
    <3>1. blob'[q] = row /\ row = Absent
      BY <1>1, <1>2, <2>3, RowFields
    <3>2. life'[q] = IF Present(blob[q]) THEN life[q] + 1 ELSE life[q]
      BY <1>2, <2>3, <3>1
    <3> QED
      BY <2>1, <3>1, <3>2, AbsentRow DEF Grows, ActivityOk
  <2>4. CASE q # r
    <3>1. blob'[q] = blob[q] /\ life'[q] = life[q]
      BY <1>1, <1>2, <2>4
    <3>2. ActivityOk(blob[q], life[q])
      BY DEF ActsKept
    <3> QED
      BY <3>1, <3>2 DEF Grows, Forward
  <2> QED
    BY <2>2, <2>3, <2>4
<1>6. RowsGo /\ ActsKept'
  BY <1>5 DEF RowsGo, ActsKept
<1>7. Present(row) => life' = life
  BY <1>1, <1>2
<1>8. ASSUME NEW d \in Devices, Deletes(d), ~Present(row), op[d].row = r PROVE gone'[d]
  BY <1>1, <1>2, <1>8 DEF Deletes
<1> QED
  BY <1>2, <1>3, <1>4, <1>6, <1>7, <1>8 DEF BlobsGo, BlobsTyped

LEMMA WipeGoes ==
  ASSUME SyncTypeOK, SetBlobs([r \in Rows |-> Absent])
  PROVE  BlobsGo
<1>1. life \in [Rows -> Nat] /\ blob \in [Rows -> RowType]
  BY DEF SyncTypeOK
<1>2. /\ blob' = [r \in Rows |-> Absent]
      /\ life' = [q \in Rows |-> IF Present(blob[q]) /\ ~Present(blob'[q])
                                 THEN life[q] + 1 ELSE life[q]]
      /\ gone' = [d \in Devices |->
                    \/ gone[d]
                    \/ op[d].kind \in {"delete", "delunsure"} /\ ~Present(blob'[op[d].row])]
  BY DEF SetBlobs
<1>3. blob' \in [Rows -> RowType] /\ life' \in [Rows -> Nat] /\ gone' \in [Devices -> BOOLEAN]
  BY <1>1, <1>2, AbsentRow
<1>4. GoneGoes
  BY <1>2 DEF GoneGoes, Deletes
<1>5. ASSUME NEW q \in Rows
      PROVE  /\ Grows(blob[q], blob'[q], life[q], life'[q])
             /\ blob'[q].fmt = "legacy" => blob[q].fmt = "legacy"
             /\ ActivityOk(blob'[q], life'[q])
  <2>1. blob'[q] = Absent /\ life[q] \in Nat
    BY <1>1, <1>2
  <2>2. life'[q] = IF Present(blob[q]) THEN life[q] + 1 ELSE life[q]
    BY <1>2, <2>1, AbsentRow
  <2> QED
    BY <2>1, <2>2, AbsentRow DEF Grows, ActivityOk
<1>6. RowsGo /\ ActsKept'
  BY <1>5 DEF RowsGo, ActsKept
<1> QED
  BY <1>3, <1>4, <1>6 DEF BlobsGo, BlobsTyped
-----------------------------------------------------------------------------
(* What was seen of the rows holds up when they move. *)

LEMMA SeenGoes ==
  ASSUME SyncTypeOK, BlobsGo, NEW r \in Rows, NEW etag \in Nat, NEW v, NEW k \in Nat,
         SeenIn(blob[r], life[r], etag, v, k)
  PROVE  SeenIn(blob'[r], life'[r], etag, v, k)
<1>1. blob[r] \in RowType /\ blob'[r] \in RowType /\ life[r] \in Nat /\ life'[r] \in Nat
  BY DEF SyncTypeOK, BlobsGo, BlobsTyped
<1>2. Grows(blob[r], blob'[r], life[r], life'[r])
  BY DEF BlobsGo, RowsGo
<1> QED
  BY <1>1, <1>2, SeenKept

ViewsTyped == view \in [Devices -> [Rows -> [etag : Nat, val : 0..MaxWrites, life : Nat]]]

LEMMA ViewsGo ==
  ASSUME SyncTypeOK, ViewsKept, BlobsGo, view' = view
  PROVE  ViewsKept' /\ ViewsTyped'
<1>1. ViewsTyped
  BY DEF SyncTypeOK, ViewsTyped
<1>2. ASSUME NEW d \in Devices, NEW r \in Rows, view[d][r].etag # 0
      PROVE  SeenIn(blob'[r], life'[r], view[d][r].etag, view[d][r].val, view[d][r].life)
  <2>1. view[d][r].etag \in Nat /\ view[d][r].life \in Nat
    BY <1>1 DEF ViewsTyped
  <2>2. SeenIn(blob[r], life[r], view[d][r].etag, view[d][r].val, view[d][r].life)
    BY <1>2 DEF ViewsKept
  <2> QED
    BY <2>1, <2>2, SeenGoes
<1> QED
  BY <1>1, <1>2 DEF ViewsKept, ViewsTyped

\* A device sees a row anew.
LEMMA ViewGoes ==
  ASSUME SyncTypeOK, ViewsKept, BlobsGo, NEW d \in Devices, NEW r \in Rows,
         NEW s \in [etag : Nat, val : 0..MaxWrites, life : Nat],
         view' = [view EXCEPT ![d][r] = s],
         s.etag # 0 => SeenIn(blob'[r], life'[r], s.etag, s.val, s.life)
  PROVE  ViewsKept' /\ ViewsTyped'
<1>1. ViewsTyped
  BY DEF SyncTypeOK, ViewsTyped
<1>2. /\ ViewsTyped' /\ view'[d][r] = s
      /\ \A e \in Devices, q \in Rows : e # d \/ q # r => view'[e][q] = view[e][q]
  BY <1>1 DEF ViewsTyped
<1>3. ASSUME NEW e \in Devices, NEW q \in Rows, view'[e][q].etag # 0
      PROVE  SeenIn(blob'[q], life'[q], view'[e][q].etag, view'[e][q].val, view'[e][q].life)
  <2>1. CASE e = d /\ q = r
    BY <1>2, <1>3, <2>1
  <2>2. CASE e # d \/ q # r
    <3>1. view'[e][q] = view[e][q]
      BY <1>2, <2>2
    <3>2. view[e][q].etag \in Nat /\ view[e][q].life \in Nat
      BY <1>1 DEF ViewsTyped
    <3>3. SeenIn(blob[q], life[q], view[e][q].etag, view[e][q].val, view[e][q].life)
      BY <1>3, <3>1 DEF ViewsKept
    <3> QED
      BY <3>1, <3>2, <3>3, SeenGoes
  <2> QED
    BY <2>1, <2>2
<1> QED
  BY <1>2, <1>3 DEF ViewsKept
-----------------------------------------------------------------------------
(* One device takes a new request or answer x; the others wait. *)

OpGoes(d, x) == x \in Requests /\ op' = [op EXCEPT ![d] = x]

LEMMA OpNext ==
  ASSUME SyncTypeOK, NEW d \in Devices, NEW x, OpGoes(d, x)
  PROVE  /\ op' \in [Devices -> Requests] /\ op'[d] = x
         /\ \A e \in Devices : e # d => op'[e] = op[e]
  BY DEF SyncTypeOK, OpGoes

LEMMA PullsSame ==
  ASSUME SyncTypeOK, PullsKept, BlobsGo, NEW d \in Devices
  PROVE  op[d].kind = "pull" /\ op[d].ph # "get" =>
           /\ Present(op[d].got)
           /\ SeenIn(blob'[op[d].row], life'[op[d].row], op[d].etag, op[d].got.val, op[d].life)
<1> SUFFICES ASSUME op[d].kind = "pull", op[d].ph # "get"
             PROVE  /\ Present(op[d].got)
                    /\ SeenIn(blob'[op[d].row], life'[op[d].row], op[d].etag, op[d].got.val,
                              op[d].life)
  OBVIOUS
<1>1. op[d] \in Requests
  BY DEF SyncTypeOK
<1>2. op[d].row \in Rows /\ op[d].etag \in Nat /\ op[d].life \in Nat
  BY <1>1, RequestFields
<1>3. PullOK(op[d])
  BY DEF PullsKept
<1>4. Present(op[d].got)
      /\ SeenIn(blob[op[d].row], life[op[d].row], op[d].etag, op[d].got.val, op[d].life)
  BY <1>3 DEF PullOK
<1> QED
  BY <1>2, <1>4, SeenGoes

LEMMA PullsGo ==
  ASSUME SyncTypeOK, PullsKept, BlobsGo, NEW d \in Devices, NEW x, OpGoes(d, x),
         x.kind = "pull" /\ x.ph # "get" =>
           Present(x.got) /\ SeenIn(blob'[x.row], life'[x.row], x.etag, x.got.val, x.life)
  PROVE  PullsKept'
<1>1. ASSUME NEW e \in Devices, op'[e].kind = "pull", op'[e].ph # "get"
      PROVE  /\ Present(op'[e].got)
             /\ SeenIn(blob'[op'[e].row], life'[op'[e].row], op'[e].etag, op'[e].got.val,
                       op'[e].life)
  <2>1. CASE e = d
    <3>1. op'[e] = x
      BY <2>1, OpNext
    <3> QED
      BY <1>1, <3>1
  <2>2. CASE e # d
    <3>1. op'[e] = op[e]
      BY <2>2, OpNext
    <3> QED
      BY <1>1, <3>1, PullsSame
  <2> QED
    BY <2>1, <2>2
<1> QED
  BY <1>1 DEF PullsKept, PullOK

\* The table of deletes gains at most an attempt of the delete of this device.
IdemDelGoes(d) ==
    /\ idemDel' \subseteq [n : Nat, try : 1..DeleteMaxRetries, im : Nat]
    /\ \A f \in idemDel' : f \in idemDel \/ (Deletes(d) /\ gone'[d] /\ f.n = op[d].n)

LEMMA IdemDelSame ==
  ASSUME SyncTypeOK, idemDel' = idemDel, NEW d \in Devices PROVE IdemDelGoes(d)
  BY DEF SyncTypeOK, IdemDelGoes

LEMMA DeletesGo ==
  ASSUME SyncTypeOK, DeletesKept, BlobsGo, NEW d \in Devices, NEW x, OpGoes(d, x),
         IdemDelGoes(d), used' \in Bounds, used.del <= used'.del,
         x.kind \in {"delete", "delunsure"} =>
           Deletes(d) /\ x.n = op[d].n /\ x.row = op[d].row,
         x.kind = "idle" /\ x.said = "deleted" => gone'[d]
  PROVE  DeletesKept'
<1>1. /\ op'[d] = x
      /\ \A e \in Devices : e # d => op'[e] = op[e]
  BY OpNext
<1>2. /\ used.del \in Nat /\ used'.del \in Nat
      /\ \A e \in idemDel : e.n \in Nat
      /\ \A e \in Devices : Deletes(e) => op[e].n \in Nat
  BY RequestFields DEF SyncTypeOK, Bounds, Deletes
<1>3. \A e \in Devices : Deletes(e)' => Deletes(e) /\ op'[e].n = op[e].n /\ op'[e].row = op[e].row
  BY <1>1 DEF Deletes
<1>4. \A e \in Devices : gone[e] => gone'[e]
  BY DEF BlobsGo, GoneGoes
<1>5. ASSUME NEW e \in Devices, Deletes(e)'
      PROVE  /\ op'[e].n <= used'.del
             /\ ~Present(blob'[op'[e].row]) => gone'[e]
             /\ \A f \in idemDel' : f.n = op'[e].n => gone'[e]
  <2>1. Deletes(e) /\ op'[e].n = op[e].n /\ op'[e].row = op[e].row
    BY <1>3, <1>5
  <2>2. /\ op[e].n <= used.del
        /\ ~Present(blob[op[e].row]) => gone[e]
        /\ \A f \in idemDel : f.n = op[e].n => gone[e]
    BY <2>1 DEF DeletesKept
  <2>3. ~Present(blob'[op[e].row]) => gone'[e] \/ ~Present(blob[op[e].row])
    BY <2>1 DEF BlobsGo, GoneGoes
  <2>4. op'[e].n <= used'.del
    <3>1. op[e].n \in Nat /\ op'[e].n = op[e].n /\ op[e].n <= used.del
      BY <1>2, <2>1, <2>2
    <3> QED
      BY <1>2, <3>1
  <2>5. ~Present(blob'[op[e].row]) => gone'[e]
    BY <1>4, <2>2, <2>3, Zenon
  <2>6. ASSUME NEW f \in idemDel', f.n = op'[e].n PROVE gone'[e]
    <3>1. CASE f \in idemDel
      BY <1>4, <2>1, <2>2, <2>6, <3>1
    <3>2. CASE Deletes(d) /\ gone'[d] /\ f.n = op[d].n
      <4>1. e = d
        BY <2>1, <2>6, <3>2 DEF DeletesKept
      <4> QED
        BY <3>2, <4>1
    <3> QED
      BY <3>1, <3>2 DEF IdemDelGoes
  <2> QED
    BY <2>1, <2>4, <2>5, <2>6
<1>6. ASSUME NEW f \in idemDel' PROVE f.n <= used'.del
  <2>1. f.n <= used.del /\ f.n \in Nat
    BY <1>2 DEF DeletesKept, IdemDelGoes
  <2> QED
    BY <1>2, <2>1
<1>7. \A e, f \in Devices : Deletes(e)' /\ Deletes(f)' /\ op'[e].n = op'[f].n => e = f
  BY <1>3 DEF DeletesKept
<1>8. DeleteHonest'
  BY <1>1, <1>4 DEF DeletesKept, DeleteHonest
<1> QED
  BY <1>5, <1>6, <1>7, <1>8 DEF DeletesKept
-----------------------------------------------------------------------------
(* Puts under way: a repetition differs in its attempt only. *)

Alike(p, q) == p.w = q.w /\ p.row = q.row /\ p.im = q.im /\ p.base = q.base

OldPuts == \A p \in Outstanding' : \E q \in Outstanding : Alike(p, q)

LEMMA OutstandingTyped ==
  ASSUME SyncTypeOK PROVE Outstanding \subseteq Puts
<1>1. \A d \in Devices : Pushing(d) => op[d].put \in Puts
  BY RequestFields DEF SyncTypeOK, Pushing
<1> QED
  BY <1>1 DEF SyncTypeOK, Outstanding

LEMMA PutsStay ==
  ASSUME op' = op, wire' \subseteq wire
  PROVE  OldPuts
  BY DEF OldPuts, Outstanding, Pushing, Alike

LEMMA PutsOld ==
  ASSUME SyncTypeOK, NEW d \in Devices, NEW x, OpGoes(d, x),
         x.kind \in {"push", "unsure"} => \E q \in Outstanding : Alike(x.put, q),
         \A p \in wire' : p \in wire \/ (x.kind \in {"push", "unsure"} /\ p = x.put)
  PROVE  OldPuts
<1>1. op'[d] = x /\ (\A e \in Devices : e # d => op'[e] = op[e])
  BY OpNext
<1>2. ASSUME NEW p \in Outstanding' PROVE \E q \in Outstanding : Alike(p, q)
  <2>1. CASE p \in wire
    BY <2>1 DEF Outstanding, Alike
  <2>2. CASE x.kind \in {"push", "unsure"} /\ p = x.put
    BY <2>2
  <2>3. CASE \E e \in Devices : Pushing(e)' /\ p = op'[e].put
    <3>1. PICK e \in Devices : Pushing(e)' /\ p = op'[e].put
      BY <2>3
    <3>2. CASE e = d
      BY <1>1, <3>1, <3>2 DEF Pushing
    <3>3. CASE e # d
      <4>1. Pushing(e) /\ p = op[e].put
        BY <1>1, <3>1, <3>3 DEF Pushing
      <4> QED
        BY <4>1 DEF Outstanding, Alike
    <3> QED
      BY <3>2, <3>3
  <2> QED
    BY <1>2, <2>1, <2>2, <2>3 DEF Outstanding
<1> QED
  BY <1>2 DEF OldPuts

\* Nothing is committed: the puts that are left are as good as before.
LEMMA PutsGo ==
  ASSUME SyncTypeOK, PutsKept, BlobsGo, OldPuts, idem' = idem,
         used' \in Bounds, used.w <= used'.w
  PROVE  PutsKept'
<1>1. used.w \in Nat /\ used'.w \in Nat
  BY DEF SyncTypeOK, Bounds
<1>2. ASSUME NEW q \in Outstanding, NEW p, Alike(p, q)
      PROVE  /\ p.w <= used'.w
             /\ p.im = p.base.etag
             /\ p.base.etag # 0 =>
                  SeenIn(blob'[p.row], life'[p.row], p.base.etag, p.base.val, p.base.life)
             /\ idem[p.w].etag # 0 =>
                  SeenIn(blob'[p.row], life'[p.row], idem[p.w].etag, p.w, idem[p.w].life)
  <2>1. q \in Puts /\ PutOK(q)
    BY OutstandingTyped DEF PutsKept
  <2>2. /\ q.row \in Rows /\ q.w \in Contents /\ q.base.etag \in Nat /\ q.base.life \in Nat
        /\ q.w \in Nat
    BY <2>1, PutFields DEF Contents
  <2>3. idem[q.w].etag \in Nat /\ idem[q.w].life \in Nat
    BY <2>2 DEF SyncTypeOK
  <2>4. q.w <= used'.w /\ q.im = q.base.etag
    BY <1>1, <2>1, <2>2 DEF PutOK
  <2>5. ASSUME q.base.etag # 0
        PROVE  SeenIn(blob'[q.row], life'[q.row], q.base.etag, q.base.val, q.base.life)
    <3>1. SeenIn(blob[q.row], life[q.row], q.base.etag, q.base.val, q.base.life)
      BY <2>1, <2>5 DEF PutOK
    <3> QED
      BY <2>2, <3>1, SeenGoes
  <2>6. ASSUME idem[q.w].etag # 0
        PROVE  SeenIn(blob'[q.row], life'[q.row], idem[q.w].etag, q.w, idem[q.w].life)
    <3>1. SeenIn(blob[q.row], life[q.row], idem[q.w].etag, q.w, idem[q.w].life)
      BY <2>1, <2>6 DEF PutOK
    <3> QED
      BY <2>2, <2>3, <3>1, SeenGoes
  <2> QED
    BY <1>2, <2>4, <2>5, <2>6 DEF Alike
<1>3. \A p \in Outstanding' : PutOK(p)'
  BY <1>2 DEF OldPuts, PutOK
<1>4. \A p, q \in Outstanding' : p.w = q.w => p.row = q.row
  BY DEF OldPuts, Alike, PutsKept
<1>5. \A w \in Contents : w > used'.w => idem[w].etag = 0
  BY <1>1 DEF PutsKept, Contents
<1> QED
  BY <1>3, <1>4, <1>5 DEF PutsKept

\* A put is committed: every attempt of it is about the same row.
LEMMA PutCommits ==
  ASSUME SyncTypeOK, PutsKept, BlobsGo, OldPuts, used' = used,
         NEW put \in Outstanding, NEW e \in Nat, NEW n \in Nat,
         idem' = [idem EXCEPT ![put.w] = [etag |-> e, life |-> n]],
         SeenIn(blob'[put.row], life'[put.row], e, put.w, n)
  PROVE  PutsKept'
<1>1. /\ put \in Puts /\ put.w \in Contents /\ put.w <= used.w
  BY OutstandingTyped, PutFields DEF PutsKept, PutOK
<1>2. /\ idem'[put.w] = [etag |-> e, life |-> n]
      /\ \A w \in Contents : w # put.w => idem'[w] = idem[w]
  BY <1>1 DEF SyncTypeOK
<1>3. ASSUME NEW q \in Outstanding, NEW p, Alike(p, q)
      PROVE  /\ p.w <= used.w
             /\ p.im = p.base.etag
             /\ p.base.etag # 0 =>
                  SeenIn(blob'[p.row], life'[p.row], p.base.etag, p.base.val, p.base.life)
             /\ idem'[p.w].etag # 0 =>
                  SeenIn(blob'[p.row], life'[p.row], idem'[p.w].etag, p.w, idem'[p.w].life)
  <2>1. q \in Puts /\ PutOK(q)
    BY OutstandingTyped DEF PutsKept
  <2>2. q.row \in Rows /\ q.w \in Contents /\ q.base.etag \in Nat /\ q.base.life \in Nat
    BY <2>1, PutFields
  <2>3. idem[q.w].etag \in Nat /\ idem[q.w].life \in Nat
    BY <2>2 DEF SyncTypeOK
  <2>4. q.w <= used.w /\ q.im = q.base.etag
    BY <2>1 DEF PutOK
  <2>5. ASSUME q.base.etag # 0
        PROVE  SeenIn(blob'[q.row], life'[q.row], q.base.etag, q.base.val, q.base.life)
    <3>1. SeenIn(blob[q.row], life[q.row], q.base.etag, q.base.val, q.base.life)
      BY <2>1, <2>5 DEF PutOK
    <3> QED
      BY <2>2, <3>1, SeenGoes
  <2>6. ASSUME idem'[q.w].etag # 0
        PROVE  SeenIn(blob'[q.row], life'[q.row], idem'[q.w].etag, q.w, idem'[q.w].life)
    <3>1. CASE q.w = put.w
      <4>1. q.row = put.row
        BY <3>1 DEF PutsKept
      <4>2. idem'[q.w].etag = e /\ idem'[q.w].life = n
        BY <1>2, <3>1
      <4> QED
        BY <3>1, <4>1, <4>2
    <3>2. CASE q.w # put.w
      <4>1. idem'[q.w] = idem[q.w]
        BY <1>2, <2>2, <3>2
      <4>2. SeenIn(blob[q.row], life[q.row], idem[q.w].etag, q.w, idem[q.w].life)
        BY <2>1, <2>6, <4>1 DEF PutOK
      <4> QED
        BY <2>2, <2>3, <4>1, <4>2, SeenGoes
    <3> QED
      BY <3>1, <3>2
  <2> QED
    BY <1>3, <2>4, <2>5, <2>6 DEF Alike
<1>4. \A p \in Outstanding' : PutOK(p)'
  BY <1>3 DEF OldPuts, PutOK
<1>5. \A p, q \in Outstanding' : p.w = q.w => p.row = q.row
  BY DEF OldPuts, Alike, PutsKept
<1>6. \A w \in Contents : w > used.w => idem'[w].etag = 0
  <2> SUFFICES ASSUME NEW w \in Contents, w > used.w PROVE idem'[w].etag = 0
    OBVIOUS
  <2>1. w # put.w
    BY <1>1 DEF SyncTypeOK, Bounds, Contents
  <2> QED
    BY <1>2, <2>1 DEF PutsKept
<1> QED
  BY <1>4, <1>5, <1>6 DEF PutsKept
-----------------------------------------------------------------------------
(* The actions of the devices. *)

LEMMA Spends ==
  ASSUME used \in Bounds, NEW max \in Nat, NEW what \in {"w", "del", "pull", "fault", "reset"},
         Spend(what, max)
  PROVE  /\ used' \in Bounds /\ used[what] < max /\ used'[what] = used[what] + 1
         /\ \A k \in {"w", "del", "pull", "fault", "reset"} : k # what => used'[k] = used[k]
<1>1. used' = [used EXCEPT ![what] = used[what] + 1] /\ used[what] < max
  BY DEF Spend
<1>2. /\ used.w \in Nat /\ used.del \in Nat /\ used.pull \in Nat /\ used.fault \in Nat
      /\ used.reset \in Nat
  BY DEF Bounds
<1>3. used[what] \in Nat
  BY <1>2
<1> QED
  BY <1>1, <1>3 DEF Bounds

\* A step that spends at most one unit of what is not counted elsewhere.
Spent == used' \in Bounds /\ used'.w = used.w /\ used'.del = used.del

LEMMA FaultSpent ==
  ASSUME SyncTypeOK, Fault PROVE Spent
<1>1. used \in Bounds /\ MaxFaults \in Nat /\ Spend("fault", MaxFaults)
  BY SyncConstants DEF SyncTypeOK, Fault
<1> QED
  BY <1>1, Spends DEF Spent

LEMMA NoneSpent ==
  ASSUME SyncTypeOK, used' = used PROVE Spent
  BY DEF SyncTypeOK, Spent

\* What one needs to know of the new request x of a device.
PullGoes(x) ==
    x.kind = "pull" /\ x.ph # "get" =>
      Present(x.got) /\ SeenIn(blob'[x.row], life'[x.row], x.etag, x.got.val, x.life)

DeleteGoes(d, x) ==
    /\ x.kind \in {"delete", "delunsure"} => Deletes(d) /\ x.n = op[d].n /\ x.row = op[d].row
    /\ x.kind = "idle" /\ x.said = "deleted" => gone'[d]

PushGoes(x) ==
    /\ x.kind \in {"push", "unsure"} => \E q \in Outstanding : Alike(x.put, q)
    /\ \A p \in wire' : p \in wire \/ (x.kind \in {"push", "unsure"} /\ p = x.put)

\* What every step of a device is shown to do.
SyncGoes == SyncInv' /\ RowsGo

TablesKept == idem' = idem /\ idemDel' = idemDel
KeysTyped == curKey \in Keys /\ prim \in [Devices -> Keys]

LEMMA DeviceGoes ==
  ASSUME SyncInv, BlobsGo, NEW d \in Devices, NEW x, OpGoes(d, x),
         PullGoes(x), DeleteGoes(d, x), PushGoes(x), TablesKept,
         Spent, ViewsKept' /\ ViewsTyped', KeysTyped'
  PROVE  SyncGoes
<1>1. SyncTypeOK /\ used \in Bounds
  BY DEF SyncInv, SyncTypeOK
<1>2. /\ used' \in Bounds /\ used.w <= used'.w /\ used.del <= used'.del
  BY <1>1 DEF Spent, Bounds
<1>3. PullsKept'
  BY <1>1, PullsGo DEF SyncInv, PullGoes
<1>4. DeletesKept'
  BY <1>1, <1>2, DeletesGo, IdemDelSame DEF SyncInv, DeleteGoes, TablesKept
<1>5. OldPuts
  BY <1>1, PutsOld DEF PushGoes
<1>6. PutsKept'
  BY <1>1, <1>2, <1>5, PutsGo DEF SyncInv, TablesKept
<1>7. x \in Requests /\ op' \in [Devices -> Requests]
  BY <1>1, OpNext DEF OpGoes
<1>8. wire' \subseteq Puts
  <2>1. x.kind \in {"push", "unsure"} => x.put \in Puts
    BY <1>7, RequestFields
  <2> QED
    BY <1>1, <2>1 DEF PushGoes, SyncTypeOK
<1>9. SyncTypeOK'
  BY <1>1, <1>2, <1>7, <1>8
     DEF SyncTypeOK, TablesKept, ViewsTyped, KeysTyped, BlobsGo, BlobsTyped
<1> QED
  BY <1>3, <1>4, <1>6, <1>9 DEF SyncInv, BlobsGo, SyncGoes

LEMMA InvTyped ==
  ASSUME SyncInv
  PROVE  /\ SyncTypeOK /\ ActsKept /\ ViewsKept /\ PullsKept /\ DeletesKept /\ PutsKept
         /\ KeysTyped /\ used \in Bounds /\ op \in [Devices -> Requests]
         /\ blob \in [Rows -> RowType] /\ life \in [Rows -> Nat] /\ ViewsTyped /\ wire \subseteq Puts
  BY DEF SyncInv, SyncTypeOK, KeysTyped, ViewsTyped

\* A request ends with an answer that claims nothing.
LEMMA AnswerGoes ==
  ASSUME SyncInv, BlobsGo, NEW d \in Devices,
         NEW said \in {"none", "ok", "conflict", "unread", "error"},
         NEW w \in 0..MaxWrites, NEW seen \in Nat, Answer(d, said, w, seen),
         wire' \subseteq wire, TablesKept, Spent, ViewsKept' /\ ViewsTyped', KeysTyped'
  PROVE  SyncGoes
<1> DEFINE x == Idle(said, w, seen)
<1>1. x \in Requests /\ x.kind = "idle" /\ x.said = said
  BY IdleRequest
<1>2. op' = [op EXCEPT ![d] = x]
  BY DEF Answer
<1> HIDE DEF x
<1>3. PullGoes(x) /\ DeleteGoes(d, x) /\ PushGoes(x) /\ OpGoes(d, x)
  BY <1>1, <1>2 DEF PullGoes, DeleteGoes, PushGoes, OpGoes
<1> QED
  BY <1>3, DeviceGoes

\* Only a step that changes neither rows nor views.
LEMMA QuietGoes ==
  ASSUME SyncInv, KeepBlobs, view' = view
  PROVE  BlobsGo /\ ViewsKept' /\ ViewsTyped'
<1>1. BlobsGo
  BY InvTyped, KeepGoes
<1> QED
  BY <1>1, InvTyped, ViewsGo

LEMMA AbandonStep ==
  ASSUME SyncInv, NEW d \in Devices, Abandon(d) PROVE SyncGoes
<1>1. /\ KeepBlobs /\ view' = view /\ TablesKept /\ wire' = wire /\ Answer(d, "none", 0, 0)
      /\ Fault /\ curKey' = curKey /\ prim' = prim
  BY DEF Abandon, TablesKept
<1>2. BlobsGo /\ ViewsKept' /\ ViewsTyped' /\ Spent /\ KeysTyped'
  BY <1>1, QuietGoes, FaultSpent, InvTyped DEF KeysTyped
<1> QED
  BY <1>1, <1>2, AnswerGoes, StoreConstants
-----------------------------------------------------------------------------
(* Push. *)

IdemTyped == idem \in [Contents -> [etag : Nat, life : Nat]]

\* The part of DeviceGoes that leaves the puts and the table to the caller.
LEMMA RequestGoes ==
  ASSUME SyncInv, BlobsGo, NEW d \in Devices, NEW x, OpGoes(d, x),
         PullGoes(x), DeleteGoes(d, x), PutsKept', wire' \subseteq Puts, IdemTyped',
         IdemDelGoes(d), used' \in Bounds, used.del <= used'.del,
         ViewsKept' /\ ViewsTyped', KeysTyped'
  PROVE  SyncGoes
<1>1. SyncTypeOK
  BY DEF SyncInv
<1>2. PullsKept'
  BY <1>1, PullsGo DEF SyncInv, PullGoes
<1>3. DeletesKept'
  BY <1>1, DeletesGo DEF SyncInv, DeleteGoes
<1>4. op' \in [Devices -> Requests]
  BY <1>1, OpNext
<1>5. SyncTypeOK'
  BY <1>1, <1>4 DEF SyncTypeOK, IdemTyped, ViewsTyped, KeysTyped, BlobsGo, BlobsTyped, IdemDelGoes
<1> QED
  BY <1>2, <1>3, <1>5 DEF SyncInv, BlobsGo, SyncGoes

LEMMA PushStep ==
  ASSUME SyncInv, NEW d \in Devices, NEW r \in Rows, Push(d, r) PROVE SyncGoes
<1>0. PICK put : put = [dev |-> d, row |-> r, w |-> used.w + 1, im |-> view[d][r].etag,
                        key |-> prim[d], base |-> view[d][r], try |-> 1]
  OBVIOUS
<1> DEFINE x == [kind |-> "push", put |-> put]
<1>1. /\ op[d].kind = "idle" /\ Spend("w", MaxWrites)
      /\ op' = [op EXCEPT ![d] = x]
      /\ wire' = wire \cup {put}
      /\ KeepBlobs /\ view' = view /\ idem' = idem /\ idemDel' = idemDel
      /\ curKey' = curKey /\ prim' = prim
  BY <1>0 DEF Push
<1>2. /\ used' \in Bounds /\ used.w < MaxWrites /\ used'.w = used.w + 1 /\ used'.del = used.del
      /\ used.w \in Nat /\ used.del \in Nat
  BY <1>1, InvTyped, Spends, StoreConstants DEF Bounds
<1>3. BlobsGo /\ ViewsKept' /\ ViewsTyped' /\ KeysTyped' /\ IdemTyped' /\ used.del <= used'.del
  BY <1>1, <1>2, QuietGoes, InvTyped DEF KeysTyped, IdemTyped, SyncTypeOK
<1>4. /\ view[d][r] \in [etag : Nat, val : 0..MaxWrites, life : Nat]
      /\ prim[d] \in Keys
  BY InvTyped DEF ViewsTyped, KeysTyped
<1>5. view[d][r] \in [etag : Nat, val : Nat, life : Nat]
  BY <1>4
<1>6. put \in Puts /\ put.w = used.w + 1 /\ put.row = r /\ put.base = view[d][r]
      /\ put.im = view[d][r].etag
  <2>1. used.w + 1 \in Contents /\ 1 \in 1..PutBlobMaxAttempts
    BY <1>2, StoreConstants DEF Contents, PutBlobMaxAttempts
  <2>2. view[d][r].etag \in Nat
    BY <1>4
  <2> QED
    BY <1>0, <1>4, <1>5, <2>1, <2>2 DEF Puts
<1>7. x \in Requests /\ x.kind = "push" /\ x.put = put
  BY <1>6 DEF Requests
<1> HIDE DEF x
<1>8. OpGoes(d, x) /\ PullGoes(x) /\ DeleteGoes(d, x)
  BY <1>1, <1>7 DEF OpGoes, PullGoes, DeleteGoes
<1>9. wire' \subseteq Puts
  BY <1>1, <1>6, InvTyped
<1>10. \A p \in Outstanding' : p = put \/ p \in Outstanding
  <2>1. op'[d] = x /\ (\A e \in Devices : e # d => op'[e] = op[e])
    BY <1>8, InvTyped, OpNext
  <2> QED
    BY <1>1, <1>7, <2>1 DEF Outstanding, Pushing
<1>11. blob' = blob /\ life' = life
  BY <1>1 DEF KeepBlobs
<1>12. \A p \in Outstanding : PutOK(p) /\ p.w <= used.w /\ p.w \in Nat
  BY InvTyped, OutstandingTyped, PutFields DEF PutsKept, PutOK, Contents
<1>13. \A p \in Outstanding : PutOK(p)'
  BY <1>1, <1>2, <1>11, <1>12 DEF PutOK
<1>14. PutOK(put)'
  <2>1. put.w <= used'.w /\ put.im = put.base.etag
    BY <1>2, <1>6
  <2>2. put.base.etag # 0 =>
          SeenIn(blob'[put.row], life'[put.row], put.base.etag, put.base.val, put.base.life)
    BY <1>3, <1>6, <1>1 DEF ViewsKept
  <2>3. idem'[put.w].etag = 0
    <3>1. put.w \in Contents /\ put.w > used.w
      BY <1>2, <1>6, PutFields
    <3> QED
      BY <1>1, <3>1, InvTyped DEF PutsKept
  <2> QED
    BY <2>1, <2>2, <2>3 DEF PutOK
<1>15. \A p, q \in Outstanding' : p.w = q.w => p.row = q.row
  <2>1. \A p \in Outstanding : p.w # put.w
    BY <1>2, <1>6, <1>12
  <2> QED
    BY <1>10, <2>1, InvTyped DEF PutsKept
<1>16. \A w \in Contents : w > used'.w => idem'[w].etag = 0
  BY <1>1, <1>2, InvTyped DEF PutsKept, Contents
<1>17. PutsKept'
  BY <1>10, <1>13, <1>14, <1>15, <1>16 DEF PutsKept
<1> QED
  BY <1>1, <1>2, <1>3, <1>8, <1>9, <1>17, IdemDelSame, InvTyped, RequestGoes

\* A put takes effect, is answered from the table, or comes to nothing.
LEMMA PutBlobGoes ==
  ASSUME SyncInv, NEW put \in wire, PutBlob(put), OldPuts, used' = used
  PROVE  /\ BlobsGo /\ PutsKept' /\ IdemTyped'
         /\ Replayed(put) \/ ~StaleMatch(blob[put.row], put.im) =>
              SeenIn(blob'[put.row], life'[put.row], idem'[put.w].etag, put.w,
                     idem'[put.w].life)
         /\ Replayed(put) \/ StaleMatch(blob[put.row], put.im) => idem' = idem /\ KeepBlobs
<1>1. put \in Puts /\ put \in Outstanding /\ PutOK(put)
  BY InvTyped DEF Outstanding, PutsKept
<1>2. put.row \in Rows /\ put.w \in Contents /\ put.key \in Keys
  BY <1>1, PutFields
<1>3. blob[put.row] \in RowType /\ life[put.row] \in Nat
  BY <1>2, InvTyped
<1>4. used \in Bounds /\ used' \in Bounds /\ used.w <= used'.w
  BY InvTyped DEF Bounds
<1>5. CASE Replayed(put) \/ StaleMatch(blob[put.row], put.im)
  <2>1. KeepBlobs /\ idem' = idem
    BY <1>5 DEF PutBlob
  <2>2. BlobsGo
    BY <2>1, InvTyped, KeepGoes
  <2>3. PutsKept'
    BY <1>4, <2>1, <2>2, InvTyped, PutsGo
  <2>4. IdemTyped'
    BY <2>1, InvTyped DEF IdemTyped, SyncTypeOK
  <2>5. Replayed(put) => SeenIn(blob'[put.row], life'[put.row], idem'[put.w].etag, put.w,
                                idem'[put.w].life)
    BY <1>1, <2>1 DEF Replayed, PutOK, KeepBlobs
  <2> QED
    BY <1>5, <2>1, <2>2, <2>3, <2>4, <2>5
<1>6. CASE ~(Replayed(put) \/ StaleMatch(blob[put.row], put.im))
  <2> DEFINE row == Stored(blob[put.row], put.key, put.w)
  <2>1. /\ SetBlob(put.row, row)
        /\ idem' = [idem EXCEPT ![put.w] = [etag |-> row.etag, life |-> life[put.row]]]
    BY <1>6 DEF PutBlob
  <2>2. /\ row \in RowType /\ Forward(blob[put.row], row) /\ row.val = put.w
        /\ row.act # 0 => row.act = row.val
    BY <1>2, <1>3, StoredRow
  <2> HIDE DEF row
  <2>3. Present(row) /\ ActivityOk(row, life[put.row]) /\ row.etag \in Nat
    BY <2>2, RowFields DEF ActivityOk, Forward
  <2>4. BlobsGo /\ blob' = [blob EXCEPT ![put.row] = row] /\ life' = life
    BY <1>2, <2>1, <2>2, <2>3, InvTyped, SetGoes
  <2>5. blob'[put.row] = row
    BY <1>2, <2>4, InvTyped
  <2>6. SeenIn(blob'[put.row], life'[put.row], row.etag, put.w, life[put.row])
    BY <1>3, <2>2, <2>3, <2>4, <2>5 DEF SeenIn
  <2>7. PutsKept'
    BY <1>1, <1>3, <2>1, <2>3, <2>4, <2>6, InvTyped, PutCommits
  <2>8. IdemTyped' /\ idem'[put.w] = [etag |-> row.etag, life |-> life[put.row]]
    BY <1>2, <1>3, <2>1, <2>3, InvTyped DEF IdemTyped, SyncTypeOK
  <2> QED
    BY <1>6, <2>4, <2>6, <2>7, <2>8
<1> QED
  BY <1>5, <1>6

LEMMA PutAnsweredStep ==
  ASSUME SyncInv, NEW put \in wire, PutAnswered(put) PROVE SyncGoes
<1>1. put \in Puts /\ put.dev \in Devices /\ put.row \in Rows /\ put.w \in Contents
  BY InvTyped, PutFields
<1>2. /\ wire' = wire \ {put} /\ PutBlob(put) /\ idemDel' = idemDel /\ used' = used
      /\ curKey' = curKey /\ prim' = prim
      /\ IF ~Replayed(put) /\ StaleMatch(blob[put.row], put.im)
         THEN /\ Answer(put.dev, "conflict", put.w, blob[put.row].etag)
              /\ \/ view' = view
                 \/ SeeRow(put.dev, put.row, blob[put.row].etag, blob[put.row].val, life[put.row])
         ELSE /\ Answer(put.dev, "ok", put.w, idem'[put.w].etag)
              /\ SeeRow(put.dev, put.row, idem'[put.w].etag, put.w, idem'[put.w].life)
  BY DEF PutAnswered
<1>3. blob[put.row] \in RowType /\ life[put.row] \in Nat /\ put.w \in 0..MaxWrites
  BY <1>1, InvTyped DEF Contents
<1>4. PICK said, seen : said \in {"conflict", "ok"} /\ Answer(put.dev, said, put.w, seen)
  BY <1>2
<1> DEFINE x == Idle(said, put.w, seen)
<1>5. op' = [op EXCEPT ![put.dev] = x] /\ x.kind = "idle" /\ x.said = said
  BY <1>4 DEF Answer, Idle
<1> HIDE DEF x
<1>6. OldPuts
  <2>1. \A e \in Devices : Pushing(e)' => Pushing(e) /\ op'[e].put = op[e].put
    BY <1>5, InvTyped DEF Pushing
  <2> QED
    BY <1>2, <2>1 DEF OldPuts, Outstanding, Alike
<1>7. /\ BlobsGo /\ PutsKept' /\ IdemTyped'
      /\ Replayed(put) \/ ~StaleMatch(blob[put.row], put.im) =>
           SeenIn(blob'[put.row], life'[put.row], idem'[put.w].etag, put.w, idem'[put.w].life)
      /\ Replayed(put) \/ StaleMatch(blob[put.row], put.im) => idem' = idem /\ KeepBlobs
  BY <1>2, <1>6, PutBlobGoes
<1>8. idem'[put.w].etag \in Nat /\ idem'[put.w].life \in Nat /\ blob[put.row].etag \in Nat
      /\ blob[put.row].val \in 0..MaxWrites
  BY <1>1, <1>3, <1>7, RowFields DEF IdemTyped
<1>9. x \in Requests /\ ViewsKept' /\ ViewsTyped'
  <2>1. CASE ~Replayed(put) /\ StaleMatch(blob[put.row], put.im)
    <3>1. op'[put.dev] = Idle("conflict", put.w, blob[put.row].etag)
      BY <1>1, <1>2, <2>1, InvTyped DEF Answer
    <3>2. op'[put.dev] = x
      BY <1>1, <1>5, InvTyped
    <3>3. x \in Requests
      BY <1>3, <1>8, <3>1, <3>2, IdleRequest
    <3>4. CASE view' = view
      BY <1>7, <3>3, <3>4, InvTyped, ViewsGo
    <3>5. CASE SeeRow(put.dev, put.row, blob[put.row].etag, blob[put.row].val, life[put.row])
      <4> DEFINE s == [etag |-> blob[put.row].etag, val |-> blob[put.row].val,
                       life |-> life[put.row]]
      <4>1. view' = [view EXCEPT ![put.dev][put.row] = s]
        BY <3>5 DEF SeeRow
      <4>2. s \in [etag : Nat, val : 0..MaxWrites, life : Nat]
        BY <1>3, <1>8
      <4>3. blob' = blob /\ life' = life
        BY <1>7, <2>1 DEF KeepBlobs
      <4>4. SeenIn(blob'[put.row], life'[put.row], s.etag, s.val, s.life)
        BY <1>3, <1>8, <2>1, <4>3 DEF SeenIn, StaleMatch
      <4> HIDE DEF s
      <4> QED
        BY <1>1, <1>7, <3>3, <4>1, <4>2, <4>4, InvTyped, ViewGoes
    <3> QED
      BY <1>2, <2>1, <3>4, <3>5
  <2>2. CASE ~(~Replayed(put) /\ StaleMatch(blob[put.row], put.im))
    <3>1. op'[put.dev] = Idle("ok", put.w, idem'[put.w].etag)
      BY <1>1, <1>2, <2>2, InvTyped DEF Answer
    <3>2. op'[put.dev] = x
      BY <1>1, <1>5, InvTyped
    <3>3. x \in Requests
      BY <1>3, <1>8, <3>1, <3>2, IdleRequest
    <3>4. PICK s : s = [etag |-> idem'[put.w].etag, val |-> put.w, life |-> idem'[put.w].life]
      OBVIOUS
    <3>5. view' = [view EXCEPT ![put.dev][put.row] = s]
      BY <1>2, <2>2, <3>4 DEF SeeRow
    <3>6. s \in [etag : Nat, val : 0..MaxWrites, life : Nat]
      BY <1>3, <1>8, <3>4
    <3>7. SeenIn(blob'[put.row], life'[put.row], s.etag, s.val, s.life)
      BY <1>7, <2>2, <3>4
    <3> QED
      BY <1>1, <1>7, <3>3, <3>5, <3>6, <3>7, InvTyped, ViewGoes
  <2> QED
    BY <2>1, <2>2
<1>10. OpGoes(put.dev, x) /\ PullGoes(x) /\ DeleteGoes(put.dev, x)
  BY <1>4, <1>5, <1>9 DEF OpGoes, PullGoes, DeleteGoes
<1>11. /\ wire' \subseteq Puts /\ used' \in Bounds /\ used.del <= used'.del /\ KeysTyped'
  BY <1>2, InvTyped DEF Bounds, KeysTyped
<1> QED
  BY <1>1, <1>2, <1>7, <1>9, <1>10, <1>11, IdemDelSame, InvTyped, RequestGoes

LEMMA PutLateStep ==
  ASSUME SyncInv, NEW put \in wire, PutLate(put) PROVE SyncGoes
<1>1. put \in Puts /\ put.dev \in Devices
  BY InvTyped, PutFields
<1>2. /\ wire' = wire \ {put} /\ PutBlob(put) /\ idemDel' = idemDel /\ used' = used
      /\ curKey' = curKey /\ prim' = prim /\ op' = op /\ view' = view
  BY DEF PutLate
<1>3. BlobsGo /\ PutsKept' /\ IdemTyped'
  BY <1>2, PutsStay, PutBlobGoes
<1>4. ViewsKept' /\ ViewsTyped'
  BY <1>2, <1>3, InvTyped, ViewsGo
<1>5. /\ wire' \subseteq Puts /\ used' \in Bounds /\ used.del <= used'.del /\ KeysTyped'
  BY <1>2, InvTyped DEF Bounds, KeysTyped
<1>6. PICK x : x = op[put.dev]
  OBVIOUS
<1>7. OpGoes(put.dev, x)
  BY <1>1, <1>2, <1>6, InvTyped DEF OpGoes
<1>8. PullGoes(x)
  BY <1>1, <1>3, <1>6, InvTyped, PullsSame DEF PullGoes
<1>9. DeleteGoes(put.dev, x)
  BY <1>1, <1>3, <1>6, InvTyped
     DEF DeleteGoes, Deletes, BlobsGo, GoneGoes, DeletesKept, DeleteHonest
<1> QED
  BY <1>1, <1>2, <1>3, <1>4, <1>5, <1>7, <1>8, <1>9, IdemDelSame, InvTyped, RequestGoes

\* A step that leaves all requests as they are and at most loses a put.
LEMMA PutDroppedStep ==
  ASSUME SyncInv, NEW put \in wire, PutDropped(put) PROVE SyncGoes
<1>1. put \in Puts /\ put.dev \in Devices
  BY InvTyped, PutFields
<1>2. /\ wire' = wire \ {put} /\ KeepBlobs /\ TablesKept /\ Fault
      /\ curKey' = curKey /\ prim' = prim /\ op' = op /\ view' = view
  BY DEF PutDropped, TablesKept
<1>3. BlobsGo /\ ViewsKept' /\ ViewsTyped' /\ Spent /\ KeysTyped'
  BY <1>2, QuietGoes, FaultSpent, InvTyped DEF KeysTyped
<1>4. PICK x : x = op[put.dev]
  OBVIOUS
<1>5. OpGoes(put.dev, x)
  BY <1>1, <1>2, <1>4, InvTyped DEF OpGoes
<1>6. PullGoes(x)
  BY <1>1, <1>3, <1>4, InvTyped, PullsSame DEF PullGoes
<1>7. DeleteGoes(put.dev, x)
  BY <1>1, <1>3, <1>4, InvTyped
     DEF DeleteGoes, Deletes, BlobsGo, GoneGoes, DeletesKept, DeleteHonest
<1>8. PushGoes(x)
  BY <1>1, <1>2, <1>4 DEF PushGoes, Outstanding, Pushing, Alike
<1> QED
  BY <1>1, <1>2, <1>3, <1>5, <1>6, <1>7, <1>8, DeviceGoes

LEMMA PutRefusedStep ==
  ASSUME SyncInv, NEW put \in wire, PutRefused(put) PROVE SyncGoes
<1>1. put \in Puts /\ put.dev \in Devices /\ put.w \in 0..MaxWrites
  BY InvTyped, PutFields DEF Contents
<1>2. /\ wire' = wire \ {put} /\ KeepBlobs /\ TablesKept /\ Fault /\ view' = view
      /\ curKey' = curKey /\ prim' = prim /\ Answer(put.dev, "error", put.w, 0)
  BY DEF PutRefused, TablesKept
<1>3. BlobsGo /\ ViewsKept' /\ ViewsTyped' /\ Spent /\ KeysTyped'
  BY <1>2, QuietGoes, FaultSpent, InvTyped DEF KeysTyped
<1> QED
  BY <1>1, <1>2, <1>3, AnswerGoes

LEMMA PutAmbiguousStep ==
  ASSUME SyncInv, NEW d \in Devices, PutAmbiguous(d) PROVE SyncGoes
<1> DEFINE put == op[d].put
           again == [put EXCEPT !.try = @ + 1]
<1>1. /\ op[d].kind = "push" /\ Fault /\ KeepBlobs /\ TablesKept /\ view' = view
      /\ curKey' = curKey /\ prim' = prim
      /\ IF SendsAgain(put)
         THEN wire' = wire \cup {again} /\ op' = [op EXCEPT ![d].put = again]
         ELSE op' = [op EXCEPT ![d].kind = "unsure"] /\ wire' = wire
  BY DEF PutAmbiguous, TablesKept
<1>2. BlobsGo /\ ViewsKept' /\ ViewsTyped' /\ Spent /\ KeysTyped'
  BY <1>1, QuietGoes, FaultSpent, InvTyped DEF KeysTyped
<1>3. op[d] \in [kind : {"push", "unsure"}, put : Puts] /\ put \in Puts /\ put \in Outstanding
  BY <1>1, InvTyped, RequestKinds DEF Outstanding, Pushing
<1>4. CASE SendsAgain(put)
  <2> DEFINE x == [kind |-> "push", put |-> again]
  <2>1. again \in Puts /\ Alike(again, put)
    BY <1>3, <1>4 DEF Puts, Alike, SendsAgain, PutBlobMaxAttempts
  <2>2. wire' = wire \cup {again} /\ op' = [op EXCEPT ![d].put = again]
    BY <1>1, <1>4
  <2> HIDE DEF again, put
  <2>3. [op[d] EXCEPT !.put = again] = x
    BY <1>1, <1>3
  <2>4. op' = [op EXCEPT ![d] = x]
    BY <2>2, <2>3
  <2>5. x \in Requests /\ x.kind = "push" /\ x.put = again
    BY <2>1 DEF Requests
  <2> HIDE DEF x
  <2>6. OpGoes(d, x) /\ PullGoes(x) /\ DeleteGoes(d, x) /\ PushGoes(x)
    BY <1>3, <2>1, <2>2, <2>4, <2>5 DEF OpGoes, PullGoes, DeleteGoes, PushGoes
  <2> QED
    BY <1>1, <1>2, <2>6, DeviceGoes
<1>5. CASE ~SendsAgain(put)
  <2> DEFINE x == [kind |-> "unsure", put |-> put]
  <2>1. op' = [op EXCEPT ![d].kind = "unsure"] /\ wire' = wire
    BY <1>1, <1>5
  <2> HIDE DEF put
  <2>2. [op[d] EXCEPT !.kind = "unsure"] = x
    BY <1>1, <1>3 DEF put
  <2>3. op' = [op EXCEPT ![d] = x]
    BY <2>1, <2>2
  <2>4. x \in Requests /\ x.kind = "unsure" /\ x.put = put
    BY <1>3 DEF Requests
  <2> HIDE DEF x
  <2>5. OpGoes(d, x) /\ PullGoes(x) /\ DeleteGoes(d, x) /\ PushGoes(x)
    BY <1>3, <2>1, <2>3, <2>4 DEF OpGoes, PullGoes, DeleteGoes, PushGoes, Alike
  <2> QED
    BY <1>1, <1>2, <2>5, DeviceGoes
<1> QED
  BY <1>4, <1>5

LEMMA PushAgainStep ==
  ASSUME SyncInv, NEW d \in Devices, PushAgain(d) PROVE SyncGoes
<1> DEFINE old == op[d].put
           put == [old EXCEPT !.try = 1]
           x == [kind |-> "push", put |-> put]
<1>1. /\ op[d].kind = "unsure" /\ KeepBlobs /\ TablesKept /\ view' = view /\ used' = used
      /\ curKey' = curKey /\ prim' = prim
      /\ wire' = wire \cup {put} /\ op' = [op EXCEPT ![d] = x]
  BY DEF PushAgain, TablesKept
<1>2. BlobsGo /\ ViewsKept' /\ ViewsTyped' /\ Spent /\ KeysTyped'
  BY <1>1, QuietGoes, NoneSpent, InvTyped DEF KeysTyped
<1>3. old \in Puts /\ old \in Outstanding
  BY <1>1, InvTyped, RequestKinds DEF Outstanding, Pushing
<1> HIDE DEF old
<1>4. put \in Puts /\ Alike(put, old)
  BY <1>3 DEF Puts, Alike, PutBlobMaxAttempts
<1> HIDE DEF put
<1>5. x \in Requests /\ x.kind = "push" /\ x.put = put
  BY <1>4 DEF Requests
<1> HIDE DEF x
<1>6. OpGoes(d, x) /\ PullGoes(x) /\ DeleteGoes(d, x) /\ PushGoes(x)
  BY <1>1, <1>3, <1>4, <1>5 DEF OpGoes, PullGoes, DeleteGoes, PushGoes
<1> QED
  BY <1>1, <1>2, <1>6, DeviceGoes
-----------------------------------------------------------------------------
(* Pull. *)

PullType ==
    [kind : {"pull"}, row : Rows, can : BOOLEAN, ph : {"get", "seal", "fill"},
     got : RowType, life : Nat, etag : Nat]

\* A pull goes on, or begins.
LEMMA PullRequest ==
  ASSUME NEW x \in PullType, NEW d \in Devices, wire' = wire
  PROVE  x \in Requests /\ DeleteGoes(d, x) /\ PushGoes(x)
  BY DEF PullType, Requests, DeleteGoes, PushGoes

LEMMA PullStep ==
  ASSUME SyncInv, NEW d \in Devices, NEW r \in Rows, Pull(d, r) PROVE SyncGoes
<1> DEFINE can == CanRewrap(d)
           x == [kind |-> "pull", row |-> r, can |-> can, ph |-> "get",
                 got |-> Absent, life |-> 0, etag |-> 0]
<1>1. /\ Spend("pull", MaxPulls) /\ KeepBlobs /\ TablesKept /\ view' = view /\ wire' = wire
      /\ curKey' = curKey /\ prim' = prim /\ op' = [op EXCEPT ![d] = x]
  BY DEF Pull, TablesKept
<1>2. Spent
  BY <1>1, InvTyped, Spends, SyncConstants DEF Spent
<1>3. BlobsGo /\ ViewsKept' /\ ViewsTyped' /\ KeysTyped'
  BY <1>1, QuietGoes, InvTyped DEF KeysTyped
<1>4. can \in BOOLEAN
  BY DEF CanRewrap
<1> HIDE DEF can
<1>5. x \in PullType /\ x.ph = "get"
  BY <1>4, AbsentRow DEF PullType
<1> HIDE DEF x
<1>6. OpGoes(d, x) /\ PullGoes(x) /\ DeleteGoes(d, x) /\ PushGoes(x)
  BY <1>1, <1>5, PullRequest DEF OpGoes, PullGoes
<1> QED
  BY <1>1, <1>2, <1>3, <1>6, DeviceGoes

LEMMA PullGetStep ==
  ASSUME SyncInv, NEW d \in Devices, PullGet(d) PROVE SyncGoes
<1> DEFINE o == op[d]
           row == blob[o.row]
           nx(ph) == [o EXCEPT !.ph = ph, !.got = row, !.life = life[o.row], !.etag = row.etag]
<1>1. /\ o.kind = "pull" /\ o.ph = "get" /\ KeepBlobs /\ TablesKept /\ wire' = wire
      /\ curKey' = curKey /\ prim' = prim /\ used' = used
      /\ \/ ~Present(row) /\ Answer(d, "unread", 0, 0) /\ SeeNothing(d, o.row)
         \/ Answer(d, "unread", 0, row.etag) /\ view' = view
         \/ /\ Present(row) /\ view' = view
            /\ \E ph \in {"seal", "fill"} : op' = [op EXCEPT ![d] = nx(ph)]
  BY DEF PullGet, TablesKept
<1>2. BlobsGo /\ Spent /\ KeysTyped'
  BY <1>1, KeepGoes, NoneSpent, InvTyped DEF KeysTyped
<1>3. o \in PullType
  BY <1>1, InvTyped, RequestKinds DEF PullType
<1>4. o.row \in Rows /\ row \in RowType /\ row.etag \in Nat /\ life[o.row] \in Nat
  BY <1>3, InvTyped, RowFields DEF PullType
<1>5. CASE Answer(d, "unread", 0, 0) /\ SeeNothing(d, o.row)
  <2>1. view' = [view EXCEPT ![d][o.row] = Unseen]
    BY <1>5 DEF SeeNothing
  <2>2. Unseen \in [etag : Nat, val : 0..MaxWrites, life : Nat] /\ Unseen.etag = 0
    BY StoreConstants DEF Unseen
  <2>3. ViewsKept' /\ ViewsTyped'
    BY <1>2, <1>4, <2>1, <2>2, InvTyped, ViewGoes
  <2> QED
    BY <1>1, <1>2, <1>5, <2>3, AnswerGoes, StoreConstants
<1>6. CASE Answer(d, "unread", 0, row.etag) /\ view' = view
  <2>1. ViewsKept' /\ ViewsTyped'
    BY <1>2, <1>6, InvTyped, ViewsGo
  <2> QED
    BY <1>1, <1>2, <1>4, <1>6, <2>1, AnswerGoes, StoreConstants
<1>7. ASSUME Present(row), view' = view, NEW ph \in {"seal", "fill"},
             op' = [op EXCEPT ![d] = nx(ph)]
      PROVE  SyncGoes
  <2> DEFINE x == nx(ph)
  <2>1. ViewsKept' /\ ViewsTyped'
    BY <1>2, <1>7, InvTyped, ViewsGo
  <2> HIDE DEF o
  <2>2. /\ x \in PullType /\ x.kind = "pull" /\ x.row = o.row /\ x.got = row
        /\ x.life = life[o.row] /\ x.etag = row.etag
    BY <1>3, <1>4 DEF PullType
  <2>3. op' = [op EXCEPT ![d] = x]
    BY <1>7
  <2> HIDE DEF x
  <2>4. blob' = blob /\ life' = life
    BY <1>1 DEF KeepBlobs
  <2>5. PullGoes(x)
    BY <1>4, <1>7, <2>2, <2>4 DEF PullGoes, SeenIn
  <2>6. OpGoes(d, x) /\ DeleteGoes(d, x) /\ PushGoes(x)
    BY <1>1, <2>2, <2>3, PullRequest DEF OpGoes
  <2> QED
    BY <1>1, <1>2, <2>1, <2>5, <2>6, DeviceGoes
<1> QED
  BY <1>1, <1>5, <1>6, <1>7

\* A reader's compare-and-set that holds replaces what the reader has seen, unless
\* the row was deleted and created again.
LEMMA SealSees ==
  ASSUME NEW row \in RowType, NEW m \in Nat, NEW etag, NEW v, NEW n \in Nat,
         SeenIn(row, m, etag, v, n), etag = row.etag
  PROVE  /\ n = m => v = row.val
         /\ m = 0 => v = row.val
  BY DEF SeenIn

\* Lazy rewrap and migration: the row is resealed unless it moved.
LEMMA ResealGoes ==
  ASSUME SyncInv, NEW r \in Rows, NEW k \in Keys, NEW etag \in Nat, NEW v \in Contents, NEW n \in Nat,
         SeenIn(blob[r], life[r], etag, v, n), ~StaleRewrap(blob[r], etag),
         SetBlob(r, Resealed(blob[r], k, v))
  PROVE  /\ BlobsGo
         /\ blob' = [blob EXCEPT ![r] = Resealed(blob[r], k, v)]
         /\ SeenIn(blob'[r], life'[r], blob'[r].etag, v, n)
         /\ blob'[r].etag = blob[r].etag + 1 /\ blob'[r].etag \in Nat
         /\ blob'[r].fmt = "v2" /\ blob'[r].val = v
         /\ life[r] = n => v = blob[r].val
<1> DEFINE row == Resealed(blob[r], k, v)
<1>1. blob[r] \in RowType /\ life[r] \in Nat /\ Present(blob[r]) /\ etag = blob[r].etag
  BY InvTyped DEF StaleRewrap
<1>2. /\ row \in RowType /\ Forward(blob[r], row) /\ row.fmt = "v2"
      /\ row.val = v /\ row.act = blob[r].act /\ row.etag = blob[r].etag + 1
  BY <1>1, ResealedRow
<1>3. (life[r] = n => v = blob[r].val) /\ (life[r] = 0 => v = blob[r].val)
  BY <1>1 DEF SeenIn
<1>4. SetBlob(r, row)
  OBVIOUS
<1> HIDE DEF row
<1>5. ActivityOk(row, life[r]) /\ Present(row)
  BY <1>2, <1>3, InvTyped DEF ActivityOk, ActsKept, Forward
<1>6. BlobsGo /\ blob' = [blob EXCEPT ![r] = row] /\ life' = life
  BY <1>2, <1>4, <1>5, InvTyped, SetGoes
<1>7. blob'[r] = row
  BY <1>6, InvTyped
<1>8. row.etag \in Nat /\ n <= life[r]
  BY <1>2, RowFields DEF SeenIn
<1>9. SeenIn(row, life'[r], row.etag, v, n)
  BY <1>2, <1>5, <1>6, <1>8 DEF SeenIn
<1> QED
  BY <1>2, <1>3, <1>6, <1>7, <1>8, <1>9 DEF row

LEMMA PullSealStep ==
  ASSUME SyncInv, NEW d \in Devices, PullSeal(d) PROVE SyncGoes
<1> DEFINE o == op[d]
           stale == StaleRewrap(blob[o.row], o.etag)
           row == Resealed(blob[o.row], prim[d], o.got.val)
<1>1. /\ o.kind = "pull" /\ o.ph = "seal" /\ TablesKept /\ wire' = wire /\ view' = view
      /\ curKey' = curKey /\ prim' = prim
      /\ IF stale THEN KeepBlobs ELSE SetBlob(o.row, row)
      /\ \/ /\ op' = [op EXCEPT ![d].ph = "fill", ![d].etag = IF stale THEN o.etag ELSE row.etag]
            /\ used' = used
         \/ Fault /\ op' = [op EXCEPT ![d].ph = "fill"]
  BY DEF PullSeal, AnsweredEtag, TablesKept
<1>2. Spent /\ KeysTyped' /\ prim[d] \in Keys
  BY <1>1, FaultSpent, NoneSpent, InvTyped DEF KeysTyped
<1>3. o \in PullType
  BY <1>1, InvTyped, RequestKinds DEF PullType
<1>4. /\ o.row \in Rows /\ o.etag \in Nat /\ o.life \in Nat /\ o.got \in RowType
      /\ Present(o.got) /\ SeenIn(blob[o.row], life[o.row], o.etag, o.got.val, o.life)
  BY <1>1, <1>3, InvTyped DEF PullType, PullsKept, PullOK
<1>5. o.got.val \in Contents
  BY <1>4, RowFields
<1>6. BlobsGo /\ (~stale => /\ SeenIn(blob'[o.row], life'[o.row], row.etag, o.got.val, o.life)
                            /\ row.etag \in Nat)
  <2>1. CASE stale
    BY <1>1, <2>1, InvTyped, KeepGoes
  <2>2. CASE ~stale
    <3>1. SetBlob(o.row, row)
      BY <1>1, <2>2
    <3>2. /\ BlobsGo /\ blob' = [blob EXCEPT ![o.row] = row]
          /\ SeenIn(blob'[o.row], life'[o.row], blob'[o.row].etag, o.got.val, o.life)
          /\ blob'[o.row].etag \in Nat
      BY <1>2, <1>4, <1>5, <2>2, <3>1, ResealGoes
    <3>3. blob'[o.row] = row
      BY <1>4, <3>2, InvTyped
    <3> QED
      BY <3>2, <3>3
  <2> QED
    BY <2>1, <2>2
<1>7. ViewsKept' /\ ViewsTyped'
  BY <1>1, <1>6, InvTyped, ViewsGo
<1>8. SeenIn(blob'[o.row], life'[o.row], o.etag, o.got.val, o.life)
  BY <1>4, <1>6, InvTyped, SeenGoes
<1>9. PICK e \in Nat : /\ op' = [op EXCEPT ![d] = [o EXCEPT !.ph = "fill", !.etag = e]]
                       /\ SeenIn(blob'[o.row], life'[o.row], e, o.got.val, o.life)
  <2>1. CASE op' = [op EXCEPT ![d].ph = "fill", ![d].etag = IF stale THEN @ ELSE row.etag]
    <3>1. CASE stale
      <4>1. op' = [op EXCEPT ![d] = [o EXCEPT !.ph = "fill", !.etag = o.etag]]
        BY <1>3, <2>1, <3>1, InvTyped DEF PullType
      <4> QED
        BY <1>4, <1>8, <4>1
    <3>2. CASE ~stale
      <4>1. op' = [op EXCEPT ![d] = [o EXCEPT !.ph = "fill", !.etag = row.etag]]
        BY <1>3, <2>1, <3>2, InvTyped DEF PullType
      <4> QED
        BY <1>6, <3>2, <4>1
    <3> QED
      BY <3>1, <3>2
  <2>2. CASE op' = [op EXCEPT ![d].ph = "fill"]
    <3>1. op' = [op EXCEPT ![d] = [o EXCEPT !.ph = "fill", !.etag = o.etag]]
      <4>1. [o EXCEPT !.ph = "fill"] = [o EXCEPT !.ph = "fill", !.etag = o.etag]
        BY <1>3 DEF PullType
      <4> QED
        BY <2>2, <4>1
    <3> QED
      BY <1>4, <1>8, <3>1
  <2> QED
    BY <1>1, <2>1, <2>2
<1> DEFINE x == [o EXCEPT !.ph = "fill", !.etag = e]
<1>10. op' = [op EXCEPT ![d] = x]
  BY <1>9
<1> HIDE DEF o
<1>11. x \in PullType /\ x.row = o.row /\ x.got = o.got /\ x.life = o.life /\ x.etag = e
  BY <1>3, <1>9 DEF PullType
<1> HIDE DEF x
<1>12. PullGoes(x) /\ OpGoes(d, x) /\ DeleteGoes(d, x) /\ PushGoes(x)
  BY <1>1, <1>4, <1>9, <1>10, <1>11, PullRequest DEF PullGoes, OpGoes
<1> QED
  BY <1>1, <1>2, <1>6, <1>7, <1>12, DeviceGoes

LEMMA PullFillStep ==
  ASSUME SyncInv, NEW d \in Devices, PullFill(d) PROVE SyncGoes
<1> DEFINE o == op[d]
           row == Backfilled(blob[o.row], o.etag, o.got.val)
<1>1. /\ o.kind = "pull" /\ o.ph = "fill" /\ TablesKept /\ wire' = wire
      /\ curKey' = curKey /\ prim' = prim
      /\ (used' = used \/ Fault)
      /\ (KeepBlobs \/ SetBlob(o.row, row))
      /\ Answer(d, "ok", 0, o.etag)
      /\ SeeRow(d, o.row, o.etag, o.got.val, o.life)
  BY DEF PullFill, TablesKept
<1>2. Spent /\ KeysTyped'
  BY <1>1, FaultSpent, NoneSpent, InvTyped DEF KeysTyped
<1>3. o \in PullType
  BY <1>1, InvTyped, RequestKinds DEF PullType
<1>4. /\ o.row \in Rows /\ o.etag \in Nat /\ o.life \in Nat /\ o.got \in RowType
      /\ SeenIn(blob[o.row], life[o.row], o.etag, o.got.val, o.life)
  BY <1>1, <1>3, InvTyped DEF PullType, PullsKept, PullOK
<1>5. o.got.val \in 0..MaxWrites /\ blob[o.row] \in RowType /\ life[o.row] \in Nat
  BY <1>4, RowFields, InvTyped
<1>6. BlobsGo
  <2>1. CASE KeepBlobs
    BY <2>1, InvTyped, KeepGoes
  <2>2. CASE SetBlob(o.row, row)
    <3>1. /\ row \in RowType
          /\ Present(blob[o.row]) => Forward(blob[o.row], row)
          /\ ~Present(blob[o.row]) => row = blob[o.row]
          /\ row # blob[o.row] => /\ Present(blob[o.row]) /\ blob[o.row].etag = o.etag
                                  /\ row.act = o.got.val /\ row.val = blob[o.row].val
      BY <1>5, BackfilledRow
    <3>2. ActivityOk(row, life[o.row])
      <4>1. CASE row = blob[o.row]
        BY <1>4, <4>1, InvTyped DEF ActsKept
      <4>2. CASE row # blob[o.row]
        <5>1. life[o.row] = 0 => o.got.val = blob[o.row].val
          BY <1>4, <1>5, <3>1, <4>2, SealSees
        <5> QED
          BY <3>1, <4>2, <5>1 DEF ActivityOk
      <4> QED
        BY <4>1, <4>2
    <3> HIDE DEF row, o
    <3> QED
      BY <1>4, <2>2, <3>1, <3>2, InvTyped, SetGoes
  <2> QED
    BY <1>1, <2>1, <2>2
<1>7. ViewsKept' /\ ViewsTyped'
  <2>1. PICK s : s = [etag |-> o.etag, val |-> o.got.val, life |-> o.life]
    OBVIOUS
  <2>2. view' = [view EXCEPT ![d][o.row] = s]
    BY <1>1, <2>1 DEF SeeRow
  <2>3. s \in [etag : Nat, val : 0..MaxWrites, life : Nat]
    BY <1>4, <1>5, <2>1
  <2>4. SeenIn(blob'[o.row], life'[o.row], o.etag, o.got.val, o.life)
    BY <1>4, <1>6, InvTyped, SeenGoes
  <2>5. SeenIn(blob'[o.row], life'[o.row], s.etag, s.val, s.life)
    BY <2>1, <2>4
  <2> QED
    BY <1>4, <1>6, <2>2, <2>3, <2>5, InvTyped, ViewGoes
<1> QED
  BY <1>1, <1>2, <1>4, <1>6, <1>7, AnswerGoes, StoreConstants
-----------------------------------------------------------------------------
(* Delete and key registration. *)

DelType ==
    [kind : {"delete", "delunsure"}, row : Rows, n : Nat, given : Nat, im : Nat,
     ph : {"get", "cas"}, try : 1..DeleteMaxRetries]

LEMMA DeleteStep ==
  ASSUME SyncInv, NEW d \in Devices, NEW r \in Rows, NEW given \in Nat, Delete(d, r, given)
  PROVE  SyncGoes
<1> DEFINE ph == IF given = 0 THEN "get" ELSE "cas"
           x == [kind |-> "delete", row |-> r, n |-> used.del + 1, given |-> given,
                 im |-> given, try |-> 1, ph |-> ph]
<1>1. /\ op[d].kind = "idle" /\ Spend("del", MaxDeletes) /\ op' = [op EXCEPT ![d] = x]
      /\ gone' = [gone EXCEPT ![d] = ~Present(blob[r])]
      /\ blob' = blob /\ life' = life /\ idem' = idem /\ idemDel' = idemDel /\ wire' = wire
      /\ view' = view /\ curKey' = curKey /\ prim' = prim
  BY DEF Delete
<1>2. /\ used' \in Bounds /\ used'.del = used.del + 1 /\ used'.w = used.w
      /\ used.del \in Nat /\ used.w \in Nat
  BY <1>1, InvTyped, Spends, SyncConstants DEF Bounds
<1>3. ph \in {"get", "cas"}
  OBVIOUS
<1> HIDE DEF ph
<1>4. x \in DelType /\ x.n = used.del + 1 /\ x.row = r /\ x.kind = "delete"
  BY <1>2, <1>3 DEF DelType, DeleteMaxRetries
<1>5. x \in Requests
  BY <1>4 DEF DelType, Requests
<1>6. op' = [op EXCEPT ![d] = x]
  BY <1>1
<1> HIDE DEF x
<1>7. /\ op' \in [Devices -> Requests] /\ op'[d] = x
      /\ \A e \in Devices : e # d => op'[e] = op[e]
  BY <1>5, <1>6, InvTyped
<1>8. /\ gone' \in [Devices -> BOOLEAN] /\ gone'[d] = ~Present(blob[r])
      /\ \A e \in Devices : e # d => gone'[e] = gone[e]
  BY <1>1, InvTyped DEF SyncTypeOK, Present
<1>9. SyncTypeOK'
  BY <1>1, <1>2, <1>7, <1>8, InvTyped DEF SyncTypeOK
<1>10. ViewsKept' /\ ActsKept'
  BY <1>1, InvTyped DEF ViewsKept, ActsKept
<1>11. PullsKept'
  BY <1>1, <1>4, <1>7, InvTyped DEF PullsKept, PullOK
<1>12. Outstanding' \subseteq Outstanding
  BY <1>1, <1>4, <1>7 DEF Outstanding, Pushing
<1>13. PutsKept'
  <2>1. \A p \in Outstanding : PutOK(p)'
    BY <1>1, <1>2, InvTyped DEF PutsKept, PutOK
  <2> QED
    BY <1>1, <1>2, <1>12, <2>1, InvTyped DEF PutsKept
<1>14. /\ \A e \in idemDel : e.n \in Nat /\ e.n <= used.del
       /\ \A e \in Devices : Deletes(e) => op[e].n \in Nat /\ op[e].n <= used.del
  BY InvTyped, RequestFields DEF SyncTypeOK, DeletesKept, Deletes
<1>15. DeletesKept'
  <2>1. ASSUME NEW e \in Devices, Deletes(e)'
        PROVE  /\ op'[e].n <= used'.del
               /\ ~Present(blob'[op'[e].row]) => gone'[e]
               /\ \A f \in idemDel' : f.n = op'[e].n => gone'[e]
    <3>1. CASE e = d
      <4>1. op'[e] = x /\ \A f \in idemDel' : f.n # x.n
        BY <1>1, <1>2, <1>4, <1>7, <1>14, <3>1
      <4>2. op'[e].n <= used'.del
        BY <1>2, <1>4, <4>1
      <4>3. ~Present(blob'[op'[e].row]) => gone'[e]
        BY <1>1, <1>4, <1>8, <3>1, <4>1
      <4> QED
        BY <4>1, <4>2, <4>3
    <3>2. CASE e # d
      <4>1. op'[e] = op[e] /\ gone'[e] = gone[e] /\ Deletes(e)
        BY <1>7, <1>8, <2>1, <3>2 DEF Deletes
      <4>2. op[e].n <= used'.del
        BY <1>2, <1>14, <4>1
      <4> QED
        BY <1>1, <4>1, <4>2, InvTyped DEF DeletesKept
    <3> QED
      BY <3>1, <3>2
  <2>2. \A e \in idemDel' : e.n <= used'.del
    BY <1>1, <1>2, <1>14
  <2>3. ASSUME NEW e \in Devices, NEW f \in Devices, Deletes(e)', Deletes(f)',
               op'[e].n = op'[f].n
        PROVE  e = f
    <3>1. ASSUME NEW g \in Devices, g # d, Deletes(g)'
          PROVE  Deletes(g) /\ op'[g].n = op[g].n /\ op'[g].n # x.n
      <4>1. Deletes(g) /\ op'[g] = op[g]
        BY <1>7, <3>1 DEF Deletes
      <4> QED
        BY <1>2, <1>4, <1>14, <4>1
    <3>2. op'[d].n = x.n
      BY <1>7
    <3>3. CASE e # d /\ f # d
      BY <2>3, <3>1, <3>3, InvTyped DEF DeletesKept
    <3>4. CASE e = d \/ f = d
      BY <2>3, <3>1, <3>2, <3>4
    <3> QED
      BY <3>3, <3>4
  <2>4. DeleteHonest'
    BY <1>4, <1>7, <1>8, InvTyped DEF DeletesKept, DeleteHonest
  <2> QED
    BY <2>1, <2>2, <2>3, <2>4 DEF DeletesKept
<1>16. RowsGo
  BY <1>1 DEF RowsGo, Grows, Forward
<1> QED
  BY <1>9, <1>10, <1>11, <1>13, <1>15, <1>16 DEF SyncInv, SyncGoes

\* A delete goes on.
LEMMA DeleteRequest ==
  ASSUME NEW x \in DelType, NEW d \in Devices, wire' = wire, Deletes(d),
         x.n = op[d].n, x.row = op[d].row
  PROVE  x \in Requests /\ DeleteGoes(d, x) /\ PushGoes(x) /\ PullGoes(x)
  BY DEF DelType, Requests, DeleteGoes, PushGoes, PullGoes

\* The device learns that the row is gone.
LEMMA DeletedGoes ==
  ASSUME SyncInv, BlobsGo, NEW d \in Devices, Deletes(d), Deleted(d), gone'[d],
         wire' = wire, idem' = idem, IdemDelGoes(d), used' = used, KeysTyped'
  PROVE  SyncGoes
<1> DEFINE x == Idle("deleted", 0, 0)
<1>1. op' = [op EXCEPT ![d] = x] /\ view' = [view EXCEPT ![d][op[d].row] = Unseen]
  BY DEF Deleted, Answer, SeeNothing
<1>2. x \in Requests /\ x.kind = "idle"
  BY IdleRequest, StoreConstants
<1> HIDE DEF x
<1>3. OpGoes(d, x) /\ PullGoes(x) /\ DeleteGoes(d, x) /\ PushGoes(x)
  BY <1>1, <1>2 DEF OpGoes, PullGoes, DeleteGoes, PushGoes
<1>4. Unseen \in [etag : Nat, val : 0..MaxWrites, life : Nat] /\ Unseen.etag = 0
  BY StoreConstants DEF Unseen
<1>5. op[d].row \in Rows
  BY InvTyped, RequestFields DEF Deletes
<1>6. ViewsKept' /\ ViewsTyped'
  BY <1>1, <1>4, <1>5, InvTyped, ViewGoes
<1>7. OldPuts
  BY <1>3, InvTyped, PutsOld DEF PushGoes
<1>8. used \in Bounds /\ used' \in Bounds /\ used.w <= used'.w /\ used.del <= used'.del
  BY InvTyped DEF Bounds
<1>9. PutsKept' /\ IdemTyped' /\ wire' \subseteq Puts
  BY <1>7, <1>8, InvTyped, PutsGo DEF IdemTyped, SyncTypeOK
<1> QED
  BY <1>3, <1>6, <1>8, <1>9, RequestGoes

LEMMA DeleteGetStep ==
  ASSUME SyncInv, NEW d \in Devices, DeleteGet(d) PROVE SyncGoes
<1> DEFINE o == op[d]
<1>1. /\ o.kind = "delete" /\ o.ph = "get" /\ KeepBlobs /\ TablesKept /\ wire' = wire
      /\ curKey' = curKey /\ prim' = prim /\ used' = used
      /\ IF Present(blob[o.row])
         THEN /\ op' = [op EXCEPT ![d].ph = "cas", ![d].im = blob[o.row].etag]
              /\ view' = view
         ELSE Deleted(d)
  BY DEF DeleteGet, TablesKept
<1>2. BlobsGo /\ Spent /\ KeysTyped'
  BY <1>1, KeepGoes, NoneSpent, InvTyped DEF KeysTyped
<1>3. o \in DelType /\ Deletes(d)
  BY <1>1, InvTyped, RequestKinds DEF DelType, Deletes
<1>4. o.row \in Rows /\ blob[o.row].etag \in Nat
  BY <1>3, InvTyped, RowFields DEF DelType
<1>5. CASE Present(blob[o.row])
  <2> DEFINE e == blob[o.row].etag
             x == [o EXCEPT !.ph = "cas", !.im = e]
  <2>1. op' = [op EXCEPT ![d].ph = "cas", ![d].im = e] /\ view' = view
    BY <1>1, <1>5
  <2> HIDE DEF e
  <2>2. op' = [op EXCEPT ![d] = x]
    BY <2>1
  <2> HIDE DEF o
  <2>3. x \in DelType /\ x.n = o.n /\ x.row = o.row
    BY <1>3, <1>4 DEF DelType, e
  <2> HIDE DEF x
  <2>4. DeleteGoes(d, x) /\ PushGoes(x) /\ PullGoes(x) /\ OpGoes(d, x)
    BY <1>1, <1>3, <2>2, <2>3, DeleteRequest DEF OpGoes, o
  <2>5. ViewsKept' /\ ViewsTyped'
    BY <1>2, <2>1, InvTyped, ViewsGo
  <2> QED
    BY <1>1, <1>2, <2>4, <2>5, DeviceGoes
<1>6. CASE ~Present(blob[o.row])
  <2>1. gone'[d]
    BY <1>1, <1>3, <1>6, InvTyped DEF KeepBlobs, DeletesKept
  <2> QED
    BY <1>1, <1>2, <1>3, <1>6, <2>1, InvTyped, IdemDelSame, DeletedGoes DEF TablesKept
<1> QED
  BY <1>5, <1>6

LEMMA DeleteAgainStep ==
  ASSUME SyncInv, NEW d \in Devices, DeleteAgain(d) PROVE SyncGoes
<1> DEFINE o == op[d]
           g == o.given
           ph == IF g = 0 THEN "get" ELSE "cas"
           x == [o EXCEPT !.kind = "delete", !.try = 1, !.im = g, !.ph = ph]
<1>1. /\ o.kind = "delunsure" /\ KeepBlobs /\ TablesKept /\ wire' = wire /\ view' = view
      /\ curKey' = curKey /\ prim' = prim /\ used' = used
      /\ op' = [op EXCEPT ![d].kind = "delete", ![d].try = 1, ![d].im = g, ![d].ph = ph]
  BY DEF DeleteAgain, TablesKept
<1>2. BlobsGo /\ ViewsKept' /\ ViewsTyped' /\ Spent /\ KeysTyped'
  BY <1>1, QuietGoes, NoneSpent, InvTyped DEF KeysTyped
<1>3. o \in DelType /\ Deletes(d)
  BY <1>1, InvTyped, RequestKinds DEF DelType, Deletes
<1>4. ph \in {"get", "cas"} /\ g \in Nat
  BY <1>3 DEF DelType
<1> HIDE DEF ph, g
<1>5. op' = [op EXCEPT ![d] = x]
  BY <1>1
<1> HIDE DEF o
<1>6. x \in DelType /\ x.n = o.n /\ x.row = o.row
  <2> DEFINE y == [o EXCEPT !.kind = "delete", !.try = 1]
  <2>1. 1 \in 1..DeleteMaxRetries
    BY DEF DeleteMaxRetries
  <2>2. y \in DelType /\ y.n = o.n /\ y.row = o.row
    BY <1>3, <2>1 DEF DelType
  <2>3. x = [y EXCEPT !.im = g, !.ph = ph]
    OBVIOUS
  <2> HIDE DEF x, y
  <2> QED
    BY <1>4, <2>2, <2>3 DEF DelType
<1> HIDE DEF x
<1>7. DeleteGoes(d, x) /\ PushGoes(x) /\ PullGoes(x) /\ OpGoes(d, x)
  BY <1>1, <1>3, <1>5, <1>6, DeleteRequest DEF OpGoes, o
<1> QED
  BY <1>1, <1>2, <1>7, DeviceGoes

\* The compare-and-set of a delete: the table gains an attempt only when the row
\* goes.
LEMMA DeleteCasGoes ==
  ASSUME SyncInv, NEW d \in Devices, DeleteCas(d)
  PROVE  /\ BlobsGo /\ IdemDelGoes(d) /\ KeysTyped'
         /\ CasOutcome(op[d]) = "done" => gone'[d]
<1> DEFINE o == op[d]
           commits == SameKey(o) = {} /\ ~StaleMatch(blob[o.row], o.im)
<1>1. /\ o.kind = "delete" /\ curKey' = curKey /\ prim' = prim
      /\ IF commits
         THEN /\ SetBlob(o.row, Absent)
              /\ idemDel' = idemDel \cup {[n |-> o.n, try |-> o.try, im |-> o.im]}
         ELSE KeepBlobs /\ idemDel' = idemDel
  BY DEF DeleteCas
<1>2. o \in DelType /\ Deletes(d)
  BY <1>1, InvTyped, RequestKinds DEF DelType, Deletes
<1>3. KeysTyped'
  BY <1>1, InvTyped DEF KeysTyped
<1>4. CASE commits
  <2>1. BlobsGo /\ gone'[d]
    BY <1>1, <1>2, <1>4, AbsentRow, InvTyped, SetGoes DEF DelType
  <2>2. idemDel' = idemDel \cup {[n |-> o.n, try |-> o.try, im |-> o.im]}
    BY <1>1, <1>4
  <2>3. [n |-> o.n, try |-> o.try, im |-> o.im] \in [n : Nat, try : 1..DeleteMaxRetries, im : Nat]
    BY <1>2 DEF DelType
  <2>4. IdemDelGoes(d)
    BY <1>2, <2>1, <2>2, <2>3, InvTyped DEF IdemDelGoes, SyncTypeOK
  <2> QED
    BY <1>3, <2>1, <2>4
<1>5. CASE ~commits
  <2>1. BlobsGo /\ IdemDelGoes(d)
    BY <1>1, <1>5, InvTyped, KeepGoes, IdemDelSame
  <2>2. ASSUME CasOutcome(o) = "done" PROVE gone'[d]
    <3>1. \E e \in SameKey(o) : e.im = o.im
      BY <1>5, <2>2 DEF CasOutcome
    <3>2. PICK e \in idemDel : e.n = o.n
      BY <3>1 DEF SameKey
    <3>3. gone[d]
      BY <1>2, <3>2, InvTyped DEF DeletesKept
    <3> QED
      BY <1>1, <1>5, <3>3 DEF KeepBlobs
  <2> QED
    BY <1>3, <2>1, <2>2
<1> QED
  BY <1>4, <1>5

LEMMA DeleteCasStep ==
  ASSUME SyncInv, NEW d \in Devices, DeleteCas(d) PROVE SyncGoes
<1> DEFINE o == op[d]
           out == CasOutcome(o)
<1>1. /\ o.kind = "delete" /\ wire' = wire /\ idem' = idem
      /\ \/ out = "done" /\ Deleted(d) /\ used' = used
         \/ /\ out = "again" /\ view' = view /\ used' = used
            /\ op' = [op EXCEPT ![d].ph = "get", ![d].try = @ + 1]
         \/ /\ Answer(d, IF out = "clash" THEN "error" ELSE "conflict", 0, 0)
            /\ view' = view /\ used' = used
         \/ Fault /\ op' = [op EXCEPT ![d].kind = "delunsure"] /\ view' = view
  BY DEF DeleteCas
<1>2. BlobsGo /\ IdemDelGoes(d) /\ KeysTyped' /\ (out = "done" => gone'[d])
  BY DeleteCasGoes
<1>3. o \in DelType /\ Deletes(d)
  BY <1>1, InvTyped, RequestKinds DEF DelType, Deletes
<1>4. CASE out = "done" /\ Deleted(d) /\ used' = used
  BY <1>1, <1>2, <1>3, <1>4, DeletedGoes
<1>5. ASSUME view' = view, Spent, NEW x \in Requests, op' = [op EXCEPT ![d] = x],
             DeleteGoes(d, x), PullGoes(x), PushGoes(x)
      PROVE  SyncGoes
  <2>1. OpGoes(d, x) /\ ViewsKept' /\ ViewsTyped'
    BY <1>2, <1>5, InvTyped, ViewsGo DEF OpGoes
  <2>2. OldPuts
    BY <1>5, <2>1, InvTyped, PutsOld DEF PushGoes
  <2>3. used \in Bounds /\ used' \in Bounds /\ used.w <= used'.w /\ used.del <= used'.del
    BY <1>5, InvTyped DEF Bounds, Spent
  <2>4. PutsKept' /\ IdemTyped' /\ wire' \subseteq Puts
    BY <1>1, <1>2, <2>2, <2>3, InvTyped, PutsGo DEF IdemTyped, SyncTypeOK
  <2> QED
    BY <1>2, <1>5, <2>1, <2>3, <2>4, RequestGoes
<1>6. CASE out = "again" /\ view' = view /\ used' = used
           /\ op' = [op EXCEPT ![d].ph = "get", ![d].try = @ + 1]
  <2> DEFINE t == o.try + 1
             x == [o EXCEPT !.ph = "get", !.try = t]
  <2>1. t \in 1..DeleteMaxRetries
    BY <1>3, <1>6 DEF CasOutcome, DelType, DeleteMaxRetries
  <2>2. op' = [op EXCEPT ![d] = x]
    BY <1>6
  <2> HIDE DEF t, o
  <2>3. x \in DelType /\ x.n = o.n /\ x.row = o.row
    BY <1>3, <2>1 DEF DelType
  <2> HIDE DEF x
  <2>4. x \in Requests /\ DeleteGoes(d, x) /\ PushGoes(x) /\ PullGoes(x)
    BY <1>1, <1>3, <2>3, DeleteRequest DEF o
  <2> QED
    BY <1>5, <1>6, <2>2, <2>4, NoneSpent, InvTyped
<1>7. CASE Answer(d, IF out = "clash" THEN "error" ELSE "conflict", 0, 0) /\ view' = view
           /\ used' = used
  <2>1. PICK said \in {"error", "conflict"} : Answer(d, said, 0, 0)
    BY <1>7
  <2> DEFINE x == Idle(said, 0, 0)
  <2>2. x \in Requests /\ x.kind = "idle" /\ x.said = said /\ op' = [op EXCEPT ![d] = x]
    BY <2>1, IdleRequest, StoreConstants DEF Answer
  <2> HIDE DEF x
  <2>3. DeleteGoes(d, x) /\ PushGoes(x) /\ PullGoes(x)
    BY <1>1, <2>1, <2>2 DEF DeleteGoes, PushGoes, PullGoes
  <2> QED
    BY <1>5, <1>7, <2>2, <2>3, NoneSpent, InvTyped
<1>8. CASE Fault /\ op' = [op EXCEPT ![d].kind = "delunsure"] /\ view' = view
  <2> DEFINE x == [o EXCEPT !.kind = "delunsure"]
  <2>1. op' = [op EXCEPT ![d] = x]
    BY <1>8
  <2> HIDE DEF o
  <2>2. x \in DelType /\ x.n = o.n /\ x.row = o.row
    BY <1>3 DEF DelType
  <2> HIDE DEF x
  <2>3. x \in Requests /\ DeleteGoes(d, x) /\ PushGoes(x) /\ PullGoes(x)
    BY <1>1, <1>3, <2>2, DeleteRequest DEF o
  <2> QED
    BY <1>5, <1>8, <2>1, <2>3, FaultSpent, InvTyped
<1> QED
  BY <1>1, <1>4, <1>6, <1>7, <1>8

LEMMA RegisterKeyStep ==
  ASSUME SyncInv, NEW d \in Devices, NEW k \in Ring, NEW fresh \in BOOLEAN,
         NEW star \in BOOLEAN, RegisterKey(d, k, fresh, star)
  PROVE  SyncGoes
<1>1. /\ Spend("reset", MaxResets) /\ TablesKept /\ wire' = wire /\ view' = view
      /\ KeepBlobs \/ SetBlobs([r \in Rows |-> Absent])
      /\ Answer(d, "ok", 0, 0) \/ Answer(d, "error", 0, 0)
      /\ curKey' = curKey \/ curKey' = k
      /\ prim' = prim \/ prim' = [prim EXCEPT ![d] = k]
  BY DEF RegisterKey, TablesKept
<1>2. Spent
  BY <1>1, InvTyped, Spends, SyncConstants DEF Spent
<1>3. BlobsGo
  BY <1>1, InvTyped, KeepGoes, WipeGoes
<1>4. ViewsKept' /\ ViewsTyped'
  BY <1>1, <1>3, InvTyped, ViewsGo
<1>5. KeysTyped'
  BY <1>1, InvTyped, SyncConstants DEF KeysTyped
<1> QED
  BY <1>1, <1>2, <1>3, <1>4, <1>5, AnswerGoes, StoreConstants

LEMMA SyncStep ==
  ASSUME SyncInv, SyncNext PROVE SyncGoes
<1>1. ASSUME NEW d \in Devices, NEW r \in Rows,
             \/ Push(d, r)
             \/ Pull(d, r)
             \/ \E given \in {0, view[d][r].etag} : Delete(d, r, given)
      PROVE  SyncGoes
  <2>1. view[d][r].etag \in Nat
    BY InvTyped DEF ViewsTyped
  <2>2. ASSUME NEW given \in {0, view[d][r].etag}, Delete(d, r, given) PROVE SyncGoes
    BY <2>1, <2>2, DeleteStep
  <2> QED
    BY <1>1, <2>2, PushStep, PullStep
<1>2. ASSUME NEW put \in wire,
             PutAnswered(put) \/ PutLate(put) \/ PutDropped(put) \/ PutRefused(put)
      PROVE  SyncGoes
  BY <1>2, PutAnsweredStep, PutLateStep, PutDroppedStep, PutRefusedStep
<1>3. ASSUME NEW d \in Devices,
             \/ PutAmbiguous(d) \/ PushAgain(d)
             \/ PullGet(d) \/ PullSeal(d) \/ PullFill(d)
             \/ DeleteGet(d) \/ DeleteCas(d) \/ DeleteAgain(d)
             \/ Abandon(d)
      PROVE  SyncGoes
  BY <1>3, PutAmbiguousStep, PushAgainStep, PullGetStep, PullSealStep, PullFillStep,
     DeleteGetStep, DeleteCasStep, DeleteAgainStep, AbandonStep
<1>4. ASSUME NEW d \in Devices, NEW k \in Ring, NEW fresh \in BOOLEAN, NEW star \in BOOLEAN,
             RegisterKey(d, k, fresh, star)
      PROVE  SyncGoes
  BY <1>4, RegisterKeyStep
<1> QED
  BY <1>1, <1>2, <1>3, <1>4 DEF SyncNext
-----------------------------------------------------------------------------
(* The migration job. *)

\* The rows move under the job, or the devices do anything else.
LEMMA MigUnder ==
  ASSUME Inv, SyncInv', RowsGo, UNCHANGED migVars
  PROVE  MigInv'
<1>1. mig' = mig /\ stamped' = stamped /\ runs' = runs
  BY DEF migVars
<1>2. MigTypeOK' /\ MigTypeOK /\ HandKept /\ RunKept
  BY <1>1 DEF Inv, MigInv, MigTypeOK
<1>3. blob \in [Rows -> RowType] /\ life \in [Rows -> Nat]
      /\ blob' \in [Rows -> RowType] /\ life' \in [Rows -> Nat]
  BY DEF Inv, SyncInv, SyncTypeOK
<1>4. HandKept'
  <2>1. ASSUME mig.st = "seal"
        PROVE  SeenIn(blob'[mig.row], life'[mig.row], mig.got.etag, mig.got.val, mig.life)
    <3>1. /\ mig.row \in Rows /\ mig.got \in RowType /\ mig.life \in Nat
          /\ SeenIn(blob[mig.row], life[mig.row], mig.got.etag, mig.got.val, mig.life)
      BY <1>2, <2>1 DEF HandKept, MigTypeOK, MigType
    <3>2. mig.got.etag \in Nat
      BY <3>1, RowFields
    <3>3. Grows(blob[mig.row], blob'[mig.row], life[mig.row], life'[mig.row])
      BY <3>1 DEF RowsGo
    <3>4. /\ blob[mig.row] \in RowType /\ blob'[mig.row] \in RowType
          /\ life[mig.row] \in Nat /\ life'[mig.row] \in Nat
      BY <1>3, <3>1
    <3> QED
      BY <3>1, <3>2, <3>3, <3>4, SeenKept
  <2> QED
    BY <1>1, <1>2, <2>1 DEF HandKept
<1>5. \A r \in Rows : Settled(r) => Settled(r)'
  BY <1>1 DEF RowsGo, Settled
<1>6. RunKept'
  <2>1. mig.st # "idle" /\ mig.blocked = {} => stamped \subseteq mig.cool
    BY <1>2 DEF RunKept
  <2>2. Running /\ Clean =>
          \A i \in 1..Len(Scopes), r \in Rows :
             i < mig.scope /\ ScopeOf[r] = Scopes[i] => Settled(r)'
    BY <1>2, <1>5 DEF RunKept
  <2>3. mig.st \in {"rows", "get", "seal"} /\ Clean =>
          /\ mig.moved + Cardinality(mig.ids) + (IF mig.st = "rows" THEN 0 ELSE 1) = PageSize
          /\ mig.rest <= PageLimit =>
               \A r \in Rows : ScopeOf[r] = Scopes[mig.scope] =>
                  Settled(r)' \/ r \in mig.ids \/ (mig.st # "rows" /\ r = mig.row)
    BY <1>2, <1>5 DEF RunKept
  <2>4. MigrateComplete'
    BY <1>1, <1>2, <1>5 DEF RunKept, MigrateComplete, Settled
  <2> QED
    BY <1>1, <2>1, <2>2, <2>3, <2>4 DEF RunKept, Running, Clean, PageSize
<1> QED
  BY <1>2, <1>4, <1>6 DEF MigInv

\* A step of the job that leaves the devices alone but for the row it reseals.
LEMMA SyncBeside ==
  ASSUME SyncInv, BlobsGo, Spent,
         UNCHANGED <<curKey, idem, idemDel, wire, op, view, prim>>
  PROVE  SyncGoes
<1>1. /\ curKey' = curKey /\ idem' = idem /\ idemDel' = idemDel /\ wire' = wire /\ op' = op
      /\ view' = view /\ prim' = prim
  OBVIOUS
<1>2. used.w \in Nat /\ used.del \in Nat /\ used' \in Bounds /\ used.w <= used'.w
      /\ used'.del = used.del
  BY InvTyped DEF Bounds, Spent
<1>3. PutsKept'
  BY <1>1, <1>2, InvTyped, PutsStay, PutsGo
<1>4. ViewsKept' /\ ViewsTyped'
  BY <1>1, InvTyped, ViewsGo
<1>5. PullsKept'
  BY <1>1, InvTyped, PullsSame DEF PullsKept, PullOK
<1>6. DeletesKept'
  <2>1. ASSUME NEW e \in Devices, Deletes(e)
        PROVE  /\ op[e].n <= used.del
               /\ ~Present(blob'[op[e].row]) => gone'[e]
               /\ \A f \in idemDel : f.n = op[e].n => gone'[e]
    <3>1. gone[e] => gone'[e]
      BY DEF BlobsGo, GoneGoes
    <3>2. ~Present(blob'[op[e].row]) => gone'[e] \/ ~Present(blob[op[e].row])
      BY <2>1 DEF BlobsGo, GoneGoes
    <3>3. /\ op[e].n <= used.del
          /\ ~Present(blob[op[e].row]) => gone[e]
          /\ \A f \in idemDel : f.n = op[e].n => gone[e]
      BY <2>1, InvTyped DEF DeletesKept
    <3> QED
      BY <3>1, <3>2, <3>3, Zenon
  <2>2. \A e \in Devices : Deletes(e)' <=> Deletes(e)
    BY <1>1 DEF Deletes
  <2>3. DeleteHonest'
    BY <1>1, InvTyped DEF BlobsGo, GoneGoes, DeletesKept, DeleteHonest
  <2> QED
    BY <1>1, <1>2, <2>1, <2>2, <2>3, InvTyped DEF DeletesKept
<1>7. SyncTypeOK'
  BY <1>1, <1>2, <1>4, InvTyped DEF SyncTypeOK, ViewsTyped, BlobsGo, BlobsTyped
<1> QED
  BY <1>3, <1>4, <1>5, <1>6, <1>7 DEF SyncInv, SyncGoes, BlobsGo

\* A step of the job that changes no row.
LEMMA SyncQuiet ==
  ASSUME SyncInv, used' = used \/ Fault,
         UNCHANGED <<blob, curKey, idem, idemDel, wire, op, view, prim, life, gone>>
  PROVE  SyncGoes
<1>1. BlobsGo
  BY InvTyped, KeepGoes DEF KeepBlobs
<1>2. Spent
  BY InvTyped, FaultSpent, NoneSpent
<1> QED
  BY <1>1, <1>2, SyncBeside

LEMMA MigFields ==
  ASSUME Inv
  PROVE  /\ SyncInv /\ MigTypeOK /\ HandKept /\ RunKept
         /\ mig \in MigType /\ mig.st \in JobStates /\ mig.ids \subseteq Rows
         /\ mig.blocked \subseteq Rows /\ mig.cool \subseteq Rows /\ mig.got \in RowType
         /\ mig.scope \in 1..(Len(Scopes) + 1) /\ mig.try \in 1..MigrateRewrapMaxRetries
         /\ mig.moved \in Nat /\ mig.rest \in Nat /\ mig.life \in Nat
         /\ mig.cancel \in BOOLEAN /\ stamped \subseteq Rows
  BY DEF Inv, MigInv, MigTypeOK, MigType

\* A job that is over, or has not got to its pages.
LEMMA EndedGoes ==
  ASSUME Inv, SyncGoes, NEW st \in {"completed", "failed"}, NEW part \in BOOLEAN,
         mig' = Ended(st, part), stamped' = stamped, runs' = runs,
         mig.st # "idle", blob' = blob,
         st = "completed" /\ ~part /\ Clean => \A r \in Rows : Settled(r)
  PROVE  Inv'
<1>1. /\ mig' = [mig EXCEPT !.st = st, !.ids = {}, !.partial = part]
  BY DEF Ended
<1>2. /\ mig' \in MigType
      /\ mig'.st = st /\ mig'.partial = part /\ mig'.cancel = mig.cancel /\ mig'.target = mig.target
      /\ mig'.blocked = mig.blocked /\ mig'.cool = mig.cool
  BY <1>1, MigFields DEF MigType, JobStates
<1>3. MigTypeOK'
  BY <1>2, MigFields DEF MigTypeOK
<1>4. HandKept'
  BY <1>2, MigFields DEF HandKept
<1>5. MigrateComplete'
  BY <1>2 DEF MigrateComplete, Settled, Clean
<1>6. RunKept'
  BY <1>2, <1>5, MigFields DEF RunKept, Running
<1> QED
  BY <1>3, <1>4, <1>6 DEF Inv, MigInv, SyncGoes

\* The rows a step leaves settled are settled.
LEMMA SettledGoes ==
  ASSUME SyncGoes, mig'.cool = mig.cool, NEW r \in Rows, Settled(r)
  PROVE  Settled(r)'
  BY DEF SyncGoes, RowsGo, Settled

\* migrateOne gave up on the row in hand.
LEMMA BlockedGoes ==
  ASSUME Inv, SyncGoes, mig.st \in {"get", "seal"}, RowBlocked, runs' = runs,
         stamped' = stamped
  PROVE  Inv'
<1>1. mig.row \in Rows
  BY MigFields DEF HandKept
<1>2. CASE mig.cancel
  <2>1. mig' = [mig EXCEPT !.st = "rows", !.got = Absent, !.life = 0]
    BY <1>2 DEF RowBlocked
  <2>2. /\ mig' \in MigType
        /\ mig'.st = "rows" /\ mig'.cancel = mig.cancel /\ mig'.target = mig.target
        /\ mig'.blocked = mig.blocked /\ mig'.cool = mig.cool
    BY <2>1, MigFields, AbsentRow DEF MigType, JobStates
  <2>3. MigTypeOK'
    BY <2>1, <2>2, MigFields DEF MigTypeOK
  <2>4. HandKept'
    BY <2>2, MigFields DEF HandKept
  <2>5. RunKept'
    BY <1>2, <2>1, <2>2, MigFields DEF RunKept, Clean, MigrateComplete
  <2> QED
    BY <2>3, <2>4, <2>5 DEF Inv, MigInv, SyncGoes
<1>3. CASE ~mig.cancel
  <2> DEFINE b == mig.blocked \cup {mig.row}
  <2>1. mig' = [mig EXCEPT !.st = "record", !.blocked = b, !.got = Absent, !.life = 0]
    BY <1>3 DEF RowBlocked
  <2>2. b \in SUBSET Rows /\ b # {}
    BY <1>1, MigFields
  <2> HIDE DEF b
  <2>3. /\ mig' \in MigType
        /\ mig'.st = "record" /\ mig'.target = mig.target /\ mig'.blocked = b
        /\ mig'.row = mig.row
    BY <2>1, <2>2, MigFields, AbsentRow DEF MigType, JobStates
  <2>4. MigTypeOK'
    BY <1>1, <2>1, <2>3, MigFields DEF MigTypeOK
  <2>5. HandKept'
    BY <1>1, <2>2, <2>3, MigFields DEF HandKept
  <2>6. RunKept'
    BY <2>2, <2>3 DEF RunKept, Clean, MigrateComplete
  <2> QED
    BY <2>4, <2>5, <2>6 DEF Inv, MigInv, SyncGoes
<1> QED
  BY <1>2, <1>3

\* The row in hand is not a legacy one any more.
LEMMA MigratedGoes ==
  ASSUME Inv, SyncGoes, mig.st \in {"get", "seal"}, RowMigrated, runs' = runs,
         stamped' = stamped, blob'[mig.row].fmt # "legacy"
  PROVE  Inv'
<1> DEFINE n == mig.moved + 1
<1>1. mig' = [mig EXCEPT !.st = "rows", !.moved = n, !.got = Absent, !.life = 0]
  BY DEF RowMigrated
<1>2. n \in Nat
  BY MigFields
<1> HIDE DEF n
<1>3. /\ mig' \in MigType
      /\ mig'.st = "rows" /\ mig'.cancel = mig.cancel /\ mig'.target = mig.target
      /\ mig'.blocked = mig.blocked /\ mig'.cool = mig.cool /\ mig'.ids = mig.ids
      /\ mig'.scope = mig.scope /\ mig'.moved = n /\ mig'.rest = mig.rest
  BY <1>1, <1>2, MigFields, AbsentRow DEF MigType, JobStates
<1>4. MigTypeOK'
  BY <1>3, MigFields DEF MigTypeOK
<1>5. HandKept'
  BY <1>3, MigFields DEF HandKept
<1>6. \A r \in Rows : Settled(r) => Settled(r)'
  BY <1>3, SettledGoes
<1>7. mig'.st # "idle" /\ mig'.blocked = {} => stamped' \subseteq mig'.cool
  BY <1>3, MigFields DEF RunKept
<1>8. Clean' => Clean
  BY <1>3 DEF Clean
<1>9. Clean => \A i \in 1..Len(Scopes), r \in Rows :
                 i < mig.scope /\ ScopeOf[r] = Scopes[i] => Settled(r)'
  BY <1>6, MigFields DEF RunKept, Running
<1>10. ASSUME Clean
       PROVE  /\ n + Cardinality(mig.ids) + 0 = PageSize
              /\ mig.rest <= PageLimit =>
                   \A r \in Rows : ScopeOf[r] = Scopes[mig.scope] =>
                      Settled(r)' \/ r \in mig.ids
  <2>1. /\ mig.moved + Cardinality(mig.ids) + 1 = PageSize
        /\ mig.rest <= PageLimit =>
             \A r \in Rows : ScopeOf[r] = Scopes[mig.scope] =>
                Settled(r) \/ r \in mig.ids \/ r = mig.row
    BY <1>10, MigFields DEF RunKept
  <2>3. Cardinality(mig.ids) \in Nat
    BY MigFields, MigrationConstants, FS_Subset, FS_CardinalityType
  <2>4. n + Cardinality(mig.ids) + 0 = PageSize
    BY <2>1, <2>3, MigFields DEF n
  <2>5. ASSUME NEW r \in Rows, mig.rest <= PageLimit, ScopeOf[r] = Scopes[mig.scope]
        PROVE  Settled(r)' \/ r \in mig.ids
    <3>1. Settled(r) \/ r \in mig.ids \/ r = mig.row
      BY <2>1, <2>5
    <3>2. CASE r = mig.row
      BY <3>2 DEF Settled
    <3> QED
      BY <1>6, <3>1, <3>2
  <2> QED
    BY <2>4, <2>5
<1>11. PageSize' = PageSize
  BY <1>3 DEF PageSize
<1>12. RunKept'
  BY <1>3, <1>7, <1>8, <1>9, <1>10, <1>11 DEF RunKept, MigrateComplete
<1> QED
  BY <1>4, <1>5, <1>12 DEF Inv, MigInv, SyncGoes

LEMMA NoJobTyped ==
  /\ NoJob \in MigType /\ NoJob.st = "idle" /\ NoJob.scope = 1 /\ NoJob.blocked = {}
  /\ NoJob.cool = {} /\ NoJob.partial = FALSE /\ NoJob.cancel = FALSE
<1>1. Absent \in RowType /\ 1 \in 1..(Len(Scopes) + 1) /\ 1 \in 1..MigrateRewrapMaxRetries
  BY AbsentRow, MigrationConstants DEF MigrateRewrapMaxRetries
<1> QED
  BY <1>1 DEF NoJob, MigType, JobStates

LEMMA StartOrGetStep ==
  ASSUME Inv, NEW k \in Ring, StartOrGet(k) PROVE Inv'
<1>1. /\ runs' = runs + 1 /\ stamped' = stamped /\ UNCHANGED syncVars
      /\ mig' = [NoJob EXCEPT !.st = "start", !.target = k, !.cool = stamped]
  BY DEF StartOrGet
<1>2. SyncGoes
  BY <1>1, MigFields, SyncQuiet DEF syncVars
<1>3. /\ mig' \in MigType /\ mig'.st = "start" /\ mig'.target = k /\ mig'.cool = stamped
      /\ mig'.scope = 1
  <2>1. stamped \in SUBSET Rows /\ k \in Keys
    BY MigFields, SyncConstants
  <2> QED
    BY <1>1, <2>1, NoJobTyped DEF MigType, JobStates
<1>4. MigTypeOK'
  BY <1>1, <1>3, MigFields DEF MigTypeOK
<1>5. HandKept'
  BY <1>3, SyncConstants DEF HandKept
<1>6. RunKept'
  BY <1>1, <1>3 DEF RunKept, MigrateComplete
<1> QED
  BY <1>2, <1>4, <1>5, <1>6 DEF Inv, MigInv, SyncGoes

LEMMA EnsureKeyStep ==
  ASSUME Inv, EnsureKey PROVE Inv'
<1>1. /\ mig.st = "start" /\ stamped' = stamped /\ runs' = runs
      /\ used' = used \/ Fault
      /\ UNCHANGED <<blob, curKey, idem, idemDel, wire, op, view, prim, life, gone>>
      /\ mig' = [mig EXCEPT !.st = "page"] \/ mig' = Ended("failed", FALSE)
  BY DEF EnsureKey
<1>2. SyncGoes
  BY <1>1, MigFields, SyncQuiet
<1>3. CASE mig' = Ended("failed", FALSE)
  BY <1>1, <1>2, <1>3, EndedGoes
<1>4. CASE mig' = [mig EXCEPT !.st = "page"]
  <2>1. /\ mig' \in MigType
        /\ mig'.st = "page" /\ mig'.cancel = mig.cancel /\ mig'.target = mig.target
        /\ mig'.blocked = mig.blocked /\ mig'.cool = mig.cool /\ mig'.scope = mig.scope
    BY <1>4, MigFields DEF MigType, JobStates
  <2>2. MigTypeOK'
    BY <1>1, <2>1, MigFields DEF MigTypeOK
  <2>3. HandKept'
    BY <1>1, <2>1, MigFields DEF HandKept
  <2>4. \A r \in Rows : Settled(r) => Settled(r)'
    BY <1>2, <2>1, SettledGoes
  <2>5. RunKept'
    BY <1>1, <2>1, <2>4, MigFields DEF RunKept, MigrateComplete, Clean, Running
  <2> QED
    BY <1>2, <2>2, <2>3, <2>5 DEF Inv, MigInv, SyncGoes
<1> QED
  BY <1>1, <1>3, <1>4

\* A page that the limit does not cut short is the whole list.
LEMMA WholePage ==
  ASSUME Inv, NEW s, NEW ids \in PagesOf(s)
  PROVE  /\ ids \subseteq Rows
         /\ Cardinality(Retryable(s)) \in Nat
         /\ Cardinality(ids) = IF Cardinality(Retryable(s)) < PageLimit
                               THEN Cardinality(Retryable(s)) ELSE PageLimit
         /\ Cardinality(Retryable(s)) <= PageLimit => ids = Retryable(s)
<1>1. Retryable(s) \subseteq Rows
  BY DEF Retryable
<1>2. IsFiniteSet(Retryable(s)) /\ Cardinality(Retryable(s)) \in Nat
  BY <1>1, MigrationConstants, FS_Subset, FS_CardinalityType
<1>3. /\ ids \subseteq Retryable(s)
      /\ Cardinality(ids) = IF Cardinality(Retryable(s)) < PageLimit
                            THEN Cardinality(Retryable(s)) ELSE PageLimit
  BY DEF PagesOf
<1>4. ASSUME Cardinality(Retryable(s)) <= PageLimit PROVE ids = Retryable(s)
  <2>1. Cardinality(ids) = Cardinality(Retryable(s))
    BY <1>2, <1>3, <1>4, MigrationConstants
  <2> QED
    BY <1>2, <1>3, <2>1, FS_Subset
<1> QED
  BY <1>1, <1>2, <1>3, <1>4

LEMMA NextPageStep ==
  ASSUME Inv, NextPage PROVE Inv'
<1> DEFINE s == Scopes[mig.scope]
<1>1. /\ mig.st = "page" /\ stamped' = stamped /\ runs' = runs
      /\ used' = used \/ Fault
      /\ UNCHANGED <<blob, curKey, idem, idemDel, wire, op, view, prim, life, gone>>
      /\ \/ mig' = Ended("completed", TRUE)
         \/ mig' = Ended("failed", FALSE)
         \/ \E ids \in PagesOf(s) :
              mig' = [mig EXCEPT !.st = "rows", !.ids = ids, !.moved = 0,
                                 !.rest = Cardinality(Retryable(s))]
  BY DEF NextPage
<1>2. SyncGoes
  BY <1>1, MigFields, SyncQuiet
<1>3. CASE mig' = Ended("completed", TRUE)
  BY <1>1, <1>2, <1>3, EndedGoes
<1>4. CASE mig' = Ended("failed", FALSE)
  BY <1>1, <1>2, <1>4, EndedGoes
<1>5. ASSUME NEW ids \in PagesOf(s),
             mig' = [mig EXCEPT !.st = "rows", !.ids = ids, !.moved = 0,
                                !.rest = Cardinality(Retryable(s))]
      PROVE  Inv'
  <2> DEFINE n == Cardinality(Retryable(s))
  <2>1. /\ ids \subseteq Rows /\ n \in Nat
        /\ Cardinality(ids) = IF n < PageLimit THEN n ELSE PageLimit
        /\ n <= PageLimit => ids = Retryable(s)
    BY WholePage
  <2>2. mig' = [mig EXCEPT !.st = "rows", !.ids = ids, !.moved = 0, !.rest = n]
    BY <1>5
  <2> HIDE DEF n
  <2>3. /\ mig' \in MigType
        /\ mig'.st = "rows" /\ mig'.cancel = mig.cancel /\ mig'.target = mig.target
        /\ mig'.blocked = mig.blocked /\ mig'.cool = mig.cool /\ mig'.scope = mig.scope
        /\ mig'.ids = ids /\ mig'.moved = 0 /\ mig'.rest = n
    BY <2>1, <2>2, MigFields DEF MigType, JobStates
  <2>4. MigTypeOK'
    BY <1>1, <2>3, MigFields DEF MigTypeOK
  <2>5. HandKept'
    BY <1>1, <2>3, MigFields DEF HandKept
  <2>6. \A r \in Rows : Settled(r) => Settled(r)'
    BY <1>2, <2>3, SettledGoes
  <2>7. Clean' => Clean
    BY <2>3 DEF Clean
  <2>8. /\ mig.blocked = {} => stamped \subseteq mig.cool
        /\ Clean => \A i \in 1..Len(Scopes), r \in Rows :
                      i < mig.scope /\ ScopeOf[r] = Scopes[i] => Settled(r)'
    BY <1>1, <2>6, MigFields DEF RunKept, Running
  <2>9. ASSUME Clean, n <= PageLimit, NEW r \in Rows, ScopeOf[r] = s
        PROVE  Settled(r)' \/ r \in ids
    <3>1. r \in Retryable(s) \/ blob[r].fmt # "legacy" \/ r \in stamped
      BY <2>9 DEF Retryable
    <3>2. r \in ids \/ Settled(r)
      BY <2>1, <2>8, <2>9, <3>1 DEF Settled, Clean
    <3> QED
      BY <2>6, <3>2
  <2>10. 0 + Cardinality(ids) + 0 = PageSize'
    BY <2>1, <2>3, MigrationConstants DEF PageSize
  <2>11. RunKept'
    BY <1>1, <2>3, <2>7, <2>8, <2>9, <2>10 DEF RunKept, MigrateComplete
  <2> QED
    BY <1>2, <2>4, <2>5, <2>11 DEF Inv, MigInv, SyncGoes
<1> QED
  BY <1>1, <1>3, <1>4, <1>5

LEMMA NextRowStep ==
  ASSUME Inv, NextRow PROVE Inv'
<1>1. /\ mig.st = "rows" /\ stamped' = stamped /\ runs' = runs /\ UNCHANGED syncVars
  BY DEF NextRow
<1>2. PICK r \in mig.ids :
        mig' = [mig EXCEPT !.st = "get", !.row = r, !.try = 1, !.ids = @ \ {r}]
  BY DEF NextRow
<1>3. SyncGoes
  BY <1>1, MigFields, SyncQuiet DEF syncVars
<1> DEFINE ids == mig.ids \ {r}
<1>4. ids \subseteq Rows /\ r \in Rows
  BY MigFields
<1>5. Cardinality(mig.ids) \in Nat /\ Cardinality(ids) = Cardinality(mig.ids) - 1
  <2>1. IsFiniteSet(mig.ids)
    BY MigFields, MigrationConstants, FS_Subset
  <2> QED
    BY <1>2, <2>1, FS_CardinalityType, FS_RemoveElement
<1>6. mig' = [mig EXCEPT !.st = "get", !.row = r, !.try = 1, !.ids = ids]
  BY <1>2
<1>7. \A q : q \in ids <=> q \in mig.ids /\ q # r
  OBVIOUS
<1> HIDE DEF ids
<1>8. /\ mig' \in MigType
      /\ mig'.st = "get" /\ mig'.cancel = mig.cancel /\ mig'.target = mig.target
      /\ mig'.blocked = mig.blocked /\ mig'.cool = mig.cool /\ mig'.scope = mig.scope
      /\ mig'.ids = ids /\ mig'.moved = mig.moved /\ mig'.rest = mig.rest /\ mig'.row = r
  <2>1. 1 \in 1..MigrateRewrapMaxRetries
    BY DEF MigrateRewrapMaxRetries
  <2> QED
    BY <1>4, <1>6, <2>1, MigFields DEF MigType, JobStates
<1>9. MigTypeOK'
  BY <1>1, <1>8, MigFields DEF MigTypeOK
<1>10. HandKept'
  BY <1>1, <1>4, <1>8, MigFields DEF HandKept
<1>11. \A q \in Rows : Settled(q) => Settled(q)'
  BY <1>3, <1>8, SettledGoes
<1>12. (Clean' => Clean) /\ PageSize' = PageSize
  BY <1>8 DEF Clean, PageSize
<1>13. /\ mig.blocked = {} => stamped \subseteq mig.cool
       /\ Clean => \A i \in 1..Len(Scopes), q \in Rows :
                     i < mig.scope /\ ScopeOf[q] = Scopes[i] => Settled(q)'
  BY <1>1, <1>11, MigFields DEF RunKept, Running
<1>14. ASSUME Clean
       PROVE  /\ mig.moved + Cardinality(ids) + 1 = PageSize
              /\ mig.rest <= PageLimit =>
                   \A q \in Rows : ScopeOf[q] = Scopes[mig.scope] =>
                      Settled(q)' \/ q \in ids \/ q = r
  <2>1. /\ mig.moved + Cardinality(mig.ids) + 0 = PageSize
        /\ mig.rest <= PageLimit =>
             \A q \in Rows : ScopeOf[q] = Scopes[mig.scope] => Settled(q) \/ q \in mig.ids
    BY <1>1, <1>14, MigFields DEF RunKept
  <2>2. mig.moved + Cardinality(ids) + 1 = PageSize
    BY <1>5, <2>1, MigFields
  <2> QED
    BY <1>7, <1>11, <2>1, <2>2
<1>15. RunKept'
  BY <1>1, <1>8, <1>12, <1>13, <1>14 DEF RunKept, MigrateComplete
<1> QED
  BY <1>3, <1>9, <1>10, <1>15 DEF Inv, MigInv, SyncGoes

\* A scope that is left behind is settled.
LEMMA ScopeSettled ==
  ASSUME Inv, mig.st = "rows", mig.ids = {}, Clean,
         ScopeDone(mig.moved, IF mig.moved < mig.rest THEN mig.rest - mig.moved ELSE 0)
  PROVE  \A r \in Rows : ScopeOf[r] = Scopes[mig.scope] => Settled(r)
<1>1. /\ mig.moved + Cardinality(mig.ids) + 0 = PageSize
      /\ mig.rest <= PageLimit =>
           \A r \in Rows : ScopeOf[r] = Scopes[mig.scope] => Settled(r) \/ r \in mig.ids
  BY MigFields DEF RunKept
<1>2. mig.moved = PageSize /\ mig.moved \in Nat /\ mig.rest \in Nat /\ PageLimit \in Nat \ {0}
  BY <1>1, MigFields, FS_EmptySet, MigrationConstants DEF PageSize
<1>3. mig.rest <= PageLimit
  BY <1>2 DEF PageSize, ScopeDone
<1> QED
  BY <1>1, <1>3

LEMMA PageEndStep ==
  ASSUME Inv, PageEnd PROVE Inv'
<1> DEFINE left == IF mig.moved < mig.rest THEN mig.rest - mig.moved ELSE 0
<1>1. /\ mig.st = "rows" /\ stamped' = stamped /\ runs' = runs /\ UNCHANGED syncVars
      /\ mig.cancel \/ mig.ids = {}
      /\ mig' = IF ~ScopeDone(mig.moved, left)
                THEN [mig EXCEPT !.st = "page", !.ids = {}]
                ELSE IF mig.scope < Len(Scopes)
                THEN [mig EXCEPT !.st = "page", !.ids = {}, !.scope = @ + 1]
                ELSE Ended("completed", FALSE)
  BY DEF PageEnd
<1>2. SyncGoes /\ blob' = blob
  BY <1>1, MigFields, SyncQuiet DEF syncVars
<1>3. Clean => \A i \in 1..Len(Scopes), r \in Rows :
                  i < mig.scope /\ ScopeOf[r] = Scopes[i] => Settled(r)
  BY <1>1, MigFields DEF RunKept, Running
<1>4. Clean /\ ScopeDone(mig.moved, left) =>
        \A r \in Rows : ScopeOf[r] = Scopes[mig.scope] => Settled(r)
  BY <1>1, ScopeSettled DEF Clean
<1>5. Len(Scopes) \in Nat /\ mig.scope \in 1..(Len(Scopes) + 1)
  BY MigFields, MigrationConstants
<1>6. ASSUME NEW sc \in 1..(Len(Scopes) + 1),
             mig' = [mig EXCEPT !.st = "page", !.ids = {}, !.scope = sc],
             Clean => \A i \in 1..Len(Scopes), r \in Rows :
                        i < sc /\ ScopeOf[r] = Scopes[i] => Settled(r)
      PROVE  Inv'
  <2>1. /\ mig' \in MigType
        /\ mig'.st = "page" /\ mig'.cancel = mig.cancel /\ mig'.target = mig.target
        /\ mig'.blocked = mig.blocked /\ mig'.cool = mig.cool /\ mig'.scope = sc
    BY <1>6, MigFields DEF MigType, JobStates
  <2>2. MigTypeOK'
    BY <1>1, <2>1, MigFields DEF MigTypeOK
  <2>3. HandKept'
    BY <1>1, <2>1, MigFields DEF HandKept
  <2>4. \A r \in Rows : Settled(r) => Settled(r)'
    BY <1>2, <2>1, SettledGoes
  <2>5. RunKept'
    BY <1>1, <1>6, <2>1, <2>4, MigFields DEF RunKept, MigrateComplete, Clean
  <2> QED
    BY <1>2, <2>2, <2>3, <2>5 DEF Inv, MigInv, SyncGoes
<1>7. CASE ~ScopeDone(mig.moved, left)
  <2>1. mig' = [mig EXCEPT !.st = "page", !.ids = {}]
    BY <1>1, <1>7
  <2>2. mig' = [mig EXCEPT !.st = "page", !.ids = {}, !.scope = mig.scope]
    BY <2>1, MigFields DEF MigType
  <2> QED
    BY <1>3, <1>5, <1>6, <2>2
<1>8. CASE ScopeDone(mig.moved, left) /\ mig.scope < Len(Scopes)
  <2>1. mig' = [mig EXCEPT !.st = "page", !.ids = {}, !.scope = mig.scope + 1]
    BY <1>1, <1>8
  <2>2. mig.scope + 1 \in 1..(Len(Scopes) + 1)
    BY <1>5, <1>8
  <2>3. ASSUME Clean, NEW i \in 1..Len(Scopes), NEW r \in Rows, i < mig.scope + 1,
               ScopeOf[r] = Scopes[i]
        PROVE  Settled(r)
    <3>1. i < mig.scope \/ i = mig.scope
      BY <1>5, <2>3
    <3> QED
      BY <1>3, <1>4, <1>8, <2>3, <3>1
  <2> QED
    BY <1>6, <2>1, <2>2, <2>3
<1>9. CASE ScopeDone(mig.moved, left) /\ ~(mig.scope < Len(Scopes))
  <2>1. mig' = Ended("completed", FALSE)
    BY <1>1, <1>9
  <2>2. ASSUME Clean, NEW r \in Rows PROVE Settled(r)
    <3>1. PICK i \in 1..Len(Scopes) : ScopeOf[r] = Scopes[i]
      BY MigrationConstants
    <3>2. i < mig.scope \/ i = mig.scope
      BY <1>5, <1>9, <3>1
    <3> QED
      BY <1>3, <1>4, <1>9, <2>2, <3>1, <3>2
  <2> QED
    BY <1>1, <1>2, <2>1, <2>2, EndedGoes
<1> QED
  BY <1>7, <1>8, <1>9

LEMMA RowGetStep ==
  ASSUME Inv, RowGet PROVE Inv'
<1> DEFINE row == blob[mig.row]
<1>1. /\ mig.st = "get" /\ runs' = runs /\ stamped' = stamped
      /\ used' = used \/ Fault
      /\ UNCHANGED <<blob, curKey, idem, idemDel, wire, op, view, prim, life, gone>>
      /\ \/ SealedForTarget(row) /\ RowMigrated /\ stamped' = stamped
         \/ RowBlocked
         \/ /\ row.key \in MigKeys /\ stamped' = stamped
            /\ mig' = [mig EXCEPT !.st = "seal", !.got = row, !.life = life[mig.row]]
  BY DEF RowGet
<1>2. SyncGoes
  BY <1>1, MigFields, SyncQuiet
<1>3. mig.row \in Rows
  BY <1>1, MigFields DEF HandKept
<1>4. CASE SealedForTarget(row) /\ RowMigrated /\ stamped' = stamped
  <2>1. blob'[mig.row].fmt # "legacy"
    BY <1>1, <1>4 DEF SealedForTarget
  <2> QED
    BY <1>1, <1>2, <1>4, <2>1, MigratedGoes
<1>5. CASE RowBlocked
  BY <1>1, <1>2, <1>5, BlockedGoes
<1>6. CASE /\ row.key \in MigKeys /\ stamped' = stamped
           /\ mig' = [mig EXCEPT !.st = "seal", !.got = row, !.life = life[mig.row]]
  <2> DEFINE n == life[mig.row]
  <2>1. row \in RowType /\ n \in Nat
    BY <1>3, MigFields, InvTyped
  <2>2. Present(row) /\ row.etag \in Nat
    BY <1>6, <2>1, RowFields, StoreConstants, MigrationConstants DEF Absent
  <2>3. mig' = [mig EXCEPT !.st = "seal", !.got = row, !.life = n]
    BY <1>6
  <2>4. SeenIn(row, n, row.etag, row.val, n)
    BY <2>1, <2>2 DEF SeenIn
  <2>5. blob'[mig.row] = row /\ life'[mig.row] = n
    BY <1>1
  <2> HIDE DEF row, n
  <2>6. /\ mig' \in MigType
        /\ mig'.st = "seal" /\ mig'.cancel = mig.cancel /\ mig'.target = mig.target
        /\ mig'.blocked = mig.blocked /\ mig'.cool = mig.cool /\ mig'.scope = mig.scope
        /\ mig'.ids = mig.ids /\ mig'.moved = mig.moved /\ mig'.rest = mig.rest
        /\ mig'.row = mig.row /\ mig'.got = row /\ mig'.life = n
    BY <2>1, <2>3, MigFields DEF MigType, JobStates
  <2>7. MigTypeOK'
    BY <1>1, <1>6, <2>6, MigFields DEF MigTypeOK
  <2>8. HandKept'
    BY <1>1, <2>2, <2>4, <2>5, <2>6, MigFields DEF HandKept
  <2>9. \A q \in Rows : Settled(q) => Settled(q)'
    BY <1>2, <2>6, SettledGoes
  <2>10. (Clean' => Clean) /\ PageSize' = PageSize
    BY <2>6 DEF Clean, PageSize
  <2>11. RunKept'
    BY <1>1, <1>6, <2>6, <2>9, <2>10, MigFields DEF RunKept, MigrateComplete, Running
  <2> QED
    BY <1>2, <2>7, <2>8, <2>11 DEF Inv, MigInv, SyncGoes
<1> QED
  BY <1>1, <1>4, <1>5, <1>6

LEMMA RowSealStep ==
  ASSUME Inv, RowSeal PROVE Inv'
<1> DEFINE stale == StaleRewrap(blob[mig.row], mig.got.etag)
           row   == Resealed(blob[mig.row], mig.target, mig.got.val)
<1>1. /\ mig.st = "seal" /\ runs' = runs /\ stamped' = stamped
      /\ used' = used \/ Fault
      /\ UNCHANGED <<curKey, idem, idemDel, wire, op, view, prim>>
      /\ (stale /\ KeepBlobs) \/ (~stale /\ SetBlob(mig.row, row)) \/ (mig.cancel /\ KeepBlobs)
      /\ \/ RowBlocked
         \/ ~stale /\ ~mig.cancel /\ RowMigrated /\ stamped' = stamped
         \/ /\ mig.try < MigrateRewrapMaxRetries /\ stamped' = stamped
            /\ mig' = [mig EXCEPT !.st = "get", !.try = @ + 1, !.got = Absent, !.life = 0]
  BY DEF RowSeal
<1>2. /\ mig.row \in Rows /\ mig.target \in Keys /\ mig.got \in RowType /\ Present(mig.got)
      /\ mig.life \in Nat
      /\ SeenIn(blob[mig.row], life[mig.row], mig.got.etag, mig.got.val, mig.life)
  BY <1>1, MigFields DEF HandKept
<1>3. mig.got.val \in Contents /\ mig.got.etag \in Nat
  BY <1>2, RowFields
<1>4. BlobsGo /\ (SetBlob(mig.row, row) /\ ~stale => blob'[mig.row].fmt = "v2")
  <2>1. CASE KeepBlobs /\ stale
    BY <2>1, MigFields, InvTyped, KeepGoes
  <2>2. CASE ~stale /\ SetBlob(mig.row, row)
    BY <1>2, <1>3, <2>2, MigFields, ResealGoes
  <2>3. CASE KeepBlobs
    <3>1. BlobsGo
      BY <2>3, MigFields, InvTyped, KeepGoes
    <3>2. SetBlob(mig.row, row) /\ ~stale => blob'[mig.row].fmt = "v2"
      BY <1>2, <1>3, MigFields, ResealGoes
    <3> QED
      BY <3>1, <3>2
  <2> QED
    BY <1>1, <2>1, <2>2, <2>3
<1>5. SyncGoes
  BY <1>1, <1>4, MigFields, InvTyped, FaultSpent, NoneSpent, SyncBeside
<1>6. CASE RowBlocked
  BY <1>1, <1>5, <1>6, BlockedGoes
<1>7. CASE ~stale /\ ~mig.cancel /\ RowMigrated /\ stamped' = stamped
  <2>1. blob'[mig.row].fmt # "legacy"
    BY <1>1, <1>4, <1>7
  <2> QED
    BY <1>1, <1>5, <1>7, <2>1, MigratedGoes
<1>8. CASE /\ mig.try < MigrateRewrapMaxRetries /\ stamped' = stamped
           /\ mig' = [mig EXCEPT !.st = "get", !.try = @ + 1, !.got = Absent, !.life = 0]
  <2> DEFINE t == mig.try + 1
  <2>1. t \in 1..MigrateRewrapMaxRetries
    BY <1>8, MigFields DEF MigrateRewrapMaxRetries
  <2>2. mig' = [mig EXCEPT !.st = "get", !.try = t, !.got = Absent, !.life = 0]
    BY <1>8
  <2> HIDE DEF t
  <2>3. /\ mig' \in MigType
        /\ mig'.st = "get" /\ mig'.cancel = mig.cancel /\ mig'.target = mig.target
        /\ mig'.blocked = mig.blocked /\ mig'.cool = mig.cool /\ mig'.scope = mig.scope
        /\ mig'.ids = mig.ids /\ mig'.moved = mig.moved /\ mig'.rest = mig.rest
        /\ mig'.row = mig.row
    BY <2>1, <2>2, MigFields, AbsentRow DEF MigType, JobStates
  <2>4. MigTypeOK'
    BY <1>1, <1>8, <2>3, MigFields DEF MigTypeOK
  <2>5. HandKept'
    BY <1>2, <2>3 DEF HandKept
  <2>6. \A q \in Rows : Settled(q) => Settled(q)'
    BY <1>5, <2>3, SettledGoes
  <2>7. (Clean' => Clean) /\ PageSize' = PageSize
    BY <2>3 DEF Clean, PageSize
  <2>8. RunKept'
    BY <1>1, <1>8, <2>3, <2>6, <2>7, MigFields DEF RunKept, MigrateComplete, Running
  <2> QED
    BY <1>5, <2>4, <2>5, <2>8 DEF Inv, MigInv, SyncGoes
<1> QED
  BY <1>1, <1>6, <1>7, <1>8

LEMMA RecordFailureStep ==
  ASSUME Inv, RecordFailure PROVE Inv'
<1>1. /\ mig.st = "record" /\ runs' = runs /\ UNCHANGED syncVars
      /\ mig' = [mig EXCEPT !.st = "rows"]
      /\ stamped' \in {stamped, stamped \cup {mig.row}}
  BY DEF RecordFailure
<1>2. SyncGoes
  BY <1>1, MigFields, SyncQuiet DEF syncVars
<1>3. mig.row \in Rows /\ mig.target \in Keys /\ mig.blocked # {}
  BY <1>1, MigFields DEF HandKept
<1>4. /\ mig' \in MigType
      /\ mig'.st = "rows" /\ mig'.target = mig.target /\ mig'.blocked = mig.blocked
  BY <1>1, MigFields DEF MigType, JobStates
<1>5. MigTypeOK'
  BY <1>1, <1>3, <1>4, MigFields DEF MigTypeOK
<1>6. HandKept'
  BY <1>3, <1>4 DEF HandKept
<1>7. RunKept'
  BY <1>3, <1>4 DEF RunKept, Clean, MigrateComplete
<1> QED
  BY <1>2, <1>5, <1>6, <1>7 DEF Inv, MigInv, SyncGoes

LEMMA CancelStep ==
  ASSUME Inv, Cancel PROVE Inv'
<1>1. /\ Running /\ stamped' = stamped /\ runs' = runs /\ UNCHANGED syncVars
      /\ mig' = [mig EXCEPT !.cancel = TRUE]
  BY DEF Cancel
<1>2. SyncGoes /\ blob' = blob /\ life' = life
  BY <1>1, MigFields, SyncQuiet DEF syncVars
<1>3. /\ mig' \in MigType
      /\ mig'.st = mig.st /\ mig'.cancel = TRUE /\ mig'.target = mig.target
      /\ mig'.blocked = mig.blocked /\ mig'.cool = mig.cool
      /\ mig'.row = mig.row /\ mig'.got = mig.got /\ mig'.life = mig.life
  BY <1>1, MigFields DEF MigType
<1>4. MigTypeOK'
  BY <1>1, <1>3, MigFields DEF MigTypeOK
<1>5. HandKept'
  BY <1>2, <1>3, MigFields DEF HandKept
<1>6. RunKept'
  BY <1>1, <1>3, MigFields DEF RunKept, MigrateComplete, Clean
<1> QED
  BY <1>2, <1>4, <1>5, <1>6 DEF Inv, MigInv, SyncGoes

LEMMA ReapStep ==
  ASSUME Inv, Reap PROVE Inv'
<1>1. /\ stamped' = stamped /\ runs' = runs /\ UNCHANGED syncVars /\ mig' = NoJob
  BY DEF Reap
<1>2. SyncGoes
  BY <1>1, MigFields, SyncQuiet DEF syncVars
<1>3. MigTypeOK' /\ mig'.st = "idle"
  BY <1>1, MigFields, NoJobTyped DEF MigTypeOK
<1>4. HandKept' /\ RunKept'
  BY <1>3 DEF HandKept, RunKept, Running, MigrateComplete
<1> QED
  BY <1>2, <1>3, <1>4 DEF Inv, MigInv, SyncGoes

LEMMA CooldownStep ==
  ASSUME Inv, NEW r \in Rows, Cooldown(r) PROVE Inv'
<1>1. /\ stamped' = stamped \ {r} /\ runs' = runs /\ UNCHANGED syncVars /\ mig' = mig
  BY DEF Cooldown
<1>2. SyncGoes /\ blob' = blob /\ life' = life
  BY <1>1, MigFields, SyncQuiet DEF syncVars
<1>3. MigTypeOK'
  BY <1>1, MigFields DEF MigTypeOK
<1>4. HandKept'
  BY <1>1, <1>2, MigFields DEF HandKept
<1>5. RunKept'
  BY <1>1, <1>2, MigFields DEF RunKept, Running, MigrateComplete, Clean, Settled, PageSize
<1> QED
  BY <1>2, <1>3, <1>4, <1>5 DEF Inv, MigInv, SyncGoes
-----------------------------------------------------------------------------
(* The invariant. *)

LEMMA SyncInitInv ==
  ASSUME SyncInit PROVE SyncInv
<1>1. /\ blob \in [Rows -> {Absent} \cup {Legacy(k) : k \in Keys}]
      /\ curKey \in Ring
      /\ idem = [w \in Contents |-> [etag |-> 0, life |-> 0]]
      /\ idemDel = {} /\ wire = {}
      /\ op = [d \in Devices |-> Idle("none", 0, 0)]
      /\ view = [d \in Devices |-> [r \in Rows |-> Unseen]]
      /\ prim = [d \in Devices |-> curKey]
      /\ life = [r \in Rows |-> 0]
      /\ gone = [d \in Devices |-> FALSE]
      /\ used = [w |-> 1, del |-> 0, pull |-> 0, fault |-> 0, reset |-> 0]
  BY DEF SyncInit
<1>2. \A r \in Rows : blob[r] \in RowType /\ blob[r].act = 0
  BY <1>1, AbsentRow, LegacyRow
<1>3. Idle("none", 0, 0) \in Requests
      /\ \A d \in Devices : op[d].kind = "idle" /\ op[d].said = "none"
  <2>1. 0 \in 0..MaxWrites /\ 0 \in Nat
    BY StoreConstants
  <2> QED
    BY <1>1, <2>1, IdleRequest
<1>4. SyncTypeOK
  <2>1. Unseen \in [etag : Nat, val : 0..MaxWrites, life : Nat]
    BY StoreConstants DEF Unseen
  <2>2. curKey \in Keys
    BY <1>1, SyncConstants
  <2>3. blob \in [Rows -> RowType]
    BY <1>1, <1>2
  <2> QED
    BY <1>1, <1>3, <2>1, <2>2, <2>3 DEF SyncTypeOK, Bounds
<1>5. Outstanding = {}
  BY <1>1, <1>3 DEF Outstanding, Pushing
<1>6. PutsKept
  BY <1>1, <1>5 DEF PutsKept
<1>7. ViewsKept
  BY <1>1 DEF ViewsKept, Unseen
<1>8. PullsKept /\ DeletesKept
  BY <1>1, <1>3 DEF PullsKept, PullOK, DeletesKept, Deletes, DeleteHonest
<1>9. ActsKept
  BY <1>2 DEF ActsKept, ActivityOk
<1> QED
  BY <1>4, <1>6, <1>7, <1>8, <1>9 DEF SyncInv

LEMMA InitInv ==
  ASSUME Init PROVE Inv
<1>1. SyncInv /\ mig = NoJob /\ stamped = {} /\ runs = 0
  BY SyncInitInv DEF Init
<1>2. MigTypeOK /\ mig.st = "idle"
  BY <1>1, NoJobTyped DEF MigTypeOK
<1>3. HandKept /\ RunKept
  BY <1>2 DEF HandKept, RunKept, Running, MigrateComplete
<1> QED
  BY <1>1, <1>2, <1>3 DEF Inv, MigInv

LEMMA NextInv ==
  ASSUME Inv, [Next]_vars PROVE Inv'
<1>1. CASE SyncNext /\ UNCHANGED migVars
  <2>1. SyncGoes
    BY <1>1, SyncStep DEF Inv
  <2> QED
    BY <1>1, <2>1, MigUnder DEF Inv, SyncGoes
<1>2. CASE MigNext
  BY <1>2, StartOrGetStep, EnsureKeyStep, NextPageStep, NextRowStep, PageEndStep, RowGetStep,
     RowSealStep, RecordFailureStep, CancelStep, ReapStep, CooldownStep DEF MigNext, MigStep
<1>3. CASE UNCHANGED vars
  <2>1. SyncGoes
    BY <1>3, SyncQuiet DEF Inv, vars, syncVars
  <2>2. UNCHANGED migVars
    BY <1>3 DEF vars
  <2> QED
    BY <2>1, <2>2, MigUnder DEF Inv, SyncGoes
<1> QED
  BY <1>1, <1>2, <1>3 DEF Next

\* The invariant the properties below rest on: within one life of a row etags only
\* go forward and an etag stands for one content, for every device, every request
\* under way and the migration job.
THEOREM SyncInvariant == Spec => []Inv
<1>1. Init => Inv
  BY InitInv
<1>2. Inv /\ [Next]_vars => Inv'
  BY NextInv
<1> QED
  BY <1>1, <1>2, PTL DEF Spec

\* Type correctness of rows, requests, tables and the job (Push, pullOne, Delete,
\* RegisterKey, migrateAllWithProgress).
THEOREM MigrationTyped == Spec => []TypeOK
<1>1. Inv => TypeOK
  BY DEF Inv, SyncInv, MigInv, TypeOK
<1> QED
  BY <1>1, SyncInvariant, PTL

\* A delete answered OK did its job: the row was absent at some moment since the
\* device asked, also after retries, a 404 or a replay (Delete, deleteOnce).
THEOREM DeletesHonest == Spec => []DeleteHonest
<1>1. Inv => DeleteHonest
  BY DEF Inv, SyncInv, DeletesKept
<1> QED
  BY <1>1, SyncInvariant, PTL

\* A device that holds the current etag of a row holds its content: what a push, a
\* replay, a conflict or a pull with its rewrap told it belongs together (Push,
\* pullOne).
THEOREM EtagsTrue == Spec => []EtagNamesContent
<1>1. Inv => EtagNamesContent
  <2> SUFFICES ASSUME Inv, NEW d \in Devices, NEW r \in Rows, Present(blob[r]),
                      view[d][r].etag = blob[r].etag, view[d][r].life = life[r]
               PROVE  view[d][r].val = blob[r].val
    BY DEF EtagNamesContent
  <2>1. blob[r] \in RowType /\ ViewsKept
    BY DEF Inv, SyncInv, SyncTypeOK
  <2>2. view[d][r].etag # 0
    BY <2>1, RowFields
  <2> QED
    BY <2>1, <2>2 DEF ViewsKept, SeenIn
<1> QED
  BY <1>1, SyncInvariant, PTL

\* An activity time on a row is that of the row's content, through rewraps,
\* backfills and racing pushes (backfillChatActivity, pullOne).
THEOREM ActivityTrue == Spec => []ActivityOfContent
<1>1. Inv => ActivityOfContent
  BY DEF Inv, SyncInv, ActsKept, ActivityOk, ActivityOfContent
<1> QED
  BY <1>1, SyncInvariant, PTL

\* A run of the migrate-all job that reports everything done, unblocked and in
\* time left no legacy row of any scope behind, but those whose cooldown an
\* earlier run had started (migrateAllScope, migrateOne).
THEOREM MigrationComplete == Spec => []MigrateComplete
<1>1. Inv => MigrateComplete
  BY DEF Inv, MigInv, RunKept
<1> QED
  BY <1>1, SyncInvariant, PTL
-----------------------------------------------------------------------------
(* What a step may never do. *)

Overwritten(r) == Present(blob[r]) /\ Present(blob'[r]) /\ blob'[r].val # blob[r].val

SealOfFormerLife(r) == mig.st = "seal" /\ mig' # mig /\ mig.row = r /\ mig.life # life[r]

Overwrites ==
    \A r \in Rows : Overwritten(r) => \/ KnowingPut(r)
                                      \/ PullOfFormerLife(r)
                                      \/ SealOfFormerLife(r)

LEMMA KeepOverwrites ==
  ASSUME blob' = blob PROVE Overwrites
  BY DEF Overwrites, Overwritten

LEMMA SetOverwrites ==
  ASSUME SyncInv, NEW r \in Rows, NEW row, SetBlob(r, row)
  PROVE  /\ blob'[r] = row
         /\ \A q \in Rows : q # r => blob'[q] = blob[q]
  BY InvTyped DEF SetBlob, SetBlobs

LEMMA PutOverwrites ==
  ASSUME SyncInv, NEW put \in wire, PutBlob(put), wire' = wire \ {put}
  PROVE  Overwrites
<1> DEFINE row == Stored(blob[put.row], put.key, put.w)
<1>1. CASE Replayed(put) \/ StaleMatch(blob[put.row], put.im)
  BY <1>1, KeepOverwrites DEF PutBlob, KeepBlobs
<1>2. CASE ~Replayed(put) /\ ~StaleMatch(blob[put.row], put.im)
  <2>1. put \in Puts /\ put \in Outstanding /\ PutOK(put)
    BY InvTyped DEF Outstanding, PutsKept
  <2>2. put.row \in Rows /\ SetBlob(put.row, row)
    BY <1>2, <2>1, PutFields DEF PutBlob
  <2>3. row.val = put.w
    BY DEF Stored
  <2> HIDE DEF row
  <2>4. blob'[put.row] = row /\ \A q \in Rows : q # put.row => blob'[q] = blob[q]
    BY <2>2, SetOverwrites
  <2>5. ASSUME Present(blob[put.row]), put.base.life = life[put.row]
        PROVE  put.base.val = blob[put.row].val
    <3>1. put.im = blob[put.row].etag /\ blob[put.row].etag # 0
      BY <1>2, <2>5 DEF StaleMatch, Present
    <3> QED
      BY <2>1, <2>5, <3>1 DEF PutOK, SeenIn
  <2>6. Present(blob[put.row]) => KnowingPut(put.row)
    <3>1. put \in wire \ wire'
      OBVIOUS
    <3> QED
      BY <2>3, <2>4, <2>5, <3>1 DEF KnowingPut
  <2> QED
    BY <2>4, <2>6 DEF Overwrites, Overwritten
<1> QED
  BY <1>1, <1>2

LEMMA PullSealOverwrites ==
  ASSUME SyncInv, NEW d \in Devices, PullSeal(d) PROVE Overwrites
<1> DEFINE o == op[d]
           stale == StaleRewrap(blob[o.row], o.etag)
           row == Resealed(blob[o.row], prim[d], o.got.val)
<1>1. /\ o.kind = "pull" /\ o.ph = "seal"
      /\ IF stale THEN KeepBlobs ELSE SetBlob(o.row, row)
      /\ \/ op' = [op EXCEPT ![d].ph = "fill", ![d].etag = IF stale THEN o.etag ELSE row.etag]
         \/ op' = [op EXCEPT ![d].ph = "fill"]
  BY DEF PullSeal, AnsweredEtag
<1>2. CASE stale
  BY <1>1, <1>2, KeepOverwrites DEF KeepBlobs
<1>3. CASE ~stale
  <2>1. o \in PullType
    BY <1>1, InvTyped, RequestKinds DEF PullType
  <2>2. /\ o.row \in Rows /\ o.etag \in Nat /\ o.life \in Nat /\ o.got \in RowType
        /\ Present(o.got) /\ SeenIn(blob[o.row], life[o.row], o.etag, o.got.val, o.life)
        /\ prim[d] \in Keys
    BY <1>1, <2>1, InvTyped DEF PullType, PullsKept, PullOK, KeysTyped
  <2>3. o.got.val \in Contents
    BY <2>2, RowFields
  <2>4. /\ blob'[o.row].val = o.got.val
        /\ life[o.row] = o.life => o.got.val = blob[o.row].val
    BY <1>1, <1>3, <2>2, <2>3, ResealGoes
  <2>5. \A q \in Rows : q # o.row => blob'[q] = blob[q]
    BY <1>1, <1>3, <2>2, SetOverwrites
  <2>6. op'[d] # op[d]
    <3>1. op'[d].ph = "fill"
      BY <1>1, <2>1, InvTyped DEF PullType
    <3> QED
      BY <1>1, <3>1
  <2>7. o.life # life[o.row] => PullOfFormerLife(o.row)
    BY <1>1, <2>6 DEF PullOfFormerLife
  <2> QED
    BY <2>4, <2>5, <2>7 DEF Overwrites, Overwritten
<1> QED
  BY <1>2, <1>3

LEMMA PullFillOverwrites ==
  ASSUME SyncInv, NEW d \in Devices, PullFill(d) PROVE Overwrites
<1> DEFINE o == op[d]
           row == Backfilled(blob[o.row], o.etag, o.got.val)
<1>1. o.kind = "pull" /\ (KeepBlobs \/ SetBlob(o.row, row))
  BY DEF PullFill
<1>2. CASE KeepBlobs
  BY <1>2, KeepOverwrites DEF KeepBlobs
<1>3. CASE SetBlob(o.row, row)
  <2>1. o.row \in Rows /\ o.got \in RowType
    BY <1>1, InvTyped, RequestFields
  <2>2. o.got.val \in 0..MaxWrites
    BY <2>1, RowFields
  <2>3. row.val = blob[o.row].val
    BY <2>1, <2>2, InvTyped, BackfilledRow
  <2>4. blob'[o.row] = row /\ \A q \in Rows : q # o.row => blob'[q] = blob[q]
    BY <1>3, <2>1, SetOverwrites
  <2> QED
    BY <2>3, <2>4 DEF Overwrites, Overwritten
<1> QED
  BY <1>1, <1>2, <1>3

LEMMA DeleteCasOverwrites ==
  ASSUME SyncInv, NEW d \in Devices, DeleteCas(d) PROVE Overwrites
<1>1. op[d].kind = "delete" /\ (KeepBlobs \/ SetBlob(op[d].row, Absent))
  BY DEF DeleteCas
<1>2. op[d].row \in Rows
  BY <1>1, InvTyped, RequestFields
<1>3. CASE SetBlob(op[d].row, Absent)
  <2>1. /\ blob'[op[d].row] = Absent
        /\ \A q \in Rows : q # op[d].row => blob'[q] = blob[q]
    BY <1>2, <1>3, SetOverwrites
  <2> QED
    BY <2>1, AbsentRow DEF Overwrites, Overwritten
<1> QED
  BY <1>1, <1>3, KeepOverwrites DEF KeepBlobs

LEMMA RegisterKeyOverwrites ==
  ASSUME NEW d \in Devices, NEW k \in Ring, NEW fresh \in BOOLEAN, NEW star \in BOOLEAN,
         RegisterKey(d, k, fresh, star)
  PROVE  Overwrites
<1>1. KeepBlobs \/ SetBlobs([r \in Rows |-> Absent])
  BY DEF RegisterKey
<1>2. CASE SetBlobs([r \in Rows |-> Absent])
  BY <1>2, AbsentRow DEF SetBlobs, Overwrites, Overwritten
<1> QED
  BY <1>1, <1>2, KeepOverwrites DEF KeepBlobs

LEMMA RowSealOverwrites ==
  ASSUME Inv, RowSeal PROVE Overwrites
<1> DEFINE stale == StaleRewrap(blob[mig.row], mig.got.etag)
           row   == Resealed(blob[mig.row], mig.target, mig.got.val)
<1>1. /\ mig.st = "seal"
      /\ KeepBlobs \/ (~stale /\ SetBlob(mig.row, row))
      /\ \/ RowMigrated
         \/ mig' = [mig EXCEPT !.st = "get", !.try = @ + 1, !.got = Absent, !.life = 0]
         \/ RowBlocked
  BY DEF RowSeal
<1>2. CASE KeepBlobs
  BY <1>2, KeepOverwrites DEF KeepBlobs
<1>3. CASE ~stale /\ SetBlob(mig.row, row)
  <2>1. /\ mig.row \in Rows /\ mig.target \in Keys /\ mig.got \in RowType /\ mig.life \in Nat
        /\ Present(mig.got)
        /\ SeenIn(blob[mig.row], life[mig.row], mig.got.etag, mig.got.val, mig.life)
    BY <1>1, MigFields DEF HandKept
  <2>2. mig.got.val \in Contents /\ mig.got.etag \in Nat
    BY <2>1, RowFields
  <2>3. /\ blob'[mig.row].val = mig.got.val
        /\ life[mig.row] = mig.life => mig.got.val = blob[mig.row].val
    BY <1>3, <2>1, <2>2, MigFields, ResealGoes
  <2>4. \A q \in Rows : q # mig.row => blob'[q] = blob[q]
    BY <1>3, <2>1, MigFields, SetOverwrites
  <2>5. mig' # mig
    <3>1. mig'.st \in {"rows", "get", "record"}
      BY <1>1, MigFields DEF MigType, RowMigrated, RowBlocked
    <3> QED
      BY <1>1, <3>1
  <2> QED
    BY <1>1, <2>3, <2>4, <2>5 DEF Overwrites, Overwritten, SealOfFormerLife
<1> QED
  BY <1>1, <1>2, <1>3

LEMMA NextOverwrites ==
  ASSUME Inv, Next PROVE Overwrites
<1>1. SyncInv
  BY DEF Inv
<1>2. ASSUME SyncNext PROVE Overwrites
  <2>1. ASSUME NEW d \in Devices, NEW r \in Rows,
               \/ Push(d, r)
               \/ Pull(d, r)
               \/ \E given \in {0, view[d][r].etag} : Delete(d, r, given)
        PROVE  Overwrites
    BY <2>1, KeepOverwrites DEF Push, Pull, Delete, KeepBlobs
  <2>2. ASSUME NEW put \in wire,
               PutAnswered(put) \/ PutLate(put) \/ PutDropped(put) \/ PutRefused(put)
        PROVE  Overwrites
    <3>1. CASE PutAnswered(put) \/ PutLate(put)
      BY <1>1, <3>1, PutOverwrites DEF PutAnswered, PutLate
    <3>2. CASE PutDropped(put) \/ PutRefused(put)
      BY <3>2, KeepOverwrites DEF PutDropped, PutRefused, KeepBlobs
    <3> QED
      BY <2>2, <3>1, <3>2
  <2>3. ASSUME NEW d \in Devices,
               PutAmbiguous(d) \/ PushAgain(d) \/ PullGet(d) \/ DeleteGet(d)
               \/ DeleteAgain(d) \/ Abandon(d)
        PROVE  Overwrites
    BY <2>3, KeepOverwrites
       DEF PutAmbiguous, PushAgain, PullGet, DeleteGet, DeleteAgain, Abandon, KeepBlobs
  <2>4. ASSUME NEW d \in Devices, PullSeal(d) \/ PullFill(d) \/ DeleteCas(d)
        PROVE  Overwrites
    BY <1>1, <2>4, PullSealOverwrites, PullFillOverwrites, DeleteCasOverwrites
  <2> QED
    BY <1>2, <2>1, <2>2, <2>3, <2>4, RegisterKeyOverwrites DEF SyncNext
<1>3. ASSUME MigNext PROVE Overwrites
  <2>1. CASE RowSeal
    BY <2>1, RowSealOverwrites
  <2>2. ASSUME ~RowSeal PROVE blob' = blob
    BY <1>3, <2>2 DEF MigNext, MigStep, StartOrGet, EnsureKey, NextPage, NextRow, PageEnd,
       RowGet, RecordFailure, Cancel, Reap, Cooldown, syncVars
  <2> QED
    BY <2>1, <2>2, KeepOverwrites
<1> QED
  BY <1>2, <1>3 DEF Next

\* No content is replaced that its writer did not know of: a push that commits over
\* a row of the life it saw replaces the content it saw, and the rewraps of pullOne
\* and migrateOne put back what is there ("never silently overwrites").
THEOREM OverwritesKnown == Spec => NoSilentOverwrite
<1>1. Inv /\ [Next]_vars => [Overwrites]_vars
  BY NextOverwrites
<1> QED
  BY <1>1, SyncInvariant, PTL DEF Spec, NoSilentOverwrite, Overwrites, Overwritten,
     SealOfFormerLife
=============================================================================
