----------------------- MODULE SearchPublication_proofs -----------------------
(***************************************************************************)
(* The publication protocol, for any number of replicas, readers, chats,   *)
(* objects and attempts: no cleanup deletes the published object, a query  *)
(* sees persisted contents, and the protocol implements the atomic index.  *)
(***************************************************************************)
EXTENDS SearchPublication, TLAPS

-----------------------------------------------------------------------------
(* The inductive invariants. *)

\* Nobody knows a name that was not drawn.
WriterNamed(w) ==
    /\ {w.old, w.new, w.trash} \subseteq 0..made
    /\ w.pc # "idle" => w.op \in Ops
    /\ w.pc \in {"publish", "reconcile"} => w.new # 0
    /\ w.again => w.att + 1 < MaxAttempts

Named ==
    /\ {rec.obj, reset.old} \subseteq 0..made
    /\ \A r \in Replicas : WriterNamed(writer[r]) /\ cache[r].obj \in 0..made
    /\ \A d \in Readers : query[d].pc # "idle" => query[d].obj \in 0..made
    /\ \A q \in flight : q.obj \in 1..made

Base == TypeOK /\ Named

\* An object that may still be published is there, and only its writer knows it.
CandidatesKept ==
    \A r \in Replicas : writer[r].pc = "publish" =>
       /\ writer[r].new \in present
       /\ writer[r].new \notin {rec.obj, reset.old, writer[r].old}
       /\ \A s \in Replicas \ {r} :
             writer[r].new \notin {writer[s].old, writer[s].new, writer[s].trash}

\* What is about to be deleted is not published any more, and never again.
DoomedKept ==
    /\ \A r \in Replicas :
         /\ writer[r].pc = "reconcile" => writer[r].new # writer[r].old
         /\ writer[r].pc = "cleanup" /\ writer[r].trash # 0 => writer[r].trash # rec.obj
    /\ reset.pc = "fenced" /\ reset.old # 0 => reset.old # rec.obj

ObjectInv == Base /\ flight = {} /\ CandidatesKept /\ DoomedKept /\ PublishedPresent

\* A cached index is what was stored, unless the writer of the process is editing it.
CacheHonest(r) ==
    \/ cache[r].obj = 0
    \/ cache[r].val = body[cache[r].obj]
    \/ writer[r].pc \in {"probe", "save"} /\ cache[r].obj = writer[r].old

CacheKept == \A r \in Replicas : CacheHonest(r)

\* An answer is what was stored under a name.
AnswersHonest ==
    \A d \in Readers : query[d].pc = "answered" /\ query[d].ok =>
       query[d].obj # 0 /\ query[d].val = body[query[d].obj]

HonestInv == Base /\ CacheKept /\ AnswersHonest

\* The index as the outside sees it, and the contents of its next versions.
Value == IF rec.obj = 0 THEN Empty ELSE body[rec.obj]
Lost  == rec.obj \notin present \cup {0}

Follows(v) == \E op \in Ops : v = Apply(op, Value) \/ (Lost /\ v = Apply(op, Empty))

\* A writer whose generation is current works on the current version, and what
\* it is about to publish is one request away from it.
WriterFollows(w) ==
    /\ w.pc \notin {"idle", "read", "cleanup"} => w.gen <= rec.gen
    /\ w.pc = "load" /\ w.gen = rec.gen => w.old = rec.obj
    /\ w.pc = "probe" => w.op.kind = "page" /\ w.val = Empty
    /\ w.pc = "save" /\ w.gen = rec.gen => Follows(w.val)
    /\ w.pc = "publish" /\ w.gen = rec.gen => Follows(body[w.new])

AtomicInv ==
    /\ HonestInv
    /\ \A r \in Replicas : WriterFollows(writer[r])
    /\ \A q \in flight : q.gen <= rec.gen /\ (q.gen = rec.gen => Follows(body[q.obj]))
-----------------------------------------------------------------------------
(* Types. *)

LEMMA EmptyType == Empty \in Values
BY DEF Empty, Values

LEMMA KindsOfOps ==
    ASSUME NEW op \in Ops
    PROVE  op.kind \in {"push", "lexical", "drop", "page", "repair"}
BY PublicationConstants DEF Ops

LEMMA ApplyType ==
    ASSUME NEW op \in Ops, NEW v \in Values
    PROVE  Apply(op, v) \in Values /\ Cleared(op, v) \in Values
<1>1. Cleared(op, v) \in Values
  BY EmptyType DEF Cleared
<1>2. CASE op.kind \in {"push", "page"}
  BY <1>1, <1>2 DEF Apply, Values
<1>3. CASE op.kind = "lexical"
  <2>1. Apply(op, v) = [v EXCEPT ![op.chat] = "pending"]
    BY <1>3 DEF Apply
  <2> QED
    BY <1>1, <2>1 DEF Values
<1>4. CASE op.kind = "drop"
  <2>1. Apply(op, v) = [v EXCEPT ![op.chat] = "none"]
    BY <1>4 DEF Apply
  <2> QED
    BY <1>1, <2>1 DEF Values
<1>5. CASE op.kind = "repair"
  <2>1. Apply(op, v) = [c \in Chats |-> IF v[c] = "pending" THEN "ready" ELSE v[c]]
    BY <1>5 DEF Apply
  <2>2. \A c \in Chats : (IF v[c] = "pending" THEN "ready" ELSE v[c])
                         \in {"none", "pending", "ready"}
    BY DEF Values
  <2> QED
    BY <1>1, <2>1, <2>2 DEF Values
<1> QED
  BY <1>1, <1>2, <1>3, <1>4, <1>5, KindsOfOps

\* A page starts over: what it makes does not depend on what was there.
LEMMA PageApply ==
    ASSUME NEW op, NEW v, op.kind = "page"
    PROVE  Cleared(op, v) = Empty /\ Apply(op, v) = Apply(op, Empty)
BY DEF Cleared, Apply

LEMMA LoadedType ==
    ASSUME TypeOK, NEW r \in Replicas, NEW o \in 0..MaxObjects
    PROVE  Loaded(r, o) \in Values
<1>1. o \in present => body[o] \in Values
  BY PublicationConstants DEF TypeOK, Objects
<1>2. cache[r].val \in Values
  BY DEF TypeOK
<1> QED
  BY <1>1, <1>2, EmptyType DEF Loaded

\* The parts of Base.
StoreTyped ==
    /\ rec \in [gen : Nat, fence : Nat, obj : 0..MaxObjects] /\ rec.obj \in 0..made
    /\ body \in [Objects -> Values]
    /\ present \subseteq 1..made
    /\ made \in 0..MaxObjects
    /\ flight \subseteq Requests /\ \A q \in flight : q.obj \in 1..made
    /\ reset \in [pc : {"idle", "read", "fenced"}, old : 0..MaxObjects]
    /\ reset.old \in 0..made

CachesTyped ==
    /\ cache \in [Replicas -> [obj : 0..MaxObjects, val : Values]]
    /\ \A r \in Replicas : cache[r].obj \in 0..made

WritersTyped ==
    /\ writer \in [Replicas -> WriterState]
    /\ \A r \in Replicas : WriterNamed(writer[r])

QueriesTyped ==
    /\ query \in [Readers -> QueryState]
    /\ \A d \in Readers : query[d].pc # "idle" => query[d].obj \in 0..made

LEMMA BaseParts == Base <=> StoreTyped /\ CachesTyped /\ WritersTyped /\ QueriesTyped
BY DEF Base, TypeOK, Named, StoreTyped, CachesTyped, WritersTyped, QueriesTyped

LEMMA CachesStep ==
    ASSUME CachesTyped, made \in Nat, made' \in Nat, made <= made', made' <= MaxObjects,
           \/ cache' = cache
           \/ \E r \in Replicas, o \in 0..made', v \in Values : SetCache(r, o, v)
           \/ \E r \in Replicas : DropCache(r)
    PROVE  CachesTyped'
<1>1. CASE cache' = cache
  BY <1>1 DEF CachesTyped
<1>2. ASSUME NEW r \in Replicas, NEW o \in 0..made', NEW v \in Values,
             cache' = [cache EXCEPT ![r] = [obj |-> o, val |-> v]]
      PROVE  CachesTyped'
  <2>1. [obj |-> o, val |-> v] \in [obj : 0..MaxObjects, val : Values]
    BY <1>2, PublicationConstants
  <2> QED
    BY <2>1, <1>2 DEF CachesTyped
<1> QED
  BY <1>1, <1>2, EmptyType DEF SetCache, DropCache, NoCache

LEMMA WritersStep ==
    ASSUME WritersTyped, made \in Nat, made' \in Nat, made <= made',
           \/ writer' = writer
           \/ \E r \in Replicas : \E w \in WriterState :
                 /\ SetWriter(r, w)
                 /\ {w.old, w.new, w.trash} \subseteq 0..made'
                 /\ w.pc # "idle" => w.op \in Ops
                 /\ w.pc \in {"publish", "reconcile"} => w.new # 0
                 /\ w.again => w.att + 1 < MaxAttempts
    PROVE  WritersTyped'
<1>1. ASSUME NEW s \in Replicas, writer'[s] = writer[s] PROVE WriterNamed(writer[s])'
  BY <1>1 DEF WritersTyped, WriterNamed
<1>2. CASE writer' = writer
  BY <1>1, <1>2 DEF WritersTyped
<1>3. ASSUME NEW r \in Replicas, NEW w \in WriterState, SetWriter(r, w),
             {w.old, w.new, w.trash} \subseteq 0..made',
             w.pc # "idle" => w.op \in Ops,
             w.pc \in {"publish", "reconcile"} => w.new # 0,
             w.again => w.att + 1 < MaxAttempts
      PROVE  WritersTyped'
  <2>1. writer' \in [Replicas -> WriterState] /\ writer'[r] = w
        /\ \A s \in Replicas \ {r} : writer'[s] = writer[s]
    BY <1>3 DEF WritersTyped, SetWriter
  <2>2. WriterNamed(writer[r])'
    BY <1>3, <2>1 DEF WriterNamed
  <2> QED
    BY <1>1, <2>1, <2>2 DEF WritersTyped
<1> QED
  BY <1>2, <1>3

LEMMA IdleWriterType ==
    /\ IdleWriter \in WriterState /\ IdleWriter.pc = "idle" /\ ~IdleWriter.again
    /\ IdleWriter.old = 0 /\ IdleWriter.new = 0 /\ IdleWriter.trash = 0
BY PublicationConstants, EmptyType DEF IdleWriter, WriterState

LEMMA EndWriterStep ==
    ASSUME WritersTyped, made \in Nat, made' = made, NEW r \in Replicas, EndWriter(r)
    PROVE  WritersTyped'
BY WritersStep, IdleWriterType DEF EndWriter

LEMMA DiscardType ==
    ASSUME NEW w \in WriterState, NEW o \in 0..MaxObjects, NEW again \in BOOLEAN
    PROVE  LET t == Discard(w, o, again) IN
           /\ t \in WriterState /\ t.pc = "cleanup" /\ t.op = w.op /\ t.att = w.att
           /\ t.trash = o /\ t.again = again /\ t.old = 0 /\ t.new = 0
<1>1. ASSUME NEW t \in WriterState
      PROVE  LET d == [t EXCEPT !.pc = "cleanup", !.op = w.op, !.att = w.att,
                                !.trash = o, !.again = again] IN
             /\ d \in WriterState /\ d.pc = "cleanup" /\ d.op = w.op /\ d.att = w.att
             /\ d.trash = o /\ d.again = again /\ d.old = t.old /\ d.new = t.new
  BY DEF WriterState
<1> QED
  BY <1>1, IdleWriterType DEF Discard
-----------------------------------------------------------------------------
(* Every step keeps the types and the names. *)

LEMMA BaseFacts ==
    ASSUME Base
    PROVE  /\ StoreTyped /\ CachesTyped /\ WritersTyped /\ QueriesTyped /\ TypeOK
           /\ made \in Nat /\ made <= MaxObjects /\ MaxObjects \in Nat /\ MaxAttempts \in Nat
           /\ \A r \in Replicas : writer[r] \in WriterState /\ WriterNamed(writer[r])
BY BaseParts, PublicationConstants DEF Base, WritersTyped, StoreTyped

\* Steps that leave the readers alone.
LEMMA QueriesStep ==
    ASSUME QueriesTyped, query' = query, made \in Nat, made' \in Nat, made <= made'
    PROVE  QueriesTyped'
BY DEF QueriesTyped

LEMMA StoreStep ==
    ASSUME StoreTyped, UNCHANGED <<rec, body, present, made, flight, reset>>
    PROVE  StoreTyped'
BY DEF StoreTyped

LEMMA BaseNext ==
    ASSUME StoreTyped', CachesTyped', WritersTyped', QueriesTyped'
    PROVE  Base'
BY DEF Base, TypeOK, Named, StoreTyped, CachesTyped, WritersTyped, QueriesTyped

\* Steps of a writer that neither touch storage nor the record.
LEMMA LocalBase ==
    ASSUME Base, UNCHANGED <<rec, body, present, made, flight, query, reset>>,
           CachesTyped', WritersTyped'
    PROVE  Base'
BY BaseFacts, StoreStep, QueriesStep, BaseNext

\* What the steps of a writer make of it.
Keeps(n, w) ==
    /\ n.op = w.op /\ n.att = w.att /\ n.again = w.again /\ n.gen = w.gen
    /\ n.old = w.old /\ n.trash = w.trash

LEMMA StartForm ==
    ASSUME NEW r \in Replicas, NEW op \in Ops, Start(r, op)
    PROVE  \E n \in WriterState :
             /\ SetWriter(r, n) /\ n.pc = "read" /\ n.op = op /\ ~n.again
             /\ n.old = 0 /\ n.new = 0 /\ n.trash = 0
<1> DEFINE w == [IdleWriter EXCEPT !.pc = "read", !.op = op]
<1>1. ASSUME NEW t \in WriterState, t.old = 0, t.new = 0, t.trash = 0, ~t.again
      PROVE  LET u == [t EXCEPT !.pc = "read", !.op = op] IN
             /\ u \in WriterState /\ u.pc = "read" /\ u.op = op /\ ~u.again
             /\ u.old = 0 /\ u.new = 0 /\ u.trash = 0
  BY <1>1 DEF WriterState
<1>2. /\ w \in WriterState /\ w.pc = "read" /\ w.op = op /\ ~w.again
      /\ w.old = 0 /\ w.new = 0 /\ w.trash = 0
  BY <1>1, IdleWriterType
<1>3. SetWriter(r, w)
  BY DEF Start
<1> HIDE DEF w
<1> QED
  BY <1>2, <1>3

LEMMA ReadRecordForm ==
    ASSUME Base, NEW r \in Replicas, ReadRecord(r)
    PROVE  LET w == writer[r] IN
           /\ w.pc = "read" /\ UNCHANGED <<rec, body, present, made, flight, cache, query, reset>>
           /\ rec.obj \in 0..made
           /\ \E n \in WriterState :
                /\ SetWriter(r, n) /\ n.pc = "load" /\ n.op = w.op /\ n.again = w.again
                /\ n.att = w.att /\ n.old = rec.obj /\ n.new = w.new /\ n.trash = w.trash
                /\ n.gen = rec.gen
<1> DEFINE w == writer[r]
           n == [w EXCEPT !.pc = "load", !.gen = rec.gen, !.fence = rec.fence, !.old = rec.obj]
<1>1. /\ rec.gen \in Nat /\ rec.fence \in Nat /\ rec.obj \in 0..MaxObjects
      /\ rec.obj \in 0..made
  BY BaseFacts DEF StoreTyped
<1>2. /\ n \in WriterState /\ n.pc = "load" /\ n.op = w.op /\ n.again = w.again
      /\ n.att = w.att /\ n.old = rec.obj /\ n.new = w.new /\ n.trash = w.trash
      /\ n.gen = rec.gen
  BY <1>1, BaseFacts DEF WriterState
<1>3. /\ SetWriter(r, n) /\ w.pc = "read"
      /\ UNCHANGED <<rec, body, present, made, flight, cache, query, reset>>
  BY DEF ReadRecord
<1> HIDE DEF n
<1> QED
  BY <1>1, <1>2, <1>3

\* The edits of a writer up to its next remote call.
Edited(op, v) == IF op.kind = "page" THEN Cleared(op, v) ELSE Apply(op, v)

LEMMA LoadForm ==
    ASSUME Base, NEW r \in Replicas, Load(r)
    PROVE  LET w == writer[r]
               v == Loaded(r, w.old)
               e == Edited(w.op, v)
           IN  /\ w.pc = "load" /\ v \in Values /\ e \in Values
               /\ w.op \in Ops /\ w.old \in 0..made
               /\ UNCHANGED <<rec, body, present, made, flight, query, reset>>
               /\ \/ CacheAfterLoad(r, w.old, v) /\ EndWriter(r)
                  \/ /\ CacheAfterLoad(r, w.old, e)
                     /\ \E n \in WriterState :
                          /\ SetWriter(r, n) /\ Keeps(n, w) /\ n.new = w.new /\ n.val = e
                          /\ n.pc = IF w.op.kind = "page" THEN "probe" ELSE "save"
<1> DEFINE w == writer[r]
           v == Loaded(r, w.old)
           e == Edited(w.op, v)
           n == [w EXCEPT !.val = e, !.pc = IF w.op.kind = "page" THEN "probe" ELSE "save"]
<1>1. /\ w \in WriterState /\ w.pc = "load" /\ w.op \in Ops /\ w.old \in 0..made
      /\ w.old \in 0..MaxObjects
  BY BaseFacts DEF WriterNamed, Load
<1>2. v \in Values
  BY <1>1, LoadedType, BaseFacts
<1>3. e \in Values
  BY <1>1, <1>2, ApplyType DEF Edited
<1>4. /\ UNCHANGED <<rec, body, present, made, flight, query, reset>>
      /\ \/ CacheAfterLoad(r, w.old, v) /\ EndWriter(r)
         \/ CacheAfterLoad(r, w.old, e) /\ SetWriter(r, n)
  BY Zenon DEF Load, Edited
<1> HIDE DEF e, v
<1>5. /\ n \in WriterState /\ Keeps(n, w) /\ n.new = w.new /\ n.val = e
      /\ n.pc = IF w.op.kind = "page" THEN "probe" ELSE "save"
  BY <1>1, <1>3 DEF WriterState, Keeps
<1> HIDE DEF n
<1>6. QED
  BY <1>1, <1>2, <1>3, <1>4, <1>5 DEF e, v

LEMMA ProbeForm ==
    ASSUME Base, NEW r \in Replicas, Probe(r)
    PROVE  LET w == writer[r]
               e == Apply(w.op, w.val)
           IN  /\ w.pc = "probe" /\ w.op \in Ops /\ e \in Values /\ w.old \in 0..made
               /\ UNCHANGED <<rec, body, present, made, flight, query, reset>>
               /\ \/ /\ IF Cached(r, w.old) THEN SetCache(r, w.old, e) ELSE UNCHANGED cache
                     /\ \E n \in WriterState :
                          /\ SetWriter(r, n) /\ Keeps(n, w) /\ n.new = w.new
                          /\ n.val = e /\ n.pc = "save"
                  \/ ProbeFails /\ EndWriter(r) /\ UNCHANGED cache
<1> DEFINE w == writer[r]
           e == Apply(w.op, w.val)
           n == [w EXCEPT !.val = e, !.pc = "save"]
<1>1. w \in WriterState /\ w.op \in Ops /\ w.old \in 0..made /\ w.val \in Values
      /\ w.pc = "probe"
  BY BaseFacts DEF WriterNamed, WriterState, Probe
<1>2. e \in Values
  BY <1>1, ApplyType
<1>3. /\ UNCHANGED <<rec, body, present, made, flight, query, reset>>
      /\ \/ /\ SetWriter(r, n)
            /\ IF Cached(r, w.old) THEN SetCache(r, w.old, e) ELSE UNCHANGED cache
         \/ ProbeFails /\ EndWriter(r) /\ UNCHANGED cache
  BY DEF Probe
<1> HIDE DEF e
<1>4. n \in WriterState /\ Keeps(n, w) /\ n.new = w.new /\ n.val = e /\ n.pc = "save"
  BY <1>1, <1>2 DEF WriterState, Keeps
<1> HIDE DEF n
<1> QED
  BY <1>1, <1>2, <1>3, <1>4 DEF e

LEMMA SaveForm ==
    ASSUME Base, NEW r \in Replicas, Save(r)
    PROVE  LET w == writer[r]
               o == made + 1
           IN  /\ w.pc = "save" /\ w.op \in Ops /\ w.val \in Values
               /\ made' = o /\ o \in Objects /\ o \in 1..made' /\ made' <= MaxObjects
               /\ body' = [body EXCEPT ![o] = w.val] /\ UNCHANGED <<rec, flight, query, reset>>
               /\ \/ /\ present' = present \cup {o} /\ SetCache(r, o, w.val)
                     /\ \E n \in WriterState :
                          /\ SetWriter(r, n) /\ Keeps(n, w) /\ n.new = o /\ n.pc = "publish"
                  \/ /\ present' \in {present, present \cup {o}}
                     /\ DropCache(r) /\ EndWriter(r)
<1> DEFINE w == writer[r]
           o == made + 1
           n == [w EXCEPT !.pc = "publish", !.new = o, !.val = Empty]
<1>1. w \in WriterState /\ w.op \in Ops /\ w.val \in Values /\ w.pc = "save"
  BY BaseFacts DEF WriterNamed, WriterState, Save
<1>2. made' = o /\ made' <= MaxObjects /\ o \in Objects /\ o \in 0..MaxObjects
      /\ o \in 1..made'
  BY BaseFacts DEF Save, Objects, StoreTyped
<1>3. /\ body' = [body EXCEPT ![o] = w.val] /\ UNCHANGED <<rec, flight, query, reset>>
      /\ \/ present' = present \cup {o} /\ SetCache(r, o, w.val) /\ SetWriter(r, n)
         \/ present' \in {present, present \cup {o}} /\ DropCache(r) /\ EndWriter(r)
  BY DEF Save
<1> HIDE DEF o
<1>4. n \in WriterState /\ Keeps(n, w) /\ n.new = o /\ n.pc = "publish"
  BY <1>1, <1>2, EmptyType DEF WriterState, Keeps
<1> HIDE DEF n
<1> QED
  BY <1>1, <1>2, <1>3, <1>4 DEF o

LEMMA PublishUnknownForm ==
    ASSUME Base, NEW r \in Replicas, PublishUnknown(r)
    PROVE  LET w == writer[r]
               q == Request(w)
           IN  /\ w.pc = "publish" /\ DropCache(r)
               /\ UNCHANGED <<body, present, made, query, reset>>
               /\ \/ Accepted(q) /\ Commit(q) /\ UNCHANGED flight
                  \/ UNCHANGED <<rec, flight>>
                  \/ LatePublish /\ flight' = flight \cup {q} /\ UNCHANGED rec
               /\ \E n \in WriterState :
                    SetWriter(r, n) /\ Keeps(n, w) /\ n.new = w.new /\ n.pc = "reconcile"
<1> DEFINE w == writer[r]
           q == Request(w)
           n == [w EXCEPT !.pc = "reconcile"]
<1>1. /\ w.pc = "publish" /\ DropCache(r) /\ SetWriter(r, n)
      /\ UNCHANGED <<body, present, made, query, reset>>
      /\ \/ Accepted(q) /\ Commit(q) /\ UNCHANGED flight
         \/ UNCHANGED <<rec, flight>>
         \/ LatePublish /\ flight' = flight \cup {q} /\ UNCHANGED rec
  BY DEF PublishUnknown
<1>2. n \in WriterState /\ Keeps(n, w) /\ n.new = w.new /\ n.pc = "reconcile"
  BY BaseFacts DEF WriterState, Keeps
<1> HIDE DEF n, q
<1> QED
  BY <1>1, <1>2 DEF q

LEMMA CleanupForm ==
    ASSUME Base, NEW r \in Replicas, Cleanup(r)
    PROVE  LET w == writer[r] IN
           /\ w.pc = "cleanup"
           /\ present' \in {present \ {w.trash}, present}
           /\ UNCHANGED <<rec, body, made, flight, cache, query, reset>>
           /\ \/ EndWriter(r)
              \/ \E n \in WriterState :
                   /\ SetWriter(r, n) /\ n.pc = "read" /\ n.op \in Ops /\ ~n.again
                   /\ n.old = 0 /\ n.new = 0 /\ n.trash = 0
<1> DEFINE w == writer[r]
           n == [IdleWriter EXCEPT !.pc = "read", !.op = w.op, !.att = w.att + 1]
<1>1. /\ w.pc = "cleanup" /\ present' \in {present \ {w.trash}, present}
      /\ IF w.again THEN SetWriter(r, n) ELSE EndWriter(r)
      /\ UNCHANGED <<rec, body, made, flight, cache, query, reset>>
  BY DEF Cleanup
<1>2. w \in WriterState /\ w.op \in Ops /\ (w.again => w.att + 1 < MaxAttempts) /\ w.att \in Nat
  BY <1>1, BaseFacts DEF WriterNamed, WriterState
<1>3. CASE ~w.again
  BY <1>1, <1>3
<1>4. CASE w.again
  <2>1. w.att + 1 \in 0..(MaxAttempts - 1)
    BY <1>2, <1>4, BaseFacts
  <2>2. ASSUME NEW t \in WriterState, t.old = 0, t.new = 0, t.trash = 0, ~t.again,
               NEW a \in 0..(MaxAttempts - 1)
        PROVE  LET u == [t EXCEPT !.pc = "read", !.op = w.op, !.att = a] IN
               /\ u \in WriterState /\ u.pc = "read" /\ u.op = w.op /\ ~u.again
               /\ u.old = 0 /\ u.new = 0 /\ u.trash = 0
    BY <1>2, <2>2 DEF WriterState
  <2>3. /\ n \in WriterState /\ n.pc = "read" /\ n.op = w.op /\ ~n.again
        /\ n.old = 0 /\ n.new = 0 /\ n.trash = 0
    BY <2>1, <2>2, IdleWriterType
  <2> HIDE DEF n
  <2> QED
    BY <1>1, <1>2, <1>4, <2>3
<1> QED
  BY <1>3, <1>4

LEMMA StartBase ==
    ASSUME Base, NEW r \in Replicas, NEW op \in Ops, Start(r, op)
    PROVE  Base'
<1>1. UNCHANGED <<rec, body, present, made, flight, cache, query, reset>>
  BY DEF Start
<1>2. PICK n \in WriterState :
        /\ SetWriter(r, n) /\ n.pc = "read" /\ n.op = op /\ ~n.again
        /\ n.old = 0 /\ n.new = 0 /\ n.trash = 0
  BY StartForm
<1>3. WritersTyped'
  BY <1>1, <1>2, BaseFacts, WritersStep
<1> QED
  BY <1>1, <1>3, BaseFacts, CachesStep, LocalBase

LEMMA ReadRecordBase ==
    ASSUME Base, NEW r \in Replicas, ReadRecord(r)
    PROVE  Base'
<1>1. WritersTyped'
  BY ReadRecordForm, BaseFacts, WritersStep DEF WriterNamed
<1> QED
  BY <1>1, ReadRecordForm, BaseFacts, CachesStep, LocalBase

\* What a load leaves in the cache.
LEMMA LoadCache ==
    ASSUME Base, NEW r \in Replicas, NEW o \in 0..made, NEW v \in Values,
           CacheAfterLoad(r, o, v), made' = made
    PROVE  CachesTyped'
BY BaseFacts, CachesStep DEF CacheAfterLoad

LEMMA LoadBase ==
    ASSUME Base, NEW r \in Replicas, Load(r)
    PROVE  Base'
<1>1. CachesTyped'
  BY LoadForm, LoadCache
<1>2. CASE EndWriter(r)
  BY <1>1, <1>2, LoadForm, EndWriterStep, BaseFacts, LocalBase
<1>3. ASSUME NEW n \in WriterState, SetWriter(r, n), Keeps(n, writer[r]),
             n.new = writer[r].new, n.pc \in {"probe", "save"}
      PROVE  Base'
  <2>1. WritersTyped'
    BY <1>3, LoadForm, BaseFacts, WritersStep DEF WriterNamed, Keeps
  <2> QED
    BY <1>1, <2>1, LoadForm, LocalBase
<1> QED
  BY <1>2, <1>3, LoadForm

LEMMA ProbeBase ==
    ASSUME Base, NEW r \in Replicas, Probe(r)
    PROVE  Base'
<1>1. CachesTyped'
  BY ProbeForm, BaseFacts, CachesStep
<1>2. CASE EndWriter(r)
  BY <1>1, <1>2, ProbeForm, EndWriterStep, BaseFacts, LocalBase
<1>3. ASSUME NEW n \in WriterState, SetWriter(r, n), Keeps(n, writer[r]),
             n.new = writer[r].new, n.pc = "save"
      PROVE  Base'
  <2>1. WritersTyped'
    BY <1>3, ProbeForm, BaseFacts, WritersStep DEF WriterNamed, Keeps
  <2> QED
    BY <1>1, <2>1, ProbeForm, LocalBase
<1> QED
  BY <1>2, <1>3, ProbeForm

LEMMA SaveBase ==
    ASSUME Base, NEW r \in Replicas, Save(r)
    PROVE  Base'
<1> DEFINE o == made + 1
<1>1. /\ made' = o /\ o \in Objects /\ o \in 1..made' /\ made' <= MaxObjects
      /\ writer[r].val \in Values /\ body' = [body EXCEPT ![o] = writer[r].val]
      /\ UNCHANGED <<rec, flight, query, reset>> /\ present' \subseteq present \cup {o}
  BY SaveForm
<1>2. CachesTyped'
  BY <1>1, SaveForm, BaseFacts, CachesStep
<1>3. StoreTyped'
  BY <1>1, BaseFacts DEF StoreTyped
<1>4. QueriesTyped'
  BY <1>1, BaseFacts, QueriesStep
<1>5. WritersTyped'
  <2>1. CASE EndWriter(r)
    BY <1>1, <2>1, IdleWriterType, WritersStep, BaseFacts DEF EndWriter
  <2>2. ASSUME NEW n \in WriterState, SetWriter(r, n), Keeps(n, writer[r]),
               n.new = o, n.pc = "publish"
        PROVE  WritersTyped'
    <3>1. {n.old, n.new, n.trash} \subseteq 0..made' /\ n.new # 0
      BY <1>1, <2>2, BaseFacts DEF WriterNamed, Keeps
    <3>2. n.op \in Ops
      BY <2>2, SaveForm DEF Keeps
    <3>3. n.again => n.att + 1 < MaxAttempts
      BY <2>2, BaseFacts DEF WriterNamed, Keeps
    <3>4. made' \in Nat /\ made <= made'
      BY <1>1, BaseFacts
    <3> QED
      BY <2>2, <3>1, <3>2, <3>3, <3>4, BaseFacts, WritersStep
  <2> QED
    BY <2>1, <2>2, SaveForm
<1> QED
  BY <1>2, <1>3, <1>4, <1>5, BaseNext

LEMMA DiscardStep ==
    ASSUME Base, NEW r \in Replicas, NEW o \in 0..made, NEW again \in BOOLEAN,
           SetWriter(r, Discard(writer[r], o, again)), writer[r].pc # "idle",
           again => writer[r].att + 1 < MaxAttempts, made' = made
    PROVE  WritersTyped'
<1>1. /\ writer[r] \in WriterState /\ writer[r].op \in Ops /\ o \in 0..MaxObjects
  BY BaseFacts DEF WriterNamed
<1> QED
  BY <1>1, DiscardType, WritersStep, BaseFacts

\* What a writer publishes.
LEMMA RequestType ==
    ASSUME Base, NEW r \in Replicas, writer[r].pc \in {"publish", "reconcile"}
    PROVE  /\ Request(writer[r]) \in Requests /\ writer[r].new \in 1..made
           /\ Request(writer[r]).obj = writer[r].new
           /\ Request(writer[r]).gen = writer[r].gen
           /\ writer[r].old \in 0..made /\ writer[r].gen \in Nat
<1>1. writer[r] \in WriterState /\ writer[r].new \in 1..made /\ writer[r].old \in 0..made
  BY BaseFacts DEF WriterNamed
<1> QED
  BY <1>1, BaseFacts DEF Request, Requests, Objects, WriterState

LEMMA CommitStore ==
    ASSUME StoreTyped, NEW q \in Requests, q.obj \in 1..made, Commit(q),
           UNCHANGED <<body, present, made, reset>>, flight' \subseteq flight
    PROVE  StoreTyped'
BY DEF StoreTyped, Commit, Requests, Objects

LEMMA PublishOKBase ==
    ASSUME Base, NEW r \in Replicas, PublishOK(r)
    PROVE  Base'
<1>1. /\ writer[r].pc = "publish" /\ Commit(Request(writer[r]))
      /\ SetWriter(r, Discard(writer[r], writer[r].old, FALSE))
      /\ UNCHANGED <<body, present, made, flight, cache, query, reset>>
  BY DEF PublishOK
<1>2. StoreTyped'
  BY <1>1, RequestType, CommitStore, BaseFacts
<1>3. WritersTyped'
  BY <1>1, RequestType, DiscardStep
<1> QED
  BY <1>1, <1>2, <1>3, BaseFacts, CachesStep, QueriesStep, BaseNext

LEMMA PublishConflictBase ==
    ASSUME Base, NEW r \in Replicas, PublishConflict(r)
    PROVE  Base'
<1>1. /\ writer[r].pc = "publish" /\ DropCache(r)
      /\ SetWriter(r, Discard(writer[r], writer[r].new, Again(writer[r].att)))
      /\ UNCHANGED <<rec, body, present, made, flight, query, reset>>
  BY DEF PublishConflict
<1>2. WritersTyped'
  <2>1. Again(writer[r].att) \in BOOLEAN
        /\ (Again(writer[r].att) => writer[r].att + 1 < MaxAttempts)
    BY DEF Again
  <2>2. writer[r].new \in 0..made
    BY <1>1, RequestType
  <2> QED
    BY <1>1, <2>1, <2>2, DiscardStep
<1> QED
  BY <1>1, <1>2, BaseFacts, CachesStep, LocalBase

LEMMA PublishUnknownBase ==
    ASSUME Base, NEW r \in Replicas, PublishUnknown(r)
    PROVE  Base'
<1> DEFINE w == writer[r]
           q == Request(w)
<1>1. q \in Requests /\ q.obj \in 1..made
  BY PublishUnknownForm, RequestType
<1>2. StoreTyped'
  <2>1. CASE Commit(q) /\ UNCHANGED flight
    BY <1>1, <2>1, PublishUnknownForm, CommitStore, BaseFacts
  <2>2. CASE rec' = rec /\ flight' \subseteq flight \cup {q}
    <3> HIDE DEF q
    <3> QED
      BY <1>1, <2>2, PublishUnknownForm, BaseFacts DEF StoreTyped
  <2> QED
    BY <2>1, <2>2, PublishUnknownForm
<1>3. WritersTyped'
  BY PublishUnknownForm, BaseFacts, WritersStep DEF WriterNamed, Keeps
<1> QED
  BY <1>2, <1>3, PublishUnknownForm, BaseFacts, CachesStep, QueriesStep, BaseNext

LEMMA DeliverBase ==
    ASSUME Base, NEW q \in flight, Deliver(q)
    PROVE  Base'
<1>1. /\ Commit(q) \/ rec' = rec
      /\ UNCHANGED <<body, present, made, cache, writer, query, reset>>
  BY DEF Deliver
<1>2. flight' \subseteq flight
  BY DEF Deliver
<1>3. q \in Requests /\ q.obj \in 1..made
  BY BaseFacts DEF StoreTyped
<1>4. StoreTyped'
  <2>1. CASE Commit(q)
    BY <1>1, <1>2, <1>3, <2>1, CommitStore, BaseFacts
  <2>2. CASE rec' = rec
    BY <1>1, <1>2, <2>2, BaseFacts DEF StoreTyped
  <2> QED
    BY <1>1, <2>1, <2>2
<1> QED
  BY <1>1, <1>4, BaseFacts, CachesStep, WritersStep, QueriesStep, BaseNext

LEMMA ReconcileBase ==
    ASSUME Base, NEW r \in Replicas, Reconcile(r)
    PROVE  Base'
<1> DEFINE w == writer[r]
           o == IF rec.obj = w.new THEN w.old ELSE w.new
<1>1. /\ SetWriter(r, Discard(w, o, FALSE)) \/ EndWriter(r)
      /\ UNCHANGED <<rec, body, present, made, flight, cache, query, reset>>
  BY DEF Reconcile
<1>2. w.pc = "reconcile"
  BY DEF Reconcile
<1>3. o \in 0..made
  BY <1>2, RequestType
<1> HIDE DEF o
<1>4. WritersTyped'
  BY <1>1, <1>2, <1>3, DiscardStep, EndWriterStep, BaseFacts
<1> QED
  BY <1>1, <1>4, BaseFacts, CachesStep, LocalBase

LEMMA CleanupBase ==
    ASSUME Base, NEW r \in Replicas, Cleanup(r)
    PROVE  Base'
<1>1. StoreTyped'
  BY CleanupForm, BaseFacts DEF StoreTyped
<1>2. WritersTyped'
  BY CleanupForm, EndWriterStep, WritersStep, BaseFacts
<1> QED
  BY <1>1, <1>2, CleanupForm, BaseFacts, CachesStep, QueriesStep, BaseNext

LEMMA GiveUpBase ==
    ASSUME Base, NEW r \in Replicas, GiveUp(r)
    PROVE  Base'
BY BaseFacts, EndWriterStep, CachesStep, LocalBase DEF GiveUp

LEMMA QueryReadBase ==
    ASSUME Base, NEW d \in Readers, NEW r \in Replicas, NEW fresh \in BOOLEAN,
           QueryRead(d, r, fresh)
    PROVE  Base'
<1> DEFINE q == [pc |-> "load", at |-> r, obj |-> rec.obj, fresh |-> fresh]
<1>1. rec.obj \in 0..MaxObjects /\ rec.obj \in 0..made
  BY BaseFacts DEF StoreTyped
<1>2. q \in QueryState /\ q.obj = rec.obj
  BY <1>1 DEF QueryState
<1>3. query' = [query EXCEPT ![d] = q]
      /\ UNCHANGED <<rec, body, present, made, flight, cache, writer, reset>>
  BY DEF QueryRead
<1> HIDE DEF q
<1>4. QueriesTyped'
  BY <1>1, <1>2, <1>3, BaseFacts DEF QueriesTyped
<1> QED
  BY <1>3, <1>4, BaseFacts, CachesStep, WritersStep, StoreStep, BaseNext

LEMMA LoadingQuery ==
    ASSUME Base, NEW d \in Readers, query[d].pc = "load"
    PROVE  /\ query[d].at \in Replicas /\ query[d].fresh \in BOOLEAN
           /\ query[d].obj \in 0..made /\ query[d].obj \in 0..MaxObjects
<1>1. query[d] \in [pc : {"load"}, at : Replicas, obj : 0..MaxObjects, fresh : BOOLEAN]
  BY BaseFacts DEF QueriesTyped, QueryState, IdleQuery
<1> QED
  BY <1>1, BaseFacts DEF QueriesTyped

\* What a reader answers and leaves in the cache of its replica.
LEMMA AnswerStep ==
    ASSUME Base, NEW d \in Readers, QueryAnswer(d)
    PROVE  LET q == query[d] IN
           /\ q.pc = "load" /\ writer[q.at].pc = "idle"
           /\ UNCHANGED <<rec, body, present, made, flight, writer, reset>>
           /\ \E ok \in BOOLEAN, v \in Values :
                /\ query' = [query EXCEPT ![d] = [pc |-> "answered", obj |-> q.obj,
                                                  ok |-> ok, val |-> v]]
                /\ cache' = cache \/ DropCache(q.at)
                   \/ (ok /\ q.obj # 0 /\ SetCache(q.at, q.obj, v))
                /\ ok => \/ q.obj \in present /\ v = body[q.obj]
                         \/ Cached(q.at, q.obj) /\ v = cache[q.at].val
<1> DEFINE q == query[d]
           r == q.at
           o == q.obj
           ok == IF q.fresh THEN o \in present ELSE Readable(r, o)
           v == IF q.fresh THEN (IF o \in present THEN body[o] ELSE Empty) ELSE Loaded(r, o)
<1>1. q.pc = "load" /\ UNCHANGED <<rec, body, present, made, flight, writer, reset>>
  BY DEF QueryAnswer
<1>2. r \in Replicas /\ q.fresh \in BOOLEAN /\ o \in 0..made /\ o \in 0..MaxObjects
  BY <1>1, LoadingQuery
<1>3. present \subseteq 1..made /\ body \in [Objects -> Values]
      /\ (o \in present => o \in Objects /\ o # 0)
  BY <1>2, BaseFacts DEF StoreTyped, Objects
<1>4. ok \in BOOLEAN
  <2>1. (o \in present) \in BOOLEAN
    OBVIOUS
  <2>2. Readable(r, o) \in BOOLEAN
    BY DEF Readable, Cached
  <2> HIDE DEF o, r
  <2> QED
    BY <2>1, <2>2, Zenon
<1>5. v \in Values
  BY <1>2, <1>3, EmptyType, LoadedType, BaseFacts
<1>6. query' = [query EXCEPT ![d] = [pc |-> "answered", obj |-> o, ok |-> ok, val |-> v]]
      /\ writer[r].pc = "idle"
  <2>1. CASE q.fresh
    <3>1. RepairCheckLoad(d, r, o)
      BY <2>1 DEF QueryAnswer
    <3>2. ok = (o \in present) /\ v = (IF o \in present THEN body[o] ELSE Empty)
      BY <2>1
    <3> HIDE DEF ok, v
    <3> QED
      BY <1>1, <3>1, <3>2 DEF RepairCheckLoad, Answer, CanRead
  <2>2. CASE ~q.fresh
    <3>1. QueryLoad(d, r, o)
      BY <2>2 DEF QueryAnswer
    <3>2. ok = Readable(r, o) /\ v = Loaded(r, o)
      BY <2>2
    <3> HIDE DEF ok, v
    <3> QED
      BY <1>1, <3>1, <3>2 DEF QueryLoad, Answer, CanRead
  <2> QED
    BY <2>1, <2>2
<1>7. cache' = cache \/ DropCache(r) \/ (ok /\ o # 0 /\ SetCache(r, o, v))
  <2>1. CASE q.fresh
    BY <1>3, <2>1 DEF QueryAnswer, RepairCheckLoad
  <2>2. CASE ~q.fresh
    BY <1>3, <2>2 DEF QueryAnswer, QueryLoad, CacheAfterLoad
  <2> QED
    BY <2>1, <2>2
<1>8. ok => \/ o \in present /\ v = body[o]
            \/ Cached(r, o) /\ v = cache[r].val
  BY DEF Readable, Loaded
<1> HIDE DEF ok, v
<1> QED
  BY <1>1, <1>4, <1>5, <1>6, <1>7, <1>8

LEMMA QueryAnswerBase ==
    ASSUME Base, NEW d \in Readers, QueryAnswer(d)
    PROVE  Base'
<1> DEFINE q == query[d]
<1>1. /\ q.pc = "load" /\ q.at \in Replicas /\ q.obj \in 0..made /\ q.obj \in 0..MaxObjects
      /\ UNCHANGED <<rec, body, present, made, flight, writer, reset>>
  BY AnswerStep, LoadingQuery
<1>2. PICK ok \in BOOLEAN, v \in Values :
        /\ query' = [query EXCEPT ![d] = [pc |-> "answered", obj |-> q.obj,
                                          ok |-> ok, val |-> v]]
        /\ cache' = cache \/ DropCache(q.at) \/ SetCache(q.at, q.obj, v)
  BY AnswerStep
<1>3. CachesTyped'
  BY <1>1, <1>2, BaseFacts, CachesStep
<1>4. [pc |-> "answered", obj |-> q.obj, ok |-> ok, val |-> v] \in QueryState
  BY <1>1 DEF QueryState
<1>5. QueriesTyped'
  BY <1>1, <1>2, <1>4, BaseFacts DEF QueriesTyped
<1> QED
  BY <1>1, <1>3, <1>5, BaseFacts, WritersStep, StoreStep, BaseNext

LEMMA RegisterBase ==
    ASSUME Base, RegisterRead \/ RegisterFence \/ \E r \in Replicas : RegisterReset(r)
    PROVE  Base'
<1>1. UNCHANGED <<body, made, flight, writer, query>> /\ present' \subseteq present
  BY DEF RegisterRead, RegisterFence, RegisterReset
<1>2. CachesTyped'
  BY BaseFacts, CachesStep DEF RegisterRead, RegisterFence, RegisterReset
<1>3. StoreTyped'
  <2>1. CASE RegisterRead
    BY <1>1, <2>1, BaseFacts DEF RegisterRead, StoreTyped
  <2>2. CASE RegisterFence
    BY <1>1, <2>2, BaseFacts DEF RegisterFence, StoreTyped
  <2>3. ASSUME NEW r \in Replicas, RegisterReset(r) PROVE StoreTyped'
    BY <1>1, <2>3, BaseFacts DEF RegisterReset, StoreTyped
  <2> QED
    BY <2>1, <2>2, <2>3
<1> QED
  BY <1>1, <1>2, <1>3, BaseFacts, WritersStep, QueriesStep, BaseNext

LEMMA EvictBase ==
    ASSUME Base, NEW r \in Replicas, Evict(r)
    PROVE  Base'
BY BaseFacts, CachesStep, WritersStep, LocalBase DEF Evict

LEMMA CrashBase ==
    ASSUME Base, NEW r \in Replicas, Crash(r)
    PROVE  Base'
<1>1. /\ DropCache(r) /\ EndWriter(r) /\ UNCHANGED <<rec, body, present, made>>
      /\ query' = [d \in Readers |-> IF query[d].pc = "load" /\ query[d].at = r
                                     THEN IdleQuery ELSE query[d]]
      /\ \/ flight' = flight
         \/ writer[r].pc = "publish" /\ flight' = flight \cup {Request(writer[r])}
      /\ reset' \in {reset, [pc |-> "idle", old |-> 0]}
  BY DEF Crash
<1>2. StoreTyped'
  <2>1. \A q \in flight' : q \in Requests /\ q.obj \in 1..made
    BY <1>1, RequestType, BaseFacts DEF StoreTyped
  <2>2. reset' \in [pc : {"idle", "read", "fenced"}, old : 0..MaxObjects]
        /\ reset'.old \in 0..made
    BY <1>1, BaseFacts DEF StoreTyped
  <2> QED
    BY <1>1, <2>1, <2>2, BaseFacts DEF StoreTyped
<1>3. QueriesTyped'
  BY <1>1, BaseFacts DEF QueriesTyped, QueryState, IdleQuery
<1> QED
  BY <1>1, <1>2, <1>3, BaseFacts, CachesStep, EndWriterStep, BaseNext

LEMMA BaseInit ==
    ASSUME Init
    PROVE  Base
<1>1. StoreTyped
  BY PublicationConstants, EmptyType DEF Init, StoreTyped
<1>2. CachesTyped
  BY PublicationConstants, EmptyType DEF Init, CachesTyped, NoCache
<1>3. WritersTyped
  BY IdleWriterType DEF Init, WritersTyped, WriterNamed
<1>4. QueriesTyped
  BY DEF Init, QueriesTyped, QueryState, IdleQuery
<1> QED
  BY <1>1, <1>2, <1>3, <1>4, BaseParts

LEMMA BaseNextStep ==
    ASSUME Base, [Next]_vars
    PROVE  Base'
<1>1. CASE UNCHANGED vars
  BY <1>1, LocalBase, BaseFacts, CachesStep, WritersStep DEF vars
<1>2. ASSUME NEW r \in Replicas, WriterStep(r) \/ Evict(r) \/ Crash(r)
      PROVE  Base'
  BY <1>2, ReadRecordBase, LoadBase, ProbeBase, SaveBase, PublishOKBase,
     PublishConflictBase, PublishUnknownBase, ReconcileBase, CleanupBase, GiveUpBase,
     EvictBase, CrashBase DEF WriterStep
<1>3. ASSUME NEW d \in Readers, ReaderStep(d)
      PROVE  Base'
  BY <1>3, QueryReadBase, QueryAnswerBase DEF ReaderStep
<1> QED
  BY <1>1, <1>2, <1>3, StartBase, DeliverBase, RegisterBase DEF Next

\* The state of the protocol is well formed, a writer makes at most MaxAttempts
\* attempts (publishSearchIndex), and an object name is drawn before anybody
\* knows it.
THEOREM PublicationTyped == Spec => []TypeOK
<1>1. Base => TypeOK
  BY DEF Base
<1> QED
  BY <1>1, BaseInit, BaseNextStep, PTL DEF Spec
-----------------------------------------------------------------------------
(* Deleted objects.  A step that moves the writer of one replica: what it   *)
(* remembers afterwards it knew before, or it is what the record names.     *)

LEMMA Moved ==
    ASSUME WritersTyped, NEW r \in Replicas, NEW n \in WriterState, SetWriter(r, n)
    PROVE  writer'[r] = n /\ \A s \in Replicas \ {r} : writer'[s] = writer[s]
BY DEF WritersTyped, SetWriter

LEMMA CandidatesMove ==
    ASSUME Base, CandidatesKept, NEW r \in Replicas, NEW n \in WriterState,
           SetWriter(r, n), n.pc # "publish",
           {n.old, n.new, n.trash} \subseteq
             {0, rec.obj, writer[r].old, writer[r].new, writer[r].trash},
           \A s \in Replicas \ {r} : writer[s].pc = "publish" =>
              writer[s].new \in present' /\ writer[s].new \notin {rec'.obj, reset'.old}
    PROVE  CandidatesKept'
<1> SUFFICES ASSUME NEW s \in Replicas, writer'[s].pc = "publish"
             PROVE  /\ writer'[s].new \in present'
                    /\ writer'[s].new \notin {rec'.obj, reset'.old, writer'[s].old}
                    /\ \A x \in Replicas \ {s} : writer'[s].new \notin
                          {writer'[x].old, writer'[x].new, writer'[x].trash}
  BY DEF CandidatesKept
<1>1. s # r /\ writer'[s] = writer[s] /\ writer[s].pc = "publish"
  BY Moved, BaseFacts
<1>2. writer[s].new # 0
  BY <1>1, BaseFacts DEF WriterNamed
<1>3. writer[s].new \notin {0, rec.obj, writer[r].old, writer[r].new, writer[r].trash}
  BY <1>1, <1>2 DEF CandidatesKept
<1>4. ASSUME NEW x \in Replicas \ {s}
      PROVE  writer'[s].new \notin {writer'[x].old, writer'[x].new, writer'[x].trash}
  <2>1. CASE x = r
    BY <1>1, <1>3, <2>1, Moved, BaseFacts
  <2>2. CASE x # r
    BY <1>1, <2>2, Moved, BaseFacts DEF CandidatesKept
  <2> QED
    BY <2>1, <2>2
<1> QED
  BY <1>1, <1>4 DEF CandidatesKept

LEMMA DoomedMove ==
    ASSUME Base, DoomedKept, NEW r \in Replicas, NEW n \in WriterState, SetWriter(r, n),
           n.pc = "reconcile" => n.new # n.old,
           n.pc = "cleanup" /\ n.trash # 0 => n.trash # rec'.obj,
           reset' = reset \/ reset'.pc # "fenced",
           \/ rec'.obj = rec.obj
           \/ /\ rec'.obj # reset.old
              /\ \A s \in Replicas \ {r} : rec'.obj # writer[s].trash
    PROVE  DoomedKept'
<1>1. ASSUME NEW s \in Replicas
      PROVE  /\ writer'[s].pc = "reconcile" => writer'[s].new # writer'[s].old
             /\ writer'[s].pc = "cleanup" /\ writer'[s].trash # 0 =>
                   writer'[s].trash # rec'.obj
  <2>1. CASE s = r
    BY <2>1, Moved, BaseFacts
  <2>2. CASE s # r
    BY <2>2, Moved, BaseFacts DEF DoomedKept
  <2> QED
    BY <2>1, <2>2
<1> QED
  BY <1>1 DEF DoomedKept

\* A step of a writer that leaves storage and record alone.
LEMMA ObjectQuiet ==
    ASSUME ObjectInv, NEW r \in Replicas, NEW n \in WriterState, SetWriter(r, n),
           n.pc # "publish",
           {n.old, n.new, n.trash} \subseteq
             {0, rec.obj, writer[r].old, writer[r].new, writer[r].trash},
           n.pc = "reconcile" => n.new # n.old,
           n.pc = "cleanup" /\ n.trash # 0 => n.trash # rec.obj,
           UNCHANGED <<rec, present, flight>>,
           reset' = reset \/ reset' = [pc |-> "idle", old |-> 0],
           Base'
    PROVE  ObjectInv'
<1>1. \A s \in Replicas \ {r} : writer[s].pc = "publish" =>
         writer[s].new \in present' /\ writer[s].new \notin {rec'.obj, reset'.old}
  BY BaseFacts DEF ObjectInv, CandidatesKept, WriterNamed
<1>2. CandidatesKept'
  BY <1>1, CandidatesMove DEF ObjectInv
<1>3. DoomedKept'
  BY DoomedMove DEF ObjectInv
<1> QED
  BY <1>2, <1>3 DEF ObjectInv, PublishedPresent

\* A step that no part of the invariant sees.
LEMMA ObjectStutter ==
    ASSUME ObjectInv, UNCHANGED <<rec, present, flight, writer, reset>>, Base'
    PROVE  ObjectInv'
BY DEF ObjectInv, CandidatesKept, DoomedKept, PublishedPresent

LEMMA ObjectEnd ==
    ASSUME ObjectInv, NEW r \in Replicas, EndWriter(r), UNCHANGED <<rec, present, flight>>,
           reset' = reset \/ reset' = [pc |-> "idle", old |-> 0], Base'
    PROVE  ObjectInv'
BY ObjectQuiet, IdleWriterType DEF EndWriter

\* A publication takes effect: what it replaces was read from the record, and
\* nobody else knows what it publishes.
LEMMA ObjectCommit ==
    ASSUME ObjectInv, NEW r \in Replicas, writer[r].pc = "publish",
           Commit(Request(writer[r])), NEW n \in WriterState, SetWriter(r, n),
           n.pc \in {"reconcile", "cleanup"},
           {n.old, n.new, n.trash} \subseteq {0, writer[r].old, writer[r].new, writer[r].trash},
           n.pc = "reconcile" => n.new = writer[r].new /\ n.old = writer[r].old,
           n.pc = "cleanup" => n.trash = writer[r].old,
           UNCHANGED <<present, reset, flight>>, Base'
    PROVE  ObjectInv'
<1> DEFINE w == writer[r]
<1>1. rec'.obj = w.new
  BY DEF Commit, Request
<1>2. /\ w.new \in present /\ w.new \notin {reset.old, w.old}
      /\ \A s \in Replicas \ {r} : w.new \notin {writer[s].old, writer[s].new, writer[s].trash}
  BY DEF ObjectInv, CandidatesKept
<1>3. CandidatesKept'
  <2>1. ASSUME NEW s \in Replicas \ {r}, writer[s].pc = "publish"
        PROVE  writer[s].new \in present' /\ writer[s].new \notin {rec'.obj, reset'.old}
    BY <1>1, <1>2, <2>1 DEF ObjectInv, CandidatesKept
  <2> QED
    BY <2>1, CandidatesMove DEF ObjectInv
<1>4. DoomedKept'
  BY <1>1, <1>2, DoomedMove DEF ObjectInv
<1> QED
  BY <1>1, <1>2, <1>3, <1>4 DEF ObjectInv, PublishedPresent

LEMMA ObjectPublishOK ==
    ASSUME ObjectInv, NEW r \in Replicas, PublishOK(r), Base'
    PROVE  ObjectInv'
<1> DEFINE w == writer[r]
           n == Discard(w, w.old, FALSE)
<1>1. /\ w.pc = "publish" /\ Commit(Request(w)) /\ SetWriter(r, n)
      /\ UNCHANGED <<present, flight, reset>>
  BY DEF PublishOK
<1>2. /\ n \in WriterState /\ n.pc = "cleanup" /\ n.trash = w.old /\ n.old = 0 /\ n.new = 0
  <2>1. w \in WriterState
    BY BaseFacts DEF ObjectInv
  <2>2. w.old \in 0..MaxObjects /\ FALSE \in BOOLEAN
    BY <2>1 DEF WriterState
  <2> QED
    BY <2>1, <2>2, DiscardType
<1> HIDE DEF n
<1> QED
  BY <1>1, <1>2, ObjectCommit

\* What a rejected writer deletes is its own object.
LEMMA ObjectPublishConflict ==
    ASSUME ObjectInv, NEW r \in Replicas, PublishConflict(r), Base'
    PROVE  ObjectInv'
<1> DEFINE w == writer[r]
           n == Discard(w, w.new, Again(w.att))
<1>1. /\ w.pc = "publish" /\ SetWriter(r, n) /\ UNCHANGED <<rec, present, flight, reset>>
  BY DEF PublishConflict
<1>2. Again(w.att) \in BOOLEAN
  BY DEF Again
<1>3. /\ n \in WriterState /\ n.pc = "cleanup" /\ n.trash = w.new /\ n.old = 0 /\ n.new = 0
  BY <1>2, DiscardType, BaseFacts DEF ObjectInv, WriterState
<1>4. w.new # rec.obj
  BY <1>1 DEF ObjectInv, CandidatesKept
<1> HIDE DEF n
<1> QED
  BY <1>1, <1>3, <1>4, ObjectQuiet

LEMMA ObjectPublishUnknown ==
    ASSUME ObjectInv, ~LatePublish, NEW r \in Replicas, PublishUnknown(r), Base'
    PROVE  ObjectInv'
<1> DEFINE w == writer[r]
<1>1. /\ w.pc = "publish" /\ UNCHANGED <<present, reset, flight>>
      /\ Commit(Request(w)) \/ UNCHANGED rec
  BY PublishUnknownForm DEF ObjectInv
<1>2. PICK n \in WriterState :
        SetWriter(r, n) /\ Keeps(n, w) /\ n.new = w.new /\ n.pc = "reconcile"
  BY PublishUnknownForm DEF ObjectInv
<1>3. w.new # w.old /\ n.old = w.old /\ n.trash = w.trash
  BY <1>1, <1>2 DEF ObjectInv, CandidatesKept, Keeps
<1>4. CASE Commit(Request(w))
  BY <1>1, <1>2, <1>3, <1>4, ObjectCommit
<1>5. CASE UNCHANGED rec
  BY <1>1, <1>2, <1>3, <1>5, ObjectQuiet
<1> QED
  BY <1>1, <1>4, <1>5

\* After a lost answer the record tells which of the two objects is not published.
LEMMA ObjectReconcile ==
    ASSUME ObjectInv, NEW r \in Replicas, Reconcile(r), Base'
    PROVE  ObjectInv'
<1> DEFINE w == writer[r]
           o == IF rec.obj = w.new THEN w.old ELSE w.new
           n == Discard(w, o, FALSE)
<1>1. /\ w.pc = "reconcile"
      /\ SetWriter(r, n) \/ EndWriter(r)
      /\ UNCHANGED <<rec, present, flight, reset>>
  BY DEF Reconcile
<1>2. o \in 0..MaxObjects /\ o # rec.obj /\ o \in {w.old, w.new}
  <2>1. w \in WriterState
    BY BaseFacts DEF ObjectInv
  <2>2. w.old \in 0..MaxObjects /\ w.new \in 0..MaxObjects
    BY <2>1 DEF WriterState
  <2>3. w.new # w.old
    BY <1>1 DEF ObjectInv, DoomedKept
  <2> QED
    BY <2>2, <2>3
<1>3. n \in WriterState /\ n.pc = "cleanup" /\ n.trash = o /\ n.old = 0 /\ n.new = 0
  BY <1>2, DiscardType, BaseFacts DEF ObjectInv
<1> HIDE DEF n, o
<1> QED
  BY <1>1, <1>2, <1>3, ObjectQuiet, ObjectEnd

LEMMA ObjectSave ==
    ASSUME ObjectInv, NEW r \in Replicas, Save(r), Base'
    PROVE  ObjectInv'
<1> DEFINE w == writer[r]
           o == made + 1
<1>1. /\ w.pc = "save" /\ UNCHANGED <<rec, flight, reset>>
      /\ present \subseteq present'
  BY SaveForm DEF ObjectInv
<1>2. PublishedPresent'
  BY <1>1 DEF ObjectInv, PublishedPresent
<1>3. CASE EndWriter(r)
  <2>1. CandidatesKept'
    <3>1. ASSUME NEW s \in Replicas \ {r}, writer[s].pc = "publish"
          PROVE  writer[s].new \in present' /\ writer[s].new \notin {rec'.obj, reset'.old}
      BY <1>1, <3>1 DEF ObjectInv, CandidatesKept
    <3> QED
      BY <1>3, <3>1, CandidatesMove, IdleWriterType DEF ObjectInv, EndWriter
  <2>2. DoomedKept'
    BY <1>1, <1>3, DoomedMove, IdleWriterType DEF ObjectInv, EndWriter
  <2> QED
    BY <1>1, <1>2, <2>1, <2>2 DEF ObjectInv
<1>4. ASSUME NEW n \in WriterState, SetWriter(r, n), Keeps(n, w), n.new = o,
             n.pc = "publish", o \in present'
      PROVE  ObjectInv'
  <2>1. writer'[r] = n /\ \A s \in Replicas \ {r} : writer'[s] = writer[s]
    BY <1>4, Moved, BaseFacts DEF ObjectInv
  <2>2. /\ o \notin {rec.obj, reset.old} /\ made \in Nat
        /\ \A s \in Replicas : o \notin {writer[s].old, writer[s].new, writer[s].trash}
    BY BaseFacts DEF ObjectInv, StoreTyped, WriterNamed
  <2>3. DoomedKept'
    BY <1>1, <1>4, DoomedMove DEF ObjectInv
  <2> HIDE DEF o
  <2>4. n.old = w.old /\ n.trash = w.trash
    BY <1>4 DEF Keeps
  <2>5. ASSUME NEW s \in Replicas, writer'[s].pc = "publish"
        PROVE  /\ writer'[s].new \in present'
               /\ writer'[s].new \notin {rec'.obj, reset'.old, writer'[s].old}
               /\ \A x \in Replicas \ {s} : writer'[s].new \notin
                     {writer'[x].old, writer'[x].new, writer'[x].trash}
    <3>1. CASE s = r
      BY <1>1, <1>4, <2>1, <2>2, <2>4, <3>1
    <3>2. CASE s # r
      <4>1. /\ writer'[s] = writer[s] /\ writer[s].new \in present
            /\ writer[s].new \notin {rec.obj, reset.old, writer[s].old}
            /\ writer[s].new # o
        BY <2>1, <2>2, <2>5, <3>2 DEF ObjectInv, CandidatesKept
      <4>2. ASSUME NEW x \in Replicas \ {s}
            PROVE  writer[s].new \notin {writer'[x].old, writer'[x].new, writer'[x].trash}
        <5>1. writer[s].new \notin {writer[x].old, writer[x].new, writer[x].trash}
          BY <2>5, <4>1 DEF ObjectInv, CandidatesKept
        <5>2. CASE x = r
          BY <1>4, <2>1, <2>4, <4>1, <5>1, <5>2
        <5>3. CASE x # r
          BY <2>1, <5>1, <5>3
        <5> QED
          BY <5>2, <5>3
      <4> QED
        BY <1>1, <4>1, <4>2
    <3> QED
      BY <3>1, <3>2
  <2>6. CandidatesKept'
    BY <2>5 DEF CandidatesKept
  <2> QED
    BY <1>1, <1>2, <2>3, <2>6 DEF ObjectInv
<1> QED
  BY <1>3, <1>4, SaveForm DEF ObjectInv

LEMMA ObjectCleanup ==
    ASSUME ObjectInv, NEW r \in Replicas, Cleanup(r), Base'
    PROVE  ObjectInv'
<1> DEFINE w == writer[r]
<1>1. /\ w.pc = "cleanup" /\ present' \in {present \ {w.trash}, present}
      /\ UNCHANGED <<rec, flight, reset>>
  BY CleanupForm DEF ObjectInv
<1>2. PICK n \in WriterState :
        SetWriter(r, n) /\ n.pc \in {"idle", "read"} /\ n.old = 0 /\ n.new = 0 /\ n.trash = 0
  BY CleanupForm, IdleWriterType DEF ObjectInv, EndWriter
<1>3. PublishedPresent'
  BY <1>1 DEF ObjectInv, PublishedPresent, DoomedKept
<1>4. CandidatesKept'
  <2>1. ASSUME NEW s \in Replicas \ {r}, writer[s].pc = "publish"
        PROVE  writer[s].new \in present' /\ writer[s].new \notin {rec'.obj, reset'.old}
    BY <1>1, <2>1 DEF ObjectInv, CandidatesKept
  <2> QED
    BY <1>2, <2>1, CandidatesMove DEF ObjectInv
<1>5. DoomedKept'
  BY <1>1, <1>2, DoomedMove DEF ObjectInv
<1> QED
  BY <1>1, <1>3, <1>4, <1>5 DEF ObjectInv

\* A registration takes the record away before it deletes what it named.
LEMMA ObjectRegister ==
    ASSUME ObjectInv, RegisterRead \/ RegisterFence \/ \E r \in Replicas : RegisterReset(r),
           Base'
    PROVE  ObjectInv'
<1>1. UNCHANGED <<flight, writer>>
  BY DEF RegisterRead, RegisterFence, RegisterReset
<1>2. \A r \in Replicas : writer[r].pc = "publish" => writer[r].new # 0
  BY BaseFacts DEF ObjectInv, WriterNamed
<1>3. CASE RegisterRead
  BY <1>1, <1>3 DEF RegisterRead, ObjectInv, CandidatesKept, DoomedKept, PublishedPresent
<1>4. CASE RegisterFence
  <2>1. rec'.obj = 0 /\ reset'.old = reset.old /\ present' = present
    BY <1>4, BaseFacts DEF RegisterFence, ObjectInv, StoreTyped
  <2> QED
    BY <1>1, <1>2, <2>1 DEF ObjectInv, CandidatesKept, DoomedKept, PublishedPresent
<1>5. ASSUME NEW r \in Replicas, RegisterReset(r) PROVE ObjectInv'
  <2>1. /\ reset.pc = "fenced" /\ rec' = rec /\ reset'.old = 0 /\ reset'.pc = "idle"
        /\ present' \in {present \ {reset.old}, present}
    BY <1>5 DEF RegisterReset
  <2> QED
    BY <1>1, <1>2, <2>1 DEF ObjectInv, CandidatesKept, DoomedKept, PublishedPresent
<1> QED
  BY <1>3, <1>4, <1>5

LEMMA ObjectWriterStep ==
    ASSUME ObjectInv, ~LatePublish, NEW r \in Replicas, WriterStep(r), Base'
    PROVE  ObjectInv'
<1>1. CASE ReadRecord(r)
  BY <1>1, ReadRecordForm, ObjectQuiet DEF ObjectInv
<1>2. CASE Load(r)
  <2>1. CASE EndWriter(r)
    BY <1>2, <2>1, LoadForm, ObjectEnd DEF ObjectInv
  <2>2. ASSUME NEW n \in WriterState, SetWriter(r, n), Keeps(n, writer[r]),
               n.new = writer[r].new, n.pc \in {"probe", "save"}
        PROVE  ObjectInv'
    BY <1>2, <2>2, LoadForm, ObjectQuiet DEF ObjectInv, Keeps
  <2> QED
    BY <1>2, <2>1, <2>2, LoadForm DEF ObjectInv
<1>3. CASE Probe(r)
  <2>1. CASE EndWriter(r)
    BY <1>3, <2>1, ProbeForm, ObjectEnd DEF ObjectInv
  <2>2. ASSUME NEW n \in WriterState, SetWriter(r, n), Keeps(n, writer[r]),
               n.new = writer[r].new, n.pc = "save"
        PROVE  ObjectInv'
    BY <1>3, <2>2, ProbeForm, ObjectQuiet DEF ObjectInv, Keeps
  <2> QED
    BY <1>3, <2>1, <2>2, ProbeForm DEF ObjectInv
<1>4. CASE GiveUp(r)
  BY <1>4, ObjectEnd DEF GiveUp
<1> QED
  BY <1>1, <1>2, <1>3, <1>4, ObjectSave, ObjectPublishOK, ObjectPublishConflict,
     ObjectPublishUnknown, ObjectReconcile, ObjectCleanup DEF WriterStep

LEMMA ObjectNext ==
    ASSUME ObjectInv, ~LatePublish, [Next]_vars
    PROVE  ObjectInv'
<1>1. Base'
  BY BaseNextStep DEF ObjectInv
<1>2. ASSUME NEW r \in Replicas, NEW op \in Ops, Start(r, op) PROVE ObjectInv'
  <2>1. PICK n \in WriterState : SetWriter(r, n) /\ n.pc = "read" /\ n.op = op /\ ~n.again
                                 /\ n.old = 0 /\ n.new = 0 /\ n.trash = 0
    BY <1>2, StartForm
  <2>2. UNCHANGED <<rec, present, flight, reset>>
    BY <1>2 DEF Start
  <2> QED
    BY <1>1, <2>1, <2>2, ObjectQuiet
<1>3. ASSUME NEW r \in Replicas, Crash(r) PROVE ObjectInv'
  <2>1. /\ EndWriter(r) /\ UNCHANGED <<rec, present, flight>>
        /\ reset' \in {reset, [pc |-> "idle", old |-> 0]}
    BY <1>3 DEF Crash
  <2> QED
    BY <1>1, <2>1, ObjectEnd
<1>4. ASSUME NEW r \in Replicas, Evict(r) PROVE ObjectInv'
  BY <1>1, <1>4, ObjectStutter DEF Evict
<1>5. ASSUME NEW d \in Readers, ReaderStep(d) PROVE ObjectInv'
  BY <1>1, <1>5, ObjectStutter DEF ReaderStep, QueryRead, QueryAnswer
<1>6. \A q \in flight : ~Deliver(q)
  BY DEF ObjectInv
<1>7. CASE UNCHANGED vars
  BY <1>1, <1>7, ObjectStutter DEF vars
<1> QED
  BY <1>1, <1>2, <1>3, <1>4, <1>5, <1>6, <1>7, ObjectWriterStep, ObjectRegister DEF Next

LEMMA ObjectInit ==
    ASSUME Init
    PROVE  ObjectInv
<1>1. Base
  BY BaseInit
<1>2. \A r \in Replicas : writer[r].pc = "idle"
  BY IdleWriterType DEF Init
<1> QED
  BY <1>1, <1>2 DEF Init, ObjectInv, CandidatesKept, DoomedKept, PublishedPresent

\* The object that the record names is never deleted, whatever cleanups follow
\* conflicts, lost answers, retries, crashes and registrations, provided that a
\* request which was not answered does not arrive after its sender looked.
THEOREM PublishedObjectKept ==
    ASSUME ~LatePublish
    PROVE  Spec => []PublishedPresent
<1>1. ObjectInv => PublishedPresent
  BY DEF ObjectInv
<1>2. ~LatePublish
  OBVIOUS
<1>3. ObjectInv /\ [Next]_vars => ObjectInv'
  BY <1>2, ObjectNext
<1> QED
  BY <1>1, <1>3, ObjectInit, PTL DEF Spec
-----------------------------------------------------------------------------
(* Honest answers.  Stored contents never change; what a replica holds of   *)
(* the index is its own affair.                                             *)

LEMMA BodyKept ==
    ASSUME Base, \/ UNCHANGED body
                 \/ \E r \in Replicas : Save(r)
    PROVE  \A o \in 1..made : body'[o] = body[o]
<1>1. ASSUME NEW r \in Replicas, Save(r) PROVE \A o \in 1..made : body'[o] = body[o]
  <2>1. body' = [body EXCEPT ![made + 1] = writer[r].val]
    BY <1>1, SaveForm
  <2>2. made \in Nat /\ body \in [Objects -> Values] /\ \A o \in 1..made : o \in Objects
    BY BaseFacts DEF StoreTyped, Objects
  <2> QED
    BY <2>1, <2>2
<1> QED
  BY <1>1

LEMMA CacheSet ==
    ASSUME CachesTyped, NEW r \in Replicas, NEW o, NEW v, SetCache(r, o, v)
    PROVE  /\ cache'[r].obj = o /\ cache'[r].val = v
           /\ \A s \in Replicas \ {r} : cache'[s] = cache[s]
BY DEF CachesTyped, SetCache

LEMMA CacheDropped ==
    ASSUME CachesTyped, NEW r \in Replicas, DropCache(r)
    PROVE  /\ cache'[r].obj = 0 /\ CacheHonest(r)'
           /\ \A s \in Replicas \ {r} : cache'[s] = cache[s]
BY DEF CachesTyped, DropCache, NoCache, CacheHonest

LEMMA CacheMoved ==
    ASSUME HonestInv, NEW r \in Replicas, CacheHonest(r)',
           \A s \in Replicas \ {r} : writer'[s] = writer[s] /\ cache'[s] = cache[s],
           \A o \in 1..made : body'[o] = body[o]
    PROVE  CacheKept'
<1>1. ASSUME NEW s \in Replicas \ {r} PROVE CacheHonest(s)'
  <2>1. CacheHonest(s) /\ cache[s].obj \in 0..made
    BY BaseFacts DEF HonestInv, CacheKept, CachesTyped
  <2>2. CASE cache[s].obj = 0
    BY <2>2 DEF CacheHonest
  <2>3. CASE cache[s].obj \in 1..made
    BY <2>1, <2>3 DEF CacheHonest
  <2> QED
    BY <2>1, <2>2, <2>3, BaseFacts DEF HonestInv
<1> QED
  BY <1>1 DEF CacheKept

LEMMA AnswersKept ==
    ASSUME HonestInv, query' = query, \A o \in 1..made : body'[o] = body[o]
    PROVE  AnswersHonest'
<1>1. ASSUME NEW d \in Readers, query[d].pc = "answered", query[d].ok
      PROVE  query[d].obj # 0 /\ query[d].val = body'[query[d].obj]
  BY <1>1, BaseFacts DEF HonestInv, AnswersHonest, QueriesTyped
<1> QED
  BY <1>1 DEF AnswersHonest

\* A step of the writer of one replica.
LEMMA HonestMove ==
    ASSUME HonestInv, NEW r \in Replicas, NEW n \in WriterState, SetWriter(r, n),
           CacheHonest(r)', \A s \in Replicas \ {r} : cache'[s] = cache[s],
           \/ UNCHANGED body
           \/ \E s \in Replicas : Save(s),
           query' = query, Base'
    PROVE  HonestInv'
<1>1. \A s \in Replicas \ {r} : writer'[s] = writer[s] /\ cache'[s] = cache[s]
  BY Moved, BaseFacts DEF HonestInv
<1>2. \A o \in 1..made : body'[o] = body[o]
  BY BodyKept DEF HonestInv
<1> QED
  BY <1>1, <1>2, CacheMoved, AnswersKept DEF HonestInv

\* A writer that is not editing leaves the cache as it is, or drops it.
LEMMA HonestQuiet ==
    ASSUME HonestInv, NEW r \in Replicas, NEW n \in WriterState, SetWriter(r, n),
           writer[r].pc \notin {"probe", "save"},
           \/ UNCHANGED cache
           \/ DropCache(r),
           UNCHANGED <<body, query>>, Base'
    PROVE  HonestInv'
<1>1. CASE UNCHANGED cache
  <2>1. CacheHonest(r)'
    BY <1>1 DEF HonestInv, CacheKept, CacheHonest
  <2> QED
    BY <1>1, <2>1, HonestMove
<1>2. CASE DropCache(r)
  BY <1>2, CacheDropped, HonestMove, BaseFacts DEF HonestInv
<1> QED
  BY <1>1, <1>2

\* What an honest cache and storage yield is what was stored.
LEMMA LoadedHonest ==
    ASSUME HonestInv, NEW r \in Replicas, writer[r].pc \notin {"probe", "save"},
           NEW o \in 0..made, Readable(r, o)
    PROVE  o # 0 /\ Loaded(r, o) = body[o]
<1>1. o # 0
  BY BaseFacts DEF HonestInv, Readable, Cached, StoreTyped
<1>2. CacheHonest(r)
  BY DEF HonestInv, CacheKept
<1> QED
  BY <1>1, <1>2 DEF Readable, Cached, Loaded, CacheHonest

LEMMA LoadLeaves ==
    ASSUME Base, NEW r \in Replicas, NEW o \in 0..made, NEW v \in Values,
           CacheAfterLoad(r, o, v)
    PROVE  /\ \A s \in Replicas \ {r} : cache'[s] = cache[s]
           /\ \/ cache'[r] = cache[r] /\ o = 0
              \/ cache'[r].obj = o /\ cache'[r].val = v /\ Readable(r, o)
              \/ cache'[r].obj = 0
BY CacheSet, CacheDropped, BaseFacts DEF CacheAfterLoad

LEMMA HonestLoad ==
    ASSUME HonestInv, NEW r \in Replicas, Load(r), Base'
    PROVE  HonestInv'
<1> DEFINE w == writer[r]
           v == Loaded(r, w.old)
           e == Edited(w.op, v)
<1>1. /\ w.pc = "load" /\ v \in Values /\ e \in Values /\ w.old \in 0..made
      /\ UNCHANGED <<body, query>>
  BY LoadForm DEF HonestInv
<1>2. CacheHonest(r)
  BY DEF HonestInv, CacheKept
<1>3. CASE CacheAfterLoad(r, w.old, v) /\ EndWriter(r)
  <2>1. Readable(r, w.old) => v = body[w.old]
    BY <1>1, LoadedHonest
  <2> HIDE DEF v
  <2>2. CacheHonest(r)' /\ \A s \in Replicas \ {r} : cache'[s] = cache[s]
    BY <1>1, <1>2, <1>3, <2>1, LoadLeaves DEF CacheHonest, HonestInv
  <2> QED
    BY <1>1, <1>3, <2>2, IdleWriterType, HonestMove DEF EndWriter
<1>4. ASSUME NEW n \in WriterState, SetWriter(r, n), Keeps(n, w), n.pc \in {"probe", "save"},
             CacheAfterLoad(r, w.old, e)
      PROVE  HonestInv'
  <2> HIDE DEF e
  <2>1. writer'[r] = n /\ n.old = w.old
    BY <1>4, Moved, BaseFacts DEF HonestInv, Keeps
  <2>2. CacheHonest(r)' /\ \A s \in Replicas \ {r} : cache'[s] = cache[s]
    BY <1>1, <1>2, <1>4, <2>1, LoadLeaves DEF CacheHonest, HonestInv
  <2> QED
    BY <1>1, <1>4, <2>2, HonestMove
<1> HIDE DEF e, v
<1> QED
  BY <1>3, <1>4, LoadForm DEF HonestInv, e, v

LEMMA HonestProbe ==
    ASSUME HonestInv, ~ProbeFails, NEW r \in Replicas, Probe(r), Base'
    PROVE  HonestInv'
<1> DEFINE w == writer[r]
           e == Apply(w.op, w.val)
<1>1. /\ w.pc = "probe" /\ UNCHANGED <<body, query>>
      /\ IF Cached(r, w.old) THEN SetCache(r, w.old, e) ELSE UNCHANGED cache
  BY ProbeForm DEF HonestInv
<1>2. PICK n \in WriterState : SetWriter(r, n) /\ Keeps(n, w) /\ n.pc = "save"
  BY ProbeForm DEF HonestInv
<1> HIDE DEF e
<1>3. writer'[r] = n /\ n.old = w.old
  BY <1>2, Moved, BaseFacts DEF HonestInv, Keeps
<1>4. CASE Cached(r, w.old)
  <2>1. CacheHonest(r)' /\ \A s \in Replicas \ {r} : cache'[s] = cache[s]
    BY <1>1, <1>2, <1>3, <1>4, CacheSet, BaseFacts DEF CacheHonest, HonestInv
  <2> QED
    BY <1>1, <1>2, <2>1, HonestMove
<1>5. CASE ~Cached(r, w.old)
  <2>1. cache' = cache /\ CacheHonest(r)
    BY <1>1, <1>5 DEF HonestInv, CacheKept
  <2>2. CacheHonest(r)'
    BY <1>1, <1>2, <1>3, <2>1 DEF CacheHonest
  <2> QED
    BY <1>1, <1>2, <2>1, <2>2, HonestMove
<1> QED
  BY <1>4, <1>5

LEMMA HonestSave ==
    ASSUME HonestInv, NEW r \in Replicas, Save(r), Base'
    PROVE  HonestInv'
<1> DEFINE w == writer[r]
           o == made + 1
<1>1. o \in Objects /\ body' = [body EXCEPT ![o] = w.val] /\ query' = query
  BY SaveForm DEF HonestInv
<1>2. body'[o] = w.val
  BY <1>1, BaseFacts DEF HonestInv, StoreTyped
<1>3. CASE DropCache(r) /\ EndWriter(r)
  BY <1>1, <1>3, CacheDropped, HonestMove, IdleWriterType, BaseFacts DEF HonestInv, EndWriter
<1>4. ASSUME SetCache(r, o, w.val), NEW n \in WriterState, SetWriter(r, n)
      PROVE  HonestInv'
  <2> HIDE DEF o
  <2>1. CacheHonest(r)' /\ \A s \in Replicas \ {r} : cache'[s] = cache[s]
    BY <1>2, <1>4, CacheSet, BaseFacts DEF CacheHonest, HonestInv
  <2> QED
    BY <1>1, <1>4, <2>1, HonestMove
<1> QED
  BY <1>3, <1>4, SaveForm DEF HonestInv

\* The other steps of a writer.
LEMMA HonestPublish ==
    ASSUME HonestInv, NEW r \in Replicas, Base',
           \/ ReadRecord(r) \/ PublishOK(r) \/ PublishConflict(r) \/ PublishUnknown(r)
           \/ Reconcile(r) \/ Cleanup(r) \/ GiveUp(r)
    PROVE  HonestInv'
<1> DEFINE w == writer[r]
<1>1. w \in WriterState /\ w.old \in 0..MaxObjects /\ w.new \in 0..MaxObjects
  <2>1. w \in WriterState
    BY BaseFacts DEF HonestInv
  <2> QED
    BY <2>1 DEF WriterState
<1>2. \A o \in 0..MaxObjects, again \in BOOLEAN : Discard(w, o, again) \in WriterState
  BY <1>1, DiscardType
<1>3. IdleWriter \in WriterState
  BY IdleWriterType
<1>4. /\ w.pc \notin {"probe", "save"} /\ UNCHANGED <<body, query>>
      /\ UNCHANGED cache \/ DropCache(r)
  BY DEF ReadRecord, PublishOK, PublishConflict, PublishUnknown, Reconcile, Cleanup, GiveUp
<1>5. \E n \in WriterState : SetWriter(r, n)
  <2>1. CASE ReadRecord(r)
    BY <2>1, ReadRecordForm DEF HonestInv
  <2>2. CASE PublishOK(r)
    BY <1>1, <1>2, <2>2 DEF PublishOK
  <2>3. CASE PublishConflict(r)
    <3>1. Again(w.att) \in BOOLEAN
      BY DEF Again
    <3> QED
      BY <1>1, <1>2, <2>3, <3>1 DEF PublishConflict
  <2>4. CASE PublishUnknown(r)
    BY <2>4, PublishUnknownForm DEF HonestInv
  <2>5. CASE Reconcile(r)
    BY <1>1, <1>2, <1>3, <2>5 DEF Reconcile, EndWriter
  <2>6. CASE Cleanup(r)
    BY <1>3, <2>6, CleanupForm DEF HonestInv, EndWriter
  <2>7. CASE GiveUp(r)
    BY <1>3, <2>7 DEF GiveUp, EndWriter
  <2> QED
    BY <2>1, <2>2, <2>3, <2>4, <2>5, <2>6, <2>7
<1> QED
  BY <1>4, <1>5, HonestQuiet

\* A cache is dropped, or left alone, under an idle or forgotten writer.
LEMMA HonestDrop ==
    ASSUME HonestInv, NEW r \in Replicas, DropCache(r),
           \/ UNCHANGED writer
           \/ EndWriter(r),
           UNCHANGED body, AnswersHonest', Base'
    PROVE  HonestInv'
<1>1. \A s \in Replicas \ {r} : writer'[s] = writer[s] /\ cache'[s] = cache[s]
  BY Moved, IdleWriterType, CacheDropped, BaseFacts DEF HonestInv, EndWriter
<1>2. CacheHonest(r)' /\ \A o \in 1..made : body'[o] = body[o]
  BY CacheDropped, BaseFacts DEF HonestInv
<1> QED
  BY <1>1, <1>2, CacheMoved DEF HonestInv

LEMMA HonestCrash ==
    ASSUME HonestInv, NEW r \in Replicas, Crash(r), Base'
    PROVE  HonestInv'
<1>1. /\ DropCache(r) /\ EndWriter(r) /\ UNCHANGED body
      /\ query' = [d \in Readers |-> IF query[d].pc = "load" /\ query[d].at = r
                                     THEN IdleQuery ELSE query[d]]
  BY DEF Crash
<1>2. AnswersHonest'
  BY <1>1 DEF HonestInv, AnswersHonest, IdleQuery
<1> QED
  BY <1>1, <1>2, HonestDrop

LEMMA HonestAnswer ==
    ASSUME HonestInv, NEW d \in Readers, QueryAnswer(d), Base'
    PROVE  HonestInv'
<1> DEFINE q == query[d]
<1>0. PICK r \in Replicas : r = q.at
  BY AnswerStep, LoadingQuery DEF HonestInv
<1>1. /\ q.pc = "load" /\ writer[r].pc = "idle" /\ q.obj \in 0..made
      /\ UNCHANGED <<body, present, writer>>
  BY <1>0, AnswerStep, LoadingQuery DEF HonestInv
<1>2. PICK ok \in BOOLEAN, v \in Values :
        /\ query' = [query EXCEPT ![d] = [pc |-> "answered", obj |-> q.obj,
                                          ok |-> ok, val |-> v]]
        /\ cache' = cache \/ DropCache(r) \/ (ok /\ q.obj # 0 /\ SetCache(r, q.obj, v))
        /\ ok => \/ q.obj \in present /\ v = body[q.obj]
                 \/ Cached(r, q.obj) /\ v = cache[r].val
  BY <1>0, AnswerStep DEF HonestInv
<1>3. CacheHonest(r)
  BY <1>1 DEF HonestInv, CacheKept
<1>4. ok => q.obj # 0 /\ v = body[q.obj]
  BY <1>1, <1>2, <1>3, BaseFacts DEF HonestInv, Cached, CacheHonest, StoreTyped
<1>5. AnswersHonest'
  <2>1. query \in [Readers -> QueryState]
    BY BaseFacts DEF HonestInv, QueriesTyped
  <2>2. ASSUME NEW e \in Readers, query'[e].pc = "answered", query'[e].ok
        PROVE  query'[e].obj # 0 /\ query'[e].val = body'[query'[e].obj]
    <3>1. CASE e = d
      <4>1. query'[d].obj = q.obj /\ query'[d].ok = ok /\ query'[d].val = v
        BY <1>2, <2>1
      <4> QED
        BY <1>1, <1>4, <2>2, <3>1, <4>1
    <3>2. CASE e # d
      BY <1>1, <1>2, <2>1, <2>2, <3>2 DEF HonestInv, AnswersHonest
    <3> QED
      BY <3>1, <3>2
  <2> QED
    BY <2>2 DEF AnswersHonest
<1>6. CacheHonest(r)' /\ \A s \in Replicas \ {r} : cache'[s] = cache[s]
  <2>1. CASE cache' = cache
    BY <1>1, <1>3, <2>1 DEF CacheHonest
  <2>2. CASE DropCache(r)
    BY <1>1, <2>2, CacheDropped, BaseFacts DEF HonestInv
  <2>3. CASE ok /\ SetCache(r, q.obj, v)
    BY <1>1, <1>4, <2>3, CacheSet, BaseFacts DEF HonestInv, CacheHonest
  <2> QED
    BY <1>2, <2>1, <2>2, <2>3
<1>7. CacheKept'
  BY <1>1, <1>6, CacheMoved, BodyKept DEF HonestInv
<1> QED
  BY <1>5, <1>7 DEF HonestInv

\* A step that caches, contents and answers do not see.
LEMMA HonestStutter ==
    ASSUME HonestInv, UNCHANGED <<body, cache, writer>>, AnswersHonest', Base'
    PROVE  HonestInv'
BY DEF HonestInv, CacheKept, CacheHonest

LEMMA HonestRead ==
    ASSUME HonestInv, NEW d \in Readers, NEW r \in Replicas, NEW fresh \in BOOLEAN,
           QueryRead(d, r, fresh), Base'
    PROVE  HonestInv'
<1> DEFINE q == [pc |-> "load", at |-> r, obj |-> rec.obj, fresh |-> fresh]
<1>1. query' = [query EXCEPT ![d] = q] /\ UNCHANGED <<body, cache, writer>>
  BY DEF QueryRead
<1>2. q.pc # "answered"
  OBVIOUS
<1> HIDE DEF q
<1>3. AnswersHonest'
  BY <1>1, <1>2, BaseFacts DEF HonestInv, AnswersHonest, QueriesTyped
<1> QED
  BY <1>1, <1>3, HonestStutter

LEMMA HonestRegister ==
    ASSUME HonestInv, RegisterRead \/ RegisterFence \/ \E r \in Replicas : RegisterReset(r),
           Base'
    PROVE  HonestInv'
<1>1. UNCHANGED <<body, writer, query>>
  BY DEF RegisterRead, RegisterFence, RegisterReset
<1>2. AnswersHonest'
  BY <1>1, AnswersKept
<1>3. CASE UNCHANGED cache
  BY <1>1, <1>2, <1>3, HonestStutter
<1>4. ASSUME NEW r \in Replicas, DropCache(r) PROVE HonestInv'
  BY <1>1, <1>2, <1>4, HonestDrop
<1> QED
  BY <1>3, <1>4 DEF RegisterRead, RegisterFence, RegisterReset

LEMMA HonestNext ==
    ASSUME HonestInv, ~ProbeFails, [Next]_vars
    PROVE  HonestInv'
<1>1. Base'
  BY BaseNextStep DEF HonestInv
<1>2. ASSUME NEW r \in Replicas, NEW op \in Ops, Start(r, op) PROVE HonestInv'
  <2>1. writer[r].pc = "idle" /\ UNCHANGED <<body, cache, query>>
    BY <1>2 DEF Start
  <2>2. \E n \in WriterState : SetWriter(r, n)
    BY <1>2, StartForm
  <2> QED
    BY <1>1, <2>1, <2>2, HonestQuiet
<1>3. ASSUME NEW r \in Replicas, Evict(r) PROVE HonestInv'
  BY <1>1, <1>3, AnswersKept, HonestDrop DEF Evict
<1>4. ASSUME NEW r \in Replicas, WriterStep(r) PROVE HonestInv'
  BY <1>1, <1>4, HonestLoad, HonestProbe, HonestSave, HonestPublish DEF WriterStep
<1>5. ASSUME NEW d \in Readers, ReaderStep(d) PROVE HonestInv'
  BY <1>1, <1>5, HonestRead, HonestAnswer DEF ReaderStep
<1>6. ASSUME NEW q \in flight, Deliver(q) PROVE HonestInv'
  BY <1>1, <1>6, AnswersKept, HonestStutter DEF Deliver
<1>7. CASE UNCHANGED vars
  BY <1>1, <1>7, AnswersKept, HonestStutter DEF vars
<1> QED
  BY <1>1, <1>2, <1>3, <1>4, <1>5, <1>6, <1>7, HonestCrash, HonestRegister DEF Next

LEMMA HonestInit ==
    ASSUME Init
    PROVE  HonestInv
BY BaseInit DEF Init, HonestInv, CacheKept, CacheHonest, NoCache, AnswersHonest, IdleQuery

\* Although writers edit the cached index in place, no reader is served contents
\* that were not stored, provided that no page of a rebuild gives up between its
\* edits and its write (searchReindexPage on a failed probe).
THEOREM AnswersPersisted ==
    ASSUME ~ProbeFails
    PROVE  Spec => []QueryHonest
<1>1. HonestInv => QueryHonest
  BY DEF HonestInv, AnswersHonest, QueryHonest
<1>2. ~ProbeFails
  OBVIOUS
<1>3. HonestInv /\ [Next]_vars => HonestInv'
  BY <1>2, HonestNext
<1> QED
  BY <1>1, <1>3, HonestInit, PTL DEF Spec
-----------------------------------------------------------------------------
(* The atomic index.  A step moves the record to the next generation, or it *)
(* leaves the record and what was stored under known names alone, and can   *)
(* at most delete.                                                          *)

StorageKept ==
    /\ \A o \in 1..made : body'[o] = body[o]
    /\ \A o \in 1..made : o \in present' => o \in present

LEMMA ValueKept ==
    ASSUME Base, UNCHANGED rec, StorageKept
    PROVE  /\ Value' = Value /\ (Lost => Lost')
           /\ \A v : Follows(v) => Follows(v)'
<1>1. rec.obj \in 0..made /\ made \in Nat /\ present \subseteq 1..made
  BY BaseFacts DEF StoreTyped
<1>2. Value' = Value
  BY <1>1 DEF Value, StorageKept
<1>3. Lost => Lost'
  BY <1>1 DEF Lost, StorageKept
<1> QED
  BY <1>2, <1>3 DEF Follows

\* The writers and requests that do not move.
LEMMA FollowersKept ==
    ASSUME AtomicInv, UNCHANGED rec, StorageKept
    PROVE  /\ \A s \in Replicas : writer'[s] = writer[s] => WriterFollows(writer[s])'
           /\ \A q \in flight : q.gen <= rec'.gen
                                /\ (q.gen = rec'.gen => Follows(body[q.obj])')
<1>1. Base /\ made \in Nat
  BY BaseFacts DEF AtomicInv, HonestInv
<1>2. ASSUME NEW s \in Replicas, writer'[s] = writer[s] PROVE WriterFollows(writer[s])'
  <2>1. WriterFollows(writer[s])
    BY DEF AtomicInv
  <2>2. writer[s].pc = "publish" => writer[s].new \in 1..made
    BY <1>1, RequestType
  <2>3. writer[s].pc = "publish" => body'[writer[s].new] = body[writer[s].new]
    BY <2>2 DEF StorageKept
  <2> QED
    BY <1>1, <1>2, <2>1, <2>3, ValueKept DEF WriterFollows
<1>3. ASSUME NEW q \in flight
      PROVE  q.gen <= rec'.gen /\ (q.gen = rec'.gen => Follows(body[q.obj])')
  <2>1. q.obj \in 1..made
    BY <1>1, BaseFacts DEF StoreTyped
  <2>2. body'[q.obj] = body[q.obj]
    BY <2>1 DEF StorageKept
  <2> QED
    BY <1>1, <2>2, ValueKept DEF AtomicInv
<1> QED
  BY <1>2, <1>3

\* A step of one writer that does not publish.
LEMMA AtomicMove ==
    ASSUME AtomicInv, UNCHANGED rec, StorageKept, HonestInv',
           NEW r \in Replicas, NEW n \in WriterState, SetWriter(r, n), WriterFollows(n)',
           \/ flight' \subseteq flight
           \/ writer[r].pc = "publish" /\ flight' = flight \cup {Request(writer[r])}
    PROVE  AtomicInv'
<1>1. Base /\ writer'[r] = n /\ \A s \in Replicas \ {r} : writer'[s] = writer[s]
  BY Moved, BaseFacts DEF AtomicInv, HonestInv
<1>2. ASSUME NEW s \in Replicas PROVE WriterFollows(writer[s])'
  <2>1. CASE s = r
    BY <1>1, <2>1 DEF WriterFollows
  <2>2. CASE s # r
    BY <1>1, <2>2, FollowersKept
  <2> QED
    BY <2>1, <2>2
<1>3. ASSUME NEW q \in flight'
      PROVE  q.gen <= rec'.gen /\ (q.gen = rec'.gen => Follows(body[q.obj])')
  <2>1. CASE q \in flight
    BY <2>1, FollowersKept
  <2>2. CASE writer[r].pc = "publish" /\ q = Request(writer[r])
    <3>1. q.obj = writer[r].new /\ q.gen = writer[r].gen /\ q.obj \in 1..made
      BY <1>1, <2>2, RequestType
    <3>2. q.gen <= rec.gen /\ (q.gen = rec.gen => Follows(body[q.obj]))
      BY <2>2, <3>1 DEF AtomicInv, WriterFollows
    <3>3. body'[q.obj] = body[q.obj]
      BY <3>1 DEF StorageKept
    <3> QED
      BY <1>1, <3>2, <3>3, ValueKept
  <2> QED
    BY <1>3, <2>1, <2>2
<1> QED
  BY <1>2, <1>3 DEF AtomicInv

LEMMA AtomicEnd ==
    ASSUME AtomicInv, UNCHANGED rec, StorageKept, HonestInv', NEW r \in Replicas, EndWriter(r),
           \/ flight' \subseteq flight
           \/ writer[r].pc = "publish" /\ flight' = flight \cup {Request(writer[r])}
    PROVE  AtomicInv'
<1>1. WriterFollows(IdleWriter)'
  BY IdleWriterType DEF WriterFollows
<1> QED
  BY <1>1, IdleWriterType, AtomicMove DEF EndWriter

\* A new generation makes every other writer and request a late one.
LEMMA AtomicAdvance ==
    ASSUME AtomicInv, rec'.gen = rec.gen + 1, HonestInv', flight' \subseteq flight,
           \A r \in Replicas : \/ writer'[r] = writer[r]
                               \/ writer'[r].pc = "cleanup"
                               \/ writer'[r].pc = "reconcile" /\ writer'[r].gen = writer[r].gen
                                  /\ writer[r].pc = "publish"
    PROVE  AtomicInv'
<1>1. rec.gen \in Nat /\ Base
  BY BaseFacts DEF AtomicInv, HonestInv, StoreTyped
<1>2. ASSUME NEW r \in Replicas PROVE WriterFollows(writer[r])'
  <2>1. WriterFollows(writer[r]) /\ writer[r].gen \in Nat
    <3>1. writer[r] \in WriterState
      BY <1>1, BaseFacts
    <3> QED
      BY <3>1 DEF AtomicInv, WriterState
  <2> QED
    BY <1>1, <2>1 DEF WriterFollows
<1>3. ASSUME NEW q \in flight PROVE q.gen <= rec'.gen /\ q.gen # rec'.gen
  <2>1. q.gen \in Nat
    BY <1>1, BaseFacts DEF StoreTyped, Requests
  <2> QED
    BY <1>1, <2>1 DEF AtomicInv
<1> QED
  BY <1>2, <1>3 DEF AtomicInv

LEMMA AtomicReadRecord ==
    ASSUME AtomicInv, NEW r \in Replicas, ReadRecord(r), HonestInv'
    PROVE  AtomicInv'
<1>1. UNCHANGED <<rec, body, present, flight>>
  BY ReadRecordForm DEF AtomicInv, HonestInv
<1>2. PICK n \in WriterState :
        SetWriter(r, n) /\ n.pc = "load" /\ n.old = rec.obj /\ n.gen = rec.gen
  BY ReadRecordForm DEF AtomicInv, HonestInv
<1>3. WriterFollows(n)'
  BY <1>1, <1>2, BaseFacts DEF AtomicInv, HonestInv, StoreTyped, WriterFollows
<1> QED
  BY <1>1, <1>2, <1>3, AtomicMove DEF StorageKept

\* A load under the current generation yields the current contents, or nothing
\* when they are lost.
LEMMA LoadedValue ==
    ASSUME AtomicInv, NEW r \in Replicas, writer[r].pc = "load", writer[r].gen = rec.gen
    PROVE  LET v == Loaded(r, writer[r].old) IN v = Value \/ (Lost /\ v = Empty)
<1> DEFINE o == writer[r].old
<1>1. o = rec.obj
  BY DEF AtomicInv, WriterFollows
<1>2. o \in 0..made /\ present \subseteq 1..made /\ made \in Nat
  BY BaseFacts DEF AtomicInv, HonestInv, WriterNamed, StoreTyped
<1>3. CASE Readable(r, o)
  BY <1>1, <1>2, <1>3, LoadedHonest DEF AtomicInv, Value
<1>4. CASE ~Readable(r, o)
  <2>1. Loaded(r, o) = Empty /\ o \notin present
    BY <1>4 DEF Readable, Loaded
  <2> QED
    BY <1>1, <2>1 DEF Value, Lost
<1> QED
  BY <1>3, <1>4

LEMMA AtomicLoad ==
    ASSUME AtomicInv, NEW r \in Replicas, Load(r), HonestInv'
    PROVE  AtomicInv'
<1> DEFINE w == writer[r]
           v == Loaded(r, w.old)
           e == Edited(w.op, v)
<1>1. /\ w.pc = "load" /\ w.op \in Ops /\ UNCHANGED <<rec, body, present, made, flight>>
      /\ w.gen <= rec.gen
  BY LoadForm DEF AtomicInv, HonestInv, WriterFollows
<1>2. StorageKept
  BY <1>1 DEF StorageKept
<1>3. CASE EndWriter(r)
  BY <1>1, <1>2, <1>3, AtomicEnd
<1>4. ASSUME NEW n \in WriterState, SetWriter(r, n), Keeps(n, w), n.val = e,
             n.pc = IF w.op.kind = "page" THEN "probe" ELSE "save"
      PROVE  AtomicInv'
  <2>1. n.gen = w.gen /\ n.op = w.op
    BY <1>4 DEF Keeps
  <2>2. CASE w.op.kind = "page"
    <3>1. e = Empty
      BY <2>2, PageApply DEF Edited
    <3>2. WriterFollows(n)'
      BY <1>1, <1>4, <2>1, <2>2, <3>1 DEF WriterFollows
    <3> QED
      BY <1>1, <1>2, <1>4, <3>2, AtomicMove
  <2>3. CASE w.op.kind # "page"
    <3>1. e = Apply(w.op, v)
      BY <2>3 DEF Edited
    <3>2. w.gen = rec.gen => v = Value \/ (Lost /\ v = Empty)
      BY <1>1, LoadedValue
    <3> HIDE DEF v
    <3>3. w.gen = rec.gen => Follows(e)
      BY <1>1, <3>1, <3>2 DEF Follows
    <3>4. w.gen = rec.gen => Follows(n.val)'
      BY <1>1, <1>2, <1>4, <3>3, ValueKept DEF AtomicInv, HonestInv
    <3>5. WriterFollows(n)'
      BY <1>1, <1>4, <2>1, <2>3, <3>4 DEF WriterFollows
    <3> QED
      BY <1>1, <1>2, <1>4, <3>5, AtomicMove
  <2> QED
    BY <2>2, <2>3
<1> QED
  BY <1>3, <1>4, LoadForm DEF AtomicInv, HonestInv

LEMMA AtomicProbe ==
    ASSUME AtomicInv, NEW r \in Replicas, Probe(r), HonestInv'
    PROVE  AtomicInv'
<1> DEFINE w == writer[r]
<1>1. /\ w.pc = "probe" /\ w.op \in Ops /\ UNCHANGED <<rec, body, present, made, flight>>
      /\ w.gen <= rec.gen /\ w.op.kind = "page" /\ w.val = Empty
  BY ProbeForm DEF AtomicInv, HonestInv, WriterFollows
<1>2. StorageKept
  BY <1>1 DEF StorageKept
<1>3. CASE EndWriter(r)
  BY <1>1, <1>2, <1>3, AtomicEnd
<1>4. ASSUME NEW n \in WriterState, SetWriter(r, n), Keeps(n, w), n.pc = "save",
             n.val = Apply(w.op, w.val)
      PROVE  AtomicInv'
  <2>1. n.val = Apply(w.op, Value)
    BY <1>1, <1>4, PageApply
  <2>2. Follows(n.val)
    BY <1>1, <2>1 DEF Follows
  <2>3. Follows(n.val)'
    BY <1>1, <1>2, <2>2, ValueKept DEF AtomicInv, HonestInv
  <2>4. WriterFollows(n)'
    BY <1>1, <1>4, <2>3 DEF WriterFollows, Keeps
  <2> QED
    BY <1>1, <1>2, <1>4, <2>4, AtomicMove
<1> QED
  BY <1>3, <1>4, ProbeForm DEF AtomicInv, HonestInv

LEMMA AtomicSave ==
    ASSUME AtomicInv, NEW r \in Replicas, Save(r), HonestInv'
    PROVE  AtomicInv'
<1> DEFINE w == writer[r]
           o == made + 1
<1>1. /\ w.pc = "save" /\ UNCHANGED <<rec, flight>> /\ o \in Objects
      /\ body' = [body EXCEPT ![o] = w.val] /\ present' \subseteq present \cup {o}
      /\ w.gen <= rec.gen /\ (w.gen = rec.gen => Follows(w.val))
  BY SaveForm DEF AtomicInv, HonestInv, WriterFollows
<1>2. Base /\ made \in Nat /\ body'[o] = w.val
  BY <1>1, BaseFacts DEF AtomicInv, HonestInv, StoreTyped
<1>3. StorageKept
  BY <1>1, <1>2, BodyKept DEF StorageKept
<1>4. CASE EndWriter(r)
  BY <1>1, <1>3, <1>4, AtomicEnd
<1>5. ASSUME NEW n \in WriterState, SetWriter(r, n), Keeps(n, w), n.new = o, n.pc = "publish"
      PROVE  AtomicInv'
  <2> HIDE DEF o
  <2>0. PICK v : v = w.val
    OBVIOUS
  <2>1. w.gen = rec.gen => Follows(v)'
    BY <1>1, <1>2, <1>3, <2>0, ValueKept
  <2>2. body'[n.new] = v
    BY <1>2, <1>5, <2>0
  <2>3. WriterFollows(n)'
    BY <1>1, <1>5, <2>1, <2>2 DEF WriterFollows, Keeps
  <2> QED
    BY <1>1, <1>3, <1>5, <2>3, AtomicMove
<1> QED
  BY <1>4, <1>5, SaveForm DEF AtomicInv, HonestInv

\* A publication, by its writer or by a request that its writer gave up on.
LEMMA AtomicPublishOK ==
    ASSUME AtomicInv, NEW r \in Replicas, PublishOK(r), HonestInv'
    PROVE  AtomicInv'
<1> DEFINE n == Discard(writer[r], writer[r].old, FALSE)
<1>1. /\ writer[r].pc = "publish" /\ SetWriter(r, n) /\ flight' = flight
      /\ rec'.gen = rec.gen + 1
  BY DEF PublishOK, Commit
<1>2. writer[r] \in WriterState
  BY BaseFacts DEF AtomicInv, HonestInv
<1>3. writer[r].old \in 0..MaxObjects /\ FALSE \in BOOLEAN
  BY <1>2 DEF WriterState
<1>4. n \in WriterState /\ n.pc = "cleanup"
  BY <1>2, <1>3, DiscardType
<1> HIDE DEF n
<1>5. writer'[r].pc = "cleanup" /\ \A s \in Replicas \ {r} : writer'[s] = writer[s]
  BY <1>1, <1>4, Moved, BaseFacts DEF AtomicInv, HonestInv
<1> QED
  BY <1>1, <1>5, AtomicAdvance

LEMMA AtomicPublishUnknown ==
    ASSUME AtomicInv, NEW r \in Replicas, PublishUnknown(r), HonestInv'
    PROVE  AtomicInv'
<1> DEFINE w == writer[r]
<1>1. /\ w.pc = "publish" /\ UNCHANGED <<body, present, made>>
      /\ \/ Commit(Request(w)) /\ UNCHANGED flight
         \/ UNCHANGED rec /\ (flight' = flight \/ flight' = flight \cup {Request(w)})
  BY PublishUnknownForm DEF AtomicInv, HonestInv
<1>2. PICK n \in WriterState : SetWriter(r, n) /\ Keeps(n, w) /\ n.pc = "reconcile"
  BY PublishUnknownForm DEF AtomicInv, HonestInv
<1>3. writer'[r] = n /\ \A s \in Replicas \ {r} : writer'[s] = writer[s]
  BY <1>2, Moved, BaseFacts DEF AtomicInv, HonestInv
<1>4. n.gen = w.gen /\ w.gen <= rec.gen
  BY <1>1, <1>2 DEF AtomicInv, WriterFollows, Keeps
<1>5. CASE Commit(Request(w)) /\ UNCHANGED flight
  BY <1>1, <1>2, <1>3, <1>4, <1>5, AtomicAdvance DEF Commit
<1>6. CASE UNCHANGED rec /\ (flight' = flight \/ flight' = flight \cup {Request(w)})
  <2>1. WriterFollows(n)'
    BY <1>2, <1>4, <1>6 DEF WriterFollows
  <2>2. StorageKept
    BY <1>1 DEF StorageKept
  <2> QED
    BY <1>1, <1>2, <1>6, <2>1, <2>2, AtomicMove
<1> QED
  BY <1>1, <1>5, <1>6

LEMMA AtomicDeliver ==
    ASSUME AtomicInv, NEW q \in flight, Deliver(q), HonestInv'
    PROVE  AtomicInv'
<1>1. flight' \subseteq flight
  BY DEF Deliver
<1>2. UNCHANGED <<body, present, made, writer>>
  BY DEF Deliver
<1>3. CASE Commit(q)
  BY <1>1, <1>2, <1>3, AtomicAdvance DEF Commit
<1>4. CASE UNCHANGED rec
  <2>1. StorageKept
    BY <1>2 DEF StorageKept
  <2> QED
    BY <1>1, <1>2, <1>4, <2>1, FollowersKept DEF AtomicInv
<1> QED
  BY <1>3, <1>4 DEF Deliver

\* A writer that ends or starts over, with or without a deletion.
LEMMA AtomicDiscard ==
    ASSUME AtomicInv, NEW r \in Replicas, HonestInv',
           PublishConflict(r) \/ Reconcile(r) \/ Cleanup(r) \/ GiveUp(r)
    PROVE  AtomicInv'
<1> DEFINE w == writer[r]
<1>1. UNCHANGED <<rec, body, made, flight>> /\ present' \subseteq present
  BY DEF PublishConflict, Reconcile, Cleanup, GiveUp
<1>2. StorageKept
  BY <1>1 DEF StorageKept
<1>3. ASSUME NEW n \in WriterState, n.pc \in {"cleanup", "read"}, SetWriter(r, n)
      PROVE  AtomicInv'
  <2>1. WriterFollows(n)'
    BY <1>3 DEF WriterFollows
  <2> QED
    BY <1>1, <1>2, <1>3, <2>1, AtomicMove
<1>4. w \in WriterState /\ w.old \in 0..MaxObjects /\ w.new \in 0..MaxObjects
  <2>1. w \in WriterState
    BY BaseFacts DEF AtomicInv, HonestInv
  <2> QED
    BY <2>1 DEF WriterState
<1>5. ASSUME NEW o \in {w.old, w.new}, NEW again \in BOOLEAN, SetWriter(r, Discard(w, o, again))
      PROVE  AtomicInv'
  <2>1. Discard(w, o, again) \in WriterState /\ Discard(w, o, again).pc = "cleanup"
    BY <1>4, <1>5, DiscardType
  <2> DEFINE n == Discard(w, o, again)
  <2> HIDE DEF n
  <2> QED
    BY <1>3, <1>5, <2>1 DEF n
<1>6. CASE EndWriter(r)
  BY <1>1, <1>2, <1>6, AtomicEnd
<1>7. CASE PublishConflict(r)
  <2>1. Again(w.att) \in BOOLEAN
    BY DEF Again
  <2> QED
    BY <1>5, <1>7, <2>1 DEF PublishConflict
<1>8. CASE Reconcile(r)
  BY <1>5, <1>6, <1>8 DEF Reconcile
<1>9. CASE Cleanup(r)
  BY <1>3, <1>6, <1>9, CleanupForm DEF AtomicInv, HonestInv
<1> QED
  BY <1>6, <1>7, <1>8, <1>9 DEF GiveUp

LEMMA AtomicNext ==
    ASSUME AtomicInv, ~ProbeFails, [Next]_vars
    PROVE  AtomicInv'
<1>1. HonestInv'
  BY HonestNext DEF AtomicInv
<1>2. ASSUME NEW r \in Replicas, NEW op \in Ops, Start(r, op) PROVE AtomicInv'
  <2>1. UNCHANGED <<rec, body, present, made, flight>>
    BY <1>2 DEF Start
  <2>2. PICK n \in WriterState : SetWriter(r, n) /\ n.pc = "read"
    BY <1>2, StartForm
  <2>3. WriterFollows(n)'
    BY <2>2 DEF WriterFollows
  <2> QED
    BY <1>1, <2>1, <2>2, <2>3, AtomicMove DEF StorageKept
<1>3. ASSUME NEW r \in Replicas, Crash(r) PROVE AtomicInv'
  <2>1. UNCHANGED <<rec, body, present, made>> /\ EndWriter(r)
    BY <1>3 DEF Crash
  <2>2. \/ flight' \subseteq flight
        \/ writer[r].pc = "publish" /\ flight' = flight \cup {Request(writer[r])}
    BY <1>3 DEF Crash
  <2> QED
    BY <1>1, <2>1, <2>2, AtomicEnd DEF StorageKept
<1>4. ASSUME NEW r \in Replicas, WriterStep(r) PROVE AtomicInv'
  BY <1>1, <1>4, AtomicReadRecord, AtomicLoad, AtomicProbe, AtomicSave, AtomicPublishOK,
     AtomicPublishUnknown, AtomicDiscard DEF WriterStep
<1>5. ASSUME UNCHANGED <<rec, body, made, flight, writer>>, present' \subseteq present
      PROVE  AtomicInv'
  <2>1. StorageKept
    BY <1>5 DEF StorageKept
  <2> QED
    BY <1>1, <1>5, <2>1, FollowersKept DEF AtomicInv
<1>6. ASSUME NEW r \in Replicas, Evict(r) PROVE AtomicInv'
  BY <1>5, <1>6 DEF Evict
<1>7. ASSUME NEW d \in Readers, ReaderStep(d) PROVE AtomicInv'
  BY <1>5, <1>7 DEF ReaderStep, QueryRead, QueryAnswer
<1>8. CASE RegisterRead \/ \E r \in Replicas : RegisterReset(r)
  BY <1>5, <1>8 DEF RegisterRead, RegisterReset
<1>9. CASE RegisterFence
  BY <1>1, <1>9, AtomicAdvance DEF RegisterFence
<1>10. CASE UNCHANGED vars
  BY <1>5, <1>10 DEF vars
<1> QED
  BY <1>1, <1>2, <1>3, <1>4, <1>6, <1>7, <1>8, <1>9, <1>10, AtomicDeliver DEF Next

LEMMA AtomicInit ==
    ASSUME Init
    PROVE  AtomicInv
BY HonestInit, IdleWriterType DEF Init, AtomicInv, WriterFollows
-----------------------------------------------------------------------------
(* The refinement: what each step is for the atomic index.                  *)

LEMMA AtomicTerms ==
    /\ Atomic!Ops = Ops /\ Atomic!Empty = Empty
    /\ \A op, v : Atomic!Apply(op, v) = Apply(op, v)
BY DEF Atomic!Ops, Ops, Atomic!Empty, Empty, Atomic!Apply, Apply, Atomic!Cleared, Cleared

\* The actions of the atomic index, in terms of this module.
LEMMA AtomicActions ==
    /\ Atomic!Lose <=> ~Lost /\ Lost' = TRUE /\ Value' = Value
    /\ Atomic!Reset <=> Value' = Empty /\ Lost' = FALSE
    /\ \A op : Atomic!Update(op) <=> Value' = Apply(op, Value) /\ Lost' \in BOOLEAN
    /\ \A op : Atomic!StartOver(op) <=>
                  Lost /\ Value' = Apply(op, Empty) /\ Lost' \in BOOLEAN
BY AtomicTerms DEF Value, Lost, Atomic!Lose, Atomic!Reset, Atomic!Update, Atomic!StartOver

\* A publication is one request, applied to the version before it or, if that
\* is lost, to an empty index.
LEMMA CommitRefines ==
    ASSUME Base, NEW q \in Requests, q.obj \in 1..made, Commit(q), Follows(body[q.obj]),
           UNCHANGED body
    PROVE  Atomic!Next
<1>1. Value' = body[q.obj]
  BY BaseFacts DEF Commit, Value
<1>2. Lost' \in BOOLEAN
  BY DEF Lost
<1>3. PICK op \in Ops : body[q.obj] = Apply(op, Value)
                        \/ (Lost /\ body[q.obj] = Apply(op, Empty))
  BY DEF Follows
<1>4. Atomic!Update(op) \/ Atomic!StartOver(op)
  BY <1>1, <1>2, <1>3, AtomicActions
<1> QED
  BY <1>4, AtomicTerms DEF Atomic!Next

\* A step that does not move the record can only lose the index.
LEMMA KeptRefines ==
    ASSUME Base, UNCHANGED rec, StorageKept
    PROVE  Atomic!Next \/ UNCHANGED <<Value, Lost>>
<1>1. Value' = Value /\ (Lost => Lost')
  BY ValueKept
<1>2. Lost \in BOOLEAN /\ Lost' \in BOOLEAN
  BY DEF Lost
<1>3. CASE Lost' = Lost
  BY <1>1, <1>3
<1>4. CASE ~Lost /\ Lost' = TRUE
  BY <1>1, <1>4, AtomicActions DEF Atomic!Next
<1>5. Lost' = Lost \/ (~Lost /\ Lost' = TRUE)
  BY <1>1, <1>2, Zenon
<1> QED
  BY <1>3, <1>4, <1>5

LEMMA StepRefines ==
    ASSUME AtomicInv, [Next]_vars
    PROVE  Atomic!Next \/ UNCHANGED <<Value, Lost>>
<1>1. Base
  BY DEF AtomicInv, HonestInv
<1>2. ASSUME UNCHANGED <<rec, body>>, present' \subseteq present
      PROVE  Atomic!Next \/ UNCHANGED <<Value, Lost>>
  BY <1>1, <1>2, KeptRefines DEF StorageKept
<1>3. ASSUME NEW r \in Replicas, Save(r)
      PROVE  Atomic!Next \/ UNCHANGED <<Value, Lost>>
  <2>1. StorageKept /\ UNCHANGED rec
    BY <1>1, <1>3, SaveForm, BodyKept, BaseFacts DEF StorageKept
  <2> QED
    BY <1>1, <2>1, KeptRefines
<1>4. ASSUME NEW r \in Replicas, writer[r].pc = "publish", Accepted(Request(writer[r])),
             Commit(Request(writer[r])), UNCHANGED body
      PROVE  Atomic!Next
  <2>1. /\ Request(writer[r]) \in Requests /\ Request(writer[r]).obj \in 1..made
        /\ Request(writer[r]).gen = writer[r].gen
        /\ Request(writer[r]).obj = writer[r].new
    BY <1>1, <1>4, RequestType
  <2>2. Follows(body[Request(writer[r]).obj])
    BY <1>4, <2>1 DEF Accepted, AtomicInv, WriterFollows
  <2> QED
    BY <1>1, <1>4, <2>1, <2>2, CommitRefines
<1>5. ASSUME NEW r \in Replicas, WriterStep(r)
      PROVE  Atomic!Next \/ UNCHANGED <<Value, Lost>>
  <2>1. CASE ReadRecord(r) \/ Load(r) \/ Probe(r) \/ PublishConflict(r) \/ Reconcile(r)
             \/ Cleanup(r) \/ GiveUp(r)
    BY <1>2, <2>1 DEF ReadRecord, Load, Probe, PublishConflict, Reconcile, Cleanup, GiveUp
  <2>2. CASE PublishOK(r)
    BY <1>4, <2>2 DEF PublishOK
  <2>3. CASE PublishUnknown(r)
    BY <1>1, <1>2, <1>4, <2>3, PublishUnknownForm
  <2> QED
    BY <1>3, <1>5, <2>1, <2>2, <2>3 DEF WriterStep
<1>6. ASSUME NEW q \in flight, Deliver(q)
      PROVE  Atomic!Next \/ UNCHANGED <<Value, Lost>>
  <2>1. q \in Requests /\ q.obj \in 1..made
    BY <1>1, BaseFacts DEF StoreTyped
  <2>2. CASE Accepted(q)
    <3>1. Commit(q) /\ UNCHANGED body
      BY <1>6, <2>2 DEF Deliver
    <3>2. Follows(body[q.obj])
      BY <2>2 DEF Accepted, AtomicInv
    <3> QED
      BY <1>1, <2>1, <3>1, <3>2, CommitRefines
  <2>3. CASE ~Accepted(q)
    BY <1>2, <1>6, <2>3 DEF Deliver
  <2> QED
    BY <2>2, <2>3
<1>7. CASE RegisterFence
  <2>1. Value' = Empty /\ Lost' = FALSE
    BY <1>7 DEF RegisterFence, Value, Lost
  <2> QED
    BY <2>1, AtomicActions DEF Atomic!Next
<1>8. CASE RegisterRead \/ \E r \in Replicas : RegisterReset(r) \/ Evict(r) \/ Crash(r)
  BY <1>2, <1>8 DEF RegisterRead, RegisterReset, Evict, Crash
<1>9. ASSUME NEW d \in Readers, ReaderStep(d)
      PROVE  Atomic!Next \/ UNCHANGED <<Value, Lost>>
  BY <1>2, <1>9 DEF ReaderStep, QueryRead, QueryAnswer
<1>10. ASSUME NEW r \in Replicas, NEW op \in Ops, Start(r, op)
       PROVE  Atomic!Next \/ UNCHANGED <<Value, Lost>>
  BY <1>2, <1>10 DEF Start
<1>11. CASE UNCHANGED vars
  BY <1>2, <1>11 DEF vars
<1> QED
  BY <1>5, <1>6, <1>7, <1>8, <1>9, <1>10, <1>11 DEF Next

LEMMA InitRefines ==
    ASSUME Init
    PROVE  Atomic!Init
BY AtomicTerms DEF Init, Atomic!Init

\* Between all replicas, with conflicts, retries, lost answers, publish requests
\* that arrive late and objects deleted under a loader, every publication is one
\* request applied to the version before it, or to an empty index when the
\* object of that version is gone (publishSearchIndex and its callers), provided
\* that no page of a rebuild gives up between its edits and its write.
THEOREM PublicationAtomic ==
    ASSUME ~ProbeFails
    PROVE  Spec => AtomicSpec
<1>1. ~ProbeFails
  OBVIOUS
<1>2. AtomicInv /\ [Next]_vars => AtomicInv'
  BY <1>1, AtomicNext
<1>3. AtomicInv /\ [Next]_vars =>
        [Atomic!Next]_<<IF rec.obj = 0 THEN Empty ELSE body[rec.obj],
                        rec.obj \notin present \cup {0}>>
  BY StepRefines DEF Value, Lost
<1> QED
  BY <1>2, <1>3, AtomicInit, InitRefines, PTL DEF Spec, AtomicSpec, Atomic!Spec
=============================================================================
