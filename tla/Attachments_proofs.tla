------------------------- MODULE Attachments_proofs -------------------------
(***************************************************************************)
(* Attachments, for any number of attachments, purge workers, requests and *)
(* faults: proofs of the type invariant, that no object is forgotten, and  *)
(* that what a chat references can be read.                                *)
(***************************************************************************)
EXTENDS Attachments, TLAPS

-----------------------------------------------------------------------------
(* The inductive invariant.  Uploads and unleased deletes of the same id are
   kept apart by time (RacingUploads is FALSE). *)

Old(id) == Home(id) = "source" /\ id[2] \in Olds

\* A legacy row is the only trace of its attachment, but for the object of a
\* promotion under way.
LegacyKept ==
    \A id \in Ids :
      /\ promo[id] # "idle" => id \in legacy
      /\ promo[id] = "register" => id \in obj
      /\ id \in legacy => /\ Old(id)
                          /\ id \notin index \cup ledger \cup doomed \cup drop
                          /\ queue[id] = "none"

\* An upload under way is guarded by its ledger row, and nothing deletes its object.
UploadsKept ==
    /\ \A id \in Ids : up[id].pc # "idle" =>
         /\ id \in ledger /\ queue[id] = "none" /\ id \notin doomed \cup drop
         /\ up[id].pc = "register" => id \in obj
         /\ Home(id) = "source" => id[2] \in Images
         /\ Home(id) = "target" => fork.pc = "copy" /\ id \in fork.todo
    /\ \A id, other \in Ids :
         /\ Home(id) = "target" /\ up[id].pc # "idle"
         /\ Home(other) = "target" /\ up[other].pc # "idle"
         => id = other

\* What a fork has made and is still indexed can be read, and nothing deletes it.
ForkKept ==
    /\ \A id \in fork.todo \cup fork.made : Home(id) = "target"
    /\ fork.todo \cap fork.made = {}
    /\ fork.pc = "copy" => \A id \in fork.made :
         /\ id \notin ledger
         /\ id \in index => id \in obj \ doomed

\* A purge worker deletes only under its lease, and acknowledges what it deleted.
PurgesKept ==
    \A w \in Workers :
      /\ purger[w].pc = "idle" => purger[w].acks = {}
      /\ \A id \in Ids :
           /\ purger[w].pc = "delete" /\ id \in purger[w].todo => queue[id] = w
           /\ id \in purger[w].acks /\ queue[id] = w => id \notin obj

\* What a client has had confirmed and is still indexed can be read, and nothing
\* deletes it.
ConfirmedKept ==
    /\ \A id \in Ids : Home(id) = "source" /\ id \in got \cap index =>
         id \in obj \ (doomed \cup ledger)
    /\ \A id \in drop : Home(id) = "source" /\ id \notin index /\ id \in user

\* The source chat references what its client has had confirmed.
SourceKept ==
    \A id \in chat["source"].refs :
       id \in got /\ id \in index \cup legacy \cup user

ChatsKept == \A c \in Chats : ~chat[c].present => chat[c].refs = {}

\* Each object is known to somebody.
ObjectsKept ==
    \A id \in obj : \/ id \in index \cup ledger \cup legacy \cup leaked \cup doomed \cup drop
                    \/ queue[id] # "none"

FileInv == /\ TypeOK /\ LegacyKept /\ UploadsKept /\ ForkKept /\ PurgesKept
           /\ ConfirmedKept /\ SourceKept /\ ChatsKept /\ ObjectsKept

\* The chat a committed fork made references what the fork made; a fork that
\* cleans up, or may come to, was never committed (ReplayRefused is FALSE).
TargetKept ==
    /\ ~forked => chat["target"].refs = {}
    /\ fork.pc = "clean" => ~forked
    /\ \A id \in Ids : Home(id) = "target" /\ up[id].pc = "rollback" => ~forked
    /\ \A id \in chat["target"].refs :
         /\ id \in index \cap obj /\ id \notin doomed
         /\ id \in ledger => up[id].pc # "idle"
-----------------------------------------------------------------------------
\* A step of FileInv, part by part.
Typed ==
    /\ obj \subseteq Ids /\ leaked \subseteq Ids
    /\ index \subseteq Ids /\ legacy \subseteq Ids /\ ledger \subseteq Ids
    /\ queue \in [Ids -> {"none", "free"} \cup Workers]
    /\ chat \in [Chats -> [present : BOOLEAN, refs : SUBSET Ids]]
    /\ up \in [Ids -> [pc : {"idle", "put", "register", "rollback"}, own : BOOLEAN]]
    /\ fork \in [pc : {"idle", "copy", "clean"}, todo : SUBSET Ids, made : SUBSET Ids]
    /\ forked \in BOOLEAN
    /\ promo \in [Ids -> {"idle", "put", "register"}]
    /\ drop \subseteq Ids /\ doomed \subseteq Ids
    /\ purger \in [Workers -> [pc : {"idle", "delete", "ack"}, todo : SUBSET Ids,
                               acks : SUBSET Ids]]
    /\ got \subseteq Ids /\ user \subseteq Ids

UsedTyped == used \in [upload : Nat, fork : Nat, push : Nat, drop : Nat, fault : Nat]

HomeRefs == \A c \in Chats : \A id \in chat[c].refs : Home(id) = c
IndexedOnly == \A id \in index : queue[id] = "none"

LEMMA Typing ==
  TypeOK <=> Typed /\ UsedTyped /\ HomeRefs /\ IndexedOnly
  BY DEF TypeOK, Typed, UsedTyped, HomeRefs, IndexedOnly

LEMMA IdFacts ==
  ASSUME NEW id \in Ids
  PROVE  /\ Home(id) \in {"source", "target"}
         /\ CopyOf(id) \in Ids /\ Home(CopyOf(id)) = "target"
         /\ id[2] \in Images => ~Old(id)
  BY AttachmentConstants DEF Ids, Chats, Home, CopyOf, Old

LEMMA Spends ==
  ASSUME UsedTyped, used' = used \/ Fault
         \/ Spend("upload", MaxUploads) \/ Spend("fork", MaxForks)
         \/ Spend("push", MaxPushes) \/ Spend("drop", MaxDrops)
  PROVE  UsedTyped'
  BY DEF UsedTyped, Fault, Spend

-----------------------------------------------------------------------------
LEMMA Parts ==
  ASSUME FileInv
  PROVE  /\ Typed /\ UsedTyped /\ HomeRefs /\ IndexedOnly /\ LegacyKept /\ UploadsKept
         /\ ForkKept /\ PurgesKept /\ ConfirmedKept /\ SourceKept /\ ChatsKept /\ ObjectsKept
  BY Typing DEF FileInv

LEMMA Whole ==
  ASSUME Typed', UsedTyped', HomeRefs', IndexedOnly', LegacyKept', UploadsKept', ForkKept',
         PurgesKept', ConfirmedKept', SourceKept', ChatsKept', ObjectsKept'
  PROVE  FileInv'
<1>1. TypeOK'
  BY DEF TypeOK, Typed, UsedTyped, HomeRefs, IndexedOnly
<1> QED
  BY <1>1 DEF FileInv

LEMMA WorkerFacts ==
  ASSUME NEW w \in Workers PROVE w # "none" /\ w # "free"
  BY AttachmentConstants

\* The ways a request of an upload ends.
UpTyped == up \in [Ids -> [pc : {"idle", "put", "register", "rollback"}, own : BOOLEAN]]
ForkTyped == fork \in [pc : {"idle", "copy", "clean"}, todo : SUBSET Ids, made : SUBSET Ids]

UpGoes(id, pc) ==
    UpTyped' /\ up'[id].pc = pc /\ \A i \in Ids : i # id => up'[i] = up[i]

Failed(id) ==
    /\ UpGoes(id, "idle")
    /\ got' = got /\ user' = user
    /\ ForkTyped' /\ fork'.todo = fork.todo /\ fork'.made = fork.made
    /\ Home(id) = "source" => fork'.pc = fork.pc
    /\ Home(id) = "target" => fork'.pc = "clean"

Succeeded(id) ==
    /\ UpGoes(id, "idle")
    /\ got' = got \cup {id} /\ user' = user \ {id}
    /\ ForkTyped' /\ fork'.pc = fork.pc
    /\ Home(id) = "source" => fork'.todo = fork.todo /\ fork'.made = fork.made
    /\ Home(id) = "target" => /\ fork'.todo = fork.todo \ {id}
                              /\ fork'.made = fork.made \cup {id}

LEMMA SetUpGoes ==
  ASSUME Typed, NEW id \in Ids, NEW pc \in {"idle", "put", "register", "rollback"},
         NEW own \in BOOLEAN, SetUp(id, pc, own)
  PROVE  UpGoes(id, pc)
<1>1. up' = [up EXCEPT ![id] = [pc |-> pc, own |-> own]] /\ UpTyped
  BY DEF SetUp, Typed, UpTyped
<1> QED
  BY <1>1 DEF UpGoes, UpTyped

LEMMA Finishes ==
  ASSUME FileInv, NEW id \in Ids, up[id].pc # "idle"
  PROVE  /\ Finish(id, FALSE) => Failed(id)
         /\ Finish(id, TRUE) => Succeeded(id)
<1>1. Typed /\ ForkTyped /\ Home(id) \in {"source", "target"}
      /\ (Home(id) = "target" => fork.pc = "copy")
  BY Parts, IdFacts DEF UploadsKept, Typed, ForkTyped
<1>2. ASSUME Finish(id, FALSE) PROVE Failed(id)
  <2>1. UpGoes(id, "idle")
    BY <1>1, <1>2, SetUpGoes DEF Finish
  <2>2. fork' = IF Home(id) = "source" THEN fork ELSE [fork EXCEPT !.pc = "clean"]
    BY <1>1, <1>2 DEF Finish
  <2> QED
    BY <1>1, <1>2, <2>1, <2>2 DEF Finish, Failed, ForkTyped
<1>3. ASSUME Finish(id, TRUE) PROVE Succeeded(id)
  <2>1. UpGoes(id, "idle")
    BY <1>1, <1>3, SetUpGoes DEF Finish
  <2>2. fork' = IF Home(id) = "source" THEN fork
                ELSE [fork EXCEPT !.todo = @ \ {id}, !.made = @ \cup {id}]
    BY <1>1, <1>3 DEF Finish
  <2>3. /\ ForkTyped' /\ fork'.pc = fork.pc
        /\ Home(id) = "source" => fork'.todo = fork.todo /\ fork'.made = fork.made
        /\ Home(id) = "target" => /\ fork'.todo = fork.todo \ {id}
                                  /\ fork'.made = fork.made \cup {id}
    BY <1>1, <2>2 DEF ForkTyped
  <2> QED
    BY <1>3, <2>1, <2>3 DEF Finish, Succeeded
<1> QED
  BY <1>2, <1>3

\* An upload ends; the guards of the others stay.
OthersKept(id) ==
    \A i \in Ids : i # id =>
      /\ i \in ledger => i \in ledger'
      /\ queue'[i] = queue[i]
      /\ i \in obj => i \in obj'

LEMMA UploadEnds ==
  ASSUME UploadsKept, NEW id \in Ids, up[id].pc # "idle", Failed(id) \/ Succeeded(id),
         OthersKept(id), UNCHANGED <<doomed, drop>>
  PROVE  UploadsKept'
<1>1. \A i \in Ids : up'[i].pc # "idle" => i # id /\ up'[i] = up[i]
  BY DEF Failed, Succeeded, UpGoes
<1>2. Home(id) = "target" => \A i \in Ids : up'[i].pc # "idle" => Home(i) # "target"
  BY <1>1 DEF UploadsKept
<1>3. Home(id) = "source" => fork'.pc = fork.pc /\ fork'.todo = fork.todo
  BY DEF Failed, Succeeded
<1>4. Home(id) \in {"source", "target"}
  BY IdFacts
<1> QED
  BY <1>1, <1>2, <1>3, <1>4 DEF UploadsKept, OthersKept

\* AttachmentPut: put, register, roll back.
LEMMA PutObjectStep ==
  ASSUME FileInv, ~RacingUploads, NEW id \in Ids, PutObject(id)
  PROVE  FileInv'
<1>1. /\ up[id].pc = "put" /\ leaked' = leaked \ {id}
      /\ UNCHANGED <<index, legacy, ledger, queue, chat, forked, promo, drop, doomed, purger>>
      /\ (used' = used \/ Fault)
      /\ obj' \in {obj, obj \cup {id}}
  BY DEF PutObject, Store, Sweepers
<1>2. \/ /\ obj' = obj \cup {id} /\ UpGoes(id, "register")
         /\ UNCHANGED <<fork, got, user>>
      \/ Failed(id)
  <2>1. CASE Finish(id, FALSE)
    BY <1>1, <2>1, Finishes
  <2>2. CASE ~Finish(id, FALSE)
    <3>1. /\ obj' = obj \cup {id} /\ SetUp(id, "register", up[id].own)
          /\ UNCHANGED <<fork, got, user>>
      BY <2>2 DEF PutObject
    <3>2. Typed /\ up[id].own \in BOOLEAN
      BY Parts DEF Typed
    <3> QED
      BY <3>1, <3>2, SetUpGoes
  <2> QED
    BY <2>1, <2>2
<1>3. id \in ledger /\ queue[id] = "none"
  BY <1>1, Parts DEF UploadsKept
<1>4. Typed'
  BY <1>1, <1>2, <1>3, Parts DEF Typed, Failed, UpGoes, UpTyped, ForkTyped, Succeeded
<1>5. UsedTyped'
  BY <1>1, <1>2, <1>3, Parts, Spends
<1>6. HomeRefs'
  BY <1>1, <1>2, <1>3, Parts, IdFacts DEF HomeRefs
<1>7. IndexedOnly'
  BY <1>1, <1>2, <1>3, Parts, IdFacts DEF IndexedOnly
<1>8. LegacyKept'
  BY <1>1, <1>2, <1>3, Parts, IdFacts DEF LegacyKept
<1>9. UploadsKept'
  <2>1. CASE Failed(id) \/ Succeeded(id)
    BY <1>1, <1>2, <2>1, Parts, UploadEnds DEF OthersKept
  <2>2. CASE ~(Failed(id) \/ Succeeded(id))
    BY <1>1, <1>2, <1>3, <2>2, Parts DEF UploadsKept, UpGoes
  <2> QED
    BY <2>1, <2>2
<1>10. ForkKept'
  BY <1>1, <1>2, <1>3, Parts, IdFacts DEF ForkKept, Failed
<1>11. PurgesKept'
  BY <1>1, <1>2, <1>3, Parts, WorkerFacts DEF PurgesKept
<1>12. ConfirmedKept'
  BY <1>1, <1>2, <1>3, Parts DEF ConfirmedKept, Failed
<1>13. SourceKept'
  BY <1>1, <1>2, <1>3, Parts DEF SourceKept, Failed
<1>14. ChatsKept'
  BY <1>1, <1>2, <1>3, Parts, IdFacts DEF ChatsKept
<1>15. ObjectsKept'
  BY <1>1, <1>2, <1>3, Parts, IdFacts DEF ObjectsKept
<1> QED
  BY <1>4, <1>5, <1>6, <1>7, <1>8, <1>9, <1>10, <1>11, <1>12, <1>13, <1>14, <1>15, Whole

LEMMA RegisterStep ==
  ASSUME FileInv, ~RacingUploads, NEW id \in Ids, Register(id)
  PROVE  FileInv'
<1>1. /\ up[id].pc = "register" /\ queue' = queue /\ (used' = used \/ Fault)
      /\ UNCHANGED <<chat, forked, promo, drop, doomed, purger, obj, leaked>>
  BY DEF Register, Sweepers, Bucket, Indexed
<1>2. \/ /\ index' = index \cup {id} /\ ledger' = ledger \ {id} /\ legacy' = legacy \ {id}
         /\ Succeeded(id) \/ Failed(id)
      \/ /\ UNCHANGED <<index, ledger, legacy>>
         /\ \/ UpGoes(id, "rollback") /\ UNCHANGED <<fork, got, user>>
            \/ Failed(id)
  <2>1. \/ Indexed(id) /\ (Finish(id, TRUE) \/ Finish(id, FALSE))
        \/ SetUp(id, "rollback", FALSE) /\ UNCHANGED <<index, ledger, legacy, fork, got, user>>
        \/ Finish(id, FALSE) /\ UNCHANGED <<index, ledger, legacy>>
    BY DEF Register
  <2>2. (Finish(id, TRUE) => Succeeded(id)) /\ (Finish(id, FALSE) => Failed(id))
    BY <1>1, Finishes
  <2>3. SetUp(id, "rollback", FALSE) => UpGoes(id, "rollback")
    BY Parts, SetUpGoes
  <2> QED
    BY <2>1, <2>2, <2>3 DEF Indexed
<1>3. /\ id \in ledger /\ queue[id] = "none" /\ id \notin doomed \cup drop /\ id \in obj
      /\ id \notin legacy
      /\ Home(id) = "target" => fork.pc = "copy" /\ id \in fork.todo
  BY <1>1, Parts, IdFacts DEF UploadsKept, LegacyKept, Old
<1>4. Typed'
  BY <1>1, <1>2, <1>3, Parts DEF Typed, Failed, UpGoes, UpTyped, ForkTyped, Succeeded
<1>5. UsedTyped'
  BY <1>1, <1>2, <1>3, Parts, Spends
<1>6. HomeRefs'
  BY <1>1, <1>2, <1>3, Parts, IdFacts DEF HomeRefs
<1>7. IndexedOnly'
  BY <1>1, <1>2, <1>3, Parts, IdFacts DEF IndexedOnly
<1>8. LegacyKept'
  BY <1>1, <1>2, <1>3, Parts, IdFacts DEF LegacyKept
<1>9. UploadsKept'
  <2>1. CASE Failed(id) \/ Succeeded(id)
    BY <1>1, <1>2, <2>1, Parts, UploadEnds DEF OthersKept
  <2>2. CASE ~(Failed(id) \/ Succeeded(id))
    BY <1>1, <1>2, <1>3, <2>2, Parts DEF UploadsKept, UpGoes
  <2> QED
    BY <2>1, <2>2
<1>10. ForkKept'
  BY <1>1, <1>2, <1>3, Parts, IdFacts DEF ForkKept, Failed, Succeeded
<1>11. PurgesKept'
  BY <1>1, <1>2, <1>3, Parts, WorkerFacts DEF PurgesKept
<1>12. ConfirmedKept'
  BY <1>1, <1>2, <1>3, Parts DEF ConfirmedKept, Failed, Succeeded
<1>13. SourceKept'
  BY <1>1, <1>2, <1>3, Parts DEF SourceKept, Failed, Succeeded
<1>14. ChatsKept'
  BY <1>1, <1>2, <1>3, Parts, IdFacts DEF ChatsKept
<1>15. ObjectsKept'
  BY <1>1, <1>2, <1>3, Parts, IdFacts DEF ObjectsKept
<1> QED
  BY <1>4, <1>5, <1>6, <1>7, <1>8, <1>9, <1>10, <1>11, <1>12, <1>13, <1>14, <1>15, Whole

LEMMA RollbackStep ==
  ASSUME FileInv, ~RacingUploads, NEW id \in Ids, Rollback(id)
  PROVE  FileInv'
<1>1. /\ up[id].pc = "rollback" /\ obj' \in {obj, obj \ {id}} /\ (used' = used \/ Fault)
      /\ UNCHANGED <<index, legacy, ledger, queue, chat, forked, promo, drop, doomed, purger,
                     leaked>>
  BY DEF Rollback, Store, Sweepers
<1>2. Failed(id)
  BY <1>1, Finishes DEF Rollback
<1>3. id \in ledger /\ id \notin legacy
  BY <1>1, Parts, IdFacts DEF UploadsKept, LegacyKept, Old
<1>4. Typed'
  BY <1>1, <1>2, <1>3, Parts DEF Typed, Failed, UpGoes, UpTyped, ForkTyped, Succeeded
<1>5. UsedTyped'
  BY <1>1, <1>2, <1>3, Parts, Spends
<1>6. HomeRefs'
  BY <1>1, <1>2, <1>3, Parts, IdFacts DEF HomeRefs
<1>7. IndexedOnly'
  BY <1>1, <1>2, <1>3, Parts, IdFacts DEF IndexedOnly
<1>8. LegacyKept'
  BY <1>1, <1>2, <1>3, Parts, IdFacts DEF LegacyKept
<1>9. UploadsKept'
  <2>1. CASE Failed(id) \/ Succeeded(id)
    BY <1>1, <1>2, <2>1, Parts, UploadEnds DEF OthersKept
  <2>2. CASE ~(Failed(id) \/ Succeeded(id))
    BY <1>1, <1>2, <1>3, <2>2, Parts DEF UploadsKept, UpGoes
  <2> QED
    BY <2>1, <2>2
<1>10. ForkKept'
  BY <1>1, <1>2, <1>3, Parts, IdFacts DEF ForkKept, Failed
<1>11. PurgesKept'
  BY <1>1, <1>2, <1>3, Parts, IdFacts DEF PurgesKept
<1>12. ConfirmedKept'
  BY <1>1, <1>2, <1>3, Parts DEF ConfirmedKept, Failed
<1>13. SourceKept'
  BY <1>1, <1>2, <1>3, Parts DEF SourceKept, Failed
<1>14. ChatsKept'
  BY <1>1, <1>2, <1>3, Parts, IdFacts DEF ChatsKept
<1>15. ObjectsKept'
  BY <1>1, <1>2, <1>3, Parts, IdFacts DEF ObjectsKept
<1> QED
  BY <1>4, <1>5, <1>6, <1>7, <1>8, <1>9, <1>10, <1>11, <1>12, <1>13, <1>14, <1>15, Whole

LEMMA ReserveStep ==
  ASSUME FileInv, ~RacingUploads, NEW id \in Ids, Reserve(id), fork' = fork, UsedTyped',
         \/ Home(id) = "source" /\ id[2] \in Images /\ (id \notin got \/ id \notin index)
         \/ /\ Home(id) = "target" /\ fork.pc = "copy" /\ id \in fork.todo
            /\ \A other \in fork.todo : up[other].pc = "idle"
  PROVE  FileInv'
<1>1. /\ queue' = [queue EXCEPT ![id] = "none"] /\ ledger' = ledger \cup {id}
      /\ queue[id] \notin Workers /\ up[id].pc = "idle"
      /\ SetUp(id, "put", id \notin ledger)
      /\ UNCHANGED <<index, legacy, chat, forked, promo, drop, got, user, doomed, purger,
                     obj, leaked>>
  BY DEF Reserve, Dequeued, Guarded, Leased, Sweepers, Bucket
<1>2. UpGoes(id, "put")
  <2>1. (id \notin ledger) \in BOOLEAN
    OBVIOUS
  <2> QED
    BY <1>1, <2>1, Parts, SetUpGoes
<1>3. id \notin doomed \cup drop /\ id \notin legacy
  BY Parts, IdFacts DEF Reserve, MayUpload, Deleting, LegacyKept, Old
<1>4. Typed'
  BY <1>1, <1>2, <1>3, Parts DEF Typed, UpGoes, UpTyped
<1>5. UsedTyped'
  OBVIOUS
<1>6. HomeRefs'
  BY <1>1, <1>2, <1>3, Parts, IdFacts DEF HomeRefs
<1>7. IndexedOnly'
  BY <1>1, <1>2, <1>3, Parts DEF IndexedOnly, Typed
<1>8. LegacyKept'
  BY <1>1, <1>2, <1>3, Parts DEF LegacyKept, Typed
<1>9. UploadsKept'
  BY <1>1, <1>2, <1>3, Parts, IdFacts DEF UploadsKept, UpGoes, Typed
<1>10. ForkKept'
  BY <1>1, <1>2, <1>3, Parts, IdFacts DEF ForkKept
<1>11. PurgesKept'
  BY <1>1, <1>2, <1>3, Parts, WorkerFacts DEF PurgesKept, Typed
<1>12. ConfirmedKept'
  BY <1>1, <1>2, <1>3, Parts, IdFacts DEF ConfirmedKept
<1>13. SourceKept'
  BY <1>1, <1>2, <1>3, Parts, IdFacts DEF SourceKept
<1>14. ChatsKept'
  BY <1>1, <1>2, <1>3, Parts, IdFacts DEF ChatsKept
<1>15. ObjectsKept'
  BY <1>1, <1>2, <1>3, Parts DEF ObjectsKept, Typed
<1> QED
  BY <1>4, <1>5, <1>6, <1>7, <1>8, <1>9, <1>10, <1>11, <1>12, <1>13, <1>14, <1>15, Whole

LEMMA UploadStep ==
  ASSUME FileInv, ~RacingUploads, NEW id \in Ids, Upload(id)
  PROVE  FileInv'
<1>1. /\ Home(id) = "source" /\ id[2] \in Images /\ (id \notin got \/ id \notin index)
      /\ Reserve(id) /\ fork' = fork /\ Spend("upload", MaxUploads)
  BY DEF Upload
<1>2. UsedTyped'
  BY <1>1, Parts, Spends
<1> QED
  BY <1>1, <1>2, ReserveStep

LEMMA ForkCopyStep ==
  ASSUME FileInv, ~RacingUploads, NEW id \in Ids, ForkCopy(id)
  PROVE  FileInv'
<1>1. /\ fork.pc = "copy" /\ id \in fork.todo /\ Reserve(id) /\ fork' = fork /\ used' = used
      /\ \A other \in fork.todo : up[other].pc = "idle"
  BY DEF ForkCopy
<1>2. UsedTyped' /\ Home(id) = "target"
  BY <1>1, Parts, Spends DEF ForkKept
<1> QED
  BY <1>1, <1>2, ReserveStep

\* AttachmentDelete.
LEMMA DropStep ==
  ASSUME FileInv, ~RacingUploads, NEW id \in Ids, Drop(id)
  PROVE  FileInv'
<1>1. /\ Home(id) = "source" /\ id \in index /\ up[id].pc = "idle" /\ promo[id] = "idle"
      /\ Spend("drop", MaxDrops)
      /\ index' = index \ {id} /\ drop' = drop \cup {id} /\ user' = user \cup {id}
      /\ UNCHANGED <<legacy, ledger, queue, chat, forked, up, fork, promo, got, doomed, purger,
                     obj, leaked>>
  BY DEF Drop, MayDelete, Sweepers, Bucket
<1>2. Typed'
  BY <1>1, Parts, IdFacts DEF Typed
<1>3. UsedTyped'
  BY <1>1, Parts, Spends
<1>4. HomeRefs'
  BY <1>1, Parts, IdFacts DEF HomeRefs
<1>5. IndexedOnly'
  BY <1>1, Parts, IdFacts DEF IndexedOnly
<1>6. LegacyKept'
  BY <1>1, Parts, IdFacts DEF LegacyKept
<1>7. UploadsKept'
  BY <1>1, Parts, IdFacts DEF UploadsKept
<1>8. ForkKept'
  BY <1>1, Parts, IdFacts DEF ForkKept
<1>9. PurgesKept'
  BY <1>1, Parts, IdFacts DEF PurgesKept
<1>10. ConfirmedKept'
  BY <1>1, Parts, IdFacts DEF ConfirmedKept
<1>11. SourceKept'
  BY <1>1, Parts, IdFacts DEF SourceKept
<1>12. ChatsKept'
  BY <1>1, Parts, IdFacts DEF ChatsKept
<1>13. ObjectsKept'
  BY <1>1, Parts, IdFacts DEF ObjectsKept
<1> QED
  BY <1>2, <1>3, <1>4, <1>5, <1>6, <1>7, <1>8, <1>9, <1>10, <1>11, <1>12, <1>13, Whole

LEMMA DropObjectStep ==
  ASSUME FileInv, ~RacingUploads, NEW id \in Ids, DropObject(id)
  PROVE  FileInv'
<1>1. /\ id \in drop /\ drop' = drop \ {id} /\ (used' = used \/ Fault)
      /\ UNCHANGED <<index, legacy, ledger, queue, chat, forked, up, fork, promo, got, user,
                     doomed, purger>>
  BY DEF DropObject, DeleteObject, Store, Sweepers
<1>2. \/ obj' = obj \ {id} /\ leaked' = leaked \ {id}
      \/ obj' = obj /\ leaked' = leaked \cup (obj \cap {id})
  BY DEF DropObject, DeleteObject
<1>3. /\ Home(id) = "source" /\ id \notin index /\ id \notin legacy /\ up[id].pc = "idle"
      /\ promo[id] = "idle" /\ id \notin fork.made
  BY <1>1, Parts DEF ConfirmedKept, LegacyKept, UploadsKept, ForkKept
<1>4. Typed'
  BY <1>1, <1>2, <1>3, Parts, IdFacts DEF Typed
<1>5. UsedTyped'
  BY <1>1, <1>2, <1>3, Parts, Spends
<1>6. HomeRefs'
  BY <1>1, <1>2, <1>3, Parts, IdFacts DEF HomeRefs
<1>7. IndexedOnly'
  BY <1>1, <1>2, <1>3, Parts, IdFacts DEF IndexedOnly
<1>8. LegacyKept'
  BY <1>1, <1>2, <1>3, Parts, IdFacts DEF LegacyKept
<1>9. UploadsKept'
  BY <1>1, <1>2, <1>3, Parts, IdFacts DEF UploadsKept
<1>10. ForkKept'
  BY <1>1, <1>2, <1>3, Parts, IdFacts DEF ForkKept
<1>11. PurgesKept'
  BY <1>1, <1>2, <1>3, Parts, IdFacts DEF PurgesKept
<1>12. ConfirmedKept'
  BY <1>1, <1>2, <1>3, Parts, IdFacts DEF ConfirmedKept
<1>13. SourceKept'
  BY <1>1, <1>2, <1>3, Parts, IdFacts DEF SourceKept
<1>14. ChatsKept'
  BY <1>1, <1>2, <1>3, Parts, IdFacts DEF ChatsKept
<1>15. ObjectsKept'
  BY <1>1, <1>2, <1>3, Parts, IdFacts DEF ObjectsKept
<1> QED
  BY <1>4, <1>5, <1>6, <1>7, <1>8, <1>9, <1>10, <1>11, <1>12, <1>13, <1>14, <1>15, Whole

LEMMA DeleteDoomedStep ==
  ASSUME FileInv, ~RacingUploads, NEW id \in Ids, DeleteDoomed(id)
  PROVE  FileInv'
<1>1. /\ id \in doomed /\ doomed' = doomed \ {id} /\ (used' = used \/ Fault)
      /\ UNCHANGED <<index, legacy, ledger, queue, chat, forked, up, fork, promo, got, user,
                     drop, purger>>
  BY DEF DeleteDoomed, DeleteObject, Store, Requests
<1>2. \/ obj' = obj \ {id} /\ leaked' = leaked \ {id}
      \/ obj' = obj /\ leaked' = leaked \cup (obj \cap {id})
  BY DEF DeleteDoomed, DeleteObject
<1>3. /\ id \notin legacy /\ up[id].pc = "idle" /\ promo[id] = "idle"
      /\ Home(id) = "source" => id \notin got \cap index
      /\ id \in fork.made /\ fork.pc = "copy" => id \notin index
  BY <1>1, Parts DEF ConfirmedKept, LegacyKept, UploadsKept, ForkKept
<1>4. Typed'
  BY <1>1, <1>2, <1>3, Parts, IdFacts DEF Typed
<1>5. UsedTyped'
  BY <1>1, <1>2, <1>3, Parts, Spends
<1>6. HomeRefs'
  BY <1>1, <1>2, <1>3, Parts, IdFacts DEF HomeRefs
<1>7. IndexedOnly'
  BY <1>1, <1>2, <1>3, Parts, IdFacts DEF IndexedOnly
<1>8. LegacyKept'
  BY <1>1, <1>2, <1>3, Parts, IdFacts DEF LegacyKept
<1>9. UploadsKept'
  BY <1>1, <1>2, <1>3, Parts, IdFacts DEF UploadsKept
<1>10. ForkKept'
  BY <1>1, <1>2, <1>3, Parts, IdFacts DEF ForkKept
<1>11. PurgesKept'
  BY <1>1, <1>2, <1>3, Parts, IdFacts DEF PurgesKept
<1>12. ConfirmedKept'
  BY <1>1, <1>2, <1>3, Parts, IdFacts DEF ConfirmedKept
<1>13. SourceKept'
  BY <1>1, <1>2, <1>3, Parts, IdFacts DEF SourceKept
<1>14. ChatsKept'
  BY <1>1, <1>2, <1>3, Parts, IdFacts DEF ChatsKept
<1>15. ObjectsKept'
  BY <1>1, <1>2, <1>3, Parts, IdFacts DEF ObjectsKept
<1> QED
  BY <1>4, <1>5, <1>6, <1>7, <1>8, <1>9, <1>10, <1>11, <1>12, <1>13, <1>14, <1>15, Whole

\* Promotion of a legacy attachment.
LEMMA PromoteStep ==
  ASSUME FileInv, ~RacingUploads, NEW id \in Ids, Promote(id)
  PROVE  FileInv'
<1>1. /\ id \in legacy /\ promo' = [promo EXCEPT ![id] = "put"] /\ used' = used
      /\ UNCHANGED <<index, legacy, ledger, queue, chat, forked, up, fork, drop, got, user,
                     doomed, purger, obj, leaked>>
  BY DEF Promote, Store, Sweepers, Bucket
<1>2. Typed'
  BY <1>1, Parts, IdFacts DEF Typed
<1>3. UsedTyped'
  BY <1>1, Parts, Spends
<1>4. HomeRefs'
  BY <1>1, Parts, IdFacts DEF HomeRefs
<1>5. IndexedOnly'
  BY <1>1, Parts, IdFacts DEF IndexedOnly
<1>6. LegacyKept'
  BY <1>1, Parts DEF LegacyKept, Typed
<1>7. UploadsKept'
  BY <1>1, Parts, IdFacts DEF UploadsKept
<1>8. ForkKept'
  BY <1>1, Parts, IdFacts DEF ForkKept
<1>9. PurgesKept'
  BY <1>1, Parts, IdFacts DEF PurgesKept
<1>10. ConfirmedKept'
  BY <1>1, Parts, IdFacts DEF ConfirmedKept
<1>11. SourceKept'
  BY <1>1, Parts, IdFacts DEF SourceKept
<1>12. ChatsKept'
  BY <1>1, Parts, IdFacts DEF ChatsKept
<1>13. ObjectsKept'
  BY <1>1, Parts, IdFacts DEF ObjectsKept
<1> QED
  BY <1>2, <1>3, <1>4, <1>5, <1>6, <1>7, <1>8, <1>9, <1>10, <1>11, <1>12, <1>13, Whole

LEMMA PromotePutStep ==
  ASSUME FileInv, ~RacingUploads, NEW id \in Ids, PromotePut(id)
  PROVE  FileInv'
<1>1. /\ promo[id] = "put" /\ (used' = used \/ Fault)
      /\ \/ obj' = obj \cup {id} /\ promo' = [promo EXCEPT ![id] = "register"]
         \/ obj' = obj /\ promo' = [promo EXCEPT ![id] = "idle"]
      /\ UNCHANGED <<index, legacy, ledger, queue, chat, forked, up, fork, drop, got, user,
                     doomed, purger, leaked>>
  BY DEF PromotePut, Store, Sweepers
<1>2. id \in legacy /\ queue[id] = "none"
  BY <1>1, Parts DEF LegacyKept
<1>3. Typed'
  BY <1>1, <1>2, Parts, IdFacts DEF Typed
<1>4. UsedTyped'
  BY <1>1, <1>2, Parts, Spends
<1>5. HomeRefs'
  BY <1>1, <1>2, Parts, IdFacts DEF HomeRefs
<1>6. IndexedOnly'
  BY <1>1, <1>2, Parts, IdFacts DEF IndexedOnly
<1>7. LegacyKept'
  BY <1>1, <1>2, Parts DEF LegacyKept, Typed
<1>8. UploadsKept'
  BY <1>1, <1>2, Parts, IdFacts DEF UploadsKept
<1>9. ForkKept'
  BY <1>1, <1>2, Parts, IdFacts DEF ForkKept
<1>10. PurgesKept'
  BY <1>1, <1>2, Parts, WorkerFacts DEF PurgesKept
<1>11. ConfirmedKept'
  BY <1>1, <1>2, Parts, IdFacts DEF ConfirmedKept
<1>12. SourceKept'
  BY <1>1, <1>2, Parts, IdFacts DEF SourceKept
<1>13. ChatsKept'
  BY <1>1, <1>2, Parts, IdFacts DEF ChatsKept
<1>14. ObjectsKept'
  BY <1>1, <1>2, Parts, IdFacts DEF ObjectsKept
<1> QED
  BY <1>3, <1>4, <1>5, <1>6, <1>7, <1>8, <1>9, <1>10, <1>11, <1>12, <1>13, <1>14, Whole

LEMMA PromoteRegisterStep ==
  ASSUME FileInv, ~RacingUploads, NEW id \in Ids, PromoteRegister(id)
  PROVE  FileInv'
<1>1. /\ promo[id] = "register" /\ promo' = [promo EXCEPT ![id] = "idle"]
      /\ used' = used \/ Fault
      /\ \/ /\ index' = index \cup {id} /\ ledger' = ledger \ {id}
            /\ legacy' = legacy \ {id}
         \/ UNCHANGED <<index, ledger, legacy>>
      /\ UNCHANGED <<queue, chat, forked, up, fork, drop, got, user, doomed, purger, obj,
                     leaked>>
  BY DEF PromoteRegister, Indexed, Sweepers, Bucket
<1>2. /\ id \in legacy /\ queue[id] = "none" /\ id \in obj /\ Home(id) = "source"
      /\ id \notin index \cup ledger \cup doomed \cup drop
  BY <1>1, Parts DEF LegacyKept, Old
<1>3. Typed'
  BY <1>1, <1>2, Parts, IdFacts DEF Typed
<1>4. UsedTyped'
  BY <1>1, <1>2, Parts, Spends
<1>5. HomeRefs'
  BY <1>1, <1>2, Parts, IdFacts DEF HomeRefs
<1>6. IndexedOnly'
  BY <1>1, <1>2, Parts, IdFacts DEF IndexedOnly
<1>7. LegacyKept'
  BY <1>1, <1>2, Parts DEF LegacyKept, Typed
<1>8. UploadsKept'
  BY <1>1, <1>2, Parts, IdFacts DEF UploadsKept
<1>9. ForkKept'
  BY <1>1, <1>2, Parts, IdFacts DEF ForkKept
<1>10. PurgesKept'
  BY <1>1, <1>2, Parts, IdFacts DEF PurgesKept
<1>11. ConfirmedKept'
  BY <1>1, <1>2, Parts, IdFacts DEF ConfirmedKept
<1>12. SourceKept'
  BY <1>1, <1>2, Parts, IdFacts DEF SourceKept
<1>13. ChatsKept'
  BY <1>1, <1>2, Parts, IdFacts DEF ChatsKept
<1>14. ObjectsKept'
  BY <1>1, <1>2, Parts, IdFacts DEF ObjectsKept
<1> QED
  BY <1>3, <1>4, <1>5, <1>6, <1>7, <1>8, <1>9, <1>10, <1>11, <1>12, <1>13, <1>14, Whole

\* Push and delete of a chat.
LEMMA PushChatStep ==
  ASSUME FileInv, NEW refs, PushChat(refs)
  PROVE  FileInv'
<1>1. /\ refs \subseteq got \ user /\ (\A i \in refs : Home(i) = "source" /\ Known(i))
      /\ Spend("push", MaxPushes)
      /\ chat' = [chat EXCEPT !["source"] = [present |-> TRUE, refs |-> refs]]
      /\ UNCHANGED <<index, legacy, ledger, queue, forked, up, fork, promo, drop, got, user,
                     doomed, purger, obj, leaked>>
  BY DEF PushChat, Stored, Requests, Sweepers, Bucket
<1>2. /\ chat \in [Chats -> [present : BOOLEAN, refs : SUBSET Ids]]
      /\ chat'["source"] = [present |-> TRUE, refs |-> refs] /\ refs \subseteq Ids
      /\ chat'["target"] = chat["target"] /\ Chats = {"source", "target"}
  BY <1>1, Parts DEF Typed, Chats
<1>3. Typed'
  BY <1>1, <1>2, Parts, IdFacts DEF Typed
<1>4. UsedTyped'
  BY <1>1, <1>2, Parts, Spends
<1>5. HomeRefs'
  BY <1>1, <1>2, Parts DEF HomeRefs
<1>6. IndexedOnly'
  BY <1>1, <1>2, Parts, IdFacts DEF IndexedOnly
<1>7. LegacyKept'
  BY <1>1, <1>2, Parts, IdFacts DEF LegacyKept
<1>8. UploadsKept'
  BY <1>1, <1>2, Parts, IdFacts DEF UploadsKept
<1>9. ForkKept'
  BY <1>1, <1>2, Parts, IdFacts DEF ForkKept
<1>10. PurgesKept'
  BY <1>1, <1>2, Parts, IdFacts DEF PurgesKept
<1>11. ConfirmedKept'
  BY <1>1, <1>2, Parts, IdFacts DEF ConfirmedKept
<1>12. SourceKept'
  BY <1>1, <1>2, Parts DEF SourceKept, Known
<1>13. ChatsKept'
  BY <1>1, <1>2, Parts DEF ChatsKept
<1>14. ObjectsKept'
  BY <1>1, <1>2, Parts, IdFacts DEF ObjectsKept
<1> QED
  BY <1>3, <1>4, <1>5, <1>6, <1>7, <1>8, <1>9, <1>10, <1>11, <1>12, <1>13, <1>14, Whole

LEMMA DeleteChatStep ==
  ASSUME FileInv, ~RacingUploads, NEW c \in Chats, DeleteChat(c)
  PROVE  FileInv'
<1>1. /\ \A i \in index : Home(i) = c => up[i].pc = "idle" /\ promo[i] = "idle"
      /\ Spend("push", MaxPushes)
      /\ chat' = [chat EXCEPT ![c] = [present |-> FALSE, refs |-> {}]]
      /\ index' = index \ {i \in index : Home(i) = c}
      /\ doomed' = doomed \cup {i \in index : Home(i) = c}
      /\ UNCHANGED <<legacy, ledger, queue, forked, up, fork, promo, drop, got, user,
                     purger, obj, leaked>>
  BY DEF DeleteChat, MayDelete, Requests, Bucket
<1>2. /\ chat \in [Chats -> [present : BOOLEAN, refs : SUBSET Ids]]
      /\ chat'[c] = [present |-> FALSE, refs |-> {}] /\ "source" \in Chats
      /\ \A k \in Chats : k # c => chat'[k] = chat[k]
  BY <1>1, Parts DEF Typed, Chats
<1>3. \A i \in chat["source"].refs : i \in Ids /\ Home(i) = "source"
  BY <1>2, Parts DEF HomeRefs
<1>4. Typed'
  BY <1>1, <1>2, <1>3, Parts, IdFacts DEF Typed
<1>5. UsedTyped'
  BY <1>1, <1>2, <1>3, Parts, Spends
<1>6. HomeRefs'
  BY <1>1, <1>2, <1>3, Parts, IdFacts DEF HomeRefs
<1>7. IndexedOnly'
  BY <1>1, <1>2, <1>3, Parts, IdFacts DEF IndexedOnly
<1>8. LegacyKept'
  BY <1>1, <1>2, <1>3, Parts, IdFacts DEF LegacyKept
<1>9. UploadsKept'
  BY <1>1, <1>2, <1>3, Parts, IdFacts DEF UploadsKept
<1>10. ForkKept'
  BY <1>1, <1>2, <1>3, Parts, IdFacts DEF ForkKept
<1>11. PurgesKept'
  BY <1>1, <1>2, <1>3, Parts, IdFacts DEF PurgesKept
<1>12. ConfirmedKept'
  BY <1>1, <1>2, <1>3, Parts, IdFacts DEF ConfirmedKept
<1>13. SourceKept'
  BY <1>1, <1>2, <1>3, Parts, IdFacts DEF SourceKept
<1>14. ChatsKept'
  BY <1>1, <1>2, <1>3, Parts, IdFacts DEF ChatsKept
<1>15. ObjectsKept'
  BY <1>1, <1>2, <1>3, Parts, IdFacts DEF ObjectsKept
<1> QED
  BY <1>4, <1>5, <1>6, <1>7, <1>8, <1>9, <1>10, <1>11, <1>12, <1>13, <1>14, <1>15, Whole

\* Fork.
LEMMA ForkBeginStep ==
  ASSUME FileInv, ~RacingUploads, ForkBegin
  PROVE  FileInv'
<1>1. /\ fork = NoFork /\ Spend("fork", MaxForks)
      /\ fork' = [NoFork EXCEPT !.pc = "copy", !.todo = {CopyOf(id) : id \in chat["source"].refs}]
      /\ UNCHANGED <<index, legacy, ledger, queue, chat, forked, up, promo, drop, got, user,
                     doomed, purger, obj, leaked>>
  BY DEF ForkBegin, Store, Sweepers, Bucket
<1>2. /\ fork.pc = "idle" /\ fork'.pc = "copy" /\ fork'.made = {}
      /\ fork' \in [pc : {"idle", "copy", "clean"}, todo : SUBSET Ids, made : SUBSET Ids]
      /\ \A id \in fork'.todo : Home(id) = "target"
  <2>1. chat["source"].refs \subseteq Ids
    BY Parts DEF Typed, Chats
  <2>2. PICK todo : todo = {CopyOf(id) : id \in chat["source"].refs}
    OBVIOUS
  <2>3. todo \subseteq Ids /\ \A id \in todo : Home(id) = "target"
    BY <2>1, <2>2, IdFacts
  <2> QED
    BY <1>1, <2>2, <2>3 DEF NoFork
<1>3. Typed'
  BY <1>1, <1>2, Parts, IdFacts DEF Typed
<1>4. UsedTyped'
  BY <1>1, <1>2, Parts, Spends
<1>5. HomeRefs'
  BY <1>1, <1>2, Parts, IdFacts DEF HomeRefs
<1>6. IndexedOnly'
  BY <1>1, <1>2, Parts, IdFacts DEF IndexedOnly
<1>7. LegacyKept'
  BY <1>1, <1>2, Parts, IdFacts DEF LegacyKept
<1>8. UploadsKept'
  BY <1>1, <1>2, Parts, IdFacts DEF UploadsKept
<1>9. ForkKept'
  BY <1>1, <1>2, Parts, IdFacts DEF ForkKept
<1>10. PurgesKept'
  BY <1>1, <1>2, Parts, IdFacts DEF PurgesKept
<1>11. ConfirmedKept'
  BY <1>1, <1>2, Parts, IdFacts DEF ConfirmedKept
<1>12. SourceKept'
  BY <1>1, <1>2, Parts, IdFacts DEF SourceKept
<1>13. ChatsKept'
  BY <1>1, <1>2, Parts, IdFacts DEF ChatsKept
<1>14. ObjectsKept'
  BY <1>1, <1>2, Parts, IdFacts DEF ObjectsKept
<1> QED
  BY <1>3, <1>4, <1>5, <1>6, <1>7, <1>8, <1>9, <1>10, <1>11, <1>12, <1>13, <1>14, Whole

LEMMA ForkCopyFailsStep ==
  ASSUME FileInv, ~RacingUploads, NEW id \in Ids, ForkCopyFails(id)
  PROVE  FileInv'
<1>1. /\ fork.pc = "copy" /\ fork' = [fork EXCEPT !.pc = "clean"]
      /\ used' = used \/ Fault
      /\ \A other \in fork.todo : up[other].pc = "idle"
      /\ UNCHANGED <<index, legacy, ledger, queue, chat, forked, up, promo, drop, got, user,
                     doomed, purger, obj, leaked>>
  BY DEF ForkCopyFails, Store, Sweepers, Bucket
<1>2. /\ ForkTyped' /\ fork'.pc = "clean" /\ fork'.todo = fork.todo /\ fork'.made = fork.made
      /\ \A i \in Ids : up[i].pc # "idle" => Home(i) # "target"
  BY <1>1, Parts DEF Typed, ForkTyped, UploadsKept
<1>3. Typed'
  BY <1>1, <1>2, Parts DEF Typed, ForkTyped
<1>4. UsedTyped'
  BY <1>1, <1>2, Parts, Spends
<1>5. HomeRefs'
  BY <1>1, <1>2, Parts, IdFacts DEF HomeRefs
<1>6. IndexedOnly'
  BY <1>1, <1>2, Parts, IdFacts DEF IndexedOnly
<1>7. LegacyKept'
  BY <1>1, <1>2, Parts, IdFacts DEF LegacyKept
<1>8. UploadsKept'
  BY <1>1, <1>2, Parts, IdFacts DEF UploadsKept
<1>9. ForkKept'
  BY <1>1, <1>2, Parts, IdFacts DEF ForkKept
<1>10. PurgesKept'
  BY <1>1, <1>2, Parts, IdFacts DEF PurgesKept
<1>11. ConfirmedKept'
  BY <1>1, <1>2, Parts, IdFacts DEF ConfirmedKept
<1>12. SourceKept'
  BY <1>1, <1>2, Parts, IdFacts DEF SourceKept
<1>13. ChatsKept'
  BY <1>1, <1>2, Parts, IdFacts DEF ChatsKept
<1>14. ObjectsKept'
  BY <1>1, <1>2, Parts, IdFacts DEF ObjectsKept
<1> QED
  BY <1>3, <1>4, <1>5, <1>6, <1>7, <1>8, <1>9, <1>10, <1>11, <1>12, <1>13, <1>14, Whole

LEMMA ForkPushStep ==
  ASSUME FileInv, ~RacingUploads, ForkPush
  PROVE  FileInv'
<1>1. /\ fork.todo = {} /\ fork' = NoFork /\ forked' \in {forked, TRUE}
      /\ used' = used \/ Fault
      /\ \/ chat' = chat
         \/ chat' = [chat EXCEPT !["target"] = [present |-> TRUE, refs |-> fork.made]]
      /\ UNCHANGED <<index, legacy, ledger, queue, up, promo, drop, got, user, doomed, purger,
                     obj, leaked>>
  BY DEF ForkPush, Stored, Sweepers, Bucket
<1>2. /\ chat' \in [Chats -> [present : BOOLEAN, refs : SUBSET Ids]]
      /\ "source" \in Chats /\ chat'["source"] = chat["source"]
      /\ HomeRefs' /\ ChatsKept'
  <2>1. /\ chat \in [Chats -> [present : BOOLEAN, refs : SUBSET Ids]]
        /\ Chats = {"source", "target"} /\ fork.made \subseteq Ids
        /\ \A id \in fork.made : Home(id) = "target"
    BY Parts DEF Typed, Chats, ForkKept
  <2>2. CASE chat' = chat
    BY <2>1, <2>2, Parts DEF HomeRefs, ChatsKept
  <2>3. CASE chat' = [chat EXCEPT !["target"] = [present |-> TRUE, refs |-> fork.made]]
    BY <2>1, <2>3, Parts DEF HomeRefs, ChatsKept
  <2> QED
    BY <1>1, <2>2, <2>3
<1>3. /\ ForkTyped' /\ fork'.pc = "idle" /\ fork'.todo = {} /\ fork'.made = {}
      /\ \A i \in Ids : up[i].pc # "idle" => Home(i) # "target"
  BY <1>1, Parts DEF NoFork, ForkTyped, UploadsKept
<1>4. Typed'
  BY <1>1, <1>2, <1>3, Parts DEF Typed, ForkTyped
<1>5. UsedTyped'
  BY <1>1, <1>2, <1>3, Parts, Spends
<1>6. HomeRefs'
  BY <1>2
<1>7. IndexedOnly'
  BY <1>1, <1>2, <1>3, Parts, IdFacts DEF IndexedOnly
<1>8. LegacyKept'
  BY <1>1, <1>2, <1>3, Parts, IdFacts DEF LegacyKept
<1>9. UploadsKept'
  BY <1>1, <1>2, <1>3, Parts, IdFacts DEF UploadsKept
<1>10. ForkKept'
  BY <1>1, <1>2, <1>3, Parts, IdFacts DEF ForkKept
<1>11. PurgesKept'
  BY <1>1, <1>2, <1>3, Parts, IdFacts DEF PurgesKept
<1>12. ConfirmedKept'
  BY <1>1, <1>2, <1>3, Parts, IdFacts DEF ConfirmedKept
<1>13. SourceKept'
  BY <1>1, <1>2, <1>3, Parts, IdFacts DEF SourceKept
<1>14. ChatsKept'
  BY <1>2
<1>15. ObjectsKept'
  BY <1>1, <1>2, <1>3, Parts, IdFacts DEF ObjectsKept
<1> QED
  BY <1>4, <1>5, <1>6, <1>7, <1>8, <1>9, <1>10, <1>11, <1>12, <1>13, <1>14, <1>15, Whole

LEMMA ForkRefusedStep ==
  ASSUME FileInv, ~RacingUploads, ForkRefused
  PROVE  FileInv'
<1>1. /\ fork.todo = {} /\ fork' = [fork EXCEPT !.pc = "clean"] /\ forked' \in {forked, TRUE}
      /\ used' = used \/ Fault
      /\ \/ chat' = chat
         \/ chat' = [chat EXCEPT !["target"] = [present |-> TRUE, refs |-> fork.made]]
      /\ UNCHANGED <<index, legacy, ledger, queue, up, promo, drop, got, user, doomed, purger,
                     obj, leaked>>
  BY DEF ForkRefused, Stored, Sweepers, Bucket
<1>2. /\ chat' \in [Chats -> [present : BOOLEAN, refs : SUBSET Ids]]
      /\ "source" \in Chats /\ chat'["source"] = chat["source"]
      /\ HomeRefs' /\ ChatsKept'
  <2>1. /\ chat \in [Chats -> [present : BOOLEAN, refs : SUBSET Ids]]
        /\ Chats = {"source", "target"} /\ fork.made \subseteq Ids
        /\ \A id \in fork.made : Home(id) = "target"
    BY Parts DEF Typed, Chats, ForkKept
  <2>2. CASE chat' = chat
    BY <2>1, <2>2, Parts DEF HomeRefs, ChatsKept
  <2>3. CASE chat' = [chat EXCEPT !["target"] = [present |-> TRUE, refs |-> fork.made]]
    BY <2>1, <2>3, Parts DEF HomeRefs, ChatsKept
  <2> QED
    BY <1>1, <2>2, <2>3
<1>3. /\ ForkTyped' /\ fork'.pc = "clean" /\ fork'.todo = {} /\ fork'.made = fork.made
      /\ \A i \in Ids : up[i].pc # "idle" => Home(i) # "target"
  BY <1>1, Parts DEF Typed, ForkTyped, UploadsKept
<1>4. Typed'
  BY <1>1, <1>2, <1>3, Parts DEF Typed, ForkTyped
<1>5. UsedTyped'
  BY <1>1, <1>2, <1>3, Parts, Spends
<1>6. HomeRefs'
  BY <1>2
<1>7. IndexedOnly'
  BY <1>1, <1>2, <1>3, Parts, IdFacts DEF IndexedOnly
<1>8. LegacyKept'
  BY <1>1, <1>2, <1>3, Parts, IdFacts DEF LegacyKept
<1>9. UploadsKept'
  BY <1>1, <1>2, <1>3, Parts, IdFacts DEF UploadsKept
<1>10. ForkKept'
  BY <1>1, <1>2, <1>3, Parts, IdFacts DEF ForkKept
<1>11. PurgesKept'
  BY <1>1, <1>2, <1>3, Parts, IdFacts DEF PurgesKept
<1>12. ConfirmedKept'
  BY <1>1, <1>2, <1>3, Parts, IdFacts DEF ConfirmedKept
<1>13. SourceKept'
  BY <1>1, <1>2, <1>3, Parts, IdFacts DEF SourceKept
<1>14. ChatsKept'
  BY <1>2
<1>15. ObjectsKept'
  BY <1>1, <1>2, <1>3, Parts, IdFacts DEF ObjectsKept
<1> QED
  BY <1>4, <1>5, <1>6, <1>7, <1>8, <1>9, <1>10, <1>11, <1>12, <1>13, <1>14, <1>15, Whole

LEMMA ForkCleanStep ==
  ASSUME FileInv, ~RacingUploads, NEW id \in Ids, ForkClean(id)
  PROVE  FileInv'
<1>1. /\ fork.pc = "clean" /\ id \in fork.made /\ fork' = [fork EXCEPT !.made = @ \ {id}]
      /\ used' = used \/ Fault
      /\ \/ /\ index' = index \ {id}
            /\ doomed' = IF id \in index THEN doomed \cup {id} ELSE doomed
         \/ UNCHANGED <<index, doomed>>
      /\ UNCHANGED <<legacy, ledger, queue, chat, forked, up, promo, drop, got, user, purger,
                     obj, leaked>>
  BY DEF ForkClean, Bucket
<1>2. /\ ForkTyped' /\ fork'.pc = "clean" /\ fork'.todo = fork.todo /\ fork'.made = fork.made \ {id}
      /\ Home(id) = "target" /\ id \notin legacy
      /\ \A i \in Ids : up[i].pc # "idle" => Home(i) # "target"
  BY <1>1, Parts DEF Typed, ForkTyped, UploadsKept, ForkKept, LegacyKept, Old
<1>3. \A i \in chat["source"].refs : Home(i) = "source"
  BY Parts DEF HomeRefs, Chats
<1>4. Typed'
  BY <1>1, <1>2, <1>3, Parts DEF Typed, ForkTyped
<1>5. UsedTyped'
  BY <1>1, <1>2, <1>3, Parts, Spends
<1>6. HomeRefs'
  BY <1>1, <1>2, <1>3, Parts, IdFacts DEF HomeRefs
<1>7. IndexedOnly'
  BY <1>1, <1>2, <1>3, Parts, IdFacts DEF IndexedOnly
<1>8. LegacyKept'
  BY <1>1, <1>2, <1>3, Parts, IdFacts DEF LegacyKept
<1>9. UploadsKept'
  BY <1>1, <1>2, <1>3, Parts, IdFacts DEF UploadsKept
<1>10. ForkKept'
  BY <1>1, <1>2, <1>3, Parts, IdFacts DEF ForkKept
<1>11. PurgesKept'
  BY <1>1, <1>2, <1>3, Parts, IdFacts DEF PurgesKept
<1>12. ConfirmedKept'
  BY <1>1, <1>2, <1>3, Parts, IdFacts DEF ConfirmedKept
<1>13. SourceKept'
  BY <1>1, <1>2, <1>3, Parts, IdFacts DEF SourceKept
<1>14. ChatsKept'
  BY <1>1, <1>2, <1>3, Parts, IdFacts DEF ChatsKept
<1>15. ObjectsKept'
  BY <1>1, <1>2, <1>3, Parts, IdFacts DEF ObjectsKept
<1> QED
  BY <1>4, <1>5, <1>6, <1>7, <1>8, <1>9, <1>10, <1>11, <1>12, <1>13, <1>14, <1>15, Whole

LEMMA ForkFailedStep ==
  ASSUME FileInv, ~RacingUploads, ForkFailed
  PROVE  FileInv'
<1>1. /\ fork.pc = "clean" /\ fork' = NoFork /\ used' = used
      /\ UNCHANGED <<index, legacy, ledger, queue, chat, forked, up, promo, drop, got, user,
                     doomed, purger, obj, leaked>>
  BY DEF ForkFailed, Store, Sweepers, Bucket
<1>2. /\ ForkTyped' /\ fork'.pc = "idle" /\ fork'.todo = {} /\ fork'.made = {}
      /\ \A i \in Ids : up[i].pc # "idle" => Home(i) # "target"
  BY <1>1, Parts DEF NoFork, ForkTyped, UploadsKept
<1>3. Typed'
  BY <1>1, <1>2, Parts DEF Typed, ForkTyped
<1>4. UsedTyped'
  BY <1>1, <1>2, Parts, Spends
<1>5. HomeRefs'
  BY <1>1, <1>2, Parts, IdFacts DEF HomeRefs
<1>6. IndexedOnly'
  BY <1>1, <1>2, Parts, IdFacts DEF IndexedOnly
<1>7. LegacyKept'
  BY <1>1, <1>2, Parts, IdFacts DEF LegacyKept
<1>8. UploadsKept'
  BY <1>1, <1>2, Parts, IdFacts DEF UploadsKept
<1>9. ForkKept'
  BY <1>1, <1>2, Parts, IdFacts DEF ForkKept
<1>10. PurgesKept'
  BY <1>1, <1>2, Parts, IdFacts DEF PurgesKept
<1>11. ConfirmedKept'
  BY <1>1, <1>2, Parts, IdFacts DEF ConfirmedKept
<1>12. SourceKept'
  BY <1>1, <1>2, Parts, IdFacts DEF SourceKept
<1>13. ChatsKept'
  BY <1>1, <1>2, Parts, IdFacts DEF ChatsKept
<1>14. ObjectsKept'
  BY <1>1, <1>2, Parts, IdFacts DEF ObjectsKept
<1> QED
  BY <1>3, <1>4, <1>5, <1>6, <1>7, <1>8, <1>9, <1>10, <1>11, <1>12, <1>13, <1>14, Whole

\* The sweepers.
LEMMA SweepPendingStep ==
  ASSUME FileInv, ~RacingUploads, NEW id \in Ids, SweepPending(id)
  PROVE  FileInv'
<1>1. /\ id \in ledger /\ up[id].pc = "idle" /\ promo[id] = "idle" /\ ledger' = ledger \ {id}
      /\ used' = used \/ Fault
      /\ UNCHANGED <<index, legacy, queue, chat, forked, up, fork, promo, drop, got, user,
                     purger, obj>>
  BY DEF SweepPending, MayDelete, HandedOut, Requests
<1>2. \/ doomed' = doomed \cup {id} /\ leaked' = leaked
      \/ doomed' = doomed /\ leaked' = leaked \cup (obj \cap {id})
  BY DEF SweepPending, HandedOut
<1>3. id \notin legacy
  BY <1>1, Parts DEF LegacyKept
<1>4. Typed'
  BY <1>1, <1>2, <1>3, Parts, IdFacts DEF Typed
<1>5. UsedTyped'
  BY <1>1, <1>2, <1>3, Parts, Spends
<1>6. HomeRefs'
  BY <1>1, <1>2, <1>3, Parts, IdFacts DEF HomeRefs
<1>7. IndexedOnly'
  BY <1>1, <1>2, <1>3, Parts, IdFacts DEF IndexedOnly
<1>8. LegacyKept'
  BY <1>1, <1>2, <1>3, Parts, IdFacts DEF LegacyKept
<1>9. UploadsKept'
  BY <1>1, <1>2, <1>3, Parts, IdFacts DEF UploadsKept
<1>10. ForkKept'
  BY <1>1, <1>2, <1>3, Parts, IdFacts DEF ForkKept
<1>11. PurgesKept'
  BY <1>1, <1>2, <1>3, Parts, IdFacts DEF PurgesKept
<1>12. ConfirmedKept'
  BY <1>1, <1>2, <1>3, Parts, IdFacts DEF ConfirmedKept
<1>13. SourceKept'
  BY <1>1, <1>2, <1>3, Parts, IdFacts DEF SourceKept
<1>14. ChatsKept'
  BY <1>1, <1>2, <1>3, Parts, IdFacts DEF ChatsKept
<1>15. ObjectsKept'
  BY <1>1, <1>2, <1>3, Parts, IdFacts DEF ObjectsKept
<1> QED
  BY <1>4, <1>5, <1>6, <1>7, <1>8, <1>9, <1>10, <1>11, <1>12, <1>13, <1>14, <1>15, Whole

LEMMA SweepOrphanStep ==
  ASSUME FileInv, ~RacingUploads, NEW id \in Ids, SweepOrphan(id)
  PROVE  FileInv'
<1>1. /\ id \in index /\ ~chat[Home(id)].present /\ up[id].pc = "idle" /\ promo[id] = "idle"
      /\ index' = index \ {id}
      /\ used' = used \/ Fault
      /\ UNCHANGED <<legacy, ledger, queue, chat, forked, up, fork, promo, drop, got, user,
                     purger, obj>>
  BY DEF SweepOrphan, MayDelete, HandedOut, Requests
<1>2. \/ doomed' = doomed \cup {id} /\ leaked' = leaked
      \/ doomed' = doomed /\ leaked' = leaked \cup (obj \cap {id})
  BY DEF SweepOrphan, HandedOut
<1>3. id \notin legacy /\ id \notin chat["source"].refs
  BY <1>1, Parts, IdFacts DEF LegacyKept, ChatsKept, HomeRefs, Chats
<1>4. Typed'
  BY <1>1, <1>2, <1>3, Parts, IdFacts DEF Typed
<1>5. UsedTyped'
  BY <1>1, <1>2, <1>3, Parts, Spends
<1>6. HomeRefs'
  BY <1>1, <1>2, <1>3, Parts, IdFacts DEF HomeRefs
<1>7. IndexedOnly'
  BY <1>1, <1>2, <1>3, Parts, IdFacts DEF IndexedOnly
<1>8. LegacyKept'
  BY <1>1, <1>2, <1>3, Parts, IdFacts DEF LegacyKept
<1>9. UploadsKept'
  BY <1>1, <1>2, <1>3, Parts, IdFacts DEF UploadsKept
<1>10. ForkKept'
  BY <1>1, <1>2, <1>3, Parts, IdFacts DEF ForkKept
<1>11. PurgesKept'
  BY <1>1, <1>2, <1>3, Parts, IdFacts DEF PurgesKept
<1>12. ConfirmedKept'
  BY <1>1, <1>2, <1>3, Parts, IdFacts DEF ConfirmedKept
<1>13. SourceKept'
  BY <1>1, <1>2, <1>3, Parts, IdFacts DEF SourceKept
<1>14. ChatsKept'
  BY <1>1, <1>2, <1>3, Parts, IdFacts DEF ChatsKept
<1>15. ObjectsKept'
  BY <1>1, <1>2, <1>3, Parts, IdFacts DEF ObjectsKept
<1> QED
  BY <1>4, <1>5, <1>6, <1>7, <1>8, <1>9, <1>10, <1>11, <1>12, <1>13, <1>14, <1>15, Whole

\* The purge queue and its workers.
LEMMA PurgeRowStep ==
  ASSUME FileInv, ~RacingUploads, NEW id \in Ids, Purge(id)
  PROVE  FileInv'
<1>1. /\ id \in index \ ledger /\ id \notin chat[Home(id)].refs
      /\ index' = index \ {id} /\ queue' = [queue EXCEPT ![id] = "free"] /\ used' = used
      /\ UNCHANGED <<legacy, ledger, chat, forked, up, fork, promo, drop, got, user, doomed,
                     purger, obj, leaked>>
  BY DEF Purge, Requests, Sweepers, Bucket
<1>2. /\ id \notin legacy /\ id \notin chat["source"].refs /\ up[id].pc = "idle"
      /\ queue[id] = "none"
  BY <1>1, Parts, IdFacts DEF LegacyKept, UploadsKept, HomeRefs, Chats, IndexedOnly
<1>3. /\ queue'[id] = "free" /\ (\A i \in Ids : i # id => queue'[i] = queue[i])
      /\ queue' \in [Ids -> {"none", "free"} \cup Workers]
  BY <1>1, Parts DEF Typed
<1>4. Typed'
  BY <1>1, <1>2, <1>3, Parts, IdFacts DEF Typed
<1>5. UsedTyped'
  BY <1>1, <1>2, <1>3, Parts, Spends
<1>6. HomeRefs'
  BY <1>1, <1>2, <1>3, Parts, IdFacts DEF HomeRefs
<1>7. IndexedOnly'
  BY <1>1, <1>2, <1>3, Parts DEF IndexedOnly, Typed
<1>8. LegacyKept'
  BY <1>1, <1>2, <1>3, Parts, IdFacts DEF LegacyKept
<1>9. UploadsKept'
  BY <1>1, <1>2, <1>3, Parts, IdFacts DEF UploadsKept
<1>10. ForkKept'
  BY <1>1, <1>2, <1>3, Parts, IdFacts DEF ForkKept
<1>11. PurgesKept'
  BY <1>1, <1>2, <1>3, Parts, WorkerFacts DEF PurgesKept
<1>12. ConfirmedKept'
  BY <1>1, <1>2, <1>3, Parts, IdFacts DEF ConfirmedKept
<1>13. SourceKept'
  BY <1>1, <1>2, <1>3, Parts, IdFacts DEF SourceKept
<1>14. ChatsKept'
  BY <1>1, <1>2, <1>3, Parts, IdFacts DEF ChatsKept
<1>15. ObjectsKept'
  BY <1>1, <1>2, <1>3, Parts DEF ObjectsKept, Typed
<1> QED
  BY <1>4, <1>5, <1>6, <1>7, <1>8, <1>9, <1>10, <1>11, <1>12, <1>13, <1>14, <1>15, Whole

PurgerGoes(w, pc, todo, acks) ==
    /\ purger' \in [Workers -> [pc : {"idle", "delete", "ack"}, todo : SUBSET Ids,
                                acks : SUBSET Ids]]
    /\ purger'[w].pc = pc /\ purger'[w].todo = todo /\ purger'[w].acks = acks
    /\ \A v \in Workers : v # w => purger'[v] = purger[v]

LEMMA ClaimStep ==
  ASSUME FileInv, NEW w \in Workers, Claim(w)
  PROVE  FileInv'
<1>1. /\ purger[w].pc = "idle"
      /\ queue' = [i \in Ids |-> IF i \in {j \in Ids : queue[j] = "free"} THEN w ELSE queue[i]]
      /\ used' = used \/ Fault
      /\ \/ purger' = [purger EXCEPT ![w] = [pc |-> "delete", acks |-> {},
                                   todo |-> {j \in Ids : queue[j] = "free"}]]
         \/ purger' = purger
      /\ UNCHANGED <<index, legacy, ledger, chat, forked, up, fork, promo, drop, got, user,
                     doomed, obj, leaked>>
  BY DEF Claim, Worklist, Requests, Bucket
<1>2. /\ queue' \in [Ids -> {"none", "free"} \cup Workers]
      /\ \A i \in Ids : /\ queue[i] = "free" => queue'[i] = w
                       /\ queue[i] # "free" => queue'[i] = queue[i]
  BY <1>1, Parts DEF Typed
<1>3. \/ PurgerGoes(w, "delete", {j \in Ids : queue[j] = "free"}, {})
      \/ purger' = purger /\ purger[w].acks = {}
  <2>1. purger \in [Workers -> [pc : {"idle", "delete", "ack"}, todo : SUBSET Ids,
                                acks : SUBSET Ids]]
    BY Parts DEF Typed
  <2>2. {j \in Ids : queue[j] = "free"} \in SUBSET Ids
    OBVIOUS
  <2> QED
    BY <1>1, <2>1, <2>2, Parts DEF PurgerGoes, PurgesKept
<1>4. Typed'
  BY <1>1, <1>2, <1>3, Parts DEF Typed, PurgerGoes
<1>5. UsedTyped'
  BY <1>1, <1>2, <1>3, Parts, Spends
<1>6. HomeRefs'
  BY <1>1, <1>2, <1>3, Parts, IdFacts DEF HomeRefs
<1>7. IndexedOnly'
  BY <1>1, <1>2, <1>3, Parts DEF IndexedOnly, Typed
<1>8. LegacyKept'
  BY <1>1, <1>2, <1>3, Parts, IdFacts DEF LegacyKept
<1>9. UploadsKept'
  BY <1>1, <1>2, <1>3, Parts, IdFacts DEF UploadsKept
<1>10. ForkKept'
  BY <1>1, <1>2, <1>3, Parts, IdFacts DEF ForkKept
<1>11. PurgesKept'
  BY <1>1, <1>2, <1>3, Parts, WorkerFacts DEF PurgesKept, PurgerGoes
<1>12. ConfirmedKept'
  BY <1>1, <1>2, <1>3, Parts, IdFacts DEF ConfirmedKept
<1>13. SourceKept'
  BY <1>1, <1>2, <1>3, Parts, IdFacts DEF SourceKept
<1>14. ChatsKept'
  BY <1>1, <1>2, <1>3, Parts, IdFacts DEF ChatsKept
<1>15. ObjectsKept'
  BY <1>1, <1>2, <1>3, Parts, WorkerFacts DEF ObjectsKept, Typed
<1> QED
  BY <1>4, <1>5, <1>6, <1>7, <1>8, <1>9, <1>10, <1>11, <1>12, <1>13, <1>14, <1>15, Whole

LEMMA PurgeDeleteStep ==
  ASSUME FileInv, NEW w \in Workers, NEW id \in Ids, PurgeDelete(w, id)
  PROVE  FileInv'
<1>1. /\ purger[w].pc = "delete" /\ id \in purger[w].todo
      /\ used' = used \/ Fault
      /\ UNCHANGED <<index, legacy, ledger, queue, chat, forked, up, fork, promo, drop, got, user,
                     doomed, leaked>>
  BY DEF PurgeDelete, Store, Requests
<1>2. \/ /\ obj' = obj \ {id}
         /\ PurgerGoes(w, "delete", purger[w].todo \ {id}, purger[w].acks \cup {id})
      \/ obj' = obj /\ PurgerGoes(w, "delete", purger[w].todo \ {id}, purger[w].acks)
  <2>1. purger \in [Workers -> [pc : {"idle", "delete", "ack"}, todo : SUBSET Ids,
                                acks : SUBSET Ids]]
    BY Parts DEF Typed
  <2>2. PICK ok \in BOOLEAN :
          /\ obj' = IF ok THEN obj \ {id} ELSE obj
          /\ purger' = [purger EXCEPT ![w].todo = @ \ {id}, ![w].acks = AckedAfter(@, id, ok)]
    BY DEF PurgeDelete
  <2>3. CASE ok
    BY <1>1, <2>1, <2>2, <2>3 DEF PurgerGoes, AckedAfter
  <2>4. CASE ~ok
    BY <1>1, <2>1, <2>2, <2>4 DEF PurgerGoes, AckedAfter
  <2> QED
    BY <2>3, <2>4
<1>3. /\ queue[id] = w /\ id \notin index /\ id \notin legacy /\ up[id].pc = "idle"
      /\ promo[id] = "idle"
  BY <1>1, Parts, WorkerFacts DEF PurgesKept, IndexedOnly, LegacyKept, UploadsKept
<1>4. Typed'
  BY <1>1, <1>2, <1>3, Parts DEF Typed, PurgerGoes
<1>5. UsedTyped'
  BY <1>1, <1>2, <1>3, Parts, Spends
<1>6. HomeRefs'
  BY <1>1, <1>2, <1>3, Parts, IdFacts DEF HomeRefs
<1>7. IndexedOnly'
  BY <1>1, <1>2, <1>3, Parts, IdFacts DEF IndexedOnly
<1>8. LegacyKept'
  BY <1>1, <1>2, <1>3, Parts, IdFacts DEF LegacyKept
<1>9. UploadsKept'
  BY <1>1, <1>2, <1>3, Parts, IdFacts DEF UploadsKept
<1>10. ForkKept'
  BY <1>1, <1>2, <1>3, Parts, IdFacts DEF ForkKept
<1>11. PurgesKept'
  BY <1>1, <1>2, <1>3, Parts DEF PurgesKept, PurgerGoes
<1>12. ConfirmedKept'
  BY <1>1, <1>2, <1>3, Parts, IdFacts DEF ConfirmedKept
<1>13. SourceKept'
  BY <1>1, <1>2, <1>3, Parts, IdFacts DEF SourceKept
<1>14. ChatsKept'
  BY <1>1, <1>2, <1>3, Parts, IdFacts DEF ChatsKept
<1>15. ObjectsKept'
  BY <1>1, <1>2, <1>3, Parts, IdFacts DEF ObjectsKept
<1> QED
  BY <1>4, <1>5, <1>6, <1>7, <1>8, <1>9, <1>10, <1>11, <1>12, <1>13, <1>14, <1>15, Whole

LEMMA PurgeStopStep ==
  ASSUME FileInv, NEW w \in Workers, PurgeStop(w)
  PROVE  FileInv'
<1>1. /\ purger' = [purger EXCEPT ![w].pc = "ack", ![w].todo = {}]
      /\ used' = used \/ Fault
      /\ UNCHANGED <<index, legacy, ledger, queue, chat, forked, up, fork, promo, drop, got,
                     user, doomed, obj, leaked>>
  BY DEF PurgeStop, Store, Requests, Bucket
<1>2. PurgerGoes(w, "ack", {}, purger[w].acks)
  BY <1>1, Parts DEF Typed, PurgerGoes
<1>3. Typed'
  BY <1>1, <1>2, Parts DEF Typed, PurgerGoes
<1>4. UsedTyped'
  BY <1>1, <1>2, Parts, Spends
<1>5. HomeRefs'
  BY <1>1, <1>2, Parts, IdFacts DEF HomeRefs
<1>6. IndexedOnly'
  BY <1>1, <1>2, Parts, IdFacts DEF IndexedOnly
<1>7. LegacyKept'
  BY <1>1, <1>2, Parts, IdFacts DEF LegacyKept
<1>8. UploadsKept'
  BY <1>1, <1>2, Parts, IdFacts DEF UploadsKept
<1>9. ForkKept'
  BY <1>1, <1>2, Parts, IdFacts DEF ForkKept
<1>10. PurgesKept'
  BY <1>1, <1>2, Parts DEF PurgesKept, PurgerGoes
<1>11. ConfirmedKept'
  BY <1>1, <1>2, Parts, IdFacts DEF ConfirmedKept
<1>12. SourceKept'
  BY <1>1, <1>2, Parts, IdFacts DEF SourceKept
<1>13. ChatsKept'
  BY <1>1, <1>2, Parts, IdFacts DEF ChatsKept
<1>14. ObjectsKept'
  BY <1>1, <1>2, Parts, IdFacts DEF ObjectsKept
<1> QED
  BY <1>3, <1>4, <1>5, <1>6, <1>7, <1>8, <1>9, <1>10, <1>11, <1>12, <1>13, <1>14, Whole

LEMMA CrashStep ==
  ASSUME FileInv, NEW w \in Workers, Crash(w)
  PROVE  FileInv'
<1>1. /\ purger' = [purger EXCEPT ![w] = NoPurge]
      /\ used' = used \/ Fault
      /\ UNCHANGED <<index, legacy, ledger, queue, chat, forked, up, fork, promo, drop, got,
                     user, doomed, obj, leaked>>
  BY DEF Crash, Store, Requests, Bucket
<1>2. PurgerGoes(w, "idle", {}, {})
  BY <1>1, Parts DEF Typed, PurgerGoes, NoPurge
<1>3. Typed'
  BY <1>1, <1>2, Parts DEF Typed, PurgerGoes
<1>4. UsedTyped'
  BY <1>1, <1>2, Parts, Spends
<1>5. HomeRefs'
  BY <1>1, <1>2, Parts, IdFacts DEF HomeRefs
<1>6. IndexedOnly'
  BY <1>1, <1>2, Parts, IdFacts DEF IndexedOnly
<1>7. LegacyKept'
  BY <1>1, <1>2, Parts, IdFacts DEF LegacyKept
<1>8. UploadsKept'
  BY <1>1, <1>2, Parts, IdFacts DEF UploadsKept
<1>9. ForkKept'
  BY <1>1, <1>2, Parts, IdFacts DEF ForkKept
<1>10. PurgesKept'
  BY <1>1, <1>2, Parts DEF PurgesKept, PurgerGoes
<1>11. ConfirmedKept'
  BY <1>1, <1>2, Parts, IdFacts DEF ConfirmedKept
<1>12. SourceKept'
  BY <1>1, <1>2, Parts, IdFacts DEF SourceKept
<1>13. ChatsKept'
  BY <1>1, <1>2, Parts, IdFacts DEF ChatsKept
<1>14. ObjectsKept'
  BY <1>1, <1>2, Parts, IdFacts DEF ObjectsKept
<1> QED
  BY <1>3, <1>4, <1>5, <1>6, <1>7, <1>8, <1>9, <1>10, <1>11, <1>12, <1>13, <1>14, Whole

LEMMA PurgeAckStep ==
  ASSUME FileInv, NEW w \in Workers, PurgeAck(w)
  PROVE  FileInv'
<1>1. /\ purger' = [purger EXCEPT ![w] = NoPurge]
      /\ used' = used \/ Fault
      /\ \/ queue' = [i \in Ids |-> IF i \in purger[w].acks /\ queue[i] = w
                                    THEN "none" ELSE queue[i]]
         \/ queue' = queue
      /\ UNCHANGED <<index, legacy, ledger, chat, forked, up, fork, promo, drop, got, user,
                     doomed, obj, leaked>>
  BY DEF PurgeAck, Requests, Bucket
<1>2. PurgerGoes(w, "idle", {}, {})
  BY <1>1, Parts DEF Typed, PurgerGoes, NoPurge
<1>3. /\ queue' \in [Ids -> {"none", "free"} \cup Workers]
      /\ \A i \in Ids : \/ queue'[i] = queue[i]
                       \/ /\ queue'[i] = "none" /\ queue[i] = w /\ i \notin obj
  BY <1>1, Parts DEF Typed, PurgesKept
<1>4. Typed'
  BY <1>1, <1>2, <1>3, Parts DEF Typed, PurgerGoes
<1>5. UsedTyped'
  BY <1>1, <1>2, <1>3, Parts, Spends
<1>6. HomeRefs'
  BY <1>1, <1>2, <1>3, Parts, IdFacts DEF HomeRefs
<1>7. IndexedOnly'
  BY <1>1, <1>2, <1>3, Parts DEF IndexedOnly, Typed
<1>8. LegacyKept'
  BY <1>1, <1>2, <1>3, Parts, IdFacts DEF LegacyKept
<1>9. UploadsKept'
  BY <1>1, <1>2, <1>3, Parts, IdFacts DEF UploadsKept
<1>10. ForkKept'
  BY <1>1, <1>2, <1>3, Parts, IdFacts DEF ForkKept
<1>11. PurgesKept'
  BY <1>1, <1>2, <1>3, Parts, WorkerFacts DEF PurgesKept, PurgerGoes
<1>12. ConfirmedKept'
  BY <1>1, <1>2, <1>3, Parts, IdFacts DEF ConfirmedKept
<1>13. SourceKept'
  BY <1>1, <1>2, <1>3, Parts, IdFacts DEF SourceKept
<1>14. ChatsKept'
  BY <1>1, <1>2, <1>3, Parts, IdFacts DEF ChatsKept
<1>15. ObjectsKept'
  BY <1>1, <1>2, <1>3, Parts DEF ObjectsKept, Typed
<1> QED
  BY <1>4, <1>5, <1>6, <1>7, <1>8, <1>9, <1>10, <1>11, <1>12, <1>13, <1>14, <1>15, Whole

LEMMA LeaseExpiresStep ==
  ASSUME FileInv, NEW w \in Workers, NEW id \in Ids, LeaseExpires(w, id)
  PROVE  FileInv'
<1>1. /\ queue[id] = w /\ ~(purger[w].pc = "delete" /\ id \in purger[w].todo)
      /\ used' = used \/ Fault
      /\ queue' = [queue EXCEPT ![id] = "free"]
      /\ UNCHANGED <<index, legacy, ledger, chat, forked, up, fork, promo, drop, got, user,
                     doomed, purger, obj, leaked>>
  BY DEF LeaseExpires, WithinBudget, Requests, Sweepers, Bucket
<1>2. /\ queue'[id] = "free" /\ (\A i \in Ids : i # id => queue'[i] = queue[i])
      /\ queue' \in [Ids -> {"none", "free"} \cup Workers]
      /\ queue[id] # "none"
  BY <1>1, Parts, WorkerFacts DEF Typed
<1>3. Typed'
  BY <1>1, <1>2, Parts, IdFacts DEF Typed
<1>4. UsedTyped'
  BY <1>1, <1>2, Parts, Spends
<1>5. HomeRefs'
  BY <1>1, <1>2, Parts, IdFacts DEF HomeRefs
<1>6. IndexedOnly'
  BY <1>1, <1>2, Parts DEF IndexedOnly, Typed
<1>7. LegacyKept'
  BY <1>1, <1>2, Parts, IdFacts DEF LegacyKept
<1>8. UploadsKept'
  BY <1>1, <1>2, Parts, IdFacts DEF UploadsKept
<1>9. ForkKept'
  BY <1>1, <1>2, Parts, IdFacts DEF ForkKept
<1>10. PurgesKept'
  BY <1>1, <1>2, Parts, WorkerFacts DEF PurgesKept
<1>11. ConfirmedKept'
  BY <1>1, <1>2, Parts, IdFacts DEF ConfirmedKept
<1>12. SourceKept'
  BY <1>1, <1>2, Parts, IdFacts DEF SourceKept
<1>13. ChatsKept'
  BY <1>1, <1>2, Parts, IdFacts DEF ChatsKept
<1>14. ObjectsKept'
  BY <1>1, <1>2, Parts DEF ObjectsKept, Typed
<1> QED
  BY <1>3, <1>4, <1>5, <1>6, <1>7, <1>8, <1>9, <1>10, <1>11, <1>12, <1>13, <1>14, Whole

-----------------------------------------------------------------------------
(* The chat of a fork. *)

LEMMA TargetFacts ==
  ASSUME FileInv
  PROVE  /\ \A id \in chat["target"].refs : id \in Ids /\ Home(id) = "target"
         /\ ~chat["target"].present => chat["target"].refs = {}
         /\ \A id \in Ids : up[id].pc # "idle" /\ Home(id) = "target" =>
              fork.pc = "copy" /\ id \in fork.todo
  BY Parts DEF Typed, Chats, HomeRefs, ChatsKept, UploadsKept

LEMMA UploadTarget ==
  ASSUME FileInv, TargetKept, ~RacingUploads, ~ReplayRefused,
         NEW id \in Ids, PutObject(id) \/ Register(id) \/ Rollback(id)
  PROVE  TargetKept'
<1>1. /\ up[id].pc # "idle" /\ UNCHANGED <<forked, chat, doomed>> /\ index \subseteq index'
      /\ up[id].pc # "rollback" => obj \subseteq obj'
      /\ ledger' \subseteq ledger /\ obj \ {id} \subseteq obj'
  <2>1. CASE PutObject(id)
    BY <2>1 DEF PutObject, Store, Sweepers
  <2>2. CASE Register(id)
    BY <2>2 DEF Register, Indexed, Sweepers, Bucket
  <2>3. CASE Rollback(id)
    BY <2>3 DEF Rollback, Store, Sweepers
  <2> QED
    BY <2>1, <2>2, <2>3
<1>2. \/ UpGoes(id, "register") /\ UNCHANGED fork
      \/ UpGoes(id, "rollback") /\ UNCHANGED fork /\ MayRefuse(id)
      \/ Succeeded(id) /\ ledger' = ledger \ {id}
      \/ Failed(id) /\ (MayRefuse(id) \/ up[id].pc = "rollback")
  <2>1. (Finish(id, FALSE) => Failed(id)) /\ (Finish(id, TRUE) => Succeeded(id))
    BY <1>1, Finishes
  <2>2. CASE PutObject(id)
    <3>1. up[id].own \in BOOLEAN /\ Typed
      BY Parts DEF Typed
    <3>2. \/ SetUp(id, "register", up[id].own) /\ UNCHANGED fork
          \/ Finish(id, FALSE) /\ MayRefuse(id)
      BY <2>2 DEF PutObject
    <3> QED
      BY <2>1, <3>1, <3>2, SetUpGoes
  <2>3. CASE Register(id)
    <3>1. \/ Finish(id, TRUE) /\ ledger' = ledger \ {id}
          \/ Finish(id, FALSE) /\ MayRefuse(id)
          \/ SetUp(id, "rollback", FALSE) /\ UNCHANGED fork /\ MayRefuse(id)
      BY <2>3 DEF Register, Indexed
    <3> QED
      BY <2>1, <3>1, Parts, SetUpGoes
  <2>4. CASE Rollback(id)
    BY <2>1, <2>4 DEF Rollback
  <2> QED
    BY <2>2, <2>3, <2>4
<1>3. /\ Home(id) = "target" /\ MayRefuse(id) => ~forked
      /\ Home(id) = "target" /\ up[id].pc = "rollback" => ~forked
      /\ Home(id) \in {"source", "target"}
  BY IdFacts DEF MayRefuse, TargetKept
<1>4. ~forked' => chat'["target"].refs = {}
  BY <1>1 DEF TargetKept
<1>5. fork'.pc = "clean" => ~forked'
  BY <1>1, <1>2, <1>3 DEF TargetKept, Succeeded, Failed
<1>6. ASSUME NEW i \in Ids, Home(i) = "target", up'[i].pc = "rollback" PROVE ~forked'
  <2>1. i # id => up'[i] = up[i]
    BY <1>2 DEF UpGoes, Succeeded, Failed
  <2>2. i = id => MayRefuse(id)
    BY <1>2, <1>6 DEF UpGoes, Succeeded, Failed
  <2> QED
    BY <1>1, <1>3, <1>6, <2>1, <2>2 DEF TargetKept
<1>7. ASSUME NEW i \in chat'["target"].refs
      PROVE  /\ i \in index' \cap obj' /\ i \notin doomed'
             /\ i \in ledger' => up'[i].pc # "idle"
  <2>1. /\ i \in chat["target"].refs /\ i \in Ids /\ Home(i) = "target" /\ forked
        /\ i \in index \cap obj /\ i \notin doomed /\ (i \in ledger => up[i].pc # "idle")
    BY <1>1, <1>7, TargetFacts DEF TargetKept
  <2>2. i = id => up[id].pc # "rollback" /\ ~MayRefuse(id)
    BY <1>3, <2>1
  <2>3. i \in index' \cap obj' /\ i \notin doomed'
    BY <1>1, <2>1, <2>2
  <2>4. i # id => up'[i] = up[i]
    BY <1>2, <2>1 DEF UpGoes, Succeeded, Failed
  <2>5. i = id => up'[i].pc # "idle" \/ i \notin ledger'
    BY <1>2, <2>2 DEF UpGoes
  <2> QED
    BY <1>1, <2>1, <2>3, <2>4, <2>5
<1> QED
  BY <1>4, <1>5, <1>6, <1>7 DEF TargetKept

LEMMA ReserveTarget ==
  ASSUME FileInv, TargetKept, ~RacingUploads, ~ReplayRefused,
         NEW id \in Ids, Reserve(id), fork' = fork
  PROVE  TargetKept'
<1>1. /\ ledger' = ledger \cup {id} /\ SetUp(id, "put", id \notin ledger)
      /\ UNCHANGED <<index, chat, forked, doomed, obj>>
  BY DEF Reserve, Guarded, Sweepers, Bucket
<1>2. UpGoes(id, "put")
  <2>1. (id \notin ledger) \in BOOLEAN
    OBVIOUS
  <2> QED
    BY <1>1, <2>1, Parts, SetUpGoes
<1> QED
  BY <1>1, <1>2, TargetFacts DEF TargetKept, UpGoes

LEMMA ForkBeginTarget ==
  ASSUME FileInv, TargetKept, ~RacingUploads, ~ReplayRefused,
         ForkBegin \/ ForkFailed
  PROVE  TargetKept'
<1>1. fork'.pc # "clean" /\ UNCHANGED <<index, obj, ledger, doomed, up, chat, forked>>
  <2>1. CASE ForkBegin
    <3>1. PICK todo : fork' = [NoFork EXCEPT !.pc = "copy", !.todo = todo]
      BY <2>1 DEF ForkBegin
    <3>2. fork'.pc = "copy"
      BY <3>1 DEF NoFork
    <3> QED
      BY <2>1, <3>2 DEF ForkBegin, Store, Sweepers, Bucket
  <2>2. CASE ForkFailed
    BY <2>2 DEF ForkFailed, NoFork, Store, Sweepers, Bucket
  <2> QED
    BY <2>1, <2>2
<1> QED
  BY <1>1 DEF TargetKept

LEMMA ForkPushTarget ==
  ASSUME FileInv, TargetKept, ~RacingUploads, ~ReplayRefused,
         ForkPush
  PROVE  TargetKept'
<1>1. /\ fork.pc = "copy" /\ fork.todo = {} /\ fork'.pc = "idle"
      /\ UNCHANGED <<index, obj, ledger, doomed, up>>
      /\ \/ UNCHANGED <<chat, forked>>
         \/ forked /\ forked' /\ UNCHANGED chat
         \/ /\ forked' /\ (\A id \in fork.made : Known(id))
            /\ chat' = [chat EXCEPT !["target"] = [present |-> TRUE, refs |-> fork.made]]
  BY DEF ForkPush, Stored, NoFork, Sweepers, Bucket
<1>2. \A id \in Ids : Home(id) = "target" => up[id].pc = "idle"
  BY <1>1, TargetFacts
<1>3. \A id \in fork.made : Known(id) =>
        id \in index \cap obj /\ id \notin doomed /\ id \notin ledger
  BY <1>1, Parts DEF ForkKept, LegacyKept, Old, Known, Typed
<1>4. chat' = chat \/ chat'["target"].refs = fork.made
  BY <1>1, Parts DEF Typed, Chats
<1> QED
  BY <1>1, <1>2, <1>3, <1>4 DEF TargetKept

LEMMA ForkRefusedTarget ==
  ASSUME FileInv, TargetKept, ~RacingUploads, ~ReplayRefused,
         ForkRefused
  PROVE  TargetKept'
<1>1. /\ ~forked /\ UNCHANGED <<index, obj, ledger, doomed, up, chat, forked>>
  BY DEF ForkRefused, Sweepers, Bucket
<1> QED
  BY <1>1 DEF TargetKept

LEMMA ForkCopyFailsTarget ==
  ASSUME FileInv, TargetKept, ~RacingUploads, ~ReplayRefused,
         NEW id \in Ids, ForkCopyFails(id)
  PROVE  TargetKept'
<1>1. /\ fork.pc = "copy" /\ id \in fork.todo /\ MayRefuse(id)
      /\ UNCHANGED <<index, obj, ledger, doomed, up, chat, forked>>
  BY DEF ForkCopyFails, Store, Sweepers, Bucket
<1>2. ~forked
  BY <1>1, Parts DEF ForkKept, MayRefuse
<1> QED
  BY <1>1, <1>2 DEF TargetKept

LEMMA ForkCleanTarget ==
  ASSUME FileInv, TargetKept, ~RacingUploads, ~ReplayRefused,
         NEW id \in Ids, ForkClean(id)
  PROVE  TargetKept'
<1>1. /\ fork.pc = "clean" /\ UNCHANGED <<up, chat, forked>>
  BY DEF ForkClean
<1>2. ~forked /\ chat["target"].refs = {}
  BY <1>1 DEF TargetKept
<1> QED
  BY <1>1, <1>2 DEF TargetKept

LEMMA ForkCopyTarget ==
  ASSUME FileInv, TargetKept, ~RacingUploads, ~ReplayRefused,
         NEW id \in Ids, ForkCopy(id) \/ Upload(id)
  PROVE  TargetKept'
<1>1. Reserve(id) /\ fork' = fork
  BY DEF ForkCopy, Upload
<1> QED
  BY <1>1, ReserveTarget

LEMMA DropTarget ==
  ASSUME FileInv, TargetKept, ~RacingUploads, ~ReplayRefused,
         NEW id \in Ids, Drop(id) \/ DropObject(id)
  PROVE  TargetKept'
<1>1. /\ UNCHANGED <<ledger, up, chat, forked, fork, doomed>>
      /\ index \ {id} \subseteq index' /\ obj \ {id} \subseteq obj'
  BY DEF Drop, DropObject, DeleteObject, Store, Sweepers, Bucket
<1>2. Home(id) = "source"
  BY Parts DEF Drop, DropObject, ConfirmedKept
<1> QED
  BY <1>1, <1>2, TargetFacts DEF TargetKept

LEMMA PromoteTarget ==
  ASSUME FileInv, TargetKept, ~RacingUploads, ~ReplayRefused,
         NEW id \in Ids, Promote(id) \/ PromotePut(id) \/ PromoteRegister(id)
  PROVE  TargetKept'
<1>1. /\ UNCHANGED <<up, chat, forked, fork, doomed>>
      /\ index \subseteq index' /\ obj \subseteq obj' /\ ledger' \subseteq ledger
  BY DEF Promote, PromotePut, PromoteRegister, Indexed, Store, Sweepers, Bucket
<1> QED
  BY <1>1, TargetFacts DEF TargetKept

LEMMA PushChatTarget ==
  ASSUME FileInv, TargetKept, ~RacingUploads, ~ReplayRefused,
         NEW refs, PushChat(refs)
  PROVE  TargetKept'
<1>1. /\ UNCHANGED <<index, obj, ledger, up, forked, fork, doomed>>
      /\ chat' = [chat EXCEPT !["source"] = [present |-> TRUE, refs |-> refs]]
  BY DEF PushChat, Stored, Requests, Sweepers, Bucket
<1>2. chat'["target"] = chat["target"]
  BY <1>1, Parts DEF Typed, Chats
<1> QED
  BY <1>1, <1>2 DEF TargetKept

LEMMA DeleteChatTarget ==
  ASSUME FileInv, TargetKept, ~RacingUploads, ~ReplayRefused,
         NEW c \in Chats, DeleteChat(c)
  PROVE  TargetKept'
<1>1. /\ UNCHANGED <<obj, ledger, up, forked, fork>>
      /\ chat' = [chat EXCEPT ![c] = [present |-> FALSE, refs |-> {}]]
      /\ index' = index \ {id \in index : Home(id) = c}
      /\ doomed' = doomed \cup {id \in index : Home(id) = c}
  BY DEF DeleteChat, Requests, Bucket
<1>2. /\ c = "target" => chat'["target"].refs = {}
      /\ c # "target" => chat'["target"] = chat["target"]
  BY <1>1, Parts DEF Typed, Chats
<1> QED
  BY <1>1, <1>2, TargetFacts DEF TargetKept

LEMMA SweepTarget ==
  ASSUME FileInv, TargetKept, ~RacingUploads, ~ReplayRefused,
         NEW id \in Ids, SweepPending(id) \/ SweepOrphan(id) \/ Purge(id) \/ DeleteDoomed(id)
  PROVE  TargetKept'
<1>1. /\ UNCHANGED <<up, chat, forked, fork>> /\ ledger' \subseteq ledger
      /\ index \ {id} \subseteq index' /\ obj \ {id} \subseteq obj'
      /\ doomed' \subseteq doomed \cup {id}
  BY DEF SweepPending, SweepOrphan, Purge, DeleteDoomed, HandedOut, DeleteObject,
     Store, Requests, Sweepers, Bucket
<1>2. id \notin chat["target"].refs
  <2>1. CASE SweepPending(id)
    BY <2>1 DEF SweepPending, MayDelete, TargetKept
  <2>2. CASE SweepOrphan(id)
    BY <2>2, TargetFacts DEF SweepOrphan
  <2>3. CASE Purge(id)
    BY <2>3, TargetFacts DEF Purge
  <2>4. CASE DeleteDoomed(id)
    BY <2>4 DEF DeleteDoomed, TargetKept
  <2> QED
    BY <2>1, <2>2, <2>3, <2>4
<1> QED
  BY <1>1, <1>2, TargetFacts DEF TargetKept

LEMMA PurgeTarget ==
  ASSUME FileInv, TargetKept, ~RacingUploads, ~ReplayRefused,
         NEW w \in Workers, PurgeStep(w)
  PROVE  TargetKept'
<1>1. UNCHANGED <<index, ledger, up, chat, forked, fork, doomed>>
  BY DEF PurgeStep, Claim, PurgeStop, PurgeAck, Crash, PurgeDelete, LeaseExpires, Store,
     Requests, Sweepers, Bucket
<1>2. index \cap obj \subseteq obj'
  <2>1. ASSUME NEW id \in Ids, PurgeDelete(w, id) PROVE index \cap obj \subseteq obj'
    <3>1. purger[w].pc = "delete" /\ id \in purger[w].todo /\ obj \ {id} \subseteq obj'
      BY <2>1 DEF PurgeDelete
    <3>2. id \notin index
      BY <3>1, Parts, WorkerFacts DEF PurgesKept, IndexedOnly
    <3> QED
      BY <3>1, <3>2
  <2>2. ASSUME ~\E id \in Ids : PurgeDelete(w, id) PROVE obj' = obj
    BY <2>2 DEF PurgeStep, Claim, PurgeStop, PurgeAck, Crash, LeaseExpires, Bucket
  <2> QED
    BY <2>1, <2>2
<1> QED
  BY <1>1, <1>2 DEF TargetKept

-----------------------------------------------------------------------------
LEMMA FileInitial ==
  ASSUME Init PROVE FileInv /\ TargetKept
<1>1. /\ obj = {} /\ index = {} /\ ledger = {} /\ leaked = {}
      /\ legacy = {"source"} \X Olds
      /\ queue = [id \in Ids |-> "none"]
      /\ chat = [c \in Chats |-> [present |-> c = "source",
                                  refs |-> IF c = "source" THEN legacy ELSE {}]]
      /\ up = [id \in Ids |-> [pc |-> "idle", own |-> FALSE]]
      /\ fork = NoFork /\ forked = FALSE
      /\ promo = [id \in Ids |-> "idle"]
      /\ drop = {} /\ doomed = {} /\ user = {}
      /\ purger = [w \in Workers |-> NoPurge]
      /\ got = legacy
      /\ used = [upload |-> 0, fork |-> 0, push |-> 0, drop |-> 0, fault |-> 0]
  BY DEF Init
<1>2. legacy \subseteq Ids /\ \A id \in legacy : Old(id) /\ Home(id) = "source"
  BY <1>1 DEF Ids, Chats, Old, Home
<1>3. /\ chat["source"] = [present |-> TRUE, refs |-> legacy]
      /\ chat["target"] = [present |-> FALSE, refs |-> {}]
      /\ Chats = {"source", "target"}
  BY <1>1 DEF Chats
<1>4. Typed
  <2>1. chat \in [Chats -> [present : BOOLEAN, refs : SUBSET Ids]]
    BY <1>1, <1>2 DEF Chats
  <2>2. /\ NoFork \in [pc : {"idle", "copy", "clean"}, todo : SUBSET Ids, made : SUBSET Ids]
        /\ NoPurge \in [pc : {"idle", "delete", "ack"}, todo : SUBSET Ids, acks : SUBSET Ids]
    BY DEF NoFork, NoPurge
  <2> QED
    BY <1>1, <1>2, <2>1, <2>2 DEF Typed
<1>5. UsedTyped
  BY <1>1 DEF UsedTyped
<1>6. HomeRefs /\ IndexedOnly
  BY <1>1, <1>2, <1>3 DEF HomeRefs, IndexedOnly
<1>7. LegacyKept /\ UploadsKept
  BY <1>1, <1>2 DEF LegacyKept, UploadsKept
<1>8. ForkKept /\ PurgesKept
  BY <1>1 DEF ForkKept, PurgesKept, NoFork, NoPurge
<1>9. ConfirmedKept /\ SourceKept /\ ChatsKept /\ ObjectsKept
  BY <1>1, <1>3 DEF ConfirmedKept, SourceKept, ChatsKept, ObjectsKept
<1>10. TargetKept
  BY <1>1, <1>3 DEF TargetKept, NoFork
<1> QED
  BY <1>4, <1>5, <1>6, <1>7, <1>8, <1>9, <1>10, Typing DEF FileInv

LEMMA FileStutters ==
  ASSUME FileInv, UNCHANGED vars PROVE FileInv' /\ (TargetKept => TargetKept')
<1>1. UNCHANGED <<obj, index, legacy, ledger, queue, chat, up, fork, forked, promo, drop,
                  doomed, purger, got, user, leaked, used>>
  BY DEF vars
<1> QED
  BY <1>1 DEF FileInv, TypeOK, LegacyKept, UploadsKept, ForkKept, PurgesKept, ConfirmedKept,
     SourceKept, ChatsKept, ObjectsKept, TargetKept

LEMMA FileStep ==
  ASSUME FileInv, ~RacingUploads, [Next]_vars PROVE FileInv'
<1>1. ASSUME Client PROVE FileInv'
  BY <1>1, UploadStep, DropStep, PromoteStep, PushChatStep, DeleteChatStep, ForkBeginStep
     DEF Client
<1>2. ASSUME NEW id \in Ids, Running(id) PROVE FileInv'
  BY <1>2, PutObjectStep, RegisterStep, RollbackStep, DropObjectStep, PromotePutStep,
     PromoteRegisterStep, ForkCopyStep, ForkCopyFailsStep, ForkCleanStep DEF Running
<1>3. ASSUME NEW id \in Ids, Sweep(id) PROVE FileInv'
  BY <1>3, SweepPendingStep, SweepOrphanStep, PurgeRowStep, DeleteDoomedStep DEF Sweep
<1>4. ASSUME NEW w \in Workers, PurgeStep(w) PROVE FileInv'
  BY <1>4, ClaimStep, PurgeStopStep, PurgeAckStep, CrashStep, PurgeDeleteStep, LeaseExpiresStep
     DEF PurgeStep
<1>5. ASSUME ForkStep PROVE FileInv'
  BY <1>5, ForkPushStep, ForkRefusedStep, ForkFailedStep DEF ForkStep
<1> QED
  BY <1>1, <1>2, <1>3, <1>4, <1>5, FileStutters DEF Next, System

LEMMA TargetStep ==
  ASSUME FileInv, TargetKept, ~RacingUploads, ~ReplayRefused, [Next]_vars PROVE TargetKept'
<1>1. ASSUME Client PROVE TargetKept'
  BY <1>1, ForkCopyTarget, DropTarget, PromoteTarget, PushChatTarget, DeleteChatTarget,
     ForkBeginTarget DEF Client
<1>2. ASSUME NEW id \in Ids, Running(id) PROVE TargetKept'
  BY <1>2, UploadTarget, DropTarget, PromoteTarget, ForkCopyTarget, ForkCopyFailsTarget,
     ForkCleanTarget DEF Running
<1>3. ASSUME NEW id \in Ids, Sweep(id) PROVE TargetKept'
  BY <1>3, SweepTarget DEF Sweep
<1>4. ASSUME ForkStep PROVE TargetKept'
  BY <1>4, ForkPushTarget, ForkRefusedTarget, ForkBeginTarget DEF ForkStep
<1> QED
  BY <1>1, <1>2, <1>3, <1>4, PurgeTarget, FileStutters DEF Next, System

\* The invariant of attachments, objects, ledger, purge queue and requests under
\* way: while an upload runs its guard row stays and nothing deletes its object; a
\* purge worker deletes only under its lease; what a client or a fork has had
\* confirmed and is still indexed has its object.
THEOREM AttachmentInvariant == ASSUME ~RacingUploads PROVE Spec => []FileInv
<1>1. Init => FileInv
  BY FileInitial
<1>2. FileInv /\ [Next]_vars => FileInv'
  BY FileStep
<1> QED
  BY <1>1, <1>2, PTL DEF Spec

\* Type correctness: chats reference their own ids, and no id is indexed and waits
\* in the purge queue at once (AttachmentPut, AttachmentDelete, Fork, the workers).
THEOREM AttachmentsTyped == ASSUME ~RacingUploads PROVE Spec => []TypeOK
<1>1. FileInv => TypeOK
  BY DEF FileInv
<1> QED
  BY <1>1, AttachmentInvariant, PTL

\* No object in the buckets is forgotten, through lost answers, failed deletes,
\* expired leases and restarts, unless its one best-effort delete failed
\* (AttachmentDelete, the purge worker's sweep, the orphan sweepers).
THEOREM ObjectsAccounted == ASSUME ~RacingUploads PROVE Spec => []Accounted
<1>1. FileInv => Accounted
  BY DEF FileInv, ObjectsKept, Accounted, Deleting
<1> QED
  BY <1>1, AttachmentInvariant, PTL

\* What a chat references can be read, unless the user deleted it: no sweeper,
\* purge worker, fork cleanup or rollback takes it away (AttachmentPut, Fork,
\* cleanupNativeAttachments, the workers).
THEOREM ReferencesReadable ==
  ASSUME ~RacingUploads, ~ReplayRefused PROVE Spec => []RefsReadable
<1>1. Init => FileInv /\ TargetKept
  BY FileInitial
<1>2. FileInv /\ TargetKept /\ [Next]_vars => FileInv' /\ TargetKept'
  BY FileStep, TargetStep
<1>3. FileInv /\ TargetKept => RefsReadable
  <2> SUFFICES ASSUME FileInv, TargetKept, NEW c \in Chats, NEW id \in chat[c].refs
               PROVE  Readable(id) \/ id \in legacy \/ id \in user
    BY DEF RefsReadable
  <2>1. id \in Ids /\ Home(id) = c /\ c \in {"source", "target"}
    BY Parts DEF Typed, HomeRefs, Chats
  <2>2. CASE c = "source"
    BY <2>1, <2>2, Parts DEF SourceKept, ConfirmedKept, Readable, OwnerKnown
  <2>3. CASE c = "target"
    BY <2>1, <2>3 DEF TargetKept, Readable, OwnerKnown
  <2> QED
    BY <2>1, <2>2, <2>3
<1> QED
  BY <1>1, <1>2, <1>3, PTL DEF Spec
=============================================================================
