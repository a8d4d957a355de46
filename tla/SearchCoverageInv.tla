-------------------------- MODULE SearchCoverageInv --------------------------
(***************************************************************************)
(* The inductive invariants behind NoMissingChat and CheckpointSound,      *)
(* NoLostUpdate, DropKeepsRecreated, and NoGhostChat, in this order.       *)
(*                                                                         *)
(* Their heart is that what an index may claim is stable: a chat that      *)
(* changes gets a source revision above every revision claimed so far.     *)
(* The predicates about an index take the chat table as a parameter, so    *)
(* that the same lemma speaks of the table before and after a step.        *)
(***************************************************************************)
EXTENDS SearchCoverage

IsLive(ch, c) == ch[c].etag # 0

\* Entries are labelled with a revision up to n.
Labelled(n, ix) ==
    \A c \in Chats : ix.chats[c].rev <= n /\ (Has(ix, c) => ix.chats[c].rev # 0)

\* An entry labelled at or past the last event of its chat is the current one.
Honest(ch, ix) ==
    \A c \in Chats :
        Has(ix, c) /\ ch[c].rev <= ix.chats[c].rev
            => IsLive(ch, c) /\ ix.chats[c].body = ch[c].rev

Reflects(ch, ix, c) == Has(ix, c) /\ ch[c].rev <= ix.chats[c].rev

\* The index reflects every event up to revision p.
Covers(ch, ix, p) ==
    \A c \in Chats : ch[c].rev <= p =>
        /\ IsLive(ch, c) => Reflects(ch, ix, c)
        /\ ~IsLive(ch, c) => ~Has(ix, c)

\* What the pages before `cursor' of a rebuild to `target' have achieved.
Rebuilt(ch, ix, cursor, target) ==
    \A c \in Chats : ch[c].rev <= target =>
        /\ IsLive(ch, c) /\ ch[c].rev <= cursor => Reflects(ch, ix, c)
        /\ ~IsLive(ch, c) => ~Has(ix, c)

CheckpointOK(ch, n, ix) ==
    ix.ckpt.cursor # 0 =>
        /\ ix.ckpt.target \in 1..n
        /\ Rebuilt(ch, ix, ix.ckpt.cursor, ix.ckpt.target)

IndexOK(ch, n, ix) == Labelled(n, ix) /\ Honest(ch, ix) /\ CheckpointOK(ch, n, ix)

ChatOK(ch, n) == \A c \in Chats : ch[c].rev <= n /\ (IsLive(ch, c) => ch[c].rev # 0)

\* A chat that changes does so at a revision that was not used before, and a
\* deleted chat stays deleted unless ids are used again.
ChatGrows(ch, n, ch2, n2) ==
    /\ n <= n2
    /\ \A c \in Chats :
          \/ ch2[c] = ch[c]
          \/ /\ ch2[c].rev > n
             /\ RecreateAllowed \/ IsLive(ch, c) \/ ch[c].rev = 0
-----------------------------------------------------------------------------
\* What is published is sealed under a client's key.  Where clients only use
\* the registered one, registration precedes all index work, and it is that key.
KeyInv ==
    /\ pub.obj => pub.key \in Keys
    /\ RegisteredOnly =>
          /\ pub.obj => pub.key = curKey
          /\ curKey = None => /\ \A w \in Workers : task[w].pc = "idle"
                              /\ \A j \in Jobs : job[j].pc = "idle"

PubInv ==
    /\ pub.published <= sourceRev
    /\ ~pub.obj => pub.ix = EmptyIndex /\ pub.published = 0
    /\ IndexOK(chat, sourceRev, pub.ix)
    /\ ~pub.inc => Covers(chat, pub.ix, pub.published)

\* A snapshot as it was read.
SnapOK(ch, n, s) ==
    /\ s.published <= n
    /\ IndexOK(ch, n, s.ix)
    /\ ~s.inc /\ (s.obj => s.ok) => Covers(ch, s.ix, s.published)

\* What a task knows of its chat, beyond TaskGhostFree below: a chat that was
\* deleted is gone, or it was written again after the delete.
TargetOK(ch, t) ==
    /\ t.op = "index" => t.rev # 0
    /\ t.op = "drop" =>
          /\ RecreateAllowed \/ ch[t.chat].rev # 0
          /\ IsLive(ch, t.chat) => RecreateAllowed /\ t.rev < ch[t.chat].rev

TaskOK(ch, n, t) ==
    t.pc # "idle" =>
        /\ TargetOK(ch, t)
        /\ t.pc = "check" => t.op = "drop"
        /\ t.pc = "probe" => t.op = "index" /\ SnapOK(ch, n, t.snap)
        /\ t.pc = "publish" =>
              /\ IndexOK(ch, n, t.snap.ix)
              /\ ~t.inc => t.covered <= n /\ Covers(ch, t.snap.ix, t.covered)

\* The fetched part of a page.
PageOK(ch, b) ==
    /\ \A c \in Chats : b.items[c].body # 0 =>
          /\ b.items[c].rev = b.target
          /\ ch[c].rev <= b.target => /\ IsLive(ch, c)
                                      /\ b.items[c].body = ch[c].rev
                                      /\ b.items[c].etag = ch[c].etag
    /\ b.pc = "fetch" => \A c \in b.todo : ch[c].rev <= b.target => IsLive(ch, c)

\* A live chat whose row the page listed.
InPage(ch, b, c) ==
    /\ IsLive(ch, c)
    /\ ch[c].rev <= b.target
    /\ b.cursor < ch[c].rev
    /\ b.next = 0 \/ ch[c].rev <= b.next

PageFull(ch, b) ==
    b.failed \/ \A c \in Chats : InPage(ch, b, c) =>
                    b.items[c].body # 0 \/ (b.pc = "fetch" /\ c \in b.todo)

\* The page merged into the snapshot, but for the items still to be probed.
MergeOK(ch, n, b) ==
    LET ix == b.snap.ix
    IN  /\ b.todo \subseteq Fetched(b)
        /\ b.snap.published <= n
        /\ Labelled(n, ix)
        /\ Honest(ch, ix)
        /\ Rebuilt(ch, ix, b.cursor, b.target)
        /\ \A c \in Chats : b.items[c].body # 0 /\ c \notin b.todo /\ InPage(ch, b, c)
                => Reflects(ch, ix, c)
        /\ ~b.snap.inc /\ (b.snap.obj => b.snap.ok) =>
              \A c \in Chats : b.target < ch[c].rev /\ ch[c].rev <= b.snap.published =>
                  /\ IsLive(ch, c) => Reflects(ch, ix, c)
                  /\ ~IsLive(ch, c) => ~Has(ix, c)

\* The generation tells whether the publication is still the one that was read.
SnapFresh(pb, b) ==
    /\ b.snap.gen <= pb.gen
    /\ b.snap.gen = pb.gen =>
          b.snap.obj = pb.obj /\ b.snap.ok = (pb.obj /\ pb.key = b.key)

JobOK(ch, n, pb, b) ==
    b.pc # "idle" =>
        /\ b.target \in 1..n
        /\ b.pc # "list" => PageOK(ch, b) /\ PageFull(ch, b)
        /\ b.pc = "probe" => MergeOK(ch, n, b) /\ SnapFresh(pb, b)

\* One process serves the user, or one key is all that clients have.
OneEnclave == \A p, q \in Procs : ReplicaOf[p] = ReplicaOf[q]
OneKey     == \A k, l \in Keys : k = l

\* The environment the coverage theorem assumes.  Faults, rotations and wipes
\* are not restricted.
Orderly ==
    /\ RegisteredOnly \/ OneKey
    /\ RecreateAllowed => OneEnclave /\ ~MissEchoes
    /\ ~RewrapAllowed
    /\ ~LostObjects

\* Inductive together with GhostInv and, where ids are used again, with
\* RecreationInv, both below.
CoverageInv ==
    /\ TypeOK
    /\ ChatOK(chat, sourceRev)
    /\ KeyInv
    /\ PubInv
    /\ \A w \in Workers : TaskOK(chat, sourceRev, task[w])
    /\ \A j \in Jobs : JobOK(chat, sourceRev, pub, job[j])
-----------------------------------------------------------------------------
\* While the generation is the one a push or delete has read, the index it is
\* about to publish differs from the published one in its own chat at most.
TaskFresh(pb, t) ==
    t.pc \in {"probe", "publish"} =>
        /\ t.snap.gen <= pb.gen
        /\ t.snap.gen = pb.gen /\ t.snap.ok =>
              \A c \in Chats \ {t.chat} : t.snap.ix.chats[c] = pb.ix.chats[c]

WritersFresh == \A w \in Workers : TaskFresh(pub, task[w])
-----------------------------------------------------------------------------
\* Contents are known by the revision that wrote them, which precedes every
\* write still to come.
Written(n, ix) == \A c \in Chats : ix.chats[c].body <= n

TaskWritten(n, t) == t.rev <= n /\ Written(n, t.snap.ix)

JobWritten(n, b) == Written(n, b.snap.ix) /\ \A c \in Chats : b.items[c].body <= n

ContentsWritten ==
    /\ ChatOK(chat, sourceRev)
    /\ Written(sourceRev, pub.ix)
    /\ \A w \in Workers : TaskWritten(sourceRev, task[w])
    /\ \A j \in Jobs : JobWritten(sourceRev, job[j])

\* Who is about to publish, or to drop, holds the lock of its process.
Holds(t) == t.pc \in {"probe", "publish"} \/ (t.pc = "read" /\ t.op = "drop")

PublishersLock ==
    /\ \A w \in Workers : Holds(task[w]) => lock[ReplicaOf[w]] = w
    /\ \A j \in Jobs : job[j].pc = "probe" => lock[ReplicaOf[j]] = j

\* A cleanup that found its chat gone: if it came back since, then the index
\* does not know.
Unindexed(t) ==
    t.op = "drop" /\ t.pc \notin {"idle", "check"} /\ Live(t.chat) =>
        pub.ix.chats[t.chat].body # chat[t.chat].rev

RecreationInv ==
    TypeOK /\ ContentsWritten /\ PublishersLock /\ \A w \in Workers : Unindexed(task[w])
-----------------------------------------------------------------------------
(* Deletes alone.  What an index knows of deleted chats does not depend on  *)
(* keys, rewraps, recreated chats or readable objects: a writer that cannot *)
(* load the index starts from an empty one, and an entry is only added for  *)
(* a chat that is there.                                                    *)

\* No chat deleted up to revision p is in the index.
NoGhosts(ch, ix, p) ==
    \A c \in Chats : ~IsLive(ch, c) /\ ch[c].rev <= p => ~Has(ix, c)

\* An entry labelled at or past the last event of its chat is of a live chat.
Vouched(ch, n, ix) ==
    \A c \in Chats :
        /\ ix.chats[c].rev <= n
        /\ Has(ix, c) /\ ch[c].rev <= ix.chats[c].rev => IsLive(ch, c)

GhostFree(ch, n, ix) ==
    /\ Vouched(ch, n, ix)
    /\ ix.ckpt.cursor # 0 => ix.ckpt.target <= n /\ NoGhosts(ch, ix, ix.ckpt.target)

\* Holds of the publication record and of a snapshot of it.
SnapGhostFree(ch, n, s) ==
    /\ s.published <= n
    /\ GhostFree(ch, n, s.ix)
    /\ ~s.inc => NoGhosts(ch, s.ix, s.published)

\* The revision of a task is that of an event of its chat, or none; the answer
\* to a delete of an absent chat may carry a later one.
EventOf(ch, t) ==
    \/ \A d \in Chats : t.rev # 0 /\ ch[d].rev = t.rev => d = t.chat
    \/ /\ ~RecreateAllowed
       /\ t.op = "drop"
       /\ ~IsLive(ch, t.chat)
       /\ ch[t.chat].rev \in 1..(t.rev - 1)

TaskGhostFree(ch, n, t) ==
    t.pc # "idle" =>
        /\ t.rev <= n
        /\ EventOf(ch, t)
        /\ t.op = "index" =>
              /\ t.rev <= ch[t.chat].rev
              /\ ch[t.chat].rev = t.rev => IsLive(ch, t.chat)
        /\ t.pc = "probe" => t.op = "index" /\ SnapGhostFree(ch, n, t.snap)
        /\ t.pc = "publish" =>
              /\ GhostFree(ch, n, t.snap.ix)
              /\ ~t.inc => t.covered <= n /\ NoGhosts(ch, t.snap.ix, t.covered)

JobGhostFree(ch, n, b) ==
    /\ b.target <= n
    /\ \A c \in Chats : b.items[c].rev <= n
    /\ b.pc = "probe" =>
          /\ b.snap.published <= n
          /\ Vouched(ch, n, b.snap.ix)
          /\ NoGhosts(ch, b.snap.ix, b.target)
          /\ ~b.snap.inc => NoGhosts(ch, b.snap.ix, b.snap.published)

EventsDistinct(ch, n) ==
    /\ \A c \in Chats : ch[c].rev <= n
    /\ \A c, d \in Chats : ch[c].rev = ch[d].rev /\ ch[c].rev # 0 => c = d

GhostInv ==
    /\ TypeOK
    /\ EventsDistinct(chat, sourceRev)
    /\ SnapGhostFree(chat, sourceRev, pub)
    /\ \A w \in Workers : TaskGhostFree(chat, sourceRev, task[w])
    /\ \A j \in Jobs : JobGhostFree(chat, sourceRev, job[j])

\* Chats are written and deleted at revisions that were not used before, and a
\* deleted chat is left alone unless ids are used again.
EventsGrow(ch, n, ch2, n2) ==
    /\ n <= n2
    /\ \A c \in Chats :
          \/ ch2[c].rev = ch[c].rev /\ (IsLive(ch2, c) <=> IsLive(ch, c))
          \/ /\ ch2[c].rev > n
             /\ RecreateAllowed \/ IsLive(ch, c) \/ ch[c].rev = 0

\* A delete of an absent chat may be answered with the revision of another
\* event, or a chat id may be used again after a delete, but not both.
MissesHarmless == ~(MissEchoes /\ RecreateAllowed)
=============================================================================
