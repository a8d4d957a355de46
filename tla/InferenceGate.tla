---------------------------- MODULE InferenceGate ----------------------------
(***************************************************************************)
(* The gate in front of the embedding service: how many calls of a user,   *)
(* and of everybody, are under way at a time.                              *)
(*                                                                         *)
(* A call looks its user's limiter up, or makes one, evicting idle ones    *)
(* when too many are tracked.  A background call first waits for its rate, *)
(* then for a slot of the user and a global one, until its context ends; a *)
(* foreground call takes what it can get at once, its rate last.  Whatever *)
(* a call took it gives back in steps.                                     *)
(*                                                                         *)
(* Time is abstracted: any set of idle limiters may be the one to evict,   *)
(* and a rate reservation is granted or not.                               *)
(***************************************************************************)
EXTENDS Naturals, FiniteSets

CONSTANTS
    Users,
    Calls,            \* goroutines that embed, one call at a time
    UserOf,           \* the user of each
    Background,       \* the calls that wait
    UserConcurrent,   \* slots of a user
    GlobalConcurrent, \* slots of all
    MaxTracked        \* searchLimiterMaxTrackedUsers

ASSUME GateConstants ==
    /\ IsFiniteSet(Users) /\ IsFiniteSet(Calls)
    /\ UserOf \in [Calls -> Users]
    /\ Background \subseteq Calls
    /\ {UserConcurrent, GlobalConcurrent, MaxTracked} \subseteq Nat \ {0}

VARIABLES
    tracked, \* the limiter in the map of the gate of each user, or 0
    lim,     \* limiters: calls that use them and slots taken
    gslots,  \* global slots taken
    call     \* calls: where they are, their limiter, the slots they hold

vars == <<tracked, lim, gslots, call>>

\* A limiter lives as long as the map or a call refers to it.
Limiters == 1..(Cardinality(Users) + Cardinality(Calls))

NoCall == [pc |-> "idle", lim |-> 0, held |-> {}]
Waiting(c) == call[c].pc \in {"rate", "user", "global"}

\* Type invariant.
TypeOK ==
    /\ tracked \in [Users -> Limiters \cup {0}]
    /\ lim \in [Limiters -> [active : 0..Cardinality(Calls), slots : 0..UserConcurrent]]
    /\ gslots \in 0..GlobalConcurrent
    /\ call \in [Calls -> [pc : {"idle", "rate", "user", "global", "reserve", "embed", "unwind"},
                           lim : Limiters \cup {0}, held : SUBSET {"user", "global"}]]
    /\ Cardinality({u \in Users : tracked[u] # 0}) <= MaxTracked

Init ==
    /\ tracked = [u \in Users |-> 0]
    /\ lim = [l \in Limiters |-> [active |-> 0, slots |-> 0]]
    /\ gslots = 0
    /\ call = [c \in Calls |-> NoCall]
-----------------------------------------------------------------------------
Used(l) == (\E u \in Users : tracked[u] = l) \/ (\E c \in Calls : call[c].lim = l)

\* Mutant: evicts a limiter in use.
IdleOrNot(u) == tracked[u] # 0

Idle(u) == tracked[u] # 0 /\ lim[tracked[u]].active = 0

\* Mutant: one user too many.
FullLate == Cardinality({u \in Users : tracked[u] # 0}) > MaxTracked

Full == Cardinality({u \in Users : tracked[u] # 0}) >= MaxTracked

\* The sets of users that may be evicted to make room: the ones idle for long, or
\* the one idle for longest.
Evictions ==
    IF ~Full THEN {{}}
    ELSE (SUBSET {u \in Users : Idle(u)}) \ {{}}

Enter(c, l) ==
    call' = [call EXCEPT ![c] = [pc |-> IF c \in Background THEN "rate" ELSE "user",
                                 lim |-> l, held |-> {}]]

\* beginUser.  When every tracked user is active a new one is refused, and nothing
\* changes.
Begin(c) ==
    LET u == UserOf[c] IN
    /\ call[c].pc = "idle"
    /\ \/ /\ tracked[u] # 0
          /\ lim' = [lim EXCEPT ![tracked[u]].active = @ + 1]
          /\ Enter(c, tracked[u])
          /\ UNCHANGED tracked
       \/ /\ tracked[u] = 0
          /\ \E out \in Evictions, l \in Limiters :
               /\ ~Used(l) /\ \A k \in 1..(l - 1) : Used(k)
               /\ tracked' = [v \in Users |-> IF v = u THEN l ELSE IF v \in out THEN 0 ELSE tracked[v]]
               /\ lim' = [lim EXCEPT ![l] = [active |-> 1, slots |-> 0]]
               /\ Enter(c, l)
    /\ UNCHANGED gslots

Go(c, pc) == call' = [call EXCEPT ![c].pc = pc]
Hold(c, what, pc) == call' = [call EXCEPT ![c].pc = pc, ![c].held = @ \cup {what}]

\* waitForSearchInferenceRate: granted in the end, or larger than a burst.
TakeRate(c) ==
    /\ call[c].pc = "rate"
    /\ \E pc \in {"user", "unwind"} : Go(c, pc)
    /\ UNCHANGED <<tracked, lim, gslots>>

TakeUser(c) ==
    LET l == call[c].lim IN
    /\ call[c].pc = "user"
    /\ \/ /\ lim[l].slots < UserConcurrent
          /\ lim' = [lim EXCEPT ![l].slots = @ + 1]
          /\ Hold(c, "user", "global")
       \/ /\ c \notin Background /\ lim[l].slots = UserConcurrent
          /\ Go(c, "unwind") /\ UNCHANGED lim
    /\ UNCHANGED <<tracked, gslots>>

TakeGlobal(c) ==
    /\ call[c].pc = "global"
    /\ \/ /\ gslots < GlobalConcurrent
          /\ gslots' = gslots + 1
          /\ Hold(c, "global", IF c \in Background THEN "embed" ELSE "reserve")
       \/ /\ c \notin Background /\ gslots = GlobalConcurrent
          /\ Go(c, "unwind") /\ UNCHANGED gslots
    /\ UNCHANGED <<tracked, lim>>

\* reserveRate of a foreground call.  A reservation that would have to wait is
\* given back.
Reserve(c) ==
    /\ call[c].pc = "reserve"
    /\ \E pc \in {"embed", "unwind"} : Go(c, pc)
    /\ UNCHANGED <<tracked, lim, gslots>>

\* The context of a waiting call ends.
TimeOut(c) ==
    /\ Waiting(c) /\ c \in Background
    /\ Go(c, "unwind")
    /\ UNCHANGED <<tracked, lim, gslots>>

\* The service answers, or the context ends.
Embedded(c) ==
    /\ call[c].pc = "embed"
    /\ Go(c, "unwind")
    /\ UNCHANGED <<tracked, lim, gslots>>

\* Mutant: a refused call keeps the slot of its user.
HeldIfGlobal(c) == IF "global" \in call[c].held THEN call[c].held ELSE {}

\* What a call still has to give back.
Held(c) == call[c].held

\* The global slot, the slot of the user, then the limiter.
GiveBack(c) ==
    LET l == call[c].lim IN
    /\ call[c].pc = "unwind"
    /\ \/ /\ "global" \in Held(c)
          /\ gslots' = gslots - 1
          /\ call' = [call EXCEPT ![c].held = {"user"}]
          /\ UNCHANGED lim
       \/ /\ Held(c) = {"user"}
          /\ lim' = [lim EXCEPT ![l].slots = @ - 1]
          /\ call' = [call EXCEPT ![c].held = {}]
          /\ UNCHANGED gslots
       \/ /\ Held(c) = {}
          /\ lim' = [lim EXCEPT ![l].active = @ - 1]
          /\ call' = [call EXCEPT ![c] = NoCall]
          /\ UNCHANGED gslots
    /\ UNCHANGED tracked

Next ==
    \E c \in Calls :
        \/ Begin(c)
        \/ TakeRate(c) \/ TakeUser(c) \/ TakeGlobal(c) \/ Reserve(c) \/ TimeOut(c)
        \/ Embedded(c) \/ GiveBack(c)

Spec == Init /\ [][Next]_vars
-----------------------------------------------------------------------------
\* A user never has more calls at the service than its limit, whatever limiters
\* are evicted and made anew: a limiter that a call refers to stays the one its
\* user's next call finds.
UserLimit ==
    \A u \in Users :
        Cardinality({c \in Calls : UserOf[c] = u /\ call[c].pc = "embed"}) <= UserConcurrent

\* No slot is lost and none given back twice, on any path out of the gate: the
\* slots taken are those the calls under way hold.
SlotsAccounted ==
    /\ gslots = Cardinality({c \in Calls : "global" \in call[c].held})
    /\ \A l \in Limiters : Used(l) =>
         /\ lim[l].slots = Cardinality({c \in Calls : call[c].lim = l /\ "user" \in call[c].held})
         /\ lim[l].active = Cardinality({c \in Calls : call[c].lim = l})
=============================================================================
