------------------------ MODULE InferenceGate_proofs ------------------------
(***************************************************************************)
(* The gate keeps its limits and its accounts, for any number of users,    *)
(* calls and slots: proofs of TypeOK, SlotsAccounted and UserLimit.        *)
(***************************************************************************)
EXTENDS InferenceGate, FiniteSetTheorems, TLAPS

-----------------------------------------------------------------------------
(* The inductive invariant. *)

\* The calls the counters of the gate count.
Globals    == {c \in Calls : "global" \in call[c].held}
Slotted(l) == {c \in Calls : call[c].lim = l /\ "user" \in call[c].held}
Actives(l) == {c \in Calls : call[c].lim = l}

\* What a call holds follows from where it is; a call that unwinds has given
\* back from the right.
PhaseOf(o) ==
    /\ o.pc = "idle" <=> o.lim = 0
    /\ o.pc \in {"idle", "rate", "user"} => o.held = {}
    /\ o.pc = "global" => o.held = {"user"}
    /\ o.pc \in {"reserve", "embed"} => o.held = {"user", "global"}
    /\ "global" \in o.held => o.held = {"user", "global"}

Counted ==
    /\ gslots = Cardinality(Globals)
    /\ \A l \in Limiters : /\ lim[l].slots = Cardinality(Slotted(l))
                           /\ lim[l].active = Cardinality(Actives(l))

\* A limiter that a call uses is still the one of its user.
Current == \A c \in Calls : call[c].lim # 0 => tracked[UserOf[c]] = call[c].lim

\* No two users share a limiter.
Apart == \A u, v \in Users : tracked[u] = tracked[v] /\ tracked[u] # 0 => u = v

GateInv ==
    /\ TypeOK
    /\ \A c \in Calls : PhaseOf(call[c])
    /\ Counted
    /\ Current
    /\ Apart
-----------------------------------------------------------------------------
(* Counting. *)

CallStates == {"idle", "rate", "user", "global", "reserve", "embed", "unwind"}
CallType == [pc : CallStates, lim : Limiters \cup {0}, held : SUBSET {"user", "global"}]

One(b) == IF b THEN 1 ELSE 0

LEMMA LimitersNat == Limiters \subseteq Nat \ {0}
BY GateConstants, FS_CardinalityType DEF Limiters

\* Sets of calls that differ in one call at most.
LEMMA CountStep ==
    ASSUME NEW S \in SUBSET Calls, NEW T \in SUBSET Calls, NEW c, S \ {c} = T \ {c}
    PROVE  /\ Cardinality(S) \in 0..Cardinality(Calls)
           /\ Cardinality(T) \in 0..Cardinality(Calls)
           /\ Cardinality(T) = Cardinality(S) + One(c \in T) - One(c \in S)
           /\ c \in S => Cardinality(S) > 0
<1>1. IsFiniteSet(S) /\ IsFiniteSet(T) /\ IsFiniteSet(Calls)
  BY GateConstants, FS_Subset
<1>2. /\ Cardinality(S) \in Nat /\ Cardinality(S) <= Cardinality(Calls)
      /\ Cardinality(T) \in Nat /\ Cardinality(T) <= Cardinality(Calls)
      /\ Cardinality(Calls) \in Nat
  BY <1>1, FS_Subset, FS_CardinalityType
<1>3. /\ Cardinality(S \ {c}) = Cardinality(S) - One(c \in S)
      /\ Cardinality(T \ {c}) = Cardinality(T) - One(c \in T)
  <2>1. /\ Cardinality(S \ {c}) = IF c \in S THEN Cardinality(S) - 1 ELSE Cardinality(S)
        /\ Cardinality(T \ {c}) = IF c \in T THEN Cardinality(T) - 1 ELSE Cardinality(T)
    BY <1>1, FS_RemoveElement, Zenon
  <2> QED
    BY <1>2, <2>1 DEF One
<1>4. Cardinality(S \ {c}) \in Nat
  BY <1>1, FS_RemoveElement, FS_CardinalityType
<1> QED
  BY <1>2, <1>3, <1>4 DEF One

\* The step of a call to r: the counters follow it.
Moves(c, r) ==
    /\ call' = [call EXCEPT ![c] = r]
    /\ gslots' = gslots + One("global" \in r.held) - One("global" \in call[c].held)
    /\ gslots' <= GlobalConcurrent
    /\ lim' \in [Limiters -> [active : Int, slots : Int]]
    /\ \A l \in Limiters :
         /\ lim'[l].slots = lim[l].slots + One(r.lim = l /\ "user" \in r.held)
                            - One(call[c].lim = l /\ "user" \in call[c].held)
         /\ lim'[l].slots <= UserConcurrent
         /\ lim'[l].active = lim[l].active + One(r.lim = l) - One(call[c].lim = l)

\* The users of a map.
Keys(t) == {u \in Users : t[u] # 0}

\* The map after a step.
Mapped ==
    /\ tracked' \in [Users -> Limiters \cup {0}]
    /\ Cardinality(Keys(tracked')) <= MaxTracked
    /\ Current' /\ Apart'

\* The counters follow the one call that moves; what is left to show of a step is
\* what it does to the map.
LEMMA CallStep ==
    ASSUME GateInv, NEW c \in Calls, NEW r \in CallType,
           PhaseOf(r), Moves(c, r), Mapped
    PROVE  GateInv'
<1> USE DEF GateInv, Moves, Mapped, Keys
<1>1. call \in [Calls -> CallType] /\ call' \in [Calls -> CallType]
  BY DEF TypeOK, CallType, CallStates
<1>2. call'[c] = r /\ \A d \in Calls \ {c} : call'[d] = call[d]
  BY <1>1
<1>3. (\A d \in Calls : PhaseOf(call[d]))'
  BY <1>1, <1>2 DEF PhaseOf
<1>4. gslots' = Cardinality(Globals') /\ gslots' \in 0..GlobalConcurrent
  <2>1. Globals \in SUBSET Calls /\ Globals' \in SUBSET Calls /\ Globals \ {c} = Globals' \ {c}
    BY <1>2 DEF Globals
  <2>2. (c \in Globals) = ("global" \in call[c].held) /\ (c \in Globals') = ("global" \in r.held)
    BY <1>2 DEF Globals
  <2>3. Cardinality(Globals') = Cardinality(Globals) + One(c \in Globals') - One(c \in Globals)
    BY <2>1, CountStep
  <2>4. Cardinality(Globals') \in Nat /\ Cardinality(Calls) \in Nat
    BY <2>1, GateConstants, FS_Subset, FS_CardinalityType
  <2> QED
    BY <2>2, <2>3, <2>4, GateConstants DEF Counted
<1>5. ASSUME NEW l \in Limiters
      PROVE  /\ lim'[l].slots = Cardinality(Slotted(l)') /\ lim'[l].slots \in 0..UserConcurrent
             /\ lim'[l].active = Cardinality(Actives(l)') /\ lim'[l].active \in 0..Cardinality(Calls)
  <2>1. /\ Slotted(l) \in SUBSET Calls /\ Slotted(l)' \in SUBSET Calls
        /\ Slotted(l) \ {c} = Slotted(l)' \ {c}
        /\ Actives(l) \in SUBSET Calls /\ Actives(l)' \in SUBSET Calls
        /\ Actives(l) \ {c} = Actives(l)' \ {c}
    BY <1>2 DEF Slotted, Actives
  <2>2. /\ (c \in Slotted(l)) = (call[c].lim = l /\ "user" \in call[c].held)
        /\ (c \in Slotted(l)') = (r.lim = l /\ "user" \in r.held)
        /\ (c \in Actives(l)) = (call[c].lim = l)
        /\ (c \in Actives(l)') = (r.lim = l)
    BY <1>2 DEF Slotted, Actives
  <2>3. /\ Cardinality(Slotted(l)') = Cardinality(Slotted(l)) + One(c \in Slotted(l)') - One(c \in Slotted(l))
        /\ Cardinality(Slotted(l)') \in 0..Cardinality(Calls)
    BY <2>1, CountStep
  <2>4. /\ Cardinality(Actives(l)') = Cardinality(Actives(l)) + One(c \in Actives(l)') - One(c \in Actives(l))
        /\ Cardinality(Actives(l)') \in 0..Cardinality(Calls)
    BY <2>1, CountStep
  <2>5. /\ lim[l].slots = Cardinality(Slotted(l))
        /\ lim[l].active = Cardinality(Actives(l))
    BY DEF Counted
  <2>6. lim'[l].slots = Cardinality(Slotted(l)') /\ lim'[l].active = Cardinality(Actives(l)')
    BY <2>2, <2>3, <2>4, <2>5
  <2> QED
    BY <2>3, <2>4, <2>6, GateConstants, FS_CardinalityType
<1>6. Counted'
  BY <1>4, <1>5 DEF Counted, Limiters
<1>7. TypeOK'
  <2>1. lim' \in [Limiters -> [active : 0..Cardinality(Calls), slots : 0..UserConcurrent]]
    BY <1>5
  <2> QED
    BY <1>1, <1>4, <2>1 DEF TypeOK, CallType, CallStates
<1> QED
  BY <1>3, <1>6, <1>7

\* Steps that leave the map and the limiters in it alone.
LEMMA CurrentKept ==
    ASSUME GateInv, NEW c \in Calls, NEW r \in CallType,
           call' = [call EXCEPT ![c] = r], UNCHANGED tracked,
           r.lim # 0 => tracked[UserOf[c]] = r.lim
    PROVE  Mapped
<1>1. call \in [Calls -> CallType] /\ Current /\ Apart
  BY DEF GateInv, TypeOK, CallType, CallStates
<1>2. Current' /\ Apart'
  BY <1>1 DEF Current, Apart
<1> QED
  BY <1>2 DEF GateInv, TypeOK, Mapped, Keys

\* A call that moves on without taking or giving anything.
LEMMA GoStep ==
    ASSUME GateInv, NEW c \in Calls, NEW pc \in CallStates,
           call[c].pc # "idle", Go(c, pc), UNCHANGED <<tracked, lim, gslots>>,
           pc \in {"user", "embed", "unwind"},
           pc = "user" => call[c].held = {},
           pc = "embed" => call[c].held = {"user", "global"}
    PROVE  GateInv'
<1> DEFINE r == [call[c] EXCEPT !.pc = pc]
<1>1. call \in [Calls -> CallType] /\ PhaseOf(call[c]) /\ TypeOK /\ Current
  BY DEF GateInv, TypeOK, CallType, CallStates
<1>2. r \in CallType /\ r.pc = pc /\ r.lim = call[c].lim /\ r.held = call[c].held
  BY <1>1 DEF CallType
<1>3. call' = [call EXCEPT ![c] = r]
  BY DEF Go
<1>4. Mapped
  <2>1. r.lim # 0 => tracked[UserOf[c]] = r.lim
    BY <1>1, <1>2 DEF Current
  <2> HIDE DEF r
  <2> QED
    BY <1>2, <1>3, <2>1, CurrentKept
<1>5. PhaseOf(r)
  BY <1>1, <1>2 DEF PhaseOf
<1>6. Moves(c, r)
  <2>1. /\ gslots' = gslots + One("global" \in r.held) - One("global" \in call[c].held)
        /\ gslots' <= GlobalConcurrent
    BY <1>1, <1>2, GateConstants DEF TypeOK, One
  <2>2. lim' \in [Limiters -> [active : Int, slots : Int]]
    BY <1>1, GateConstants, FS_CardinalityType DEF TypeOK
  <2>3. ASSUME NEW l \in Limiters
        PROVE  /\ lim'[l].slots = lim[l].slots + One(r.lim = l /\ "user" \in r.held)
                                  - One(call[c].lim = l /\ "user" \in call[c].held)
               /\ lim'[l].slots <= UserConcurrent
               /\ lim'[l].active = lim[l].active + One(r.lim = l) - One(call[c].lim = l)
    BY <1>1, <1>2, GateConstants, FS_CardinalityType DEF TypeOK, One
  <2> HIDE DEF r
  <2> QED
    BY <1>3, <2>1, <2>2, <2>3 DEF Moves
<1> HIDE DEF r
<1> QED
  BY <1>2, <1>4, <1>5, <1>6, CallStep

\* A call that stays at its limiter, takes or gives a slot, and moves its counter.
LEMMA HoldStep ==
    ASSUME GateInv, NEW c \in Calls, NEW r \in CallType, PhaseOf(r),
           call' = [call EXCEPT ![c] = r], UNCHANGED tracked,
           call[c].pc # "idle", r.lim = call[c].lim,
           gslots' = gslots + One("global" \in r.held) - One("global" \in call[c].held),
           gslots' <= GlobalConcurrent,
           NEW n \in Int, n <= UserConcurrent,
           n = lim[r.lim].slots + One("user" \in r.held) - One("user" \in call[c].held),
           lim' = [lim EXCEPT ![r.lim].slots = n]
    PROVE  GateInv'
<1>1. call \in [Calls -> CallType] /\ PhaseOf(call[c]) /\ TypeOK /\ Current
  BY DEF GateInv, TypeOK, CallType, CallStates
<1>2. r.lim \in Limiters /\ tracked[UserOf[c]] = r.lim
  BY <1>1 DEF PhaseOf, CallType, Current
<1>3. Mapped
  BY <1>2, CurrentKept
<1>4. lim \in [Limiters -> [active : Nat, slots : Nat]]
  BY <1>1, GateConstants, FS_CardinalityType DEF TypeOK
<1>5. lim' \in [Limiters -> [active : Int, slots : Int]]
  BY <1>2, <1>4
<1>6. ASSUME NEW l \in Limiters
      PROVE  /\ lim'[l].slots = lim[l].slots + One(r.lim = l /\ "user" \in r.held)
                                - One(call[c].lim = l /\ "user" \in call[c].held)
             /\ lim'[l].slots <= UserConcurrent
             /\ lim'[l].active = lim[l].active + One(r.lim = l) - One(call[c].lim = l)
  <2>1. lim[l].active \in Nat /\ lim[l].slots \in Nat /\ lim[l].slots <= UserConcurrent
    BY <1>1, GateConstants, FS_CardinalityType DEF TypeOK
  <2>2. CASE l = r.lim
    BY <1>4, <2>1, <2>2 DEF One
  <2>3. CASE l # r.lim
    BY <1>4, <2>1, <2>3 DEF One
  <2> QED
    BY <2>2, <2>3
<1>7. Moves(c, r)
  BY <1>5, <1>6 DEF Moves
<1> QED
  BY <1>3, <1>7, CallStep

LEMMA TakeUserStep ==
    ASSUME GateInv, NEW c \in Calls, TakeUser(c)
    PROVE  GateInv'
<1>1. call \in [Calls -> CallType] /\ PhaseOf(call[c]) /\ TypeOK
  BY DEF GateInv, TypeOK, CallType, CallStates
<1>2. CASE Go(c, "unwind") /\ UNCHANGED <<tracked, lim, gslots>>
  BY <1>2, GoStep DEF TakeUser, CallStates
<1>3. CASE /\ lim[call[c].lim].slots < UserConcurrent
           /\ lim' = [lim EXCEPT ![call[c].lim].slots = @ + 1]
           /\ Hold(c, "user", "global")
           /\ UNCHANGED <<tracked, gslots>>
  <2> DEFINE r == [call[c] EXCEPT !.pc = "global", !.held = call[c].held \cup {"user"}]
  <2>1. call[c].held = {} /\ call[c].lim \in Limiters /\ call[c].pc = "user"
    BY <1>1 DEF TakeUser, PhaseOf, CallType
  <2>2. r \in CallType /\ r.pc = "global" /\ r.lim = call[c].lim /\ r.held = {"user"}
    BY <1>1, <2>1 DEF CallType, CallStates
  <2>3. call' = [call EXCEPT ![c] = r]
    BY <1>3 DEF Hold
  <2>4. PhaseOf(r)
    BY <2>1, <2>2, LimitersNat DEF PhaseOf
  <2>5. lim[call[c].lim].slots \in Nat /\ gslots \in Nat /\ gslots <= GlobalConcurrent
    BY <1>1, <2>1, GateConstants, FS_CardinalityType DEF TypeOK
  <2> DEFINE n == lim[call[c].lim].slots + 1
  <2>6. n \in Int /\ n <= UserConcurrent
    BY <1>3, <2>5, GateConstants
  <2>7. /\ n = lim[r.lim].slots + One("user" \in r.held) - One("user" \in call[c].held)
        /\ gslots' = gslots + One("global" \in r.held) - One("global" \in call[c].held)
        /\ gslots' <= GlobalConcurrent
    BY <1>3, <2>1, <2>2, <2>5 DEF One
  <2>8. lim' = [lim EXCEPT ![r.lim].slots = n]
    BY <1>3, <2>2
  <2> HIDE DEF r, n
  <2> QED
    BY <1>3, <2>1, <2>2, <2>3, <2>4, <2>6, <2>7, <2>8, HoldStep
<1> QED
  BY <1>2, <1>3 DEF TakeUser

LEMMA TakeGlobalStep ==
    ASSUME GateInv, NEW c \in Calls, TakeGlobal(c)
    PROVE  GateInv'
<1>1. call \in [Calls -> CallType] /\ PhaseOf(call[c]) /\ TypeOK
  BY DEF GateInv, TypeOK, CallType, CallStates
<1>2. CASE Go(c, "unwind") /\ UNCHANGED <<tracked, lim, gslots>>
  BY <1>2, GoStep DEF TakeGlobal, CallStates
<1>3. CASE /\ gslots < GlobalConcurrent /\ gslots' = gslots + 1
           /\ Hold(c, "global", IF c \in Background THEN "embed" ELSE "reserve")
           /\ UNCHANGED <<tracked, lim>>
  <2> DEFINE pc == IF c \in Background THEN "embed" ELSE "reserve"
             r  == [call[c] EXCEPT !.pc = pc, !.held = call[c].held \cup {"global"}]
             n  == lim[call[c].lim].slots
  <2>1. call[c].held = {"user"} /\ call[c].lim \in Limiters /\ call[c].pc = "global"
    BY <1>1 DEF TakeGlobal, PhaseOf, CallType
  <2>2. r \in CallType /\ r.pc \in {"embed", "reserve"} /\ r.lim = call[c].lim /\ r.held = {"user", "global"}
    BY <1>1, <2>1 DEF CallType, CallStates
  <2>3. call' = [call EXCEPT ![c] = r]
    BY <1>3 DEF Hold
  <2>4. PhaseOf(r)
    BY <2>1, <2>2, LimitersNat DEF PhaseOf
  <2>5. n \in Int /\ n <= UserConcurrent /\ gslots \in Nat
    BY <1>1, <2>1, GateConstants, FS_CardinalityType DEF TypeOK
  <2>6. /\ n = lim[r.lim].slots + One("user" \in r.held) - One("user" \in call[c].held)
        /\ gslots' = gslots + One("global" \in r.held) - One("global" \in call[c].held)
        /\ gslots' <= GlobalConcurrent
    BY <1>3, <2>1, <2>2, <2>5, GateConstants DEF One
  <2>7. lim' = [lim EXCEPT ![r.lim].slots = n]
    BY <1>1, <1>3, <2>1, <2>2 DEF TypeOK
  <2> HIDE DEF r, n
  <2> QED
    BY <1>3, <2>1, <2>2, <2>3, <2>4, <2>5, <2>6, <2>7, HoldStep
<1> QED
  BY <1>2, <1>3 DEF TakeGlobal

LEMMA GiveBackStep ==
    ASSUME GateInv, NEW c \in Calls, GiveBack(c)
    PROVE  GateInv'
<1>1. call \in [Calls -> CallType] /\ PhaseOf(call[c]) /\ TypeOK
  BY DEF GateInv, TypeOK, CallType, CallStates
<1>2. call[c].lim \in Limiters /\ call[c].pc = "unwind" /\ UNCHANGED tracked
  BY <1>1 DEF GiveBack, PhaseOf, CallType
<1>3. /\ lim \in [Limiters -> [active : Nat, slots : Nat]]
      /\ lim[call[c].lim].slots \in Nat /\ lim[call[c].lim].slots <= UserConcurrent
      /\ gslots \in Nat /\ gslots <= GlobalConcurrent
  BY <1>1, <1>2, GateConstants, FS_CardinalityType DEF TypeOK
<1>4. CASE /\ "global" \in Held(c) /\ gslots' = gslots - 1
           /\ call' = [call EXCEPT ![c].held = {"user"}] /\ UNCHANGED lim
  <2> DEFINE r == [call[c] EXCEPT !.held = {"user"}]
             n == lim[call[c].lim].slots
  <2>1. call[c].held = {"user", "global"}
    BY <1>1, <1>4 DEF PhaseOf, Held
  <2>2. r \in CallType /\ r.pc = "unwind" /\ r.lim = call[c].lim /\ r.held = {"user"}
    BY <1>1, <1>2 DEF CallType
  <2>3. call' = [call EXCEPT ![c] = r]
    BY <1>4
  <2>4. PhaseOf(r)
    BY <1>2, <2>2, LimitersNat DEF PhaseOf
  <2>5. /\ n = lim[r.lim].slots + One("user" \in r.held) - One("user" \in call[c].held)
        /\ gslots' = gslots + One("global" \in r.held) - One("global" \in call[c].held)
        /\ gslots' <= GlobalConcurrent /\ n \in Int /\ n <= UserConcurrent
    BY <1>3, <1>4, <2>1, <2>2, GateConstants DEF One
  <2>6. lim' = [lim EXCEPT ![r.lim].slots = n]
    BY <1>2, <1>3, <1>4, <2>2
  <2> HIDE DEF r, n
  <2> QED
    BY <1>2, <2>2, <2>3, <2>4, <2>5, <2>6, HoldStep
<1>5. CASE /\ Held(c) = {"user"} /\ lim' = [lim EXCEPT ![call[c].lim].slots = @ - 1]
           /\ call' = [call EXCEPT ![c].held = {}] /\ UNCHANGED gslots
  <2> DEFINE r == [call[c] EXCEPT !.held = {}]
             n == lim[call[c].lim].slots - 1
  <2>2. r \in CallType /\ r.pc = "unwind" /\ r.lim = call[c].lim /\ r.held = {}
    BY <1>1, <1>2 DEF CallType
  <2>3. call' = [call EXCEPT ![c] = r]
    BY <1>5
  <2>4. PhaseOf(r)
    BY <1>2, <2>2, LimitersNat DEF PhaseOf
  <2>5. /\ n = lim[r.lim].slots + One("user" \in r.held) - One("user" \in call[c].held)
        /\ gslots' = gslots + One("global" \in r.held) - One("global" \in call[c].held)
        /\ gslots' <= GlobalConcurrent /\ n \in Int /\ n <= UserConcurrent
    BY <1>3, <1>5, <2>2, GateConstants DEF One, Held
  <2>6. lim' = [lim EXCEPT ![r.lim].slots = n]
    BY <1>5, <2>2
  <2> HIDE DEF r, n
  <2> QED
    BY <1>2, <2>2, <2>3, <2>4, <2>5, <2>6, HoldStep
<1>6. CASE /\ Held(c) = {} /\ lim' = [lim EXCEPT ![call[c].lim].active = @ - 1]
           /\ call' = [call EXCEPT ![c] = NoCall] /\ UNCHANGED gslots
  <2>1. NoCall \in CallType /\ PhaseOf(NoCall) /\ NoCall.lim = 0 /\ NoCall.held = {}
    BY DEF NoCall, CallType, CallStates, PhaseOf
  <2>2. Mapped
    BY <1>2, <1>6, <2>1, CurrentKept
  <2>3. lim' \in [Limiters -> [active : Int, slots : Int]]
    BY <1>2, <1>3, <1>6
  <2>4. gslots' = gslots + One("global" \in NoCall.held) - One("global" \in call[c].held)
    BY <1>3, <1>6, <2>1 DEF One, Held
  <2>5. ASSUME NEW l \in Limiters
        PROVE  /\ lim'[l].slots = lim[l].slots + One(NoCall.lim = l /\ "user" \in NoCall.held)
                                  - One(call[c].lim = l /\ "user" \in call[c].held)
               /\ lim'[l].slots <= UserConcurrent
               /\ lim'[l].active = lim[l].active + One(NoCall.lim = l) - One(call[c].lim = l)
    BY <1>1, <1>2, <1>3, <1>6, <2>1, LimitersNat, GateConstants DEF TypeOK, One, Held
  <2>6. Moves(c, NoCall)
    BY <1>3, <1>6, <2>3, <2>4, <2>5 DEF Moves
  <2> QED
    BY <2>1, <2>2, <2>6, CallStep
<1> QED
  BY <1>4, <1>5, <1>6 DEF GiveBack

\* Making room: after an eviction the new user fits.
LEMMA RoomMade ==
    ASSUME GateInv, NEW u \in Users, tracked[u] = 0, NEW out \in Evictions, NEW l \in Limiters,
           NEW t, t = [v \in Users |-> IF v = u THEN l ELSE IF v \in out THEN 0 ELSE tracked[v]]
    PROVE  Cardinality(Keys(t)) <= MaxTracked
<1> DEFINE S == Keys(tracked)
           T == Keys(t)
<1> USE DEF Keys
<1>1. /\ IsFiniteSet(S) /\ IsFiniteSet(T)
      /\ Cardinality(S) \in Nat /\ Cardinality(T) \in Nat /\ Cardinality(S) <= MaxTracked
  BY GateConstants, FS_Subset, FS_CardinalityType DEF GateInv, TypeOK
<1>2. u \in T /\ T \ {u} \subseteq S
  BY LimitersNat
<1>3. Cardinality(T \ {u}) = Cardinality(T) - 1 /\ IsFiniteSet(T \ {u})
  BY <1>1, <1>2, FS_RemoveElement
<1>4. CASE ~Full
  <2>1. Cardinality(S) < MaxTracked
    BY <1>1, <1>4, GateConstants DEF Full
  <2>2. Cardinality(T \ {u}) <= Cardinality(S)
    BY <1>1, <1>2, FS_Subset
  <2> QED
    BY <1>1, <1>3, <2>1, <2>2, GateConstants
<1>5. CASE Full
  <2>1. PICK w \in out : w \in S
    BY <1>5 DEF Evictions, Idle
  <2>2. T \ {u} \subseteq S \ {w}
    BY <1>2, <2>1
  <2>3. Cardinality(S \ {w}) = Cardinality(S) - 1 /\ IsFiniteSet(S \ {w})
    BY <1>1, <2>1, FS_RemoveElement
  <2>4. Cardinality(T \ {u}) <= Cardinality(S \ {w})
    BY <2>2, <2>3, FS_Subset
  <2> QED
    BY <1>1, <1>3, <2>3, <2>4, GateConstants
<1> QED
  BY <1>4, <1>5

\* A user with a call in the gate is not evicted, and an unused limiter counts
\* nothing.
LEMMA InUse ==
    ASSUME GateInv
    PROVE  /\ \A d \in Calls, out \in Evictions : call[d].lim # 0 => UserOf[d] \notin out
           /\ \A l \in Limiters : ~Used(l) => lim[l].active = 0 /\ lim[l].slots = 0
<1>1. ASSUME NEW d \in Calls, NEW out \in Evictions, call[d].lim # 0, UserOf[d] \in out
      PROVE  FALSE
  <2>1. Idle(UserOf[d])
    BY <1>1 DEF Evictions
  <2>2. call[d].lim \in Limiters /\ tracked[UserOf[d]] = call[d].lim
    BY <1>1 DEF GateInv, TypeOK, Current
  <2>3. d \in Actives(call[d].lim) /\ Actives(call[d].lim) \in SUBSET Calls
    BY DEF Actives
  <2>4. Cardinality(Actives(call[d].lim)) > 0
    BY <2>3, CountStep
  <2> QED
    BY <2>1, <2>2, <2>4 DEF Idle, GateInv, Counted
<1>2. ASSUME NEW l \in Limiters, ~Used(l)
      PROVE  lim[l].active = 0 /\ lim[l].slots = 0
  <2>1. Actives(l) = {} /\ Slotted(l) = {}
    BY <1>2 DEF Used, Actives, Slotted
  <2> QED
    BY <2>1, FS_EmptySet DEF GateInv, Counted
<1> QED
  BY <1>1, <1>2

LEMMA BeginStep ==
    ASSUME GateInv, NEW c \in Calls, Begin(c)
    PROVE  GateInv'
<1> DEFINE u == UserOf[c]
<1>1. call \in [Calls -> CallType] /\ PhaseOf(call[c]) /\ TypeOK /\ Current /\ Apart
  BY DEF GateInv, TypeOK, CallType, CallStates
<1>2. /\ call[c].lim = 0 /\ call[c].held = {} /\ UNCHANGED gslots
      /\ u \in Users /\ gslots \in Nat /\ gslots <= GlobalConcurrent
      /\ tracked \in [Users -> Limiters \cup {0}]
  BY <1>1, GateConstants DEF Begin, PhaseOf, TypeOK
<1>3. lim \in [Limiters -> [active : Nat, slots : Nat]]
  BY <1>1, GateConstants, FS_CardinalityType DEF TypeOK
<1>4. \A l \in Limiters : lim[l].slots \in Nat /\ lim[l].active \in Nat /\ lim[l].slots <= UserConcurrent
  BY <1>1, GateConstants, FS_CardinalityType DEF TypeOK
<1>5. ASSUME NEW l \in Limiters, Enter(c, l), Mapped,
             lim' \in [Limiters -> [active : Nat, slots : Nat]],
             lim'[l].active = lim[l].active + 1 /\ lim'[l].slots = lim[l].slots,
             \A m \in Limiters \ {l} : lim'[m] = lim[m]
      PROVE  GateInv'
  <2> DEFINE r == [pc |-> IF c \in Background THEN "rate" ELSE "user", lim |-> l, held |-> {}]
  <2>1. /\ r \in CallType /\ r.pc \in {"rate", "user"} /\ r.lim = l /\ r.held = {}
        /\ call' = [call EXCEPT ![c] = r]
    BY <1>5 DEF CallType, CallStates, Enter
  <2> HIDE DEF r
  <2>2. PhaseOf(r)
    BY <2>1, LimitersNat DEF PhaseOf
  <2>3. gslots' = gslots + One("global" \in r.held) - One("global" \in call[c].held)
    BY <1>2, <2>1 DEF One
  <2>4. ASSUME NEW m \in Limiters
        PROVE  /\ lim'[m].slots = lim[m].slots + One(r.lim = m /\ "user" \in r.held)
                                  - One(call[c].lim = m /\ "user" \in call[c].held)
               /\ lim'[m].slots <= UserConcurrent
               /\ lim'[m].active = lim[m].active + One(r.lim = m) - One(call[c].lim = m)
    <3>1. call[c].lim # m
      BY <1>2, LimitersNat
    <3>2. CASE m = l
      BY <1>2, <1>4, <1>5, <2>1, <3>1, <3>2 DEF One
    <3>3. CASE m # l
      BY <1>2, <1>4, <1>5, <2>1, <3>1, <3>3 DEF One
    <3> QED
      BY <3>2, <3>3
  <2>5. Moves(c, r)
    BY <1>2, <1>5, <2>1, <2>3, <2>4 DEF Moves
  <2> QED
    BY <1>5, <2>1, <2>2, <2>5, CallStep
<1>6. CASE /\ tracked[u] # 0 /\ lim' = [lim EXCEPT ![tracked[u]].active = @ + 1]
           /\ Enter(c, tracked[u]) /\ UNCHANGED tracked
  <2> DEFINE r == [pc |-> IF c \in Background THEN "rate" ELSE "user", lim |-> tracked[u], held |-> {}]
  <2>1. tracked[u] \in Limiters
    BY <1>2, <1>6
  <2>2. /\ r \in CallType /\ r.lim = tracked[u]
        /\ call' = [call EXCEPT ![c] = r]
    BY <1>6, <2>1 DEF CallType, CallStates, Enter
  <2> HIDE DEF r
  <2>3. Mapped
    BY <1>6, <2>2, CurrentKept
  <2> QED
    BY <1>3, <1>5, <1>6, <2>1, <2>3
<1>7. CASE /\ tracked[u] = 0
           /\ \E out \in Evictions, l \in Limiters :
                /\ ~Used(l) /\ \A k \in 1..(l - 1) : Used(k)
                /\ tracked' = [v \in Users |-> IF v = u THEN l ELSE IF v \in out THEN 0 ELSE tracked[v]]
                /\ lim' = [lim EXCEPT ![l] = [active |-> 1, slots |-> 0]]
                /\ Enter(c, l)
  <2>1. PICK out \in Evictions, l \in Limiters :
          /\ ~Used(l)
          /\ tracked' = [v \in Users |-> IF v = u THEN l ELSE IF v \in out THEN 0 ELSE tracked[v]]
          /\ lim' = [lim EXCEPT ![l] = [active |-> 1, slots |-> 0]]
          /\ Enter(c, l)
    BY <1>7
  <2>2. tracked' \in [Users -> Limiters \cup {0}]
    BY <1>2, <2>1
  <2>3. Cardinality(Keys(tracked')) <= MaxTracked
    BY <1>2, <1>7, <2>1, RoomMade
  <2>4. Current'
    <3>1. ASSUME NEW d \in Calls, call'[d].lim # 0
          PROVE  tracked'[UserOf[d]] = call'[d].lim
      <4>1. CASE d = c
        BY <1>1, <1>2, <2>1, <4>1 DEF Enter
      <4>2. CASE d # c
        <5>1. call'[d] = call[d] /\ UserOf[d] \in Users
          BY <1>1, <2>1, <4>2, GateConstants DEF Enter
        <5>2. tracked[UserOf[d]] = call[d].lim /\ UserOf[d] # u /\ UserOf[d] \notin out
          BY <1>1, <1>7, <3>1, <5>1, InUse DEF Current
        <5> QED
          BY <2>1, <5>1, <5>2
      <4> QED
        BY <4>1, <4>2
    <3> QED
      BY <3>1 DEF Current
  <2>5. Apart'
    <3>1. \A v \in Users : tracked[v] # l
      BY <2>1 DEF Used
    <3> QED
      BY <1>1, <1>2, <2>1, <3>1 DEF Apart
  <2>6. Mapped
    BY <2>2, <2>3, <2>4, <2>5 DEF Mapped
  <2>7. lim[l].active = 0 /\ lim[l].slots = 0
    BY <2>1, InUse
  <2> QED
    BY <1>3, <1>5, <2>1, <2>6, <2>7
<1> QED
  BY <1>6, <1>7 DEF Begin
-----------------------------------------------------------------------------
(* The theorems. *)

LEMMA GateInit == Init => GateInv
<1> SUFFICES ASSUME Init PROVE GateInv
  OBVIOUS
<1>1. TypeOK
  <2>1. {v \in Users : tracked[v] # 0} = {} /\ Cardinality({}) = 0
    BY FS_EmptySet DEF Init
  <2>2. Cardinality(Calls) \in Nat
    BY GateConstants, FS_CardinalityType
  <2> QED
    <3>1. Cardinality({v \in Users : tracked[v] # 0}) = 0
      BY <2>1
    <3>2. /\ lim \in [Limiters -> [active : 0..Cardinality(Calls), slots : 0..UserConcurrent]]
          /\ gslots \in 0..GlobalConcurrent /\ 0 <= MaxTracked
      BY <2>2, GateConstants DEF Init
    <3> QED
      BY <3>1, <3>2 DEF Init, TypeOK, NoCall
<1>2. \A c \in Calls : PhaseOf(call[c])
  BY DEF Init, NoCall, PhaseOf
<1>3. Counted
  <2>1. Globals = {} /\ \A l \in Limiters : Slotted(l) = {} /\ Actives(l) = {}
    BY LimitersNat DEF Init, NoCall, Globals, Slotted, Actives
  <2> QED
    BY <2>1, FS_EmptySet DEF Init, Counted
<1>4. Current /\ Apart
  BY DEF Init, NoCall, Current, Apart
<1> QED
  BY <1>1, <1>2, <1>3, <1>4 DEF GateInv

LEMMA GateStep == GateInv /\ [Next]_vars => GateInv'
<1> SUFFICES ASSUME GateInv, [Next]_vars PROVE GateInv'
  OBVIOUS
<1>1. ASSUME NEW c \in Calls, TakeRate(c) PROVE GateInv'
  BY <1>1, GoStep DEF TakeRate, CallStates, GateInv, PhaseOf
<1>2. ASSUME NEW c \in Calls, Reserve(c) PROVE GateInv'
  BY <1>2, GoStep DEF Reserve, CallStates, GateInv, PhaseOf
<1>3. ASSUME NEW c \in Calls, TimeOut(c) PROVE GateInv'
  BY <1>3, GoStep DEF TimeOut, Waiting, CallStates
<1>4. ASSUME NEW c \in Calls, Embedded(c) PROVE GateInv'
  BY <1>4, GoStep DEF Embedded, CallStates
<1>5. CASE UNCHANGED vars
  <2>1. TypeOK'
    BY <1>5 DEF vars, GateInv, TypeOK
  <2>2. Counted'
    BY <1>5 DEF vars, GateInv, Counted, Globals, Slotted, Actives
  <2>3. (\A c \in Calls : PhaseOf(call[c]))' /\ Current' /\ Apart'
    BY <1>5 DEF vars, GateInv, PhaseOf, Current, Apart
  <2> QED
    BY <2>1, <2>2, <2>3 DEF GateInv
<1> QED
  BY <1>1, <1>2, <1>3, <1>4, <1>5, BeginStep, TakeUserStep, TakeGlobalStep, GiveBackStep DEF Next

\* The gate's inductive invariant holds in every reachable state.
THEOREM GateInvariant == Spec => []GateInv
BY GateInit, GateStep, PTL DEF Spec

\* The state of the gate stays in its type: counters between zero and their limits,
\* and never more users in the limiter map than searchLimiterMaxTrackedUsers: beginUser
\* makes room before it adds one, or refuses.
THEOREM GateTyped == Spec => []TypeOK
<1>1. GateInv => TypeOK
  BY DEF GateInv
<1> QED
  BY <1>1, GateInvariant, PTL

\* The slots taken and the calls a limiter counts are exactly those of the calls in
\* the gate, on every path through acquire, its refusals, and release.
THEOREM GateAccounted == Spec => []SlotsAccounted
<1>1. GateInv => SlotsAccounted
  BY DEF GateInv, Counted, SlotsAccounted, Globals, Slotted, Actives
<1> QED
  BY <1>1, GateInvariant, PTL

\* A user never has more embedding calls under way than the limit of one limiter,
\* although limiters are evicted and made anew: all of them hold slots of the one
\* limiter beginUser finds for the user.
THEOREM GateLimits == Spec => []UserLimit
<1>1. ASSUME GateInv, NEW u \in Users
      PROVE  Cardinality({c \in Calls : UserOf[c] = u /\ call[c].pc = "embed"}) <= UserConcurrent
  <2> DEFINE E == {c \in Calls : UserOf[c] = u /\ call[c].pc = "embed"}
  <2>1. E \subseteq Slotted(tracked[u])
    BY <1>1 DEF GateInv, PhaseOf, Current, Slotted
  <2>2. CASE E = {}
    <3>1. Cardinality(E) = 0
      BY <2>2, FS_EmptySet
    <3> QED
      BY <3>1, GateConstants
  <2>3. CASE E # {}
    <3>1. tracked[u] \in Limiters
      BY <1>1, <2>3 DEF GateInv, PhaseOf, Current, TypeOK
    <3>2. IsFiniteSet(Slotted(tracked[u]))
      BY GateConstants, FS_Subset DEF Slotted
    <3>3. Cardinality(E) <= Cardinality(Slotted(tracked[u])) /\ IsFiniteSet(E)
      BY <2>1, <3>2, FS_Subset
    <3>4. /\ lim[tracked[u]].slots = Cardinality(Slotted(tracked[u]))
          /\ lim[tracked[u]].slots \in 0..UserConcurrent
      BY <1>1, <3>1 DEF GateInv, Counted, TypeOK
    <3> QED
      BY <3>2, <3>3, <3>4, FS_CardinalityType, GateConstants
  <2> QED
    BY <2>2, <2>3
<1>2. GateInv => UserLimit
  BY <1>1 DEF UserLimit
<1> QED
  BY <1>2, GateInvariant, PTL
=============================================================================
