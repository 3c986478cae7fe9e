---------------------------- MODULE NetworkProofs ----------------------------
(***************************************************************************)
(* Proofs about the pool of addresses, for every size of the network and   *)
(* every number of goroutines that call Next at the same time.             *)
(***************************************************************************)
EXTENDS Network, FiniteSetTheorems, TLAPS

(* Increment, with its modulo, stays inside the network. *)
LEMMA IncrementInHost ==
    ASSUME NEW n \in Host
    PROVE  Increment(n) \in Host
BY SizeAssumption DEF Increment, Host

(* The stray key of NewNetwork is no address of the network. *)
LEMMA AliasNotHost == Alias \notin Host
BY SizeAssumption DEF Alias, Host

LEMMA NetworkIPIsHost == NetworkIP \in Host
BY SizeAssumption DEF NetworkIP, Host

(* What Next keeps about its own variables: the network address and the     *)
(* stray key stay in the pool, so no call ever returns the network address, *)
(* and the fields of a caller tell how far its call has come.               *)
Progress ==
    /\ {Alias, NetworkIP} \subseteq Used
    /\ \A c \in Callers :
        /\ ip[c] # NetworkIP
        /\ stage[c] \in {"insert", "done"} => ip[c] \in Lease
        /\ stage[c] = "store" => seen[c] \in Host

PoolTypeInv == PoolTypeOK /\ Progress

LEMMA PoolTypeInit == PoolInit => PoolTypeInv
BY FirstAssumption, NoneAssumption, NetworkIPIsHost
   DEF PoolInit, NewNetwork, PoolTypeInv, PoolTypeOK, Progress, Stages, Host

LEMMA PoolTypeStep == PoolTypeInv /\ [PoolNext]_poolVars => PoolTypeInv'
<1> SUFFICES ASSUME PoolTypeInv, [PoolNext]_poolVars
             PROVE  PoolTypeInv'
    OBVIOUS
<1> USE NoneAssumption, NetworkIPIsHost DEF PoolTypeInv, PoolTypeOK, Progress, Stages, Lease
<1>1. ASSUME NEW c \in Callers, Call(c)
      PROVE  PoolTypeInv'
    BY <1>1 DEF Call
<1>2. ASSUME NEW c \in Callers, CheckLength(c)
      PROVE  PoolTypeInv'
    BY <1>2 DEF CheckLength
<1>3. ASSUME NEW c \in Callers, LookUp(c)
      PROVE  PoolTypeInv'
    BY <1>3 DEF LookUp
<1>4. ASSUME NEW c \in Callers, Insert(c)
      PROVE  PoolTypeInv'
    BY <1>4 DEF Insert
<1>5. ASSUME NEW c \in Callers, LoadCurrent(c)
      PROVE  PoolTypeInv'
    BY <1>5 DEF LoadCurrent
<1>6. ASSUME NEW c \in Callers, StoreCurrent(c)
      PROVE  PoolTypeInv'
    BY <1>6, IncrementInHost DEF StoreCurrent
<1>7. ASSUME NEW c \in Callers, Return(c)
      PROVE  PoolTypeInv'
    BY <1>7 DEF Return
<1>8. ASSUME NEW v \in Lease \cup {None}, Release(v)
      PROVE  PoolTypeInv'
    BY <1>8, AliasNotHost DEF Release
<1>9. CASE UNCHANGED poolVars
    BY <1>9 DEF poolVars
<1>10. QED
    BY <1>1, <1>2, <1>3, <1>4, <1>5, <1>6, <1>7, <1>8, <1>9 DEF PoolNext, NextStep, Lease

(* The variables of the pool keep their types. *)
THEOREM PoolTypeCorrect == PoolSpec => []PoolTypeOK
<1>1. PoolTypeInv => PoolTypeOK
    BY DEF PoolTypeInv
<1>2. QED
    BY PoolTypeInit, PoolTypeStep, <1>1, PTL DEF PoolSpec

----------------------------------------------------------------------------
(* Used and the set of callers past the check are finite, so that their     *)
(* cardinalities are numbers.                                               *)
LEMMA UsedFinite ==
    ASSUME NEW U, U \subseteq Host \cup {Alias}
    PROVE  IsFiniteSet(U) /\ Cardinality(U) \in Nat
<1>1. IsFiniteSet(0 .. Size - 1)
    BY FS_Interval, SizeAssumption
<1>2. IsFiniteSet(Host \cup {Alias})
    BY <1>1, FS_AddElement DEF Host
<1>3. QED
    BY <1>2, FS_Subset, FS_CardinalityType

LEMMA PassedFinite ==
    /\ IsFiniteSet(Passed)
    /\ Cardinality(Passed) \in Nat
    /\ Cardinality(Callers) \in Nat
    /\ Cardinality(Passed) <= Cardinality(Callers)
<1>1. Passed \subseteq Callers
    BY DEF Passed
<1>2. QED
    BY <1>1, CallersAssumption, FS_Subset, FS_CardinalityType

BoundInv == PoolTypeInv /\ Reserve /\ Bounded

LEMMA BoundInit == PoolInit => BoundInv
BY PoolTypeInit DEF PoolInit, NewNetwork, BoundInv, Reserve, Bounded, Passed

(* A step that adds nothing to the pool and lets nobody past the check      *)
(* keeps the bound.                                                         *)
LEMMA NothingAdded ==
    ASSUME BoundInv, PoolTypeInv', Used' \subseteq Used, Passed' \subseteq Passed,
           Used = {Alias, NetworkIP} => Used' = Used
    PROVE  BoundInv'
<1>1. Cardinality(Used') \in Nat /\ Cardinality(Used) \in Nat /\ IsFiniteSet(Used)
    BY UsedFinite DEF BoundInv, PoolTypeInv, PoolTypeOK
<1>2. Cardinality(Used') <= Cardinality(Used)
    BY <1>1, FS_Subset
<1>3. /\ Cardinality(Passed') \in Nat
      /\ Cardinality(Passed) \in Nat
      /\ Cardinality(Passed') <= Cardinality(Passed)
      /\ Cardinality(Callers) \in Nat
    BY PassedFinite, FS_Subset, FS_CardinalityType
<1>4. Reserve'
    BY <1>1, <1>2, <1>3, SizeAssumption DEF BoundInv, Reserve, MaxLength
<1>5. Bounded'
    BY <1>1, <1>2, <1>3, SizeAssumption DEF BoundInv, Bounded, MaxLength
<1>6. QED
    BY <1>4, <1>5 DEF BoundInv

(* A caller gets past the check only while the pool is below its limit.     *)
LEMMA CheckKeepsBound ==
    ASSUME BoundInv, PoolTypeInv', NEW c \in Callers, CheckLength(c)
    PROVE  BoundInv'
<1>1. Cardinality(Used) \in Nat /\ Used' = Used
    BY UsedFinite DEF BoundInv, PoolTypeInv, PoolTypeOK, CheckLength
<1>2. CASE Full
    <2>1. Passed' \subseteq Passed
        BY <1>2 DEF CheckLength, Passed, BoundInv, PoolTypeInv, PoolTypeOK
    <2>2. QED
        BY <2>1, <1>1, NothingAdded
<1>3. CASE ~Full
    <2>1. Cardinality(Used) <= MaxLength - 1
        BY <1>1, <1>3, SizeAssumption DEF Full, MaxLength
    <2>2. Cardinality(Passed') \in Nat /\ Cardinality(Callers) \in Nat
          /\ Cardinality(Passed') <= Cardinality(Callers)
        <3>1. Passed' \subseteq Callers
            BY DEF Passed
        <3>2. QED
            BY <3>1, CallersAssumption, FS_Subset, FS_CardinalityType
    <2>3. Reserve'
        BY <1>1, <2>1, <2>2, SizeAssumption DEF Reserve, MaxLength
    <2>4. Bounded'
        BY <1>1 DEF BoundInv, Bounded
    <2>5. QED
        BY <2>3, <2>4 DEF BoundInv
<1>4. QED
    BY <1>2, <1>3

(* An insertion uses up the place that was reserved for it.                 *)
LEMMA InsertKeepsBound ==
    ASSUME BoundInv, PoolTypeInv', NEW c \in Callers, Insert(c)
    PROVE  BoundInv'
<1>1. c \in Passed /\ Passed' = Passed \ {c}
    BY DEF Insert, Passed, BoundInv, PoolTypeInv, PoolTypeOK
<1>2. /\ Cardinality(Passed') = Cardinality(Passed) - 1
      /\ Cardinality(Passed) \in Nat
      /\ Cardinality(Passed') \in Nat
      /\ Cardinality(Callers) \in Nat
    BY <1>1, PassedFinite, FS_RemoveElement, FS_CardinalityType
<1>3. /\ Cardinality(Used') <= Cardinality(Used) + 1
      /\ Cardinality(Used') \in Nat
      /\ Cardinality(Used) \in Nat
    <2>1. IsFiniteSet(Used) /\ Cardinality(Used) \in Nat
        BY UsedFinite DEF BoundInv, PoolTypeInv, PoolTypeOK
    <2>2. Used' = Used \cup {ip[c]}
        BY DEF Insert
    <2>3. Cardinality(Used \cup {ip[c]}) =
              IF ip[c] \in Used THEN Cardinality(Used) ELSE Cardinality(Used) + 1
        BY <2>1, FS_AddElement
    <2>4. QED
        BY <2>1, <2>2, <2>3
<1>4. Cardinality(Used) + Cardinality(Passed) <= MaxLength - 1 + Cardinality(Callers)
    BY <1>1 DEF BoundInv, Reserve
<1>5. Cardinality(Used') + Cardinality(Passed') <= MaxLength - 1 + Cardinality(Callers)
    BY <1>2, <1>3, <1>4, SizeAssumption DEF MaxLength
<1>6. Bounded'
    BY <1>2, <1>3, <1>5, SizeAssumption DEF Bounded, MaxLength
<1>7. QED
    BY <1>5, <1>6 DEF BoundInv, Reserve

LEMMA BoundStep == BoundInv /\ [PoolNext]_poolVars => BoundInv'
<1> SUFFICES ASSUME BoundInv, [PoolNext]_poolVars
             PROVE  BoundInv'
    OBVIOUS
<1>1. PoolTypeInv'
    BY PoolTypeStep DEF BoundInv
<1> USE <1>1, NothingAdded DEF BoundInv, PoolTypeInv, PoolTypeOK, Passed
<1>2. ASSUME NEW c \in Callers, Call(c)
      PROVE  BoundInv'
    BY <1>2 DEF Call
<1>3. ASSUME NEW c \in Callers, LookUp(c)
      PROVE  BoundInv'
    BY <1>3 DEF LookUp
<1>4. ASSUME NEW c \in Callers, LoadCurrent(c)
      PROVE  BoundInv'
    BY <1>4 DEF LoadCurrent
<1>5. ASSUME NEW c \in Callers, StoreCurrent(c)
      PROVE  BoundInv'
    BY <1>5 DEF StoreCurrent
<1>6. ASSUME NEW c \in Callers, Return(c)
      PROVE  BoundInv'
    BY <1>6 DEF Return
<1>7. ASSUME NEW v \in Lease \cup {None}, Release(v)
      PROVE  BoundInv'
    <2>1. v # NetworkIP /\ (v = Alias => FALSE)
        BY AliasNotHost, NetworkIPIsHost, NoneAssumption DEF Lease
    <2>2. QED
        BY <1>7, <2>1 DEF Release
<1>8. CASE UNCHANGED poolVars
    BY <1>8 DEF poolVars
<1>9. QED
    BY <1>2, <1>3, <1>4, <1>5, <1>6, <1>7, <1>8, CheckKeepsBound, InsertKeepsBound
       DEF PoolNext, NextStep

(* However many goroutines race in Next, the pool exceeds its limit by less *)
(* than their number.                                                       *)
THEOREM PoolBounded == PoolSpec => []Bounded
<1>1. BoundInv => Bounded
    BY DEF BoundInv
<1>2. QED
    BY BoundInit, BoundStep, <1>1, PTL DEF PoolSpec

----------------------------------------------------------------------------
(* A pool at its limit leaves at most three host addresses unused.          *)
LEMMA FullLeavesThree ==
    ASSUME PoolTypeOK, Full
    PROVE  Cardinality(Lease \ Used) <= 3
<1> DEFINE Rest == Lease \ Used
           All == Host \cup {Alias}
<1>1. IsFiniteSet(Host) /\ Cardinality(Host) = Size
    BY FS_Interval, SizeAssumption DEF Host
<1>2. IsFiniteSet(All) /\ Cardinality(All) = Size + 1
    BY <1>1, FS_AddElement, AliasNotHost, SizeAssumption
<1>3. IsFiniteSet(Used) /\ Cardinality(Used) \in Nat
    BY UsedFinite DEF PoolTypeOK
<1>4. IsFiniteSet(Rest) /\ Cardinality(Rest) \in Nat
    <2>1. Rest \subseteq Host
        BY DEF Lease
    <2>2. QED
        BY <2>1, <1>1, FS_Subset, FS_CardinalityType
<1>5. Cardinality(Used \cup Rest) = Cardinality(Used) + Cardinality(Rest)
    <2>1. Used \cap Rest = {}
        OBVIOUS
    <2>2. QED
        BY <2>1, <1>3, <1>4, FS_Union, FS_EmptySet
<1>6. Cardinality(Used \cup Rest) <= Size + 1
    <2>1. Used \cup Rest \subseteq All
        BY DEF PoolTypeOK, Lease
    <2>2. QED
        BY <2>1, <1>2, FS_Subset
<1>7. QED
    BY <1>3, <1>4, <1>5, <1>6, SizeAssumption DEF Full, MaxLength

(* Next refuses an address only when at most three are left.                *)
THEOREM RefusalJustified == PoolSpec => RefusesWhenFull
<1> DEFINE Justified ==
        \A c \in Callers :
            stage'[c] = "full" /\ stage[c] # "full" => Cardinality(Lease \ Used) <= 3
<1>1. ASSUME PoolTypeInv, [PoolNext]_poolVars
      PROVE  [Justified]_poolVars
    <2> SUFFICES ASSUME NEW c \in Callers, stage'[c] = "full", stage[c] # "full"
                 PROVE  Cardinality(Lease \ Used) <= 3
        OBVIOUS
    <2>1. Full
        BY <1>1 DEF PoolTypeInv, PoolTypeOK, PoolNext, NextStep, poolVars, Call, CheckLength,
                    LookUp, Insert, LoadCurrent, StoreCurrent, Return, Release
    <2>2. QED
        BY <1>1, <2>1, FullLeavesThree DEF PoolTypeInv
<1>2. QED
    BY PoolTypeInit, PoolTypeStep, <1>1, PTL DEF PoolSpec, RefusesWhenFull
============================================================================
