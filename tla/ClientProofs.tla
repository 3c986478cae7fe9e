---------------------------- MODULE ClientProofs ----------------------------
(***************************************************************************)
(* Type correctness of the client and its pool of sessions, and, when one  *)
(* goroutine only can stop the client, that it takes a failed open or a    *)
(* reader at work during Close to make it panic: for any number of         *)
(* sessions, rounds, ping loops and outages.                               *)
(***************************************************************************)
EXTENDS Client, TLAPS

USE DEF sessionVars, poolVars, openVars, loopVars, worldVars, varsOfPool, clientVars, vars

LEMMA Update ==
    ASSUME NEW S, NEW T, NEW f \in [S -> T], NEW s, NEW x \in T
    PROVE  [f EXCEPT ![s] = x] \in [S -> T]
OBVIOUS

LEMMA Numbers ==
    /\ MaxSessions \in Nat /\ Rounds \in Nat /\ Patience \in Nat /\ MaxLoops \in Nat
    /\ MaxOutages \in Nat
    /\ 1 \in Sessions /\ 1 \in 1 .. Rounds
BY PoolAssumption DEF Sessions

LEMMA SessionsPool == TypeOK /\ PoolStep => SessionsOK'
<1> SUFFICES ASSUME TypeOK, PoolStep PROVE SessionsOK'
    OBVIOUS
<1> USE DEF TypeOK, PoolTypeOK, SessionsOK
<1>1. ASSUME NEW t \in Openers, Dial(t) PROVE SessionsOK'
    BY <1>1, Update DEF Dial
<1>2. ASSUME NEW t \in Openers, Opens(t) PROVE SessionsOK'
    BY <1>2, Update DEF Opens
<1>3. ASSUME NEW t \in Openers, FailsFirst(t) PROVE SessionsOK'
    BY <1>3, Update DEF FailsFirst
<1>4. ASSUME NEW t \in Openers, FailsLater(t) PROVE SessionsOK'
    BY <1>4, Update DEF FailsLater, CloseSession
<1>5. ASSUME NEW s \in Sessions, Ping(s) PROVE SessionsOK'
    BY <1>5, Update DEF Ping
<1>6. ASSUME NEW s \in Sessions, Forget(s) PROVE SessionsOK'
    BY <1>6, Update DEF Forget
<1>7. ASSUME NEW t \in Openers, Finish(t) PROVE SessionsOK'
    BY <1>7 DEF Finish
<1>8. ASSUME NEW l \in PingLoops, Wake(l) PROVE SessionsOK'
    BY <1>8 DEF Wake
<1>9. ASSUME NEW s \in Sessions, Receive(s) PROVE SessionsOK'
    BY <1>9 DEF Receive
<1>10. CASE PassOn \/ Tick \/ Outage \/ Return
    BY <1>10 DEF PassOn, Tick, Outage, Return
<1> QED
    BY <1>1, <1>2, <1>3, <1>4, <1>5, <1>6, <1>7, <1>8, <1>9, <1>10 DEF PoolStep, OpenStep

LEMMA FlagsPool == TypeOK /\ PoolStep => FlagsOK'
<1> SUFFICES ASSUME TypeOK, PoolStep PROVE FlagsOK'
    OBVIOUS
<1> USE DEF TypeOK, PoolTypeOK, FlagsOK
<1>1. ASSUME NEW t \in Openers, Dial(t) PROVE FlagsOK'
    BY <1>1 DEF Dial
<1>2. ASSUME NEW t \in Openers, Opens(t) PROVE FlagsOK'
    BY <1>2 DEF Opens
<1>3. ASSUME NEW t \in Openers, FailsFirst(t) PROVE FlagsOK'
    BY <1>3 DEF FailsFirst
<1>4. ASSUME NEW t \in Openers, FailsLater(t) PROVE FlagsOK'
    BY <1>4 DEF FailsLater, Panic
<1>5. ASSUME NEW t \in Openers, Finish(t) PROVE FlagsOK'
    BY <1>5 DEF Finish, Panic
<1>6. ASSUME NEW s \in Sessions, Ping(s) PROVE FlagsOK'
    BY <1>6 DEF Ping
<1>7. ASSUME NEW s \in Sessions, Receive(s) PROVE FlagsOK'
    BY <1>7 DEF Receive, Panic
<1>8. ASSUME NEW s \in Sessions, Forget(s) PROVE FlagsOK'
    BY <1>8 DEF Forget
<1>9. ASSUME NEW l \in PingLoops, Wake(l) PROVE FlagsOK'
    BY <1>9 DEF Wake
<1>10. CASE PassOn \/ Tick \/ Outage \/ Return
    BY <1>10 DEF PassOn, Tick, Outage, Return, Panic
<1> QED
    BY <1>1, <1>2, <1>3, <1>4, <1>5, <1>6, <1>7, <1>8, <1>9, <1>10 DEF PoolStep, OpenStep

LEMMA NextSessionType ==
    ASSUME OpenersOK, NEW t \in Openers, NextSession(t)
    PROVE  /\ step' \in [Openers -> {"idle", "dial", "wait", "end", "done", "failed"}]
           /\ index' \in [Openers -> Sessions]
<1>1. CASE index[t] < MaxSessions
  <2>1. index[t] + 1 \in Sessions
      BY <1>1, Numbers DEF OpenersOK, Sessions
  <2> QED
      BY <1>1, <2>1, Update DEF OpenersOK, NextSession, Goto
<1>2. CASE ~(index[t] < MaxSessions)
    BY <1>2, Numbers, Update DEF OpenersOK, NextSession, Goto
<1> QED
    BY <1>1, <1>2

LEMMA OpenersPool == TypeOK /\ PoolStep => OpenersOK'
<1> SUFFICES ASSUME TypeOK, PoolStep PROVE OpenersOK'
    OBVIOUS
<1> USE DEF TypeOK, PoolTypeOK, OpenersOK
<1>1. ASSUME NEW t \in Openers, Dial(t) PROVE OpenersOK'
    BY <1>1, Numbers, Update DEF Dial, Goto
<1>2. ASSUME NEW t \in Openers, Opens(t) PROVE OpenersOK'
    BY <1>2, NextSessionType DEF Opens
<1>3. ASSUME NEW t \in Openers, FailsFirst(t) PROVE OpenersOK'
    BY <1>3, NextSessionType DEF FailsFirst
<1>4. ASSUME NEW t \in Openers, FailsLater(t) PROVE OpenersOK'
    BY <1>4, Numbers, Update, SMTT(30) DEF FailsLater, Goto, NextRound
<1>5. ASSUME NEW t \in Openers, Finish(t) PROVE OpenersOK'
    BY <1>5, Numbers, Update, SMTT(30) DEF Finish, Goto
<1>6. ASSUME NEW s \in Sessions, Ping(s) PROVE OpenersOK'
    BY <1>6, Numbers, Update DEF Ping
<1>7. ASSUME NEW s \in Sessions, Receive(s) PROVE OpenersOK'
    BY <1>7 DEF Receive
<1>8. ASSUME NEW s \in Sessions, Forget(s) PROVE OpenersOK'
    BY <1>8 DEF Forget
<1>9. ASSUME NEW l \in PingLoops, Wake(l) PROVE OpenersOK'
  <2>1. poolState' \in {"disconnected", "connecting", "connected", "disconnecting"}
      BY <1>9 DEF Wake
  <2>2. woken' \subseteq PingLoops
      BY <1>9 DEF Wake
  <2>3. attempts[l] \in Nat /\ attempts[l] <= Patience
      BY Numbers
  <2>4. (IF Average THEN 0
         ELSE IF attempts[l] = Patience THEN attempts[l] - 1 ELSE attempts[l] + 1)
            \in 0 .. Patience
      BY <2>3, Numbers, PoolAssumption
  <2>5. attempts' \in [PingLoops -> 0 .. Patience]
      BY <1>9, <2>4, Update DEF Wake
  <2>6. /\ step' \in [Openers -> {"idle", "dial", "wait", "end", "done", "failed"}]
        /\ index' \in [Openers -> Sessions]
      BY <1>9, Numbers, Update DEF Wake, Goto
  <2> QED
      BY <1>9, <2>1, <2>2, <2>5, <2>6 DEF Wake
<1>10. CASE PassOn \/ Tick \/ Outage \/ Return
    BY <1>10, Numbers DEF PassOn, Tick, Outage, Return
<1> QED
    BY <1>1, <1>2, <1>3, <1>4, <1>5, <1>6, <1>7, <1>8, <1>9, <1>10 DEF PoolStep, OpenStep

LEMMA TypeStop ==
    ASSUME TypeOK, NEW x \in Stoppers, Test(x) \/ StopStep(x)
    PROVE  TypeOK'
<1> USE DEF TypeOK
<1>1. CASE Test(x)
    BY <1>1, Update DEF Test, Moves, PoolTypeOK, SessionsOK, FlagsOK, OpenersOK, StopOK
<1>2. CASE CloseStopping(x)
  <2>1. PoolTypeOK'
      BY <1>2 DEF CloseStopping, PanicIn, Panic, PoolTypeOK, SessionsOK, FlagsOK, OpenersOK
  <2>2. StopOK'
      BY <1>2, Update DEF CloseStopping, PanicIn, Moves, StopOK
  <2> QED
      BY <2>1, <2>2
<1>3. CASE ClosePool(x)
  <2>1. PoolTypeOK'
      BY <1>3 DEF ClosePool, PoolTypeOK, SessionsOK, FlagsOK, OpenersOK
  <2>2. StopOK'
      BY <1>3, Update DEF ClosePool, Moves, StopOK
  <2> QED
      BY <2>1, <2>2
<1>4. CASE CloseNext(x)
  <2>1. SessionsOK'
      BY <1>4, Update DEF CloseNext, CloseSession, PoolTypeOK, SessionsOK
  <2>2. FlagsOK'
      BY <1>4 DEF CloseNext, PanicIn, Panic, PoolTypeOK, FlagsOK
  <2>3. OpenersOK'
      BY <1>4 DEF CloseNext, PoolTypeOK, OpenersOK
  <2>4. closing' \in Sessions
      BY <1>4, Numbers DEF CloseNext, StopOK, Sessions
  <2>5. StopOK'
      BY <1>4, <2>4, Update DEF CloseNext, PanicIn, Moves, StopOK
  <2> QED
      BY <2>1, <2>2, <2>3, <2>5 DEF PoolTypeOK
<1> QED
    BY <1>1, <1>2, <1>3, <1>4 DEF StopStep

LEMMA TypeMain == TypeOK /\ MainStep => TypeOK'
<1> SUFFICES ASSUME TypeOK, MainStep PROVE TypeOK'
    OBVIOUS
<1> USE DEF TypeOK, PoolTypeOK, SessionsOK, FlagsOK, OpenersOK, StopOK
<1>1. CASE ConnectFails
    BY <1>1 DEF ConnectFails, Panic
<1>2. CASE Connected
    BY <1>2 DEF Connected
<1>3. CASE Returns
    BY <1>3 DEF Returns
<1> QED
    BY <1>1, <1>2, <1>3 DEF MainStep

LEMMA TypeInit == Init => TypeOK
<1> SUFFICES ASSUME Init PROVE TypeOK
    OBVIOUS
<1>1. SessionsOK
    BY DEF Init, NewUdpSessionPool, SessionsOK
<1>2. FlagsOK
    BY DEF Init, NewUdpSessionPool, FlagsOK
<1>3. OpenersOK
    BY Numbers, PoolAssumption DEF Init, NewUdpSessionPool, OpenersOK
<1>4. StopOK
    BY Numbers DEF Init, StopOK
<1> QED
    BY <1>1, <1>2, <1>3, <1>4 DEF TypeOK, PoolTypeOK

LEMMA TypeNext == TypeOK /\ [Next]_vars => TypeOK'
<1> SUFFICES ASSUME TypeOK, [Next]_vars PROVE TypeOK'
    OBVIOUS
<1>1. CASE PoolStep /\ UNCHANGED clientVars
  <2>1. StopOK'
      BY <1>1 DEF TypeOK, StopOK
  <2> QED
      BY <1>1, <2>1, SessionsPool, FlagsPool, OpenersPool DEF TypeOK, PoolTypeOK
<1>2. CASE MainStep
    BY <1>2, TypeMain
<1>3. ASSUME NEW x \in Stoppers, Test(x) \/ StopStep(x) PROVE TypeOK'
    BY <1>3, TypeStop
<1>4. CASE UNCHANGED vars
    BY <1>4 DEF TypeOK, PoolTypeOK, SessionsOK, FlagsOK, OpenersOK, StopOK
<1> QED
    BY <1>1, <1>2, <1>3, <1>4 DEF Next, Step, Rest

(* Every variable of the client and the pool keeps its type: no goroutine   *)
(* of core/session.go or core/client.go leaves an index, a round or a       *)
(* counter outside its range.                                               *)
THEOREM TypeCorrect == Spec => []TypeOK
BY TypeInit, TypeNext, PTL DEF Spec

----------------------------------------------------------------------------

Goal == (failed \/ Undisturbed) /\ (panicked => failed \/ holding)

LEMMA SoundPool ==
    ASSUME TypeOK, SoundInv, ~panicked, PoolStep, UNCHANGED clientVars
    PROVE  Goal'
<1> USE DEF TypeOK, PoolTypeOK, SessionsOK, FlagsOK, OpenersOK, StopOK, SoundInv, Goal
<1>1. ASSUME NEW t \in Openers, Dial(t) PROVE Goal'
    BY <1>1, Numbers DEF Dial, Undisturbed, PastFirst, Goto
<1>2. ASSUME NEW t \in Openers, Opens(t) PROVE Goal'
  <2>1. CASE failed
      BY <1>2, <2>1 DEF Opens
  <2>2. CASE ~failed
    <3>1. \A s \in Sessions : opened'[s] => nlayer'[s]
        BY <1>2, <2>2 DEF Opens, Undisturbed
    <3>2. nlayer[1] => nlayer'[1]
        BY <1>2, Numbers DEF Opens
    <3>3. index[t] = 1 => nlayer'[1]
        BY <1>2, Numbers DEF Opens
    <3>4. step[t] = "wait" /\ (index[t] = 1 \/ index[t] > 1)
        BY <1>2, Numbers DEF Opens, Sessions
    <3>5. nlayer'[1]
        BY <2>2, <3>2, <3>3, <3>4 DEF Undisturbed, PastFirst
    <3>6. step'[0] # "failed"
        BY <1>2, <2>2 DEF Opens, NextSession, Goto, Undisturbed, Openers
    <3>7. \A x \in Stoppers, s \in Sessions : halted'[s] /\ at'[x] # "returned" => s < closing'
        BY <1>2, <2>2 DEF Opens, Undisturbed
    <3> QED
        BY <1>2, <2>2, <3>1, <3>5, <3>6, <3>7 DEF Opens, Undisturbed
  <2> QED
      BY <2>1, <2>2
<1>3. ASSUME NEW t \in Openers, FailsFirst(t) PROVE Goal'
    BY <1>3, Numbers DEF FailsFirst, Undisturbed, PastFirst
<1>4. ASSUME NEW t \in Openers, FailsLater(t) PROVE Goal'
    BY <1>4, Numbers DEF FailsLater, Undisturbed, PastFirst
<1>5. ASSUME NEW t \in Openers, Finish(t) PROVE Goal'
  <2>1. CASE failed
      BY <1>5, <2>1 DEF Finish
  <2>2. CASE ~failed
    <3>1. nlayer[1]
        BY <1>5, <2>2 DEF Finish, Undisturbed, PastFirst
    <3>2. UNCHANGED <<sessionVars, panicked, failed>>
        BY <1>5, <3>1 DEF Finish
    <3>3. step'[0] # "failed"
        BY <1>5, <2>2, <3>1 DEF Finish, Goto, Undisturbed, Openers
    <3> QED
        BY <2>2, <3>1, <3>2, <3>3 DEF Undisturbed
  <2> QED
      BY <2>1, <2>2
<1>6. ASSUME NEW s \in Sessions, Ping(s) PROVE Goal'
    BY <1>6, Numbers DEF Ping, Undisturbed, PastFirst
<1>7. ASSUME NEW s \in Sessions, Receive(s) PROVE Goal'
    BY <1>7, Numbers DEF Receive, Undisturbed, PastFirst, Panic
<1>8. ASSUME NEW s \in Sessions, Forget(s) PROVE Goal'
    BY <1>8, Numbers DEF Forget, Undisturbed, PastFirst
<1>9. ASSUME NEW l \in PingLoops, Wake(l) PROVE Goal'
  <2>1. UNCHANGED <<sessionVars, panicked, failed>>
      BY <1>9 DEF Wake
  <2>2. CASE UNCHANGED <<step, index>>
      BY <1>9, <2>1, <2>2 DEF Wake, Undisturbed, PastFirst
  <2>3. CASE Goto(l, "dial", 1)
    <3>1. \A t \in Openers : PastFirst(t)' => PastFirst(t)
        BY <2>3 DEF PastFirst, Goto
    <3>2. step'[0] = "failed" => step[0] = "failed"
        BY <2>3 DEF Goto
    <3> QED
        BY <2>1, <3>1, <3>2 DEF Undisturbed
  <2> QED
      BY <1>9, <2>2, <2>3 DEF Wake
<1>10. CASE PassOn \/ Tick \/ Outage \/ Return
    BY <1>10 DEF PassOn, Tick, Outage, Return, Undisturbed, PastFirst, Panic
<1> QED
    BY <1>1, <1>2, <1>3, <1>4, <1>5, <1>6, <1>7, <1>8, <1>9, <1>10 DEF PoolStep, OpenStep

LEMMA SoundMain == TypeOK /\ SoundInv /\ ~panicked /\ MainStep => Goal'
<1> SUFFICES ASSUME TypeOK, SoundInv, ~panicked, MainStep PROVE Goal'
    OBVIOUS
<1> USE DEF Goal, SoundInv, Undisturbed, PastFirst
<1>1. CASE ConnectFails
    BY <1>1 DEF ConnectFails, Panic
<1>2. CASE Connected
    BY <1>2 DEF Connected
<1>3. CASE Returns
    BY <1>3 DEF Returns
<1> QED
    BY <1>1, <1>2, <1>3 DEF MainStep

LEMMA SoundStop ==
    ASSUME \A x, y \in Stoppers : x = y,
           TypeOK, SoundInv, ~panicked, NEW x \in Stoppers, Test(x) \/ StopStep(x)
    PROVE  SoundInv'
<1> USE DEF TypeOK, PoolTypeOK, SessionsOK, FlagsOK, OpenersOK, StopOK, SoundInv, Undisturbed,
            PastFirst, SoundUntilDisturbed
<1>1. CASE Test(x)
    BY <1>1 DEF Test, Moves
<1>2. CASE CloseStopping(x)
    BY <1>2 DEF CloseStopping, PanicIn, Moves
<1>3. CASE ClosePool(x)
    BY <1>3 DEF ClosePool, Moves
<1>4. CASE CloseNext(x)
  <2>1. \A y \in Stoppers : at'[y] \in {"idle", "close"} => ~stopping'
      BY <1>4 DEF CloseNext, PanicIn, Moves
  <2>2. CASE failed
      BY <1>4, <2>1, <2>2 DEF CloseNext
  <2>3. CASE ~failed
    <3>1. ~halted[closing]
        BY <1>4, <2>3, Numbers DEF CloseNext, Sessions
    <3>2. CloseSession(closing) /\ UNCHANGED <<panicked, nlayer, step, index, failed>>
        BY <1>4, <3>1 DEF CloseNext
    <3>3. \A s \in Sessions : opened'[s] => opened[s]
        BY <3>2 DEF CloseSession
    <3>4. \A s \in Sessions : halted'[s] => halted[s] \/ s = closing
        BY <3>2 DEF CloseSession
    <3>5. CASE closing < MaxSessions
      <4>1. closing' = closing + 1 /\ at' = at
          BY <1>4, <3>1, <3>5 DEF CloseNext
      <4>2. \A y \in Stoppers, s \in Sessions : halted'[s] /\ at'[y] # "returned" => s < closing'
          BY <2>3, <3>4, <4>1 DEF Sessions
      <4> QED
          BY <2>1, <2>3, <3>2, <3>3, <4>2
    <3>6. CASE ~(closing < MaxSessions)
      <4>1. \A y \in Stoppers : at'[y] = "returned"
          BY <1>4, <3>1, <3>6 DEF CloseNext, Moves
      <4> QED
          BY <2>1, <2>3, <3>2, <3>3, <4>1
    <3> QED
        BY <3>5, <3>6
  <2> QED
      BY <2>2, <2>3
<1> QED
    BY <1>1, <1>2, <1>3, <1>4 DEF StopStep


LEMMA SoundInit == Init => SoundInv
<1> SUFFICES ASSUME Init PROVE SoundInv
    OBVIOUS
<1> QED
    BY Numbers DEF Init, NewUdpSessionPool, SoundInv, Undisturbed, PastFirst, SoundUntilDisturbed,
        Openers

LEMMA SoundNext ==
    ASSUME \A x, y \in Stoppers : x = y
    PROVE  TypeOK /\ SoundInv /\ [Next]_vars => SoundInv'
<1> SUFFICES ASSUME TypeOK, SoundInv, [Next]_vars PROVE SoundInv'
    OBVIOUS
<1> USE DEF SoundInv
<1>1. ASSUME Goal', at' = at, stopping' = stopping PROVE SoundInv'
    BY <1>1 DEF Goal, SoundUntilDisturbed
<1>2. CASE ~Over /\ PoolStep /\ UNCHANGED clientVars
    BY <1>1, <1>2, SoundPool DEF Over
<1>3. CASE ~Over /\ MainStep
  <2>1. at' = at /\ stopping' = stopping
      BY <1>3 DEF MainStep, ConnectFails, Connected, Returns
  <2> QED
      BY <1>1, <1>3, <2>1, SoundMain DEF Over
<1>4. ASSUME ~Over, NEW x \in Stoppers, Test(x) \/ StopStep(x) PROVE SoundInv'
    BY <1>4, SoundStop DEF Over
<1>5. CASE UNCHANGED vars
    BY <1>5 DEF Undisturbed, PastFirst, SoundUntilDisturbed
<1> QED
    BY <1>2, <1>3, <1>4, <1>5 DEF Next, Step, Rest

(* When one goroutine only can be in client.Stop, the process panics only    *)
(* after an open of a session has failed, or with a reader loop that holds a *)
(* packet when Close closes readBuffer: whoever opens the pool again, and    *)
(* however often, no layer is missing and no channel is closed twice.        *)
THEOREM SoundIfStoppedOnce ==
    ASSUME \A x, y \in Stoppers : x = y
    PROVE  Spec => []SoundUntilDisturbed
<1>1. Init => SoundInv
    BY SoundInit
<1>2. TypeOK /\ SoundInv /\ [Next]_vars => SoundInv'
    BY SoundNext
<1>3. SoundInv => SoundUntilDisturbed
    BY DEF SoundInv
<1> QED
    BY <1>1, <1>2, <1>3, TypeCorrect, PTL DEF Spec

============================================================================
