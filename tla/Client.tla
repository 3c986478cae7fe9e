------------------------------- MODULE Client -------------------------------
(***************************************************************************)
(* The Windows client (core/client.go, cmd/client/windows/client.go): the  *)
(* main goroutine, which connects, listens and waits for client.Stopping,  *)
(* and the two that call client.Stop, Ctrl+C and the HTTP API, over the    *)
(* pool of sessions.                                                       *)
(***************************************************************************)
EXTENDS SessionPool

CONSTANT Stoppers  \* those who may call client.Stop: "signal", "http"

ASSUME StoppersAssumption == Stoppers \subseteq {"signal", "http"}

VARIABLES
    main,      \* where the main goroutine is
    stopping,  \* client.Stopping is closed
    at,        \* where each caller is in client.Stop
    closing    \* the session that is being closed

clientVars == <<main, stopping, at, closing>>
vars == <<varsOfPool, clientVars>>

StopOK ==
    /\ main \in {"connecting", "listening", "ended"}
    /\ stopping \in BOOLEAN
    /\ at \in [Stoppers -> {"idle", "close", "pool", "sessions", "returned"}]
    /\ closing \in Sessions

TypeOK == PoolTypeOK /\ StopOK

Init ==
    /\ NewUdpSessionPool
    /\ main = "connecting"
    /\ stopping = FALSE
    /\ at = [x \in Stoppers |-> "idle"]
    /\ closing = 1

Over == panicked \/ main = "ended"

----------------------------------------------------------------------------
(* main and Connect, ListenUnsafe.                                          *)

(* Connect goes on after an error and uses the address it has not got.      *)
ConnectFails ==
    /\ main = "connecting" /\ step[0] = "failed"
    /\ Panic
    /\ UNCHANGED <<sessionVars, poolState, poolVars, openVars, loopVars, worldVars, failed,
                   clientVars>>

(* A pool that is not "connected" any more ends the program.                *)
Connected ==
    /\ main = "connecting" /\ step[0] = "done"
    /\ main' = IF poolState = "connected" THEN "listening" ELSE "ended"
    /\ UNCHANGED <<varsOfPool, stopping, at, closing>>

MutantReturns ==
    /\ main = "listening" /\ stopping /\ poolState = "disconnected"
    /\ main' = "ended"
    /\ UNCHANGED <<varsOfPool, stopping, at, closing>>

(* ListenUnsafe returns and the program ends, wherever the others are.      *)
Returns ==
    /\ main = "listening" /\ stopping
    /\ main' = "ended"
    /\ UNCHANGED <<varsOfPool, stopping, at, closing>>

MainStep == ConnectFails \/ Connected \/ Returns

----------------------------------------------------------------------------
(* client.Stop, with UdpSessionPool.Close.                                  *)

Moves(x, label) == at' = [at EXCEPT ![x] = label]

(* A panic in a handler of the API is caught by net/http.                   *)
PanicIn(x) ==
    IF x = "http" THEN Moves(x, "returned") /\ UNCHANGED panicked ELSE Panic /\ UNCHANGED at

Test(x) ==
    /\ at[x] = "idle"
    /\ x = "signal" => main = "listening"
    /\ Moves(x, IF stopping THEN "returned" ELSE "close")
    /\ UNCHANGED <<varsOfPool, main, stopping, closing>>

CloseStopping(x) ==
    /\ at[x] = "close"
    /\ IF stopping THEN PanicIn(x) /\ UNCHANGED stopping
       ELSE stopping' = TRUE /\ Moves(x, "pool") /\ UNCHANGED panicked
    /\ UNCHANGED <<sessionVars, poolState, poolVars, openVars, loopVars, worldVars, failed,
                   main, closing>>

ClosePool(x) ==
    /\ at[x] = "pool"
    /\ poolState' = "disconnecting"
    /\ poolStopping' = TRUE
    /\ Moves(x, "sessions")
    /\ UNCHANGED <<sessionVars, holding, openVars, loopVars, worldVars, panicked,
                   failed, main, stopping, closing>>

MutantCloseNext(x) ==
    /\ at[x] = "sessions"
    /\ IF halted[1]
       THEN PanicIn(x) /\ UNCHANGED <<opened, halted, conn, poolState, closing>>
       ELSE /\ CloseSession(1)
            /\ IF closing < MaxSessions
               THEN closing' = closing + 1 /\ UNCHANGED <<poolState, at>>
               ELSE poolState' = "disconnected" /\ Moves(x, "returned") /\ UNCHANGED closing
            /\ UNCHANGED panicked
    /\ UNCHANGED <<nlayer, known, response, timed, looping, poolVars, openVars, loopVars,
                   worldVars, failed, main, stopping>>

(* The sessions in turn; the last one, and the end of Close.                *)
CloseNext(x) ==
    /\ at[x] = "sessions"
    /\ IF halted[closing]
       THEN PanicIn(x) /\ UNCHANGED <<opened, halted, conn, poolState, closing>>
       ELSE /\ CloseSession(closing)
            /\ IF closing < MaxSessions
               THEN closing' = closing + 1 /\ UNCHANGED <<poolState, at>>
               ELSE poolState' = "disconnected" /\ Moves(x, "returned") /\ UNCHANGED closing
            /\ UNCHANGED panicked
    /\ UNCHANGED <<nlayer, known, response, timed, looping, poolVars, openVars, loopVars,
                   worldVars, failed, main, stopping>>

StopStep(x) == CloseStopping(x) \/ ClosePool(x) \/ CloseNext(x)

Rest == Over /\ UNCHANGED vars

Step ==
    \/ PoolStep /\ UNCHANGED clientVars
    \/ MainStep
    \/ \E x \in Stoppers : Test(x) \/ StopStep(x)

Next == (~Over /\ Step) \/ Rest

Spec == Init /\ [][Next]_vars

(* Goroutines run and time passes; nothing is said of the network, of what  *)
(* the readers receive, or of whether the client is ever stopped.           *)
Fairness ==
    /\ \A t \in Openers : WF_vars(~Over /\ OpenStep(t) /\ UNCHANGED clientVars)
    /\ WF_vars(~Over /\ UNCHANGED clientVars
               /\ (Tick \/ (\E s \in Sessions : Ping(s)) \/ \E l \in PingLoops : Wake(l)))
    /\ WF_vars(~Over /\ MainStep)

FairSpec == Spec /\ Fairness

----------------------------------------------------------------------------
(* A session that was closed when a later one could not be opened, right    *)
(* after its ping had been answered: nobody pings it again, and that ping   *)
(* counts as an answer for ever.                                            *)
Stuck == \E s \in Sessions : ~looping[s] /\ timed[s]

(* As long as every session could be opened and nobody else is in           *)
(* client.Stop (Stoppers has one member), the client does not crash, but    *)
(* for a reader that holds a packet while the pool is closed.               *)
SoundUntilDisturbed == panicked => failed \/ holding

(* What is written reaches the server.                                      *)
Carries == \A f \in FilteredSessions : Takers(f) # {} /\ Takers(f) \subseteq Working

(* When the server can be reached again for good, the client is never cut   *)
(* off for good: sessions that the server has forgotten are opened again or *)
(* passed over.  (Nor does it stay connected for good: ping loops that wake *)
(* up before the pings are answered may open the pool again and again.)     *)
Recovers == <>[]reachable => []<>(Over \/ stopping \/ Stuck \/ Carries)

(* When the server stays out of reach, the pool does not stay "connected".  *)
OutageShows == <>[]~reachable => <>[](Over \/ Stuck \/ poolState # "connected")

(* Once client.Stopping is closed the program ends.                         *)
StopEnds == stopping ~> Over

(* "return // already closed" (core/client.go:285): who finds the channel   *)
(* closed returns, and nobody closes it again.                              *)
StopIsIdempotent == \A x \in Stoppers : at[x] = "close" => ~stopping

(* What makes SoundUntilDisturbed inductive: until an open has failed every *)
(* session that is open has its layer, whoever is past the first session    *)
(* has opened it, and client.Stop has not come to a session that is closed. *)
PastFirst(t) == step[t] = "end" \/ (step[t] \in {"dial", "wait"} /\ index[t] > 1)

Undisturbed ==
    /\ \A s \in Sessions : opened[s] => nlayer[s]
    /\ \A t \in Openers : PastFirst(t) => nlayer[1]
    /\ step[0] # "failed"
    /\ \A x \in Stoppers, s \in Sessions : halted[s] /\ at[x] # "returned" => s < closing

SoundInv ==
    /\ \A x \in Stoppers : at[x] \in {"idle", "close"} => ~stopping
    /\ failed \/ Undisturbed
    /\ SoundUntilDisturbed
============================================================================
