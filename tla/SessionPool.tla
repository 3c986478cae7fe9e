---------------------------- MODULE SessionPool ----------------------------
(***************************************************************************)
(* UdpSessionPool of core/session.go with its sessions, whose fields are   *)
(* shared by whoever opens the pool (Connect, and every ping loop of the   *)
(* pool, each of which opens it again), by the reader loops, by the filter *)
(* loop and by Close.  What Session shows in detail, a handshake and a     *)
(* ping, is one step here: it succeeds when the server can be reached.     *)
(*                                                                         *)
(* Time passes in periods, in which every ping loop, of a session (5 s) or *)
(* of the pool (4 s), wakes up once.                                       *)
(***************************************************************************)
EXTENDS Naturals

CONSTANTS
    MaxSessions,  \* UdpSessionPool.MaxSessions (8)
    Rounds,       \* SingleOpens of one Open (2)
    Patience,     \* unanswered wake-ups until a ping loop opens the pool again (4)
    MaxLoops,     \* bound: ping loops of the pool; opening it starts no more than these
    MaxOutages    \* bound: how often the server goes out of reach

ASSUME PoolAssumption ==
    /\ MaxSessions \in Nat \ {0} /\ Rounds \in Nat \ {0} /\ Patience \in Nat \ {0}
    /\ MaxLoops \in Nat \ {0} /\ MaxOutages \in Nat

VARIABLES
    (* the sessions *)
    opened,       \* UdpSession.Opened
    nlayer,       \* UdpSession.NLayer is not nil
    halted,       \* UdpSession.Stopping is closed
    conn,         \* UdpSession.Conn
    known,        \* the server has a peer with the address of Conn and these keys
    response,     \* UdpSession.Ping.Response
    timed,        \* UdpSession.Ping.Value > 0
    looping,      \* UdpSession.PingLoop runs
    (* the pool *)
    poolState,    \* UdpSessionPool.State
    poolStopping, \* UdpSessionPool.Stopping and readBuffer are closed
    holding,      \* a reader loop holds a packet for readBuffer
    (* who opens the pool: 0 is Connect, the others are ping loops *)
    step,         \* where it is in UdpSessionPool.Open
    index,        \* of the session it opens
    round,        \* of Open
    loops,        \* ping loops of the pool that have been started
    attempts,     \* of each ping loop: wake-ups without an answer
    woken,        \* those that have woken up in this period
    pinged,       \* the sessions that have been pinged in this period
    (* the rest of the world *)
    reachable,    \* the server can be reached
    outages,
    panicked,     \* a goroutine has panicked, which ends the process
    failed        \* history: a session could not be opened

sessionVars == <<opened, nlayer, halted, conn, known, response, timed, looping>>
poolVars == <<poolStopping, holding>>
openVars == <<step, index, round>>
loopVars == <<loops, attempts, woken, pinged>>
worldVars == <<reachable, outages>>
varsOfPool == <<sessionVars, poolState, poolVars, openVars, loopVars, worldVars,
                panicked, failed>>

Sessions == 1 .. MaxSessions
PingLoops == 1 .. MaxLoops
Openers == {0} \cup PingLoops
Running == 1 .. loops

SessionsOK ==
    /\ opened \in [Sessions -> BOOLEAN] /\ nlayer \in [Sessions -> BOOLEAN]
    /\ halted \in [Sessions -> BOOLEAN] /\ known \in [Sessions -> BOOLEAN]
    /\ response \in [Sessions -> BOOLEAN] /\ timed \in [Sessions -> BOOLEAN]
    /\ looping \in [Sessions -> BOOLEAN]
    /\ conn \in [Sessions -> {"none", "live", "closed"}]

FlagsOK ==
    /\ poolStopping \in BOOLEAN /\ holding \in BOOLEAN /\ reachable \in BOOLEAN
    /\ panicked \in BOOLEAN /\ failed \in BOOLEAN

OpenersOK ==
    /\ poolState \in {"disconnected", "connecting", "connected", "disconnecting"}
    /\ pinged \subseteq Sessions /\ woken \subseteq PingLoops
    /\ step \in [Openers -> {"idle", "dial", "wait", "end", "done", "failed"}]
    /\ index \in [Openers -> Sessions]
    /\ round \in [Openers -> 1 .. Rounds]
    /\ loops \in 0 .. MaxLoops
    /\ attempts \in [PingLoops -> 0 .. Patience]
    /\ outages \in 0 .. MaxOutages

PoolTypeOK == SessionsOK /\ FlagsOK /\ OpenersOK

NewUdpSessionPool ==
    /\ opened = [s \in Sessions |-> FALSE]
    /\ nlayer = [s \in Sessions |-> FALSE]
    /\ halted = [s \in Sessions |-> FALSE]
    /\ conn = [s \in Sessions |-> "none"]
    /\ known = [s \in Sessions |-> FALSE]
    /\ response = [s \in Sessions |-> TRUE]
    /\ timed = [s \in Sessions |-> FALSE]
    /\ looping = [s \in Sessions |-> FALSE]
    /\ poolState = "disconnected"
    /\ poolStopping = FALSE
    /\ holding = FALSE
    /\ step = [t \in Openers |-> IF t = 0 THEN "dial" ELSE "idle"]
    /\ index = [t \in Openers |-> 1]
    /\ round = [t \in Openers |-> 1]
    /\ loops = 0
    /\ attempts = [l \in PingLoops |-> 0]
    /\ woken = {}
    /\ pinged = {}
    /\ reachable \in BOOLEAN
    /\ outages = 0
    /\ panicked = FALSE
    /\ failed = FALSE

Panic == panicked' = TRUE

----------------------------------------------------------------------------
(* Open and SingleOpen of the pool, by Connect or by a ping loop. *)

Goto(t, label, s) ==
    /\ step' = [step EXCEPT ![t] = label]
    /\ index' = [index EXCEPT ![t] = s]

(* UdpSession.SingleOpen: a new channel, a new socket; Opened and NLayer    *)
(* keep their values.                                                       *)
Dial(t) ==
    LET s == index[t] IN
    /\ step[t] = "dial"
    /\ halted' = [halted EXCEPT ![s] = FALSE]
    /\ conn' = [conn EXCEPT ![s] = "live"]
    /\ known' = [known EXCEPT ![s] = FALSE]
    /\ poolState' = IF s = 1 THEN "connecting" ELSE poolState
    /\ Goto(t, "wait", s)
    /\ UNCHANGED <<opened, nlayer, response, timed, looping, poolVars, round, loopVars, worldVars,
                   panicked, failed>>

MutantNextSession(t) ==
    IF index[t] <= MaxSessions THEN Goto(t, "dial", index[t] + 1) ELSE Goto(t, "end", 1)

(* After the last session SingleOpen goes on to what follows its loop.      *)
NextSession(t) ==
    IF index[t] < MaxSessions THEN Goto(t, "dial", index[t] + 1) ELSE Goto(t, "end", 1)

(* The handshake succeeds.  When two open the same session at a time, the   *)
(* keys of the one may be used with the socket of the other.                *)
Opens(t) ==
    LET s == index[t] IN
    /\ step[t] = "wait"
    /\ reachable
    /\ \E agreed \in BOOLEAN :
        /\ agreed \/ \E u \in Openers \ {t} : step[u] = "wait" /\ index[u] = s
        /\ known' = [known EXCEPT ![s] = agreed]
    /\ nlayer' = [nlayer EXCEPT ![s] = TRUE]
    /\ response' = [response EXCEPT ![s] = TRUE]
    /\ timed' = [timed EXCEPT ![s] = FALSE]
    /\ opened' = [opened EXCEPT ![s] = TRUE]
    /\ looping' = [looping EXCEPT ![s] = TRUE]
    /\ pinged' = pinged \cup {s}
    /\ NextSession(t)
    /\ UNCHANGED <<halted, conn, poolState, poolVars, round, loops, attempts, woken, worldVars,
                   panicked, failed>>

(* UdpSession.Close.  Opened is reset only if there never was a socket.     *)
CloseSession(s) ==
    /\ halted' = [halted EXCEPT ![s] = TRUE]
    /\ IF conn[s] = "none"
       THEN opened' = [opened EXCEPT ![s] = FALSE] /\ UNCHANGED conn
       ELSE conn' = [conn EXCEPT ![s] = "closed"] /\ UNCHANGED opened

(* The second SingleOpen, or the error.                                     *)
NextRound(t) ==
    IF round[t] < Rounds
    THEN Goto(t, "dial", 1) /\ round' = [round EXCEPT ![t] = @ + 1]
    ELSE /\ Goto(t, IF t = 0 THEN "failed" ELSE "idle", 1)
         /\ round' = [round EXCEPT ![t] = 1]

(* The handshake fails.  The first session is skipped over; when a later    *)
(* one fails, the first is closed, and no other.                            *)
FailsFirst(t) ==
    /\ step[t] = "wait" /\ index[t] = 1
    /\ ~reachable
    /\ nlayer' = [nlayer EXCEPT ![1] = FALSE]
    /\ poolState' = "disconnected"
    /\ failed' = TRUE
    /\ NextSession(t)
    /\ UNCHANGED <<opened, halted, conn, known, response, timed, looping, poolVars, round,
                   loopVars, worldVars, panicked>>

FailsLater(t) ==
    /\ step[t] = "wait" /\ index[t] > 1
    /\ ~reachable
    /\ nlayer' = [nlayer EXCEPT ![index[t]] = FALSE]
    /\ poolState' = "disconnected"
    /\ failed' = TRUE
    /\ IF halted[1] THEN Panic /\ UNCHANGED <<opened, halted, conn, openVars>>
       ELSE CloseSession(1) /\ NextRound(t) /\ UNCHANGED panicked
    /\ UNCHANGED <<known, response, timed, looping, poolVars, loopVars, worldVars>>

(* The end of SingleOpen: it needs the layer of the first session, and      *)
(* starts a ping loop that stays (and reader loops and a filter loop).      *)
Finish(t) ==
    /\ step[t] = "end"
    /\ IF nlayer[1]
       THEN /\ loops' = IF loops < MaxLoops THEN loops + 1 ELSE loops
            /\ woken' = woken \cup ({t} \cap Running) \cup (loops + 1 .. loops')
            /\ poolState' = "connected"
            /\ Goto(t, IF t = 0 THEN "done" ELSE "idle", 1)
            /\ round' = [round EXCEPT ![t] = 1]
            /\ UNCHANGED panicked
       ELSE Panic /\ UNCHANGED <<loops, woken, poolState, openVars>>
    /\ UNCHANGED <<sessionVars, poolVars, attempts, pinged, worldVars, failed>>

OpenStep(t) == Dial(t) \/ Opens(t) \/ FailsFirst(t) \/ FailsLater(t) \/ Finish(t)

----------------------------------------------------------------------------
(* Pings. *)

Accepts(s) == opened[s] /\ nlayer[s] /\ conn[s] = "live"
Working == {s \in Sessions : Accepts(s) /\ known[s]}

(* PingLoop of a session.  A pong is taken in by the reader loops.  Once    *)
(* Stopping is closed the loop ends, at once or after a last ping.          *)
Ping(s) ==
    LET pong == s \in Working /\ reachable /\ loops > 0 /\ ~poolStopping IN
    /\ looping[s]
    /\ s \notin pinged
    /\ pinged' = pinged \cup {s}
    /\ looping' = [looping EXCEPT ![s] = ~halted[s]]
    /\ \/ /\ opened[s]
          /\ response' = [response EXCEPT ![s] = pong]
          /\ timed' = [timed EXCEPT ![s] = pong]
       \/ (halted[s] \/ ~opened[s]) /\ UNCHANGED <<response, timed>>
    /\ UNCHANGED <<opened, nlayer, halted, conn, known, poolState, poolVars, openVars,
                   loops, attempts, woken, worldVars, panicked, failed>>

MutantAverage == \E s \in Sessions : opened[s]

(* PingGroup.Calculate: the average is zero when no session was answered.   *)
Average == \E s \in Sessions : timed[s]

(* PingLoop of the pool: from the fourth unanswered wake-up on, every       *)
(* second time, it tries a session of its own and, if that can be opened,   *)
(* opens the pool.                                                          *)
Wake(l) ==
    /\ l \in Running
    /\ step[l] = "idle"
    /\ ~poolStopping
    /\ l \notin woken
    /\ woken' = woken \cup {l}
    /\ poolState' = IF Average THEN "connected" ELSE "connecting"
    /\ attempts' = [attempts EXCEPT ![l] =
                      IF Average THEN 0 ELSE IF @ = Patience THEN @ - 1 ELSE @ + 1]
    /\ IF attempts'[l] = Patience /\ reachable
       THEN Goto(l, "dial", 1) ELSE UNCHANGED <<step, index>>
    /\ UNCHANGED <<sessionVars, poolVars, round, loops, pinged, worldVars, panicked, failed>>

(* Handshakes with a server that can be reached take much less than a       *)
(* period.                                                                  *)
Tick ==
    /\ reachable => \A t \in Openers : step[t] \in {"idle", "done", "failed"}
    /\ \A s \in Sessions : looping[s] => s \in pinged
    /\ \A l \in Running : step[l] # "idle" \/ poolStopping \/ l \in woken
    /\ pinged' = {}
    /\ woken' = {}
    /\ UNCHANGED <<sessionVars, poolState, poolVars, openVars, loops, attempts, worldVars,
                   panicked, failed>>

----------------------------------------------------------------------------
(* Writing and reading. *)

MutantSorted(f) == \A i, j \in Sessions : i # j => f[i] # f[j]

(* FilterSessions: those that answered, by their ping, then the others.     *)
Sorted(f) ==
    /\ \A i, j \in Sessions : i # j => f[i] # f[j]
    /\ \A i, j \in Sessions : response[f[j]] /\ ~response[f[i]] => j < i

(* The order that FilterLoop leaves for Write; it looks several times in a  *)
(* period, so that Write is taken to see the flags as they are.             *)
FilteredSessions == {f \in [Sessions -> Sessions] : Sorted(f)}

(* Write: the first session that makes no error takes the packet.           *)
Takers(f) == {f[i] : i \in {i \in Sessions : Accepts(f[i]) /\ \A j \in 1 .. i - 1 : ~Accepts(f[j])}}

(* ReaderLoop reads a datagram of the server, perhaps a late one; it needs  *)
(* the layer, and keeps what is left of it for readBuffer.  What it passes  *)
(* on before the pool is closed is of no consequence, and left out.         *)
Receive(s) ==
    /\ loops > 0
    /\ opened[s] /\ conn[s] = "live"
    /\ IF nlayer[s]
       THEN known[s] /\ poolStopping /\ ~holding /\ holding' = TRUE /\ UNCHANGED panicked
       ELSE Panic /\ UNCHANGED holding
    /\ UNCHANGED <<sessionVars, poolState, poolStopping, openVars, loopVars, worldVars,
                   failed>>

(* Of a closed Stopping and a closed readBuffer its select takes either.    *)
PassOn ==
    /\ holding
    /\ \/ holding' = FALSE /\ UNCHANGED panicked
       \/ Panic /\ UNCHANGED holding
    /\ UNCHANGED <<sessionVars, poolState, poolStopping, openVars, loopVars, worldVars,
                   failed>>

----------------------------------------------------------------------------
(* The server goes out of reach, and forgets sessions, one after the other. *)

Outage ==
    /\ reachable
    /\ outages < MaxOutages
    /\ reachable' = FALSE
    /\ outages' = outages + 1
    /\ UNCHANGED <<sessionVars, poolState, poolVars, openVars, loopVars, panicked, failed>>

Return ==
    /\ ~reachable
    /\ reachable' = TRUE
    /\ UNCHANGED <<sessionVars, poolState, poolVars, openVars, loopVars, outages, panicked,
                   failed>>

Forget(s) ==
    /\ ~reachable
    /\ known[s]
    /\ known' = [known EXCEPT ![s] = FALSE]
    /\ UNCHANGED <<opened, nlayer, halted, conn, response, timed, looping, poolState, poolVars,
                   openVars, loopVars, worldVars, panicked, failed>>

PoolStep ==
    \/ \E t \in Openers : OpenStep(t)
    \/ \E s \in Sessions : Ping(s) \/ Receive(s) \/ Forget(s)
    \/ \E l \in PingLoops : Wake(l)
    \/ PassOn \/ Tick \/ Outage \/ Return
============================================================================
