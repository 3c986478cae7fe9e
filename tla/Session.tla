------------------------------ MODULE Session ------------------------------
(***************************************************************************)
(* One UDP session of a client and its server, over a network that loses,  *)
(* delays, duplicates and reorders datagrams: UdpSession with its ping     *)
(* loops and the reader loops of its pool (core/session.go), and both ends *)
(* of the handshake (core/handshake.go).  The pool opens a session again   *)
(* without closing it, while the loops of the first time are running and   *)
(* packets are being written: they all share its fields.                   *)
(*                                                                         *)
(* A socket is the number of its handshake attempt, and so is the random   *)
(* value of the hello; the random values of the server are numbered too.   *)
(* The keys that both derive are the pair of the two.  What is wrapped     *)
(* with other keys than the receiver's is junk to it.                      *)
(***************************************************************************)
EXTENDS Ping, FiniteSets

CONSTANTS
    None,
    Attempts,     \* attempts of one ClientHandshake (5)
    Rounds,       \* SingleOpens of one Open (2)
    PeerTimeout,  \* Server.PeerTimeout, in periods of the ping loop (2)
    Readers,      \* bound: the goroutines in ReaderLoop
    MaxDials,     \* bound: sockets in a run
    MaxOpens,     \* bound: successful opens in a run
    MaxCrashes,   \* bound: crashes of the server
    MaxInFlight   \* bound: datagrams in the network; more are lost

ASSUME CountsAssumption ==
    /\ Attempts \in Nat \ {0} /\ Rounds \in Nat \ {0}
    /\ PeerTimeout \in Nat /\ PeerTimeout > 1
    /\ MaxDials \in Nat /\ MaxOpens \in Nat /\ MaxCrashes \in Nat /\ MaxInFlight \in Nat
ASSUME NoneAssumption == None \notin Nat \X Nat

VARIABLES
    conn,       \* UdpSession.Conn: the socket, or 0
    nlayer,     \* UdpSession.NLayer: the keys, or None
    opened,     \* UdpSession.Opened
    state,      \* UdpSession.State
    hs,         \* where the goroutine in UdpSession.Open is
    attempts,   \* attempts left in this ClientHandshake
    rounds,     \* SingleOpens left in this Open
    tried,      \* attempts so far
    loops,      \* goroutines in UdpSession.PingLoop
    toPing,     \* of those, the ones that have to ping in this period
    reporting,  \* of those, the ones between SendPacket and GetResponse
    reader,     \* the socket each reader loop reads from, 0, or None if off
    broken,     \* the client has dereferenced a nil layer
    up,         \* the server is running
    peers,      \* the server's keys for each socket, or None
    age,        \* periods since Peer.LastSeen
    serial,     \* successful handshakes of the server
    crashes,    \* crashes of the server
    net,        \* datagrams in flight
    lost,       \* history: a datagram was lost since the session was opened
    silence     \* history: periods since the last pong, or the open

clientVars == <<conn, nlayer, opened, hs, attempts, rounds, tried>>
loopVars == <<loops, toPing, reporting>>
serverVars == <<up, peers, age, serial, crashes>>
netVars == <<net, lost>>
vars == <<pingVars, clientVars, state, loopVars, reader, broken, serverVars, netVars, silence>>

Sockets == 1 .. MaxDials
Keys == Nat \X Nat

(* A hello carries the client's random value, an answer the server's.      *)
Datagram(to, p, kind, k) == [to |-> to, port |-> p, kind |-> kind, key |-> k]
Hello(p, r) == Datagram("server", p, "hello", <<r, 0>>)
Packet(p, kind, k) == Datagram("server", p, kind, k)
Answer(p, s) == Datagram("client", p, "answer", <<0, s>>)
Refused(p) == Datagram("client", p, "refused", <<0, 0>>)
Reply(p, kind, k) == Datagram("client", p, kind, k)

Datagrams ==
    [to : {"server"}, port : Sockets, kind : {"hello", "data", "ping"}, key : Keys]
    \cup [to : {"client"}, port : Sockets, kind : {"answer", "refused", "pong", "other"},
          key : Keys]

FlagsOK ==
    /\ PingFlagsOK
    /\ opened \in BOOLEAN /\ broken \in BOOLEAN /\ up \in BOOLEAN /\ lost \in BOOLEAN

SessionOK ==
    /\ TimersOK
    /\ conn \in {0} \cup Sockets
    /\ nlayer \in Keys \cup {None}
    /\ state \in {"disconnected", "connecting", "connected"}
    /\ hs \in {"closed", "dial", "hello", "await", "open", "failed"}
    /\ attempts \in 0 .. Attempts
    /\ rounds \in 0 .. Rounds
    /\ tried \in 0 .. MaxDials
    /\ loops \in Nat /\ toPing \in Nat /\ reporting \in Nat
    /\ serial \in Nat /\ crashes \in Nat /\ silence \in Nat
    /\ reader \in [Readers -> {0, None} \cup Sockets]
    /\ peers \in [Sockets -> Keys \cup {None}]
    /\ age \in [Sockets -> 0 .. PeerTimeout]
    /\ net \subseteq Datagrams

TypeOK == FlagsOK /\ SessionOK

Init ==
    /\ PingInit
    /\ conn = 0
    /\ nlayer = None
    /\ opened = FALSE
    /\ state = "disconnected"
    /\ hs = "closed"
    /\ attempts = 0
    /\ rounds = 0
    /\ tried = 0
    /\ loops = 0
    /\ toPing = 0
    /\ reporting = 0
    /\ reader = [r \in Readers |-> None]
    /\ broken = FALSE
    /\ up = TRUE
    /\ peers = [p \in Sockets |-> None]
    /\ age = [p \in Sockets |-> 0]
    /\ serial = 0
    /\ crashes = 0
    /\ net = {}
    /\ lost = FALSE
    /\ silence = 0

----------------------------------------------------------------------------
(* The network.  A datagram is lost when it is sent or at the end of the   *)
(* period, and may be delivered more than once.                            *)

Exchange(taken, sent) ==
    \E dup \in SUBSET taken, through \in SUBSET sent :
        /\ net' = (net \ taken) \cup dup \cup through
        /\ Cardinality(net') <= MaxInFlight
        /\ lost' = (lost \/ through # sent)

Send(m) == Exchange({}, {m})

----------------------------------------------------------------------------
(* UdpSession.Open, SingleOpen and ClientHandshake.                        *)

(* The pool opens the session, or opens it again: Opened and NLayer keep   *)
(* their values until the handshake has ended.                             *)
Open ==
    /\ hs \in {"closed", "open", "failed"}
    /\ ~broken
    /\ tried < MaxDials
    /\ loops < MaxOpens
    /\ hs' = "dial"
    /\ attempts' = Attempts
    /\ rounds' = Rounds
    /\ state' = "connecting"
    /\ silence' = 0
    /\ UNCHANGED <<pingVars, conn, nlayer, opened, tried, loopVars, reader, broken,
                   serverVars, netVars>>

MutantDial ==
    /\ hs = "dial"
    /\ ~broken
    /\ tried < MaxDials
    /\ tried' = tried + 1
    /\ conn' = IF conn = 0 THEN tried' ELSE conn
    /\ hs' = "hello"
    /\ UNCHANGED <<pingVars, nlayer, opened, attempts, rounds, state, loopVars, reader, broken,
                   serverVars, netVars, silence>>

(* Every attempt has a socket of its own; the one before is not closed.    *)
Dial ==
    /\ hs = "dial"
    /\ ~broken
    /\ tried < MaxDials
    /\ tried' = tried + 1
    /\ conn' = tried'
    /\ hs' = "hello"
    /\ UNCHANGED <<pingVars, nlayer, opened, attempts, rounds, state, loopVars, reader, broken,
                   serverVars, netVars, silence>>

SendHello ==
    /\ hs = "hello"
    /\ ~broken
    /\ Send(Hello(conn, tried))
    /\ hs' = "await"
    /\ UNCHANGED <<pingVars, conn, nlayer, opened, attempts, rounds, tried, state, loopVars, reader,
                   broken, serverVars, silence>>

MutantOneRoundMore ==
    /\ IF attempts > 1
       THEN /\ attempts' = attempts - 1
            /\ hs' = "dial"
            /\ UNCHANGED <<nlayer, state, rounds>>
       ELSE /\ nlayer' = None
            /\ attempts' = IF rounds > 0 THEN Attempts ELSE 0
            /\ rounds' = rounds - 1
            /\ hs' = IF rounds > 0 THEN "dial" ELSE "failed"
            /\ state' = IF rounds > 0 THEN "connecting" ELSE "disconnected"
    /\ UNCHANGED <<pingVars, opened, tried, loopVars, reader, broken, serverVars, silence>>

MutantUncounted ==
    /\ hs' = "dial"
    /\ UNCHANGED <<pingVars, nlayer, state, attempts, rounds, opened, tried, loopVars, reader,
                   broken, serverVars, silence>>

(* The attempt fails: the next one, or the next round, or the end.  When a *)
(* round ends, ClientHandshake returns no layer.                           *)
FailAttempt ==
    /\ IF attempts > 1
       THEN /\ attempts' = attempts - 1
            /\ hs' = "dial"
            /\ UNCHANGED <<nlayer, state, rounds>>
       ELSE /\ nlayer' = None
            /\ attempts' = IF rounds > 1 THEN Attempts ELSE 0
            /\ rounds' = rounds - 1
            /\ hs' = IF rounds > 1 THEN "dial" ELSE "failed"
            /\ state' = IF rounds > 1 THEN "connecting" ELSE "disconnected"
    /\ UNCHANGED <<pingVars, opened, tried, loopVars, reader, broken, serverVars, silence>>

(* DialUDP fails and leaves no socket.                                     *)
DialFails ==
    /\ hs = "dial"
    /\ ~broken
    /\ conn' = 0
    /\ FailAttempt
    /\ UNCHANGED netVars

(* The read deadline, or an error of the write or the read.                *)
Timeout ==
    /\ hs \in {"hello", "await"}
    /\ ~broken
    /\ FailAttempt
    /\ UNCHANGED <<conn, netVars>>

(* The first datagram that comes in is taken for the answer.               *)
ReadOther(m) ==
    /\ hs = "await"
    /\ ~broken
    /\ m.to = "client" /\ m.port = conn /\ m.kind # "answer"
    /\ Exchange({m}, {})
    /\ FailAttempt
    /\ UNCHANGED conn

ReadAnswer(m) ==
    /\ hs = "await"
    /\ ~broken
    /\ m.to = "client" /\ m.port = conn /\ m.kind = "answer"
    /\ nlayer' = <<tried, m.key[2]>>
    /\ NewDefaultPing
    /\ loops' = loops + 1
    /\ opened' = TRUE
    /\ state' = "connected"
    /\ hs' = "open"
    /\ \E dup \in SUBSET {m} : net' = (net \ {m}) \cup dup
    /\ lost' = (peers[conn] # nlayer')
    /\ attempts' = 0
    /\ rounds' = 0
    /\ silence' = 0
    /\ UNCHANGED <<conn, tried, toPing, reporting, reader, broken, serverVars>>

----------------------------------------------------------------------------
(* What runs beside it: writers, ping loops, reader loops.                 *)

(* A packet from the interface.  Write checks the fields it uses.          *)
Write ==
    /\ opened
    /\ ~broken
    /\ nlayer # None /\ conn # 0
    /\ Send(Packet(conn, "data", nlayer))
    /\ UNCHANGED <<pingVars, clientVars, state, loopVars, reader, broken, serverVars, silence>>

(* PingLoop wakes up.                                                      *)
PingServer ==
    /\ toPing > 0
    /\ ~broken
    /\ toPing' = toPing - 1
    /\ reporting' = reporting + 1
    /\ Start
    /\ IF nlayer # None /\ conn # 0
       THEN Send(Packet(conn, "ping", nlayer)) ELSE UNCHANGED netVars
    /\ UNCHANGED <<clientVars, state, loops, reader, broken, serverVars, silence>>

(* PingLoop looks at Response, at once.                                    *)
Report ==
    /\ reporting > 0
    /\ ~broken
    /\ reporting' = reporting - 1
    /\ state' = IF response THEN "connected" ELSE "connecting"
    /\ UNCHANGED <<pingVars, clientVars, loops, toPing, reader, broken, serverVars,
                   netVars, silence>>

(* A timer goroutine of this session's ping.                               *)
Timer ==
    /\ TimerFires
    /\ ~broken
    /\ UNCHANGED <<clientVars, state, loopVars, reader, broken, serverVars, netVars, silence>>

(* The pool starts a reader loop after every open, and stops none.         *)
StartReader(r) ==
    /\ hs = "open"
    /\ ~broken
    /\ reader[r] = None
    /\ Cardinality({q \in Readers : reader[q] # None}) < loops
    /\ reader' = [reader EXCEPT ![r] = 0]
    /\ UNCHANGED <<pingVars, clientVars, state, loopVars, broken, serverVars, netVars, silence>>

(* Read uses the socket that is in Conn now, and blocks.                   *)
EnterRead(r) ==
    /\ reader[r] = 0
    /\ ~broken
    /\ opened
    /\ conn # 0
    /\ reader' = [reader EXCEPT ![r] = conn]
    /\ UNCHANGED <<pingVars, clientVars, state, loopVars, broken, serverVars, netVars, silence>>

(* The deadline of the handshake, or an error of the network.              *)
ReadFails(r) ==
    /\ reader[r] \in Sockets
    /\ ~broken
    /\ reader' = [reader EXCEPT ![r] = 0]
    /\ UNCHANGED <<pingVars, clientVars, state, loopVars, broken, serverVars, netVars, silence>>

(* Read unwraps with the layer that is in NLayer now; PacketAPI of the     *)
(* pool hands a pong to the ping of the session.                           *)
Read(r, m) ==
    /\ reader[r] \in Sockets
    /\ ~broken
    /\ m.to = "client" /\ m.port = reader[r]
    /\ Exchange({m}, {})
    /\ reader' = [reader EXCEPT ![r] = 0]
    /\ broken' = (nlayer = None)
    /\ IF m.kind = "pong" /\ m.key = nlayer
       THEN Calculate /\ silence' = 0
       ELSE UNCHANGED <<pingVars, silence>>
    /\ UNCHANGED <<clientVars, state, loopVars, serverVars>>

----------------------------------------------------------------------------
(* The server: the UDP pipe with Server.Handshake, PingLoop, crashes.      *)

(* A hello from an unknown address.                                        *)
Register(m) ==
    /\ up
    /\ m.kind = "hello"
    /\ peers[m.port] = None
    /\ serial' = serial + 1
    /\ peers' = [peers EXCEPT ![m.port] = <<m.key[1], serial'>>]
    /\ age' = [age EXCEPT ![m.port] = 0]
    /\ Exchange({m}, {Answer(m.port, serial')})
    /\ UNCHANGED <<pingVars, clientVars, state, loopVars, reader, broken, up, crashes, silence>>

(* No address is left, or something else went wrong; or a packet of a      *)
(* session that the server does not know, which it takes for a bad hello.  *)
Refuse(m) ==
    /\ up
    /\ m.to = "server"
    /\ peers[m.port] = None
    /\ Exchange({m}, {Refused(m.port)})
    /\ UNCHANGED <<pingVars, clientVars, state, loopVars, reader, broken, serverVars, silence>>

MutantHandle(m) ==
    /\ up
    /\ m.to = "server"
    /\ peers[m.port] # None
    /\ Exchange({m}, IF m.kind = "ping" /\ m.key = peers[m.port]
                     THEN {Reply(m.port, "pong", m.key)} ELSE {})
    /\ UNCHANGED <<pingVars, clientVars, state, loopVars, reader, broken, serverVars, silence>>

(* A datagram from a registered address, a repeated hello among them.      *)
Handle(m) ==
    /\ up
    /\ m.to = "server"
    /\ peers[m.port] # None
    /\ IF m.kind # "hello" /\ m.key = peers[m.port]
       THEN /\ age' = [age EXCEPT ![m.port] = 0]
            /\ Exchange({m}, IF m.kind = "ping" THEN {Reply(m.port, "pong", m.key)} ELSE {})
       ELSE UNCHANGED age /\ Exchange({m}, {})
    /\ UNCHANGED <<pingVars, clientVars, state, loopVars, reader, broken, up, peers, serial,
                   crashes, silence>>

(* The pings of the server, and packets for the client.                    *)
ServerSends(p) ==
    /\ up
    /\ peers[p] # None
    /\ Send(Reply(p, "other", peers[p]))
    /\ UNCHANGED <<pingVars, clientVars, state, loopVars, reader, broken, serverVars, silence>>

MutantOld(p) == peers[p] # None /\ age[p] > PeerTimeout

Old(p) == peers[p] # None /\ age[p] >= PeerTimeout

(* PingLoop disconnects a peer and tells it so.                            *)
Evict(p) ==
    /\ up
    /\ Old(p)
    /\ peers' = [peers EXCEPT ![p] = None]
    /\ age' = [age EXCEPT ![p] = 0]
    /\ Send(Reply(p, "other", peers[p]))
    /\ UNCHANGED <<pingVars, clientVars, state, loopVars, reader, broken, up, serial, crashes,
                   silence>>

Crash ==
    /\ up
    /\ crashes < MaxCrashes
    /\ up' = FALSE
    /\ crashes' = crashes + 1
    /\ peers' = [p \in Sockets |-> None]
    /\ age' = [p \in Sockets |-> 0]
    /\ lost' = TRUE
    /\ UNCHANGED <<pingVars, clientVars, state, loopVars, reader, broken, serial, net, silence>>

(* Bound: starting the server takes longer than a hello is under way.      *)
Boot ==
    /\ ~up
    /\ \A m \in net : m.kind # "hello"
    /\ up' = TRUE
    /\ UNCHANGED <<pingVars, clientVars, state, loopVars, reader, broken, peers, age, serial,
                   crashes, netVars, silence>>

----------------------------------------------------------------------------
(* A period passes.  All that was to happen in it has happened, and no     *)
(* datagram is under way for longer.                                       *)
Tick ==
    /\ ~broken
    /\ toPing = 0 /\ reporting = 0
    /\ NextPeriod
    /\ toPing' = IF opened THEN loops ELSE 0
    /\ age' = [p \in Sockets |-> IF peers[p] # None /\ age[p] < PeerTimeout
                                 THEN age[p] + 1 ELSE age[p]]
    /\ net' = {}
    /\ lost' = (lost \/ net # {})
    /\ silence' = IF hs = "open" /\ silence < 3 THEN silence + 1 ELSE silence
    /\ UNCHANGED <<clientVars, state, loops, reporting, reader, broken, up, peers, serial, crashes>>

HandshakeStep ==
    \/ Dial \/ DialFails \/ SendHello \/ Timeout
    \/ \E m \in net : ReadOther(m) \/ ReadAnswer(m)

PingLoopStep == PingServer \/ Report

ReaderLoopStep(r) ==
    \/ StartReader(r) \/ EnterRead(r) \/ ReadFails(r)
    \/ \E m \in net : Read(r, m)

ServerStep ==
    \/ \E m \in net : Register(m) \/ Refuse(m) \/ Handle(m)
    \/ \E p \in Sockets : ServerSends(p) \/ Evict(p)
    \/ Crash \/ Boot

Rest == broken /\ UNCHANGED vars

Next ==
    \/ Open \/ HandshakeStep \/ Write
    \/ PingLoopStep \/ Timer \/ \E r \in Readers : ReaderLoopStep(r)
    \/ ServerStep \/ Tick \/ Rest

Spec == Init /\ [][Next]_vars

(* Goroutines run, time passes; nothing is said of the network.            *)
Fairness ==
    /\ WF_vars(HandshakeStep)
    /\ WF_vars(PingLoopStep \/ Timer \/ Tick)
    /\ WF_vars(\E p \in Sockets : Evict(p))

FairSpec == Spec /\ Fairness

----------------------------------------------------------------------------
(* When the session is open, the server has the same keys for its socket,  *)
(* if it still knows it, whatever was lost, repeated or late, and whatever *)
(* was written to the session while it was opened again.                   *)
KeysAgree ==
    hs = "open" => /\ conn # 0 /\ nlayer # None
                   /\ peers[conn] \in {None, nlayer}

(* The server does not forget an open session unless a datagram was lost:  *)
(* the pings keep it alive.                                                *)
PingsKeepAlive == hs = "open" /\ ~lost => peers[conn] = nlayer

(* Three periods after the last pong the session is no longer called       *)
(* connected.                                                              *)
SilenceIsSeen == hs = "open" /\ silence = 3 /\ toPing = 0 /\ reporting = 0 => state # "connected"

(* Open always comes to an end.                                            *)
OpenEnds == hs \in {"dial", "hello", "await"} ~> hs \in {"open", "failed"} \/ broken

(* The peers that the attempts of the client have left behind on the       *)
(* server, each with an address of its own, are forgotten.                 *)
OrphansForgotten ==
    \A p \in Sockets : peers[p] # None /\ p # conn ~> peers[p] = None \/ p = conn \/ broken

(* What makes KeysAgree inductive.  A hello is sent once, from a socket of  *)
(* its own (Fresh); while it, or a copy of it, is under way no period has   *)
(* passed since, so that the server has not forgotten the peer it has made  *)
(* of it, and a second session for the same socket cannot arise             *)
(* (NoSecondSession); so an answer, or the session made of it, belongs to   *)
(* the only keys the server can have for that socket (OneAnswer).           *)
Hellos(p) == {m \in net : m.kind = "hello" /\ m.port = p}
Answers(p) == {m \in net : m.kind = "answer" /\ m.port = p}
OpenOn(p) == hs = "open" /\ conn = p

Waiting == hs \in {"hello", "await", "open"} => conn = tried /\ tried # 0

Fresh ==
    \A p \in Sockets :
        tried < p \/ (hs = "hello" /\ p = tried) =>
            Hellos(p) = {} /\ Answers(p) = {} /\ peers[p] = None

NoSecondSession ==
    \A p \in Sockets :
        Hellos(p) # {} =>
            IF peers[p] = None THEN up => Answers(p) = {} /\ ~OpenOn(p)
                               ELSE age[p] = 0

OneAnswer ==
    \A p \in Sockets :
        /\ \A m \in Hellos(p) : m.key[1] = p
        /\ \A m \in Answers(p) : peers[p] \in {None, <<p, m.key[2]>>}

KeysInv ==
    /\ Waiting
    /\ ~up => \A p \in Sockets : peers[p] = None
    /\ Fresh
    /\ NoSecondSession
    /\ OneAnswer
    /\ KeysAgree

(* What makes PingsKeepAlive inductive: the peer is fresh, or a ping that   *)
(* will refresh it in this period is under way or about to be sent.         *)
Pings(p) == {m \in net : m.kind = "ping" /\ m.port = p /\ m.key = nlayer}

KeptInv ==
    /\ hs = "open" => opened /\ loops # 0
    /\ \A p \in Sockets : Answers(p) # {} => age[p] = 0 \/ peers[p] = None
    /\ hs = "open" /\ ~lost =>
          /\ peers[conn] = nlayer
          /\ age[conn] = 0 \/ (age[conn] = 1 /\ (toPing # 0 \/ Pings(conn) # {}))

AttemptsLeft == hs \in {"dial", "hello", "await"} => attempts # 0 /\ rounds # 0

(* What makes SilenceIsSeen inductive.  In the first period without a pong  *)
(* every loop pings, so that Calculated is reset and a timer is armed; in   *)
(* the second that timer finds no answer and clears Response; in the third  *)
(* every loop sees it.                                                      *)
SilenceInv ==
    hs = "open" =>
        /\ opened /\ loops # 0
        /\ silence \in 0 .. 3
        /\ silence = 1 => toPing = loops \/ (~calculated /\ armed # 0)
        /\ silence = 2 => ~calculated /\ (due # 0 \/ ~response)
        /\ silence = 3 => ~response /\ (toPing # 0 \/ reporting # 0 \/ state # "connected")
============================================================================
