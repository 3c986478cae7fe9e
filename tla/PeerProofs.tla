----------------------------- MODULE PeerProofs -----------------------------
(***************************************************************************)
(* Proofs about what becomes of a peer: that nothing is left of a TCP      *)
(* connection, that no route is stolen from a client, and that the server  *)
(* keeps the promise of AddressLease.  ServerProofs supplies the types and *)
(* the invariant UdpInv; this module adds an invariant for each of them.   *)
(***************************************************************************)
EXTENDS ServerProofs

USE DEF poolVars, peerVars, localVars, historyVars, vars

----------------------------------------------------------------------------
(* TCP connections.                                                         *)

(* A pipe that has not started, has unregistered its peer or has ended.     *)
Bare == {"idle", "quitfree", "panicfree", "done"}

(* The peer of a connection is registered by its own pipe only, so that it  *)
(* stays unregistered from Remove to the end of the pipe, whatever the UDP  *)
(* pipe and PingLoop do; and a connection is open only while its pipe runs. *)
CleanInv ==
    /\ at["udp"] \in Addrs \cup {None}
    /\ \A c \in Conns :
        /\ at[c] = c
        /\ pc[c] \in Bare => Peers[c] = None
        /\ c \in open => pc[c] \notin {"idle", "done"}

LEMMA ConnNames ==
    /\ \A c \in Conns : c \notin {"udp", "ping", None} /\ c \notin Addrs
    /\ Conns \subseteq Goroutines /\ Conns \subseteq Sources
    /\ "udp" \in Goroutines /\ "ping" \in Goroutines /\ "udp" # "ping"
BY NamesAreDistinct DEF Goroutines, Sources

LEMMA CleanInit == Init => CleanInv
BY ConnNames DEF Init, CleanInv, Sources

(* A step that changes no entry of a connection in Peers, no connection of  *)
(* its pipe, and leads no pipe into Bare.                                   *)
LEMMA StaysClean ==
    ASSUME CleanInv,
           at'["udp"] \in Addrs \cup {None},
           \A c \in Conns :
               /\ at'[c] = at[c]
               /\ Peers'[c] = Peers[c] \/ Peers'[c] = None
               /\ pc'[c] = pc[c] \/ pc'[c] \notin Bare,
           open' \subseteq open
    PROVE  CleanInv'
BY DEF CleanInv, Bare

LEMMA CleanHandshake ==
    ASSUME TypeInv, CleanInv, NEW g \in Callers, HandshakeStep(g)
    PROVE  CleanInv'
<1> USE ConnNames, HandshakersCall DEF TypeInv, TypeOK, OwnTypeOK, Goto
<1>1. CASE HandshakeNext(g)
    BY <1>1, StaysClean DEF HandshakeNext, CleanInv
<1>2. CASE HandshakeRefused(g) \/ HandshakeFailed(g)
    <2>1. /\ UNCHANGED <<Peers, open>>
          /\ pc' = [pc EXCEPT ![g] = IF g \in Conns THEN "quit" ELSE "read"]
          /\ at' = [at EXCEPT ![g] = IF g \in Conns THEN at[g] ELSE None]
        BY <1>2 DEF HandshakeRefused, HandshakeFailed, GiveUp, Forget
    <2>2. at'["udp"] \in Addrs \cup {None} /\ \A c \in Conns : at'[c] = at[c]
        BY <2>1 DEF CleanInv
    <2>3. \A c \in Conns : pc'[c] = pc[c] \/ pc'[c] \notin Bare
        BY <2>1 DEF Bare
    <2>4. QED
        BY <2>1, <2>2, <2>3, StaysClean
<1>3. CASE HandshakeAnswered(g)
    <2>1. \A c \in Conns : pc'[c] = pc[c] \/ pc'[c] \notin Bare
        BY <1>3 DEF HandshakeAnswered, Bare
    <2>2. QED
        BY <1>3, <2>1, StaysClean DEF HandshakeAnswered, CleanInv
<1>4. CASE Register(g)
    <2>1. /\ pc[g] = "register"
          /\ pc' = [pc EXCEPT ![g] = "adopt"]
          /\ Peers' = [Peers EXCEPT ![at[g]] = vip[g]]
          /\ UNCHANGED <<at, open>>
        BY <1>4 DEF Register
    <2>2. \A c \in Conns : c # g => Peers'[c] = Peers[c] /\ pc'[c] = pc[c]
        BY <2>1, CallersAreTheHandshakers DEF CleanInv
    <2>3. \A c \in Conns : c = g => pc'[c] = "adopt"
        BY <2>1
    <2>4. QED
        BY <2>1, <2>2, <2>3 DEF CleanInv, Bare
<1>5. QED
    BY <1>1, <1>2, <1>3, <1>4 DEF HandshakeStep

LEMMA CleanPacket ==
    ASSUME TypeInv, CleanInv, NEW g \in Callers, PacketStep(g)
    PROVE  CleanInv'
<1> USE ConnNames, HandshakersCall DEF TypeInv, TypeOK, OwnTypeOK, Goto
<1>1. UNCHANGED <<Peers, open>>
    BY DEF PacketStep, Forward, AnswerPing, DisconnectRequest
<1>2. pc' = [pc EXCEPT ![g] = "read"] \/ pc' = [pc EXCEPT ![g] = "disconnect"]
    BY DEF PacketStep, Forward, AnswerPing, DisconnectRequest, BackToRead
<1>3. at' = at \/ at' = [at EXCEPT ![g] = IF g \in Conns THEN at[g] ELSE None]
    BY DEF PacketStep, Forward, AnswerPing, DisconnectRequest, BackToRead, Forget
<1>4. at'["udp"] \in Addrs \cup {None} /\ \A c \in Conns : at'[c] = at[c]
    BY <1>3 DEF CleanInv
<1>5. \A c \in Conns : pc'[c] = pc[c] \/ pc'[c] \notin Bare
    BY <1>2 DEF Bare
<1>6. QED
    BY <1>1, <1>4, <1>5, StaysClean

LEMMA CleanDisconnect ==
    ASSUME TypeInv, CleanInv, NEW g \in Goroutines, DisconnectStep(g)
    PROVE  CleanInv'
<1> USE ConnNames DEF TypeInv, TypeOK, OwnTypeOK, Goto
<1>1. CASE Remove(g)
    <2>1. /\ pc[g] \in Stopping
          /\ \E label \in Freeing : pc' = [pc EXCEPT ![g] = label]
          /\ Peers' = [Peers EXCEPT ![at[g]] = None]
          /\ UNCHANGED <<at, open>>
        BY <1>1 DEF Remove, Freeing, Stopping
    <2>2. \A c \in Conns : Peers'[c] = Peers[c] \/ Peers'[c] = None
        BY <2>1
    <2>3. \A c \in Conns : c = g => Peers'[c] = None /\ pc'[c] \notin {"idle", "done"}
        BY <2>1 DEF CleanInv, Freeing
    <2>4. \A c \in Conns : c # g => pc'[c] = pc[c]
        BY <2>1
    <2>5. QED
        BY <2>1, <2>2, <2>3, <2>4 DEF CleanInv
<1>2. CASE Free(g)
    <2>1. /\ pc' = [pc EXCEPT ![g] = IF g = "ping" THEN "evict" ELSE "read"]
          /\ at' = [at EXCEPT ![g] = IF g \in Conns THEN at[g] ELSE None]
          /\ open' = open \ {at[g]}
          /\ UNCHANGED Peers
        BY <1>2 DEF Free, Forget, Unlocked
    <2>2. at'["udp"] \in Addrs \cup {None} /\ \A c \in Conns : at'[c] = at[c]
        BY <2>1 DEF CleanInv
    <2>3. \A c \in Conns : pc'[c] = pc[c] \/ pc'[c] \notin Bare
        BY <2>1 DEF Bare
    <2>4. QED
        BY <2>1, <2>2, <2>3, StaysClean
<1>3. CASE FreeDeferred(g)
    <2>1. /\ pc[g] \in Bare
          /\ pc' = [pc EXCEPT ![g] = IF pc[g] = "panicfree" THEN "quit" ELSE "done"]
          /\ open' = open \ {at[g]}
          /\ UNCHANGED <<Peers, at>>
        BY <1>3 DEF FreeDeferred, Unlocked, Bare
    <2>2. \A c \in Conns : c = g => c \notin open' /\ Peers'[c] = None
        BY <2>1 DEF CleanInv
    <2>3. \A c \in Conns : c # g => pc'[c] = pc[c]
        BY <2>1
    <2>4. QED
        BY <2>1, <2>2, <2>3 DEF CleanInv
<1>4. QED
    BY <1>1, <1>2, <1>3 DEF DisconnectStep

LEMMA CleanStep == TypeInv /\ CleanInv /\ [Next]_vars => CleanInv'
<1> SUFFICES ASSUME TypeInv, CleanInv, [Next]_vars
             PROVE  CleanInv'
    OBVIOUS
<1> USE ConnNames, HandshakersCall DEF TypeInv, TypeOK, OwnTypeOK, Goto
<1>1. ASSUME NEW a \in Addrs, UdpHello(a) \/ \E k \in Requests : UdpPacket(a, k)
      PROVE  CleanInv'
    <2>1. /\ UNCHANGED <<Peers, open>>
          /\ at' = [at EXCEPT !["udp"] = a]
          /\ \E label \in Labels : pc' = [pc EXCEPT !["udp"] = label]
        BY <1>1 DEF UdpHello, UdpPacket, Labels
    <2>2. QED
        BY <2>1, StaysClean
<1>2. ASSUME NEW c \in Conns, Accept(c)
      PROVE  CleanInv'
    BY <1>2 DEF Accept, CleanInv, Bare
<1>3. ASSUME NEW c \in Conns, TcpHello(c) \/ TcpEnd(c) \/ \E k \in Requests : TcpPacket(c, k)
      PROVE  CleanInv'
    <2>1. /\ UNCHANGED <<Peers, open, at>>
          /\ \E label \in {"next", "quit", "panic", "api"} : pc' = [pc EXCEPT ![c] = label]
        BY <1>3 DEF TcpHello, TcpEnd, TcpPacket
    <2>2. \A d \in Conns : pc'[d] = pc[d] \/ pc'[d] \notin Bare
        BY <2>1 DEF Bare
    <2>3. QED
        BY <2>1, <2>2, StaysClean DEF CleanInv
<1>4. ASSUME NEW g \in Callers, HandshakeStep(g) \/ PacketStep(g) \/ DisconnectStep(g)
      PROVE  CleanInv'
    BY <1>4, CleanHandshake, CleanPacket, CleanDisconnect
<1>5. CASE UdpAdopt \/ Touch
    <2>1. /\ UNCHANGED open
          /\ \A c \in Conns : Peers'[c] = Peers[c] /\ pc'[c] = pc[c] /\ at'[c] = at[c]
          /\ at'["udp"] \in Addrs \cup {None}
        BY <1>5 DEF UdpAdopt, Touch, BackToRead, Forget, CleanInv
    <2>2. QED
        BY <2>1, StaysClean
<1>6. ASSUME NEW c \in Conns, TcpAdopt(c) \/ TcpFallThrough(c)
      PROVE  CleanInv'
    <2>1. /\ UNCHANGED <<at, open>>
          /\ \E label \in {"hello", "read", "panic"} : pc' = [pc EXCEPT ![c] = label]
          /\ \A d \in Conns \ {c} : Peers'[d] = Peers[d]
        BY <1>6 DEF TcpAdopt, TcpFallThrough
    <2>2. pc'[c] \notin Bare /\ pc'[c] # "done" /\ pc'[c] # "idle" /\ \A d \in Conns \ {c} : pc'[d] = pc[d]
        BY <2>1 DEF Bare
    <2>3. QED
        BY <2>1, <2>2 DEF CleanInv
<1>7. CASE PingStep
    <2>1. CASE DisconnectStep("ping")
        BY <2>1, CleanDisconnect
    <2>2. CASE Scan \/ (\E a \in Sources : Evict(a)) \/ Sleep \/ Wake
        <3>1. /\ UNCHANGED <<Peers, open>>
              /\ \A c \in Conns : pc'[c] = pc[c] /\ at'[c] = at[c]
              /\ at'["udp"] = at["udp"]
            BY <2>2 DEF Scan, Evict, Sleep, Wake
        <3>2. QED
            BY <3>1, StaysClean DEF CleanInv
    <2>3. QED
        BY <1>7, <2>1, <2>2 DEF PingStep
<1>8. CASE Tick \/ (\E v \in Watched : Expire(v)) \/ Stop \/ MapRace \/ Rest \/ UNCHANGED vars
    <2>1. UNCHANGED <<Peers, pc, at, open>>
        BY <1>8 DEF Tick, Expire, Stop, MapRace, Rest
    <2>2. QED
        BY <2>1 DEF CleanInv
<1>9. ASSUME NEW g \in Goroutines, LoopEnd(g)
      PROVE  CleanInv'
    <2>1. UNCHANGED <<Peers, at, open>> /\ \A c \in Conns : pc'[c] = pc[c]
        BY <1>9 DEF LoopEnd
    <2>2. QED
        BY <2>1 DEF CleanInv
<1>10. QED
    BY <1>1, <1>2, <1>3, <1>4, <1>5, <1>6, <1>7, <1>8, <1>9
       DEF Next, Arrival, UdpStep, TcpStep

(* However the pipe of a TCP connection ends, by an error, a goodbye, an    *)
(* eviction or a panic, the connection is closed and its peer is gone from  *)
(* the table, for every number of connections and clients.                  *)
THEOREM NothingLeftOfConnections == Spec => []TcpCleanedUp
<1>1. CleanInv => TcpCleanedUp
    BY DEF CleanInv, TcpCleanedUp, Bare
<1>2. QED
    BY <1>1, CleanInit, CleanStep, TypeInit, TypeStep, PTL DEF Spec

----------------------------------------------------------------------------
(* Routes.  The clients use datagrams, and no peer is disconnected twice.   *)

(* The peer the UDP pipe has looked up and whose packet it is handling: it  *)
(* may be evicted meanwhile, but its virtual address cannot be registered   *)
(* for another, because the pipe itself serves the handshakes.              *)
RouteInv ==
    pc["udp"] \in {"touch", "api"} =>
        /\ at["udp"] \in Sources
        /\ vip["udp"] # None
        /\ \A a \in Sources : Peers[a] = vip["udp"] => a = at["udp"]

LEMMA RouteStep ==
    ASSUME DatagramsOnly
    PROVE  TypeInv /\ UdpInv /\ RouteInv /\ [Next]_vars => RouteInv'
<1> SUFFICES ASSUME TypeInv, UdpInv, RouteInv, [Next]_vars
             PROVE  RouteInv'
    OBVIOUS
<1> USE DatagramNames DEF TypeInv, TypeOK, OwnTypeOK, Goto
<1>1. ASSUME NEW a \in Addrs, UdpHello(a)
      PROVE  RouteInv'
    BY <1>1 DEF UdpHello, RouteInv
<1>2. ASSUME NEW a \in Addrs, NEW k \in Requests, UdpPacket(a, k)
      PROVE  RouteInv'
    <2>1. at'["udp"] = a /\ vip'["udp"] = Peers[a] /\ Peers[a] # None /\ Peers' = Peers
        BY <1>2 DEF UdpPacket
    <2>2. QED
        BY <2>1 DEF RouteInv, UdpInv, OnePlaceEach, Sources
<1>3. ASSUME HandshakeStep("udp") \/ UdpAdopt \/ PacketStep("udp") \/ DisconnectStep("udp")
      PROVE  pc'["udp"] \notin {"touch", "api"}
    BY <1>3
       DEF HandshakeStep, HandshakeNext, HandshakeRefused, HandshakeFailed, HandshakeAnswered,
           Register, GiveUp, UdpAdopt, BackToRead, PacketStep, Forward, AnswerPing,
           DisconnectRequest, DisconnectStep, Remove, Free, FreeDeferred, Stopping
<1>4. CASE Touch
    BY <1>4 DEF Touch, RouteInv
<1>5. CASE PingStep
    <2>1. /\ pc'["udp"] = pc["udp"] /\ at'["udp"] = at["udp"] /\ vip'["udp"] = vip["udp"]
          /\ \A a \in Sources : Peers'[a] = Peers[a] \/ Peers'[a] = None
        BY <1>5 DEF PingStep, Scan, Evict, Sleep, Wake, DisconnectStep, Remove, Free, Forget,
                    FreeDeferred, Unlocked
    <2>2. QED
        BY <2>1 DEF RouteInv
<1>6. CASE Tick \/ (\E v \in Watched : Expire(v)) \/ Stop \/ MapRace \/ Rest \/ UNCHANGED vars
    <2>1. UNCHANGED <<Peers, pc, at, vip>>
        BY <1>6 DEF Tick, Expire, Stop, MapRace, Rest
    <2>2. QED
        BY <2>1 DEF RouteInv
<1>7. ASSUME NEW g \in Goroutines, LoopEnd(g)
      PROVE  RouteInv'
    BY <1>7 DEF LoopEnd, RouteInv
<1>8. QED
    BY <1>1, <1>2, <1>3, <1>4, <1>5, <1>6, <1>7 DEF Next, Arrival, UdpStep, RouteInv

(* With clients that use datagrams, the route of a virtual address is never *)
(* led to a client while another one holds that address, unless a peer is   *)
(* disconnected twice.                                                      *)
THEOREM RoutesWithGoodbyes ==
    ASSUME DatagramsOnly PROVE Spec /\ []~repeated => RouteNotStolen
<1>1. ASSUME TypeInv, UdpInv, RouteInv, [Next]_vars, NEW v \in Watched,
             Cache'[v] # Cache[v], Cache'[v] # None
      PROVE  \A a \in Sources : Peers[a] = v => a = Cache'[v]
    <2>1. Forward("udp")
        <3>1. ~(\E w \in Watched : Expire(w))
            BY <1>1 DEF Expire, TypeInv, TypeOK, OwnTypeOK
        <3>2. ~DisconnectStep("udp") /\ ~DisconnectStep("ping")
            BY <1>1 DEF DisconnectStep, Remove, Free, FreeDeferred, Unlocked
        <3>3. ~Arrival
            BY <1>1, DatagramNames DEF Arrival, UdpHello, UdpPacket
        <3>4. ~HandshakeStep("udp") /\ ~UdpAdopt /\ ~Touch
            BY <1>1 DEF HandshakeStep, HandshakeNext, HandshakeRefused, HandshakeFailed,
                        HandshakeAnswered, Register, UdpAdopt, Touch
        <3>5. ~PingStep
            BY <1>1, <3>2 DEF PingStep, Scan, Evict, Sleep, Wake
        <3>6. ~AnswerPing("udp") /\ ~DisconnectRequest("udp")
            BY <1>1 DEF AnswerPing, DisconnectRequest
        <3>7. ~(Tick \/ Stop \/ (\E g \in Goroutines : LoopEnd(g)) \/ MapRace \/ Rest \/ UNCHANGED vars)
            BY <1>1 DEF Tick, Stop, LoopEnd, MapRace, Rest
        <3>8. QED
            BY <1>1, <3>1, <3>2, <3>3, <3>4, <3>5, <3>6, <3>7, DatagramNames
               DEF Next, UdpStep, PacketStep
    <2>2. v = vip["udp"] /\ Cache'[v] = at["udp"] /\ pc["udp"] = "api"
        BY <1>1, <2>1 DEF Forward
    <2>3. QED
        BY <1>1, <2>2 DEF RouteInv
<1>2. TypeInv /\ UdpInv /\ RouteInv /\ [Next]_vars =>
          [\A v \in Watched :
              Cache'[v] # Cache[v] /\ Cache'[v] # None =>
                  \A a \in Sources : Peers[a] = v => a = Cache'[v]]_vars
    BY <1>1
<1>3. Init => RouteInv
    BY DEF Init, RouteInv, Goroutines
<1>4. QED
    BY <1>2, <1>3, RouteStep, UdpInvariant, TypeInit, TypeStep, PTL DEF Spec, RouteNotStolen

(* With the shipped clients, no route is stolen at all.                     *)
THEOREM NoRouteStolen == ASSUME UdpOnly PROVE Spec => RouteNotStolen
<1>1. DatagramsOnly
    BY DEF UdpOnly
<1>2. QED
    BY <1>1, RoutesWithGoodbyes, NeverRepeated, PTL

----------------------------------------------------------------------------
(* The promise of AddressLease.  The clients use datagrams, and no peer is  *)
(* disconnected twice.                                                      *)

(* Under UdpInv each virtual address is in one place, and the place tells   *)
(* the state of its lease.                                                  *)
ClosedByUdp == IF pc["udp"] = "free" THEN vip["udp"] ELSE None

PlaceOf(v) ==
    IF v \in lost THEN "lost"
    ELSE IF \E a \in Sources : Peers[a] = v THEN "held"
    ELSE IF v \in {HeldByPing, ClosedByUdp} THEN "closing"
    ELSE IF v = HeldByUdp THEN "offered" ELSE "free"

LeaseShape ==
    /\ leaseOf = [v \in Lease |-> PlaceOf(v)]
    /\ DOMAIN holderOf = Lease
    /\ holderOf = [v \in Lease |-> holderOf[v]]
    /\ \A v \in Lease, a \in Sources : Peers[a] = v => holderOf[v] = a
    /\ \A v \in Lease : (\A a \in Sources : Peers[a] # v) => holderOf[v] = None

LEMMA ShapeOfLease == ASSUME DatagramsOnly PROVE TypeInv /\ UdpInv => LeaseShape
<1> SUFFICES ASSUME TypeInv, UdpInv
             PROVE  LeaseShape
    OBVIOUS
<1>1. None \notin Lease
    BY NoneAssumption DEF Lease
<1>2. ASSUME NEW v \in Lease
      PROVE  v \in Leased <=> \E a \in Sources : Peers[a] = v
    BY <1>1 DEF Leased, Registered
<1>3. ASSUME NEW v \in Lease
      PROVE  (\E g \in Goroutines : pc[g] \in Freeing /\ vip[g] = v)
                 <=> v \in {HeldByPing, ClosedByUdp}
    <2>1. /\ pc["udp"] \in Freeing <=> pc["udp"] = "free"
          /\ pc["ping"] \in Freeing <=> pc["ping"] = "free"
        BY DEF UdpInv, UdpControl, Freeing
    <2>2. QED
        BY <1>1, <2>1, DatagramNames DEF HeldByPing, ClosedByUdp
<1>4. ASSUME NEW v \in Lease, v \notin lost, v # HeldByPing, ~\E a \in Sources : Peers[a] = v
      PROVE  v \in Used <=> v = HeldByUdp
    BY <1>4 DEF UdpInv, UsedAreHeld
<1>5. ASSUME NEW v \in Lease
      PROVE  leaseOf[v] = PlaceOf(v)
    BY <1>2, <1>3, <1>4 DEF leaseOf, PlaceOf
<1>6. leaseOf = [v \in Lease |-> PlaceOf(v)]
    BY <1>5 DEF leaseOf
<1>7. ASSUME NEW v \in Lease, NEW a \in Sources, Peers[a] = v
      PROVE  holderOf[v] = a
    <2>1. v \in Leased /\ a \in Registered
        BY <1>1, <1>7 DEF Leased, Registered
    <2>2. \A b \in Registered : Peers[b] = v => b = a
        BY <1>1, <1>7 DEF Registered, UdpInv, OnePlaceEach
    <2>3. holderOf[v] = CHOOSE b \in Registered : Peers[b] = v
        BY <2>1 DEF holderOf
    <2>4. QED
        BY <1>7, <2>1, <2>2, <2>3
<1>8. ASSUME NEW v \in Lease, \A a \in Sources : Peers[a] # v
      PROVE  holderOf[v] = None
    BY <1>2, <1>8 DEF holderOf
<1>9. DOMAIN holderOf = Lease /\ holderOf = [v \in Lease |-> holderOf[v]]
    BY DEF holderOf
<1>10. QED
    BY <1>6, <1>7, <1>8, <1>9 DEF LeaseShape

LEMMA ShapeOfLeaseNext == ASSUME DatagramsOnly PROVE TypeInv' /\ UdpInv' => LeaseShape'
BY ShapeOfLease, PTL

(* A step that moves no address from one place to another changes no lease. *)
LEMMA NoLeaseMoves ==
    ASSUME LeaseShape, LeaseShape', UNCHANGED <<Peers, lost, HeldByUdp, HeldByPing, ClosedByUdp>>
    PROVE  UNCHANGED Promise!leaseVars
<1>1. \A v \in Lease : PlaceOf(v)' = PlaceOf(v)
    BY DEF PlaceOf
<1>2. leaseOf' = leaseOf
    BY <1>1 DEF LeaseShape
<1>3. \A v \in Lease : holderOf'[v] = holderOf[v]
    BY DEF LeaseShape
<1>4. holderOf' = holderOf
    BY <1>3 DEF LeaseShape
<1>5. QED
    BY <1>2, <1>4 DEF Promise!leaseVars

(* A step that moves the address v only.                                    *)
LEMMA OneLeaseMoves ==
    ASSUME LeaseShape, LeaseShape', NEW v \in Lease,
           \A w \in Lease \ {v} : PlaceOf(w)' = PlaceOf(w)
    PROVE  /\ leaseOf[v] = PlaceOf(v)
           /\ leaseOf' = [leaseOf EXCEPT ![v] = PlaceOf(v)']
           /\ PlaceOf(v)' # PlaceOf(v) => leaseOf'[v] # leaseOf[v]
BY DEF LeaseShape

LEMMA SameHolders ==
    ASSUME LeaseShape, LeaseShape', Peers' = Peers
    PROVE  holderOf' = holderOf
<1>1. \A v \in Lease : holderOf'[v] = holderOf[v]
    BY DEF LeaseShape
<1>2. QED
    BY <1>1 DEF LeaseShape

(* The five steps that move an address; every other step moves none.        *)
LEMMA MovingSteps ==
    ASSUME DatagramsOnly, TypeInv, UdpInv, [Next]_vars
    PROVE  \/ HandshakeNext("udp") /\ Insert("udp")
           \/ HandshakeFailed("udp")
           \/ Register("udp")
           \/ \E g \in Goroutines : Remove(g) \/ Free(g)
           \/ UNCHANGED <<Peers, lost, HeldByUdp, HeldByPing, ClosedByUdp>>
<1> USE DatagramNames DEF UdpInv, TypeInv, TypeOK, OwnTypeOK, PoolTypeOK, Goto
<1> DEFINE Still == UNCHANGED <<Peers, lost, HeldByUdp, HeldByPing, ClosedByUdp>>
<1>1. CASE Arrival
    <2>1. ASSUME NEW a \in Addrs, UdpHello(a)
          PROVE  Still
        BY <2>1 DEF UdpHello, Call, HeldByUdp, HeldByPing, ClosedByUdp
    <2>2. ASSUME NEW a \in Addrs, NEW k \in Requests, UdpPacket(a, k)
          PROVE  Still
        BY <2>2 DEF UdpPacket, UdpControl, HeldByUdp, HeldByPing, ClosedByUdp
    <2>3. QED
        BY <1>1, <2>1, <2>2 DEF Arrival
<1>2. ASSUME HandshakeNext("udp"), ~Insert("udp")
      PROVE  Still
    BY <1>2 DEF HandshakeNext, NextStep, CheckLength, LookUp, LoadCurrent, StoreCurrent,
                UdpControl, HeldByUdp, HeldByPing, ClosedByUdp
<1>3. CASE HandshakeRefused("udp")
    BY <1>3 DEF HandshakeRefused, Return, GiveUp, Forget, HeldByUdp, HeldByPing, ClosedByUdp
<1>4. CASE HandshakeAnswered("udp")
    BY <1>4 DEF HandshakeAnswered, Return, HeldByUdp, HeldByPing, ClosedByUdp
<1>5. CASE UdpAdopt
    <2>1. Peers' = Peers
        BY <1>5, NoneAssumption DEF UdpAdopt, UdpControl, ListedStillRegistered, Lease
    <2>2. QED
        BY <1>5, <2>1 DEF UdpAdopt, BackToRead, Forget, UdpControl, HeldByUdp, HeldByPing, ClosedByUdp
<1>6. CASE Touch \/ PacketStep("udp")
    BY <1>6
       DEF Touch, PacketStep, Forward, AnswerPing, DisconnectRequest, BackToRead, Forget,
           UdpControl, HeldByUdp, HeldByPing, ClosedByUdp
<1>7. ~FreeDeferred("udp") /\ ~FreeDeferred("ping")
    BY DEF UdpControl, FreeDeferred
<1>8. CASE Scan \/ (\E a \in Sources : Evict(a)) \/ Sleep \/ Wake
    BY <1>8 DEF Scan, Evict, Sleep, Wake, HeldByUdp, HeldByPing, ClosedByUdp
<1>9. CASE Tick \/ (\E v \in Watched : Expire(v)) \/ Stop \/ MapRace \/ Rest \/ UNCHANGED vars
    <2>1. UNCHANGED <<Peers, lost, stage, ip, vip, pc>>
        BY <1>9 DEF Tick, Expire, Stop, MapRace, Rest
    <2>2. QED
        BY <2>1 DEF HeldByUdp, HeldByPing, ClosedByUdp
<1>10. ASSUME NEW g \in Goroutines, LoopEnd(g)
       PROVE  Still
    BY <1>10 DEF LoopEnd, HeldByUdp, HeldByPing, ClosedByUdp
<1>11. QED
    BY <1>1, <1>2, <1>3, <1>4, <1>5, <1>6, <1>7, <1>8, <1>9, <1>10
       DEF Next, UdpStep, HandshakeStep, PingStep, DisconnectStep

(* Next puts a free address in Used: it is offered.                         *)
LEMMA InsertOffers ==
    ASSUME DatagramsOnly, TypeInv, UdpInv, LeaseShape, LeaseShape',
           HandshakeNext("udp"), Insert("udp")
    PROVE  Promise!LeaseNext
<1> USE DatagramNames, HandshakersCall DEF UdpInv, TypeInv, TypeOK, OwnTypeOK, PoolTypeOK
<1>0. ip["udp"] \in Lease
    BY DEF Insert, PoolTypeInv, Progress
<1> PICK v \in Lease : v = ip["udp"]
    BY <1>0
<1>1. /\ v \notin Used /\ None \notin Lease
      /\ HeldByUdp = None /\ HeldByUdp' = v /\ HeldByPing' = HeldByPing
      /\ ClosedByUdp = None /\ ClosedByUdp' = None
      /\ UNCHANGED <<Peers, lost>>
    BY NoneAssumption
       DEF HandshakeNext, Insert, HeldByUdp, HeldByPing, ClosedByUdp, UdpControl, PoolTypeInv, Progress, Lease
<1>2. \A w \in Lease \ {v} : PlaceOf(w)' = PlaceOf(w)
    BY <1>1 DEF PlaceOf
<1>3. v \notin lost /\ v # HeldByPing /\ \A a \in Sources : Peers[a] # v
    BY <1>1 DEF UsedAreHeld
<1>4. PlaceOf(v) = "free" /\ PlaceOf(v)' = "offered"
    BY <1>1, <1>3 DEF PlaceOf
<1>5. Promise!Offer(v) /\ leaseOf'[v] # leaseOf[v]
    BY <1>1, <1>2, <1>4, OneLeaseMoves, SameHolders DEF Promise!Offer, Promise!Move
<1>6. QED
    BY <1>1, <1>5 DEF Promise!LeaseNext

(* A handshake that fails after Next loses the address.                     *)
LEMMA FailureLoses ==
    ASSUME DatagramsOnly, TypeInv, UdpInv, LeaseShape, LeaseShape', HandshakeFailed("udp")
    PROVE  Promise!LeaseNext
<1> USE DatagramNames, HandshakersCall DEF UdpInv, TypeInv, TypeOK, OwnTypeOK, PoolTypeOK, Goto
<1>0. ip["udp"] \in Lease
    BY DEF HandshakeFailed, PoolTypeInv, Progress
<1> PICK v \in Lease : v = ip["udp"]
    BY <1>0
<1>1. /\ None \notin Lease
      /\ HeldByUdp = v /\ HeldByUdp' = None /\ HeldByPing' = HeldByPing
      /\ ClosedByUdp = None /\ ClosedByUdp' = None
      /\ lost' = lost \cup {v} /\ Peers' = Peers
    BY NoneAssumption
       DEF HandshakeFailed, Return, GiveUp, Forget, HeldByUdp, HeldByPing, ClosedByUdp,
           PoolTypeInv, Progress, Lease
<1>2. \A w \in Lease \ {v} : PlaceOf(w)' = PlaceOf(w)
    BY <1>1 DEF PlaceOf
<1>3. PlaceOf(v) = "offered" /\ PlaceOf(v)' = "lost"
    BY <1>1 DEF PlaceOf, OnePlaceEach
<1>4. Promise!Lose(v) /\ leaseOf'[v] # leaseOf[v]
    BY <1>1, <1>2, <1>3, OneLeaseMoves, SameHolders DEF Promise!Lose, Promise!Move
<1>5. QED
    BY <1>1, <1>4 DEF Promise!LeaseNext

(* Who is registered with one address only holds that one.                  *)
LEMMA HolderIsRegistered ==
    ASSUME TypeInv, LeaseShape, NEW v \in Lease, NEW a \in Sources, holderOf[v] = a
    PROVE  Peers[a] = v
BY NamesAreDistinct DEF LeaseShape, Sources

(* Storing the peer in the table grants it the address.                     *)
LEMMA RegisterGrants ==
    ASSUME DatagramsOnly, TypeInv, UdpInv, LeaseShape, LeaseShape', Register("udp")
    PROVE  Promise!LeaseNext
<1> USE DatagramNames, HandshakersCall DEF UdpInv, TypeInv, TypeOK, OwnTypeOK, PoolTypeOK, Goto
<1>0. vip["udp"] \in Lease /\ at["udp"] \in Sources
    BY DEF Register, UdpControl
<1> PICK v \in Lease, c \in Sources : v = vip["udp"] /\ c = at["udp"]
    BY <1>0
<1>1. /\ None \notin Lease
      /\ Peers[c] = None /\ Peers' = [Peers EXCEPT ![c] = v]
      /\ HeldByUdp = v /\ HeldByUdp' = None /\ HeldByPing' = HeldByPing
      /\ ClosedByUdp = None /\ ClosedByUdp' = None
      /\ UNCHANGED lost
    BY NoneAssumption DEF Register, UdpControl, HeldByUdp, HeldByPing, ClosedByUdp, Lease
<1>2. \A w \in Lease \ {v} : PlaceOf(w)' = PlaceOf(w)
    BY <1>1 DEF PlaceOf
<1>3. v \notin lost /\ v # HeldByPing /\ \A a \in Sources : Peers[a] # v
    BY <1>1 DEF OnePlaceEach
<1>4. PlaceOf(v) = "offered" /\ PlaceOf(v)' = "held"
    BY <1>1, <1>3 DEF PlaceOf
<1>5. \A w \in Lease : holderOf[w] # c
    BY <1>1, HolderIsRegistered
<1>6. holderOf' = [holderOf EXCEPT ![v] = c]
    <2>1. holderOf'[v] = c
        BY <1>1 DEF LeaseShape
    <2>2. \A w \in Lease \ {v} : holderOf'[w] = holderOf[w]
        <3>1. TAKE w \in Lease \ {v}
        <3>2. \A a \in Sources : Peers'[a] = w <=> Peers[a] = w
            BY <1>1
        <3>3. CASE \E a \in Sources : Peers[a] = w
            BY <3>2, <3>3 DEF LeaseShape
        <3>4. CASE \A a \in Sources : Peers[a] # w
            BY <3>2, <3>4 DEF LeaseShape
        <3>5. QED
            BY <3>3, <3>4
    <2>3. QED
        BY <2>1, <2>2 DEF LeaseShape
<1>7. Promise!Grant(v, c) /\ leaseOf'[v] # leaseOf[v]
    BY <1>1, <1>2, <1>4, <1>5, <1>6, OneLeaseMoves DEF Promise!Grant, Promise!Move
<1>8. QED
    BY <1>1, <1>7 DEF Promise!LeaseNext

(* DisconnectPeer takes the peer out of the table: the lease is revoked.    *)
LEMMA RemoveRevokes ==
    ASSUME DatagramsOnly, TypeInv, UdpInv, LeaseShape, LeaseShape', ~repeated',
           NEW g \in Goroutines, Remove(g)
    PROVE  Promise!LeaseNext
<1> USE DatagramNames, NamesAreDistinct
    DEF UdpInv, TypeInv, TypeOK, OwnTypeOK, PoolTypeOK, Goto
<1>1. pc[g] = "disconnect" /\ pc' = [pc EXCEPT ![g] = "free"]
    BY DEF Remove, UdpControl, Stopping
<1>2. at[g] \in Sources /\ vip[g] \in Lease /\ Peers[at[g]] = vip[g]
    BY <1>1 DEF ListedStillRegistered, FoundStillRegistered
<1> PICK v \in Lease, c \in Sources : v = vip[g] /\ c = at[g]
    BY <1>2
<1>3. /\ None \notin Lease
      /\ Peers[c] = v /\ Peers' = [Peers EXCEPT ![c] = None]
      /\ UNCHANGED <<lost, stage, ip, vip>>
    BY <1>2, NoneAssumption DEF Remove, Lease
<1>4. \/ /\ HeldByUdp = None /\ HeldByUdp' = v
         /\ ClosedByUdp = None /\ ClosedByUdp' = v
         /\ HeldByPing' = HeldByPing
      \/ /\ HeldByPing = None /\ HeldByPing' = v
         /\ UNCHANGED <<HeldByUdp, ClosedByUdp>>
    <2>1. CASE g = "udp"
        BY <1>1, <1>3, <2>1 DEF HeldByUdp, HeldByPing, ClosedByUdp, UdpControl
    <2>2. CASE g = "ping"
        BY <1>1, <1>3, <2>2 DEF HeldByUdp, HeldByPing, ClosedByUdp
    <2>3. QED
        BY <2>1, <2>2
<1>5. v \in {HeldByPing', ClosedByUdp'}
    BY <1>4
<1>6. \A w \in Lease \ {v} : PlaceOf(w)' = PlaceOf(w)
    BY <1>3, <1>4 DEF PlaceOf
<1>7. v \notin lost /\ \A a \in Sources : Peers'[a] # v
    BY <1>3 DEF OnePlaceEach
<1>8. PlaceOf(v) = "held" /\ PlaceOf(v)' = "closing"
    BY <1>3, <1>5, <1>7 DEF PlaceOf
<1>9. holderOf' = [holderOf EXCEPT ![v] = None]
    <2>1. holderOf'[v] = None
        BY <1>7 DEF LeaseShape
    <2>2. \A w \in Lease \ {v} : holderOf'[w] = holderOf[w]
        <3>1. TAKE w \in Lease \ {v}
        <3>2. \A a \in Sources : Peers'[a] = w <=> Peers[a] = w
            BY <1>3
        <3>3. CASE \E a \in Sources : Peers[a] = w
            BY <3>2, <3>3 DEF LeaseShape
        <3>4. CASE \A a \in Sources : Peers[a] # w
            BY <3>2, <3>4 DEF LeaseShape
        <3>5. QED
            BY <3>3, <3>4
    <2>3. QED
        BY <2>1, <2>2 DEF LeaseShape
<1>10. Promise!Revoke(v) /\ leaseOf'[v] # leaseOf[v]
    BY <1>6, <1>8, <1>9, OneLeaseMoves DEF Promise!Revoke, Promise!Move
<1>11. QED
    BY <1>10 DEF Promise!LeaseNext

(* DisconnectPeer deletes the address from Used: it is free again.          *)
LEMMA FreeGivesBack ==
    ASSUME DatagramsOnly, TypeInv, UdpInv, LeaseShape, LeaseShape',
           NEW g \in Goroutines, Free(g)
    PROVE  Promise!LeaseNext
<1> USE DatagramNames, NamesAreDistinct
    DEF UdpInv, TypeInv, TypeOK, OwnTypeOK, PoolTypeOK, Goto
<1>1. /\ pc[g] = "free" /\ mu = g
      /\ pc' = [pc EXCEPT ![g] = IF g = "ping" THEN "evict" ELSE "read"]
      /\ vip' = [vip EXCEPT ![g] = None]
      /\ UNCHANGED <<Peers, lost, stage, ip>>
    BY DEF Free, Forget, Unlocked, Release
<1> PICK v \in Lease : v = vip[g]
    BY <1>1 DEF ListedStillRegistered, FoundStillRegistered
<1>2. None \notin Lease
    BY NoneAssumption DEF Lease
<1>3. \/ /\ HeldByUdp = v /\ HeldByUdp' = None
         /\ ClosedByUdp = v /\ ClosedByUdp' = None
         /\ HeldByPing' = HeldByPing
      \/ /\ HeldByPing = v /\ HeldByPing' = None
         /\ UNCHANGED <<HeldByUdp, ClosedByUdp>>
    <2>1. CASE g = "udp"
        BY <1>1, <2>1 DEF HeldByUdp, HeldByPing, ClosedByUdp, UdpControl
    <2>2. CASE g = "ping"
        BY <1>1, <2>2 DEF HeldByUdp, HeldByPing, ClosedByUdp
    <2>3. QED
        BY <2>1, <2>2
<1>4. v \in {HeldByPing, ClosedByUdp} /\ v \in {HeldByUdp, HeldByPing}
    BY <1>3
<1>5. v \notin {HeldByPing', ClosedByUdp', HeldByUdp'}
    <2>1. ClosedByUdp \in {None, HeldByUdp}
        BY DEF ClosedByUdp, HeldByUdp, UdpControl
    <2>2. QED
        BY <1>2, <1>3, <2>1 DEF OnePlaceEach
<1>6. \A w \in Lease \ {v} : PlaceOf(w)' = PlaceOf(w)
    BY <1>1, <1>2, <1>3 DEF PlaceOf
<1>7. v \notin lost /\ \A a \in Sources : Peers[a] # v
    BY <1>2, <1>4 DEF OnePlaceEach
<1>8. PlaceOf(v) = "closing" /\ PlaceOf(v)' = "free"
    BY <1>1, <1>4, <1>5, <1>7 DEF PlaceOf
<1>9. Promise!GiveBack(v) /\ leaseOf'[v] # leaseOf[v]
    BY <1>1, <1>6, <1>8, OneLeaseMoves, SameHolders DEF Promise!GiveBack, Promise!Move
<1>10. QED
    BY <1>9 DEF Promise!LeaseNext

(* With clients that use datagrams and say goodbye, every behaviour of the  *)
(* server in which no peer is disconnected twice, its goroutines            *)
(* interleaved as they may be, is a behaviour of AddressLease: an address   *)
(* goes to a second client only after it was revoked from the first.        *)
THEOREM PromiseWithGoodbyes ==
    ASSUME DatagramsOnly PROVE Spec /\ []~repeated => KeepsPromise
<1>1. Init => Promise!LeaseInit
    <2> SUFFICES ASSUME Init
                 PROVE  Promise!LeaseInit
        OBVIOUS
    <2>1. Leased = {} /\ lost = {} /\ \A g \in Goroutines : pc[g] \notin Freeing
        BY DEF Init, Leased, Registered, Freeing
    <2>2. \A v \in Lease : v \notin Used
        BY AliasNotHost DEF Init, PoolInit, NewNetwork, Lease
    <2>3. QED
        BY <2>1, <2>2 DEF Promise!LeaseInit, leaseOf, holderOf
<1>2. TypeInv /\ TypeInv' /\ UdpInv /\ UdpInv' /\ ~repeated' /\ [Next]_vars =>
          [Promise!LeaseNext]_(Promise!leaseVars)
    <2> SUFFICES ASSUME TypeInv, TypeInv', UdpInv, UdpInv', ~repeated', [Next]_vars
                 PROVE  [Promise!LeaseNext]_(Promise!leaseVars)
        OBVIOUS
    <2>1. LeaseShape /\ LeaseShape'
        BY ShapeOfLease, ShapeOfLeaseNext
    <2>2. QED
        BY <2>1, MovingSteps, InsertOffers, FailureLoses, RegisterGrants, RemoveRevokes,
           FreeGivesBack, NoLeaseMoves
<1>3. QED
    BY <1>1, <1>2, TypeInit, TypeStep, UdpInvariant, PTL
       DEF Spec, KeepsPromise, Promise!LeaseSpec

(* With the shipped clients, the server implements AddressLease.            *)
THEOREM PromiseKept == ASSUME UdpOnly PROVE Spec => KeepsPromise
<1>1. DatagramsOnly
    BY DEF UdpOnly
<1>2. QED
    BY <1>1, PromiseWithGoodbyes, NeverRepeated, PTL
============================================================================
