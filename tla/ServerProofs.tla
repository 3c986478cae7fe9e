---------------------------- MODULE ServerProofs ----------------------------
(***************************************************************************)
(* Proofs about the server: its types, its use of the pool, and, for the   *)
(* clients that are shipped, the exclusive lease of every address.  They   *)
(* hold for every network, every number of clients and connections, and    *)
(* every PeerTimeout.                                                      *)
(***************************************************************************)
EXTENDS Server, NetworkProofs

USE DEF poolVars, peerVars, localVars, historyVars, vars

(* Every goroutine that calls Next is one of Callers.                       *)
LEMMA HandshakersCall ==
    /\ "udp" \in Callers
    /\ Conns \subseteq Callers
    /\ Callers \subseteq Goroutines
BY CallersAreTheHandshakers DEF Goroutines

(* What a step of the server does to the pool is a step of the pool.  The   *)
(* address that DisconnectPeer frees is never the network address, because  *)
(* no peer ever gets it.                                                    *)
LEMMA StepUsesPool ==
    ASSUME TypeOK, [Next]_vars
    PROVE  [PoolNext]_poolVars
<1> USE HandshakersCall
<1>1. ASSUME NEW c \in Callers, Call(c) \/ NextStep(c) \/ Return(c)
      PROVE  PoolNext
    BY <1>1 DEF PoolNext
<1>2. ASSUME NEW g \in Goroutines, Unlocked(g)
      PROVE  PoolNext
    <2>1. vip[g] \in Lease \cup {None}
        BY DEF TypeOK, OwnTypeOK, MaybeLease
    <2>2. QED
        BY <1>2, <2>1 DEF PoolNext, Unlocked
<1>3. ASSUME Arrival
      PROVE  [PoolNext]_poolVars
    BY <1>1, <1>3 DEF Arrival, UdpHello, UdpPacket, Accept, TcpHello, TcpEnd, TcpPacket
<1>4. ASSUME NEW g \in Callers, HandshakeStep(g)
      PROVE  [PoolNext]_poolVars
    BY <1>1, <1>4 DEF HandshakeStep, HandshakeNext, HandshakeRefused, HandshakeFailed,
                      HandshakeAnswered, Register
<1>5. ASSUME NEW g \in Goroutines, PacketStep(g)
      PROVE  [PoolNext]_poolVars
    BY <1>5 DEF PacketStep, Forward, AnswerPing, DisconnectRequest
<1>6. ASSUME NEW g \in Goroutines, DisconnectStep(g)
      PROVE  [PoolNext]_poolVars
    BY <1>2, <1>6 DEF DisconnectStep, Remove, Free, FreeDeferred
<1>7. ASSUME UdpStep
      PROVE  [PoolNext]_poolVars
    BY <1>4, <1>5, <1>6, <1>7 DEF UdpStep, UdpAdopt, Touch, Goroutines
<1>8. ASSUME NEW c \in Conns, TcpStep(c)
      PROVE  [PoolNext]_poolVars
    BY <1>4, <1>5, <1>6, <1>8 DEF TcpStep, TcpAdopt, TcpFallThrough, Goroutines
<1>9. ASSUME PingStep
      PROVE  [PoolNext]_poolVars
    BY <1>6, <1>9 DEF PingStep, Scan, Evict, Sleep, Wake, Goroutines
<1>10. ASSUME Tick \/ (\E v \in Watched : Expire(v)) \/ Stop \/ (\E g \in Goroutines : LoopEnd(g))
       PROVE  UNCHANGED poolVars
    BY <1>10 DEF Tick, Expire, Stop, LoopEnd
<1>11. ASSUME MapRace \/ Rest \/ UNCHANGED vars
       PROVE  UNCHANGED poolVars
    BY <1>11 DEF MapRace, Rest
<1>12. QED
    BY <1>3, <1>7, <1>8, <1>9, <1>10, <1>11 DEF Next

----------------------------------------------------------------------------
(* Types. *)

TypeInv == TypeOK /\ PoolTypeInv

LEMMA TypeInit == Init => TypeInv
<1> SUFFICES ASSUME Init
             PROVE  TypeInv
    OBVIOUS
<1>1. PoolTypeInv
    BY PoolTypeInit DEF Init
<1>2. pc \in [Goroutines -> Labels]
    BY DEF Init, Labels
<1>3. /\ at \in [Goroutines -> Sources \cup {None}]
      /\ vip \in [Goroutines -> MaybeLease]
      /\ pkt \in [Goroutines -> Requests \cup {None}]
    BY DEF Init, Sources, MaybeLease
<1>4. age \in [Sources -> 0 .. PeerTimeout]
    BY PeerTimeoutAssumption DEF Init
<1>5. /\ Peers \in [Sources -> MaybeLease]
      /\ Cache \in [Watched -> Sources \cup {None}]
      /\ todo \in [Sources -> MaybeLease]
    BY DEF Init, MaybeLease
<1>6. /\ mu \in Goroutines \cup {None}
      /\ open \subseteq Conns
      /\ phase \in {"up", "stopped", "crashed"}
      /\ lost \subseteq Lease
      /\ repeated \in BOOLEAN
    BY DEF Init
<1>7. TypeOK
    BY <1>1, <1>2, <1>3, <1>4, <1>5, <1>6 DEF TypeOK, OwnTypeOK, PoolTypeInv
<1>8. QED
    BY <1>1, <1>7 DEF TypeInv

(* A fresh age, a jump to a label, and forgetting a peer, keep the types.                *)
LEMMA ZeroAge == 0 \in 0 .. PeerTimeout /\ PeerTimeout \in 0 .. PeerTimeout
BY PeerTimeoutAssumption

LEMMA GotoType ==
    ASSUME pc \in [Goroutines -> Labels], NEW g \in Goroutines, NEW l \in Labels, Goto(g, l)
    PROVE  pc' \in [Goroutines -> Labels]
BY DEF Goto

LEMMA ForgetType ==
    ASSUME OwnTypeOK, NEW g \in Goroutines, Forget(g)
    PROVE  /\ at' \in [Goroutines -> Sources \cup {None}]
           /\ vip' \in [Goroutines -> MaybeLease]
           /\ pkt' \in [Goroutines -> Requests \cup {None}]
BY DEF OwnTypeOK, Forget, MaybeLease

LocalsOK ==
    /\ pc \in [Goroutines -> Labels]
    /\ at \in [Goroutines -> Sources \cup {None}]
    /\ vip \in [Goroutines -> MaybeLease]
    /\ pkt \in [Goroutines -> Requests \cup {None}]

LEMMA BackToReadType ==
    ASSUME OwnTypeOK, NEW g \in Goroutines, BackToRead(g) \/ GiveUp(g)
    PROVE  LocalsOK'
<1>1. Forget(g) /\ \E l \in Labels : Goto(g, l)
    BY DEF BackToRead, GiveUp, Labels, Stopping
<1>2. pc' \in [Goroutines -> Labels]
    BY <1>1, GotoType DEF OwnTypeOK
<1>3. QED
    BY <1>1, <1>2, ForgetType DEF LocalsOK

LEMMA HandshakeType ==
    ASSUME TypeInv, NEW g \in Callers, HandshakeStep(g)
    PROVE  OwnTypeOK'
<1> USE HandshakersCall DEF TypeInv, TypeOK
<1>1. CASE HandshakeNext(g)
    BY <1>1 DEF HandshakeNext, OwnTypeOK
<1>2. CASE HandshakeRefused(g)
    <2>1. LocalsOK'
        BY <1>2, BackToReadType DEF HandshakeRefused
    <2>2. QED
        BY <1>2, <2>1 DEF HandshakeRefused, OwnTypeOK, LocalsOK
<1>3. CASE HandshakeFailed(g)
    <2>1. ip[g] \in Lease
        BY <1>3 DEF HandshakeFailed, PoolTypeInv, Progress
    <2>2. LocalsOK'
        BY <1>3, BackToReadType DEF HandshakeFailed
    <2>3. QED
        BY <1>3, <2>1, <2>2 DEF HandshakeFailed, OwnTypeOK, LocalsOK
<1>4. CASE HandshakeAnswered(g)
    <2>1. ip[g] \in Lease
        BY <1>4 DEF HandshakeAnswered, PoolTypeInv, Progress
    <2>2. pc' \in [Goroutines -> Labels]
        BY <1>4 DEF HandshakeAnswered, OwnTypeOK, Goto, Labels
    <2>3. QED
        BY <1>4, <2>1, <2>2 DEF HandshakeAnswered, OwnTypeOK, MaybeLease
<1>5. CASE Register(g)
    <2>1. pc' \in [Goroutines -> Labels]
        BY <1>5 DEF Register, OwnTypeOK, Goto, Labels
    <2>2. age' \in [Sources -> 0 .. PeerTimeout]
        BY <1>5, ZeroAge DEF Register, OwnTypeOK
    <2>3. Peers' \in [Sources -> MaybeLease]
        BY <1>5 DEF Register, OwnTypeOK
    <2>4. QED
        BY <1>5, <2>1, <2>2, <2>3 DEF Register, OwnTypeOK
<1>6. QED
    BY <1>1, <1>2, <1>3, <1>4, <1>5 DEF HandshakeStep

LEMMA PacketType ==
    ASSUME OwnTypeOK, NEW g \in Goroutines, PacketStep(g)
    PROVE  OwnTypeOK'
<1>1. CASE Forward(g) \/ AnswerPing(g)
    <2>1. LocalsOK'
        BY <1>1, BackToReadType DEF Forward, AnswerPing
    <2>2. QED
        BY <1>1, <2>1 DEF Forward, AnswerPing, OwnTypeOK, LocalsOK
<1>2. CASE DisconnectRequest(g)
    <2>1. LocalsOK'
        BY <1>2, BackToReadType
           DEF DisconnectRequest, OwnTypeOK, LocalsOK, Goto, Labels, Stopping
    <2>2. QED
        BY <1>2, <2>1 DEF DisconnectRequest, OwnTypeOK, LocalsOK
<1>3. QED
    BY <1>1, <1>2 DEF PacketStep

LEMMA DisconnectType ==
    ASSUME OwnTypeOK, NEW g \in Goroutines, DisconnectStep(g)
    PROVE  OwnTypeOK'
<1> USE GotoType, ForgetType DEF OwnTypeOK
<1>1. CASE Remove(g)
    <2>1. pc' \in [Goroutines -> Labels]
        BY <1>1 DEF Remove, Goto, Labels, Stopping, Freeing
    <2>2. age' \in [Sources -> 0 .. PeerTimeout]
        BY <1>1, ZeroAge DEF Remove
    <2>3. Peers' \in [Sources -> MaybeLease]
        BY <1>1 DEF Remove, MaybeLease
    <2>4. repeated' \in BOOLEAN
        BY <1>1 DEF Remove
    <2>5. QED
        BY <1>1, <2>1, <2>2, <2>3, <2>4 DEF Remove
<1>2. CASE Free(g)
    <2>1. pc' \in [Goroutines -> Labels]
        BY <1>2 DEF Free, Goto, Labels
    <2>2. /\ at' \in [Goroutines -> Sources \cup {None}]
          /\ vip' \in [Goroutines -> MaybeLease]
          /\ pkt' \in [Goroutines -> Requests \cup {None}]
        BY <1>2, ForgetType DEF Free
    <2>3. QED
        BY <1>2, <2>1, <2>2 DEF Free, Unlocked
<1>3. CASE FreeDeferred(g)
    <2>1. pc' \in [Goroutines -> Labels]
        BY <1>3 DEF FreeDeferred, Goto, Labels, Stopping
    <2>2. QED
        BY <1>3, <2>1 DEF FreeDeferred, Unlocked
<1>4. QED
    BY <1>1, <1>2, <1>3 DEF DisconnectStep

LEMMA ArrivalType ==
    ASSUME OwnTypeOK, Arrival
    PROVE  OwnTypeOK'
<1> USE GotoType DEF OwnTypeOK, Labels, Stopping, Goroutines, Sources
<1>1. ASSUME NEW a \in Addrs, UdpHello(a)
      PROVE  OwnTypeOK'
    BY <1>1 DEF UdpHello
<1>2. ASSUME NEW a \in Addrs, NEW k \in Requests, UdpPacket(a, k)
      PROVE  OwnTypeOK'
    BY <1>2 DEF UdpPacket
<1>3. ASSUME NEW c \in Conns, Accept(c) \/ TcpHello(c) \/ TcpEnd(c)
      PROVE  OwnTypeOK'
    BY <1>3 DEF Accept, TcpHello, TcpEnd
<1>4. ASSUME NEW c \in Conns, NEW k \in Requests, TcpPacket(c, k)
      PROVE  OwnTypeOK'
    BY <1>4 DEF TcpPacket
<1>5. QED
    BY <1>1, <1>2, <1>3, <1>4 DEF Arrival

LEMMA UdpType ==
    ASSUME TypeInv, UdpStep
    PROVE  OwnTypeOK'
<1> USE HandshakersCall DEF TypeInv, TypeOK
<1>1. CASE HandshakeStep("udp")
    BY <1>1, HandshakeType
<1>2. CASE UdpAdopt
    <2>1. LocalsOK'
        BY <1>2, BackToReadType DEF UdpAdopt
    <2>2. age' \in [Sources -> 0 .. PeerTimeout]
        BY <1>2, ZeroAge DEF UdpAdopt, OwnTypeOK
    <2>3. Peers' \in [Sources -> MaybeLease]
        BY <1>2 DEF UdpAdopt, OwnTypeOK
    <2>4. QED
        BY <1>2, <2>1, <2>2, <2>3 DEF UdpAdopt, OwnTypeOK, LocalsOK
<1>3. CASE Touch
    <2>1. pc' \in [Goroutines -> Labels]
        BY <1>3 DEF Touch, OwnTypeOK, Goto, Labels
    <2>2. age' \in [Sources -> 0 .. PeerTimeout]
        BY <1>3, ZeroAge DEF Touch, OwnTypeOK
    <2>3. QED
        BY <1>3, <2>1, <2>2 DEF Touch, OwnTypeOK
<1>4. CASE PacketStep("udp") \/ DisconnectStep("udp")
    BY <1>4, PacketType, DisconnectType
<1>5. QED
    BY <1>1, <1>2, <1>3, <1>4 DEF UdpStep

LEMMA TcpType ==
    ASSUME TypeInv, NEW c \in Conns, TcpStep(c)
    PROVE  OwnTypeOK'
<1> USE GotoType, HandshakersCall DEF TypeInv, TypeOK
<1>1. CASE HandshakeStep(c)
    BY <1>1, HandshakeType
<1>2. CASE TcpAdopt(c)
    BY <1>2 DEF TcpAdopt, OwnTypeOK, Labels
<1>3. CASE TcpFallThrough(c)
    BY <1>3 DEF TcpFallThrough, OwnTypeOK, Labels, Stopping
<1>4. CASE PacketStep(c) \/ DisconnectStep(c)
    BY <1>4, PacketType, DisconnectType
<1>5. QED
    BY <1>1, <1>2, <1>3, <1>4 DEF TcpStep

LEMMA PingType ==
    ASSUME OwnTypeOK, PingStep
    PROVE  OwnTypeOK'
<1> USE GotoType DEF OwnTypeOK, Labels, Stopping, Goroutines
<1>1. CASE Scan
    BY <1>1 DEF Scan, MaybeLease
<1>2. ASSUME NEW a \in Sources, Evict(a)
      PROVE  OwnTypeOK'
    BY <1>2 DEF Evict, MaybeLease
<1>3. CASE Sleep \/ Wake
    BY <1>3 DEF Sleep, Wake
<1>4. CASE DisconnectStep("ping")
    BY <1>4, DisconnectType
<1>5. QED
    BY <1>1, <1>2, <1>3, <1>4 DEF PingStep

LEMMA TypeStep == TypeInv /\ [Next]_vars => TypeInv'
<1> SUFFICES ASSUME TypeInv, [Next]_vars
             PROVE  TypeInv'
    OBVIOUS
<1> USE DEF TypeInv, TypeOK
<1>1. PoolTypeInv'
    BY StepUsesPool, PoolTypeStep
<1>2. CASE Arrival \/ UdpStep \/ (\E c \in Conns : TcpStep(c)) \/ PingStep
    <2>1. OwnTypeOK'
        BY <1>2, ArrivalType, UdpType, TcpType, PingType
    <2>2. QED
        BY <1>1, <2>1 DEF PoolTypeInv
<1>3. CASE Tick
    <2>1. age' \in [Sources -> 0 .. PeerTimeout]
        BY <1>3, PeerTimeoutAssumption DEF Tick, OwnTypeOK
    <2>2. QED
        BY <1>1, <1>3, <2>1 DEF Tick, OwnTypeOK, PoolTypeInv
<1>4. ASSUME NEW v \in Watched, Expire(v)
      PROVE  TypeInv'
    BY <1>1, <1>4 DEF Expire, OwnTypeOK, PoolTypeInv
<1>5. CASE Stop
    BY <1>1, <1>5 DEF Stop, OwnTypeOK, PoolTypeInv
<1>6. ASSUME NEW g \in Goroutines, LoopEnd(g)
      PROVE  TypeInv'
    BY <1>1, <1>6, GotoType DEF LoopEnd, OwnTypeOK, PoolTypeInv, Labels
<1>7. CASE MapRace
    BY <1>1, <1>7 DEF MapRace, OwnTypeOK, PoolTypeInv
<1>8. CASE Rest \/ UNCHANGED vars
    BY <1>1, <1>8 DEF Rest, OwnTypeOK, PoolTypeInv
<1>9. QED
    BY <1>2, <1>3, <1>4, <1>5, <1>6, <1>7, <1>8 DEF Next

(* The variables of the server keep their types.                            *)
THEOREM TypeCorrect == Spec => []TypeOK
<1>1. TypeInv => TypeOK
    BY DEF TypeInv
<1>2. QED
    BY TypeInit, TypeStep, <1>1, PTL DEF Spec

(* The server is a user of the pool as PoolSpec describes it, so that what  *)
(* is proved of the pool is true inside the server.                         *)
THEOREM ServerUsesPool == Spec => UsesPool
<1>1. Init => PoolInit
    BY DEF Init
<1>2. TypeInv /\ [Next]_vars => [PoolNext]_poolVars
    BY StepUsesPool DEF TypeInv
<1>3. QED
    BY <1>1, <1>2, TypeInit, TypeStep, PTL DEF Spec, UsesPool, PoolSpec

(* With any mix of clients and however often a peer is disconnected, the    *)
(* network address stays in the pool and the pool stays within its bound.   *)
THEOREM PoolIsGuarded == Spec => []PoolGuarded
<1>1. TypeInv => /\ {Alias, NetworkIP} \subseteq Used
                 /\ NetworkIP \notin Leased
    BY NoneAssumption, NetworkIPIsHost
       DEF TypeInv, PoolTypeInv, Progress, TypeOK, OwnTypeOK, Leased, Registered, MaybeLease, Lease
<1>2. QED
    BY <1>1, ServerUsesPool, PoolBounded, TypeInit, TypeStep, PTL
       DEF Spec, UsesPool, PoolGuarded

----------------------------------------------------------------------------
(* The exclusive lease.  All clients use datagrams, and may say goodbye; a  *)
(* step after which a peer has been disconnected twice is not considered.   *)

LEMMA DatagramNames ==
    ASSUME DatagramsOnly
    PROVE  /\ Conns = {}
           /\ Goroutines = {"udp", "ping"}
           /\ Callers = {"udp"}
           /\ Prompt
BY CallersAreTheHandshakers DEF DatagramsOnly, Goroutines

LEMMA UdpInit == ASSUME DatagramsOnly, Init PROVE UdpInv
<1> USE DatagramNames
<1>1. UdpControl
    BY NamesAreDistinct DEF Init, PoolInit, UdpControl
<1>2. ListedStillRegistered /\ FoundStillRegistered
    BY DEF Init, ListedStillRegistered, FoundStillRegistered
<1>3. HeldByUdp = None /\ HeldByPing = None /\ lost = {} /\ \A a \in Sources : Peers[a] = None
    BY DEF Init, PoolInit, HeldByUdp, HeldByPing
<1>4. OnePlaceEach
    BY <1>3 DEF OnePlaceEach
<1>5. UsedAreHeld
    <2>1. \A v \in Lease : v \notin Used /\ v # None
        BY NoneAssumption, AliasNotHost DEF Init, PoolInit, NewNetwork, Lease
    <2>2. QED
        BY <1>3, <2>1 DEF UsedAreHeld
<1>6. QED
    BY <1>1, <1>2, <1>4, <1>5 DEF UdpInv

(* A step that moves no address from one place to another.                  *)
LEMMA NothingMoves ==
    ASSUME UdpInv, Peers' = Peers, lost' = lost, Used' = Used,
           HeldByUdp' = HeldByUdp, HeldByPing' = HeldByPing
    PROVE  OnePlaceEach' /\ UsedAreHeld'
BY DEF UdpInv, OnePlaceEach, UsedAreHeld

(* The steps of Next in the UDP pipe.                                       *)
LEMMA UdpNextStep ==
    ASSUME DatagramsOnly, TypeInv, UdpInv, HandshakeNext("udp")
    PROVE  UdpInv'
<1> USE DatagramNames, HandshakersCall
    DEF UdpInv, TypeInv, TypeOK, OwnTypeOK, PoolTypeOK
<1>1. pc' = pc /\ at' = at /\ vip' = vip /\ todo' = todo /\ Peers' = Peers /\ age' = age
      /\ mu' = mu /\ lost' = lost /\ HeldByPing' = HeldByPing /\ pc["udp"] = "next"
    BY DEF HandshakeNext, HeldByPing
<1>2. ListedStillRegistered' /\ FoundStillRegistered'
    BY <1>1 DEF ListedStillRegistered, FoundStillRegistered
<1>3. CASE CheckLength("udp")
    <2>1. UdpControl'
        BY <1>1, <1>3 DEF CheckLength, UdpControl
    <2>2. HeldByUdp' = HeldByUdp /\ Used' = Used
        BY <1>1, <1>3 DEF CheckLength, HeldByUdp
    <2>3. QED
        BY <1>1, <1>2, <2>1, <2>2, NothingMoves
<1>4. CASE LookUp("udp")
    <2>1. UdpControl'
        BY <1>1, <1>4 DEF LookUp, UdpControl
    <2>2. HeldByUdp' = HeldByUdp /\ Used' = Used
        BY <1>1, <1>4 DEF LookUp, HeldByUdp, UdpControl
    <2>3. QED
        BY <1>1, <1>2, <2>1, <2>2, NothingMoves
<1>5. CASE Insert("udp")
    <2>1. UdpControl'
        BY <1>1, <1>5 DEF Insert, UdpControl
    <2>2. /\ HeldByUdp = None
          /\ HeldByUdp' = ip["udp"]
          /\ Used' = Used \cup {ip["udp"]}
          /\ ip["udp"] \in Lease
          /\ ip["udp"] \notin Used
          /\ None \notin Lease
        BY <1>1, <1>5, NoneAssumption
           DEF Insert, HeldByUdp, UdpControl, PoolTypeInv, Progress, Lease
    <2>3. OnePlaceEach'
        BY <1>1, <2>2 DEF OnePlaceEach, UsedAreHeld
    <2>4. UsedAreHeld'
        BY <1>1, <2>2 DEF UsedAreHeld
    <2>5. QED
        BY <1>2, <2>1, <2>3, <2>4
<1>6. CASE LoadCurrent("udp")
    <2>1. UdpControl'
        BY <1>1, <1>6 DEF LoadCurrent, UdpControl
    <2>2. HeldByUdp' = HeldByUdp /\ Used' = Used
        BY <1>1, <1>6 DEF LoadCurrent, HeldByUdp
    <2>3. QED
        BY <1>1, <1>2, <2>1, <2>2, NothingMoves
<1>7. CASE StoreCurrent("udp")
    <2>1. UdpControl'
        BY <1>1, <1>7 DEF StoreCurrent, UdpControl
    <2>2. HeldByUdp' = HeldByUdp /\ Used' = Used
        BY <1>1, <1>7 DEF StoreCurrent, HeldByUdp
    <2>3. QED
        BY <1>1, <1>2, <2>1, <2>2, NothingMoves
<1>8. QED
    BY <1>3, <1>4, <1>5, <1>6, <1>7 DEF HandshakeNext, NextStep

(* The other steps of a handshake: the address changes hands, from the call *)
(* of Next to the pipe to the table, and at each point it is in one place.  *)
LEMMA UdpHandshakeStep ==
    ASSUME DatagramsOnly, TypeInv, UdpInv, HandshakeStep("udp") \/ UdpAdopt
    PROVE  UdpInv'
<1> USE DatagramNames
    DEF UdpInv, TypeInv, TypeOK, OwnTypeOK, PoolTypeOK, Goto
<1>1. CASE HandshakeNext("udp")
    BY <1>1, UdpNextStep
<1>2. CASE HandshakeRefused("udp")
    <2>1. UdpControl'
        BY <1>2 DEF HandshakeRefused, Return, GiveUp, Forget, UdpControl
    <2>2. ListedStillRegistered' /\ FoundStillRegistered'
        BY <1>2 DEF HandshakeRefused, Return, GiveUp, Forget, ListedStillRegistered, FoundStillRegistered
    <2>3. HeldByUdp' = HeldByUdp /\ HeldByPing' = HeldByPing
        BY <1>2 DEF HandshakeRefused, Return, GiveUp, Forget, HeldByUdp, HeldByPing
    <2>4. QED
        BY <1>2, <2>1, <2>2, <2>3, NothingMoves DEF HandshakeRefused, Return
<1>3. CASE HandshakeFailed("udp")
    <2>1. UdpControl'
        BY <1>3 DEF HandshakeFailed, Return, GiveUp, Forget, UdpControl
    <2>2. ListedStillRegistered' /\ FoundStillRegistered'
        BY <1>3 DEF HandshakeFailed, Return, GiveUp, Forget, ListedStillRegistered, FoundStillRegistered
    <2>3. /\ HeldByUdp = ip["udp"]
          /\ ip["udp"] \in Lease
          /\ None \notin Lease
          /\ HeldByUdp' = None
          /\ HeldByPing' = HeldByPing
          /\ lost' = lost \cup {ip["udp"]}
          /\ Peers' = Peers
          /\ Used' = Used
        BY <1>3, NoneAssumption
           DEF HandshakeFailed, Return, GiveUp, Forget, HeldByUdp, HeldByPing, PoolTypeInv,
               Progress, Lease
    <2>4. None \notin lost
        BY <2>3
    <2>5. OnePlaceEach'
        BY <2>3, <2>4 DEF OnePlaceEach
    <2>6. UsedAreHeld'
        BY <2>3 DEF UsedAreHeld
    <2>7. QED
        BY <2>1, <2>2, <2>5, <2>6
<1>4. CASE HandshakeAnswered("udp")
    <2>1. ip["udp"] \in Lease
        BY <1>4 DEF HandshakeAnswered, PoolTypeInv, Progress
    <2>2. UdpControl'
        BY <1>4, <2>1 DEF HandshakeAnswered, Return, UdpControl
    <2>3. ListedStillRegistered' /\ FoundStillRegistered'
        BY <1>4 DEF HandshakeAnswered, Return, ListedStillRegistered, FoundStillRegistered
    <2>4. HeldByUdp' = HeldByUdp /\ HeldByPing' = HeldByPing
        BY <1>4 DEF HandshakeAnswered, Return, HeldByUdp, HeldByPing
    <2>5. QED
        BY <1>4, <2>2, <2>3, <2>4, NothingMoves DEF HandshakeAnswered, Return
<1>5. CASE Register("udp")
    <2>1. /\ at["udp"] \in Sources
          /\ Peers[at["udp"]] = None
          /\ vip["udp"] \in Lease
          /\ vip["udp"] # None
          /\ stage["udp"] = "out"
          /\ Peers' = [Peers EXCEPT ![at["udp"]] = vip["udp"]]
          /\ age' = [age EXCEPT ![at["udp"]] = 0]
          /\ pc["udp"] = "register" /\ pc' = [pc EXCEPT !["udp"] = "adopt"]
          /\ UNCHANGED <<poolVars, mu, at, vip, todo, lost>>
        BY <1>5, NoneAssumption DEF Register, UdpControl, Lease
    <2>2. UdpControl' /\ FoundStillRegistered'
        BY <2>1 DEF UdpControl, FoundStillRegistered
    <2>3. ListedStillRegistered'
        <3>1. todo[at["udp"]] = None
            BY <2>1 DEF ListedStillRegistered
        <3>2. pc["ping"] = "disconnect" => at["ping"] # at["udp"]
            BY <2>1, NoneAssumption DEF ListedStillRegistered, Lease
        <3>3. \A a \in Sources : todo[a] # None => todo[a] = Peers'[a]
            BY <2>1, <3>1 DEF ListedStillRegistered
        <3>4. pc'["ping"] = pc["ping"] /\ pc'["udp"] = "adopt"
            BY <2>1
        <3>5. age'[at["udp"]] = 0 /\ Peers'[at["udp"]] = vip["udp"]
            BY <2>1
        <3>6. QED
            BY <2>1, <3>1, <3>2, <3>3, <3>4, <3>5 DEF ListedStillRegistered
    <2>4. HeldByUdp = vip["udp"] /\ HeldByUdp' = None /\ HeldByPing' = HeldByPing
        BY <1>5, <2>1 DEF Register, HeldByUdp, HeldByPing
    <2>5. None \notin lost
        BY NoneAssumption DEF Lease
    <2>6. OnePlaceEach'
        BY <2>1, <2>4, <2>5 DEF OnePlaceEach
    <2>7. UsedAreHeld'
        BY <2>1, <2>4, NoneAssumption DEF UsedAreHeld, Lease
    <2>8. QED
        BY <2>2, <2>3, <2>6, <2>7
<1>6. CASE UdpAdopt
    <2>1. Peers' = Peers /\ age' = age
        BY <1>6, NoneAssumption DEF UdpAdopt, UdpControl, ListedStillRegistered, Lease
    <2>2. UdpControl'
        BY <1>6, <2>1 DEF UdpAdopt, BackToRead, Forget, UdpControl
    <2>3. ListedStillRegistered' /\ FoundStillRegistered'
        BY <1>6, <2>1 DEF UdpAdopt, BackToRead, Forget, ListedStillRegistered, FoundStillRegistered
    <2>4. HeldByUdp' = HeldByUdp /\ HeldByPing' = HeldByPing
        BY <1>6 DEF UdpAdopt, BackToRead, Forget, HeldByUdp, HeldByPing, UdpControl
    <2>5. QED
        BY <1>6, <2>1, <2>2, <2>3, <2>4, NothingMoves DEF UdpAdopt
<1>7. QED
    BY <1>1, <1>2, <1>3, <1>4, <1>5, <1>6 DEF HandshakeStep

(* Reading a datagram and handling a packet of a registered peer.           *)
LEMMA UdpPacketStep ==
    ASSUME DatagramsOnly, TypeInv, UdpInv,
           Arrival \/ Touch \/ PacketStep("udp")
    PROVE  UdpInv'
<1> USE DatagramNames
    DEF UdpInv, TypeInv, TypeOK, OwnTypeOK, PoolTypeOK, Goto
<1>1. ASSUME NEW a \in Addrs, UdpHello(a)
      PROVE  UdpInv'
    <2>1. UdpControl'
        BY <1>1 DEF UdpHello, Call, UdpControl, Sources
    <2>2. ListedStillRegistered' /\ FoundStillRegistered'
        BY <1>1 DEF UdpHello, Call, ListedStillRegistered, FoundStillRegistered
    <2>3. HeldByUdp' = HeldByUdp /\ HeldByPing' = HeldByPing
        BY <1>1 DEF UdpHello, Call, HeldByUdp, HeldByPing
    <2>4. QED
        BY <1>1, <2>1, <2>2, <2>3, NothingMoves DEF UdpHello, Call
<1>2. ASSUME NEW a \in Addrs, NEW k \in Requests, UdpPacket(a, k)
      PROVE  UdpInv'
    <2>1. UdpControl'
        BY <1>2 DEF UdpPacket, UdpControl
    <2>2. ListedStillRegistered' /\ FoundStillRegistered'
        BY <1>2 DEF UdpPacket, ListedStillRegistered, FoundStillRegistered, MaybeLease, Sources
    <2>3. HeldByUdp' = HeldByUdp /\ HeldByPing' = HeldByPing
        BY <1>2 DEF UdpPacket, UdpControl, HeldByUdp, HeldByPing
    <2>4. QED
        BY <1>2, <2>1, <2>2, <2>3, NothingMoves DEF UdpPacket
<1>3. CASE Touch
    <2>1. UdpControl'
        BY <1>3 DEF Touch, UdpControl
    <2>2. ListedStillRegistered' /\ FoundStillRegistered'
        BY <1>3 DEF Touch, ListedStillRegistered, FoundStillRegistered
    <2>3. HeldByUdp' = HeldByUdp /\ HeldByPing' = HeldByPing
        BY <1>3 DEF Touch, UdpControl, HeldByUdp, HeldByPing
    <2>4. QED
        BY <1>3, <2>1, <2>2, <2>3, NothingMoves DEF Touch
<1>4. CASE Forward("udp") \/ AnswerPing("udp")
    <2>1. UdpControl'
        BY <1>4 DEF Forward, AnswerPing, BackToRead, Forget, UdpControl
    <2>2. ListedStillRegistered' /\ FoundStillRegistered'
        BY <1>4 DEF Forward, AnswerPing, BackToRead, Forget, ListedStillRegistered, FoundStillRegistered
    <2>3. HeldByUdp' = HeldByUdp /\ HeldByPing' = HeldByPing
        BY <1>4 DEF Forward, AnswerPing, BackToRead, Forget, UdpControl, HeldByUdp, HeldByPing
    <2>4. QED
        BY <1>4, <2>1, <2>2, <2>3, NothingMoves DEF Forward, AnswerPing
<1>5. CASE DisconnectRequest("udp")
    <2>1. /\ pc["udp"] = "api"
          /\ \/ Peers[at["udp"]] # None /\ pc' = [pc EXCEPT !["udp"] = "disconnect"]
                /\ UNCHANGED <<at, vip>>
             \/ BackToRead("udp")
          /\ UNCHANGED <<poolVars, peerVars, mu, todo, lost>>
        BY <1>5 DEF DisconnectRequest
    <2>2. UdpControl'
        BY <2>1 DEF BackToRead, Forget, UdpControl
    <2>3. ListedStillRegistered' /\ FoundStillRegistered'
        BY <2>1 DEF BackToRead, Forget, ListedStillRegistered, FoundStillRegistered
    <2>4. HeldByUdp' = HeldByUdp /\ HeldByPing' = HeldByPing
        BY <2>1 DEF BackToRead, Forget, UdpControl, HeldByUdp, HeldByPing
    <2>5. QED
        BY <2>1, <2>2, <2>3, <2>4, NothingMoves
<1>6. QED
    BY <1>1, <1>2, <1>3, <1>4, <1>5 DEF Arrival, PacketStep

(* The goodbye of a client.  The pipe removes the peer it has found, unless *)
(* PingLoop is about to remove it as well.                                  *)
LEMMA UdpDisconnectStep ==
    ASSUME DatagramsOnly, TypeInv, UdpInv, ~repeated', DisconnectStep("udp")
    PROVE  UdpInv'
<1> USE DatagramNames
    DEF UdpInv, TypeInv, TypeOK, OwnTypeOK, PoolTypeOK, Goto
<1>1. CASE Remove("udp")
    <2>1. /\ pc["udp"] = "disconnect"
          /\ pc' = [pc EXCEPT !["udp"] = "free"]
          /\ mu = None /\ mu' = "udp"
          /\ Peers' = [Peers EXCEPT ![at["udp"]] = None]
          /\ age' = [age EXCEPT ![at["udp"]] = 0]
          /\ UNCHANGED <<poolVars, at, vip, todo, lost>>
        BY <1>1 DEF Remove, UdpControl, Stopping
    <2>2. /\ at["udp"] \in Sources
          /\ vip["udp"] \in Lease
          /\ Peers[at["udp"]] = vip["udp"]
          /\ vip["udp"] # None
          /\ None \notin lost
        BY <2>1, NoneAssumption DEF FoundStillRegistered, Lease
    <2>3. ~AboutToRemove("ping", at["udp"])
        BY <1>1 DEF Remove
    <2>4. /\ todo[at["udp"]] = None
          /\ pc["ping"] = "disconnect" => at["ping"] # at["udp"]
        BY <2>3 DEF AboutToRemove, Stopping
    <2>5. UdpControl'
        BY <2>1, <2>2, NamesAreDistinct DEF UdpControl
    <2>6. ListedStillRegistered'
        <3>1. \A a \in Sources : todo[a] # None => todo[a] = Peers'[a]
            BY <2>1, <2>2, <2>4 DEF ListedStillRegistered
        <3>2. pc["ping"] = "disconnect" => Peers'[at["ping"]] = Peers[at["ping"]]
            BY <2>1, <2>2, <2>4 DEF ListedStillRegistered
        <3>3. QED
            BY <2>1, <3>1, <3>2 DEF ListedStillRegistered
    <2>7. FoundStillRegistered'
        BY <2>1, <2>2 DEF FoundStillRegistered
    <2>8. HeldByPing' = HeldByPing /\ HeldByUdp = None /\ HeldByUdp' = vip["udp"]
        BY <2>1 DEF HeldByUdp, HeldByPing, UdpControl
    <2>9. HeldByPing = None
        BY <2>1, NamesAreDistinct DEF UdpControl, HeldByPing
    <2>10. OnePlaceEach'
        BY <2>1, <2>2, <2>8, <2>9 DEF OnePlaceEach
    <2>11. UsedAreHeld'
        BY <2>1, <2>2, <2>8, <2>9, NoneAssumption DEF UsedAreHeld, OnePlaceEach, Lease
    <2>12. QED
        BY <2>5, <2>6, <2>7, <2>10, <2>11
<1>2. CASE Free("udp")
    <2>1. /\ pc["udp"] = "free"
          /\ pc' = [pc EXCEPT !["udp"] = "read"]
          /\ mu = "udp" /\ mu' = None
          /\ at' = [at EXCEPT !["udp"] = None]
          /\ vip' = [vip EXCEPT !["udp"] = None]
          /\ Used' = Used \ {vip["udp"]}
          /\ UNCHANGED <<Peers, age, stage, ip, todo, lost>>
        BY <1>2 DEF Free, Forget, Unlocked, Release
    <2>2. vip["udp"] \in Lease /\ None \notin lost
        BY <2>1, NoneAssumption DEF FoundStillRegistered, Lease
    <2>3. UdpControl'
        BY <2>1, <2>2, NamesAreDistinct DEF UdpControl
    <2>4. ListedStillRegistered' /\ FoundStillRegistered'
        BY <2>1 DEF ListedStillRegistered, FoundStillRegistered
    <2>5. HeldByPing' = HeldByPing /\ HeldByUdp = vip["udp"] /\ HeldByUdp' = None
        BY <2>1 DEF HeldByUdp, HeldByPing, UdpControl
    <2>6. OnePlaceEach'
        BY <2>1, <2>2, <2>5 DEF OnePlaceEach
    <2>7. UsedAreHeld'
        BY <2>1, <2>2, <2>5, NoneAssumption DEF UsedAreHeld, OnePlaceEach, Lease
    <2>8. QED
        BY <2>3, <2>4, <2>6, <2>7
<1>3. ~FreeDeferred("udp")
    BY DEF FreeDeferred, UdpControl
<1>4. QED
    BY <1>1, <1>2, <1>3 DEF DisconnectStep

(* PingLoop.  What it has listed is still registered when it gets to it,    *)
(* because nobody else removes a peer.                                      *)
LEMMA UdpPingStep ==
    ASSUME DatagramsOnly, TypeInv, UdpInv, PingStep, ~repeated'
    PROVE  UdpInv'
<1> USE DatagramNames
    DEF UdpInv, TypeInv, TypeOK, OwnTypeOK, PoolTypeOK, Goto
<1>1. CASE Scan
    <2>1. UdpControl'
        BY <1>1 DEF Scan, UdpControl
    <2>2. ListedStillRegistered'
        <3>1. /\ \A a \in Sources : todo'[a] # None => todo'[a] = Peers[a] /\ Silent(a)
              /\ UNCHANGED <<Peers, age, at, vip>>
              /\ pc' = [pc EXCEPT !["ping"] = "evict"]
            BY <1>1 DEF Scan
        <3>2. pc["udp"] = "adopt" => at["udp"] \in Sources /\ ~Silent(at["udp"])
            BY PeerTimeoutAssumption DEF UdpControl, ListedStillRegistered, Silent
        <3>3. QED
            BY <3>1, <3>2 DEF ListedStillRegistered
    <2>3. HeldByUdp' = HeldByUdp /\ HeldByPing' = HeldByPing
        BY <1>1 DEF Scan, HeldByUdp, HeldByPing
    <2>4. FoundStillRegistered'
        BY <1>1 DEF Scan, FoundStillRegistered
    <2>5. QED
        BY <1>1, <2>1, <2>2, <2>3, <2>4, NothingMoves DEF Scan
<1>2. ASSUME NEW a \in Sources, Evict(a)
      PROVE  UdpInv'
    <2>1. UdpControl'
        BY <1>2 DEF Evict, UdpControl
    <2>2. ListedStillRegistered'
        <3>1. todo[a] = Peers[a] /\ todo[a] \in Lease
            BY <1>2 DEF Evict, ListedStillRegistered, MaybeLease
        <3>2. pc["udp"] = "adopt" => at["udp"] # a
            BY <1>2 DEF Evict, ListedStillRegistered
        <3>3. QED
            BY <1>2, <3>1, <3>2 DEF Evict, ListedStillRegistered
    <2>3. HeldByUdp' = HeldByUdp /\ HeldByPing' = HeldByPing
        BY <1>2 DEF Evict, HeldByUdp, HeldByPing
    <2>4. FoundStillRegistered'
        BY <1>2 DEF Evict, FoundStillRegistered
    <2>5. QED
        BY <1>2, <2>1, <2>2, <2>3, <2>4, NothingMoves DEF Evict
<1>3. CASE Sleep \/ Wake
    <2>1. UdpControl'
        BY <1>3 DEF Sleep, Wake, UdpControl
    <2>2. ListedStillRegistered' /\ FoundStillRegistered'
        BY <1>3 DEF Sleep, Wake, ListedStillRegistered, FoundStillRegistered
    <2>3. HeldByUdp' = HeldByUdp /\ HeldByPing' = HeldByPing
        BY <1>3 DEF Sleep, Wake, HeldByUdp, HeldByPing
    <2>4. QED
        BY <1>3, <2>1, <2>2, <2>3, NothingMoves DEF Sleep, Wake
<1>4. CASE Remove("ping")
    <2>1. /\ pc["ping"] = "disconnect"
          /\ pc' = [pc EXCEPT !["ping"] = "free"]
          /\ mu = None /\ mu' = "ping"
          /\ Peers' = [Peers EXCEPT ![at["ping"]] = None]
          /\ age' = [age EXCEPT ![at["ping"]] = 0]
          /\ UNCHANGED <<poolVars, at, vip, todo, lost>>
        BY <1>4 DEF Remove, UdpControl, Stopping
    <2>2. /\ at["ping"] \in Sources
          /\ vip["ping"] \in Lease
          /\ Peers[at["ping"]] = vip["ping"]
          /\ vip["ping"] # None
          /\ None \notin lost
        BY <2>1, NoneAssumption DEF ListedStillRegistered, Lease
    <2>3. UdpControl'
        BY <2>1, <2>2, NamesAreDistinct DEF UdpControl
    <2>4. ListedStillRegistered'
        <3>1. todo[at["ping"]] = None /\ (pc["udp"] = "adopt" => at["ping"] # at["udp"])
            BY <2>1 DEF ListedStillRegistered
        <3>2. \A a \in Sources : todo[a] # None => todo[a] = Peers'[a]
            BY <2>1, <2>2, <3>1 DEF ListedStillRegistered
        <3>3. pc["udp"] = "adopt" =>
                  /\ Peers'[at["udp"]] = vip["udp"]
                  /\ age'[at["udp"]] = 0
                  /\ todo[at["udp"]] = None
            BY <2>1, <2>2, <3>1 DEF ListedStillRegistered, UdpControl
        <3>4. QED
            BY <2>1, <2>2, <3>2, <3>3 DEF ListedStillRegistered
    <2>5. HeldByUdp' = HeldByUdp /\ HeldByPing = None /\ HeldByPing' = vip["ping"]
        BY <2>1 DEF HeldByUdp, HeldByPing
    <2>6. OnePlaceEach'
        BY <2>1, <2>2, <2>5 DEF OnePlaceEach
    <2>7. UsedAreHeld'
        BY <2>1, <2>2, <2>5, NoneAssumption DEF UsedAreHeld, OnePlaceEach, Lease
    <2>8. FoundStillRegistered'
        <3>1. pc["udp"] = "disconnect" => at["udp"] # at["ping"]
            BY <1>4 DEF Remove, AboutToRemove, Stopping
        <3>2. QED
            BY <2>1, <2>2, <3>1 DEF FoundStillRegistered
    <2>9. QED
        BY <2>3, <2>4, <2>6, <2>7, <2>8
<1>5. CASE Free("ping")
    <2>1. /\ pc["ping"] = "free"
          /\ pc' = [pc EXCEPT !["ping"] = "evict"]
          /\ mu = "ping" /\ mu' = None
          /\ at' = [at EXCEPT !["ping"] = None]
          /\ vip' = [vip EXCEPT !["ping"] = None]
          /\ Used' = Used \ {vip["ping"]}
          /\ UNCHANGED <<Peers, age, stage, ip, todo, lost>>
        BY <1>5 DEF Free, Forget, Unlocked, Release
    <2>2. vip["ping"] \in Lease /\ None \notin lost
        BY <2>1, NoneAssumption DEF ListedStillRegistered, Lease
    <2>3. UdpControl'
        BY <2>1, <2>2, NamesAreDistinct DEF UdpControl
    <2>4. ListedStillRegistered' /\ FoundStillRegistered'
        BY <2>1 DEF ListedStillRegistered, FoundStillRegistered
    <2>5. HeldByUdp' = HeldByUdp /\ HeldByPing = vip["ping"] /\ HeldByPing' = None
        BY <2>1 DEF HeldByUdp, HeldByPing
    <2>6. OnePlaceEach'
        BY <2>1, <2>2, <2>5 DEF OnePlaceEach
    <2>7. UsedAreHeld'
        BY <2>1, <2>2, <2>5, NoneAssumption DEF UsedAreHeld, OnePlaceEach, Lease
    <2>8. QED
        BY <2>3, <2>4, <2>6, <2>7
<1>6. ~FreeDeferred("ping")
    BY DEF FreeDeferred, UdpControl
<1>7. QED
    BY <1>1, <1>2, <1>3, <1>4, <1>5, <1>6 DEF PingStep, DisconnectStep

LEMMA UdpStepKeepsInv ==
    ASSUME DatagramsOnly, TypeInv, UdpInv, [Next]_vars, ~repeated'
    PROVE  UdpInv'
<1> USE DatagramNames
    DEF UdpInv, TypeInv, TypeOK, OwnTypeOK, PoolTypeOK, Goto
<1>1. CASE Arrival \/ UdpStep
    BY <1>1, UdpHandshakeStep, UdpPacketStep, UdpDisconnectStep DEF UdpStep
<1>2. CASE PingStep
    BY <1>2, UdpPingStep
<1>3. CASE Tick
    <2>1. pc["udp"] # "adopt" /\ UNCHANGED <<poolVars, Peers, mu, pc, at, vip, todo, lost>>
        BY <1>3 DEF Tick
    <2>2. UdpControl' /\ ListedStillRegistered' /\ FoundStillRegistered'
        BY <2>1 DEF UdpControl, ListedStillRegistered, FoundStillRegistered
    <2>3. HeldByUdp' = HeldByUdp /\ HeldByPing' = HeldByPing
        BY <2>1 DEF HeldByUdp, HeldByPing
    <2>4. QED
        BY <2>1, <2>2, <2>3, NothingMoves
<1>4. CASE (\E v \in Watched : Expire(v)) \/ Stop \/ MapRace \/ Rest \/ UNCHANGED vars
    <2>1. UNCHANGED <<poolVars, peerVars, mu, pc, at, vip, todo, lost>>
        BY <1>4 DEF Expire, Stop, MapRace, Rest
    <2>2. UdpControl' /\ ListedStillRegistered' /\ FoundStillRegistered'
        BY <2>1 DEF UdpControl, ListedStillRegistered, FoundStillRegistered
    <2>3. HeldByUdp' = HeldByUdp /\ HeldByPing' = HeldByPing
        BY <2>1 DEF HeldByUdp, HeldByPing
    <2>4. QED
        BY <2>1, <2>2, <2>3, NothingMoves
<1>5. ASSUME NEW g \in Goroutines, LoopEnd(g)
      PROVE  UdpInv'
    <2>1. UdpControl'
        BY <1>5 DEF LoopEnd, UdpControl
    <2>2. ListedStillRegistered' /\ FoundStillRegistered'
        BY <1>5 DEF LoopEnd, ListedStillRegistered, FoundStillRegistered
    <2>3. HeldByUdp' = HeldByUdp /\ HeldByPing' = HeldByPing
        BY <1>5 DEF LoopEnd, HeldByUdp, HeldByPing
    <2>4. QED
        BY <1>5, <2>1, <2>2, <2>3, NothingMoves DEF LoopEnd
<1>6. QED
    BY <1>1, <1>2, <1>3, <1>4, <1>5 DEF Next

LEMMA RepeatedForGood == TypeInv /\ [Next]_vars => (repeated => repeated')
BY DEF TypeInv, TypeOK, OwnTypeOK, Next, Arrival, UdpHello, UdpPacket, Accept, TcpHello, TcpEnd,
       TcpPacket, UdpStep, HandshakeStep, HandshakeNext, HandshakeRefused, HandshakeFailed,
       HandshakeAnswered, Register, UdpAdopt, Touch, PacketStep, Forward, AnswerPing,
       DisconnectRequest, DisconnectStep, Remove, Free, FreeDeferred, Unlocked, TcpStep, TcpAdopt,
       TcpFallThrough, PingStep, Scan, Evict, Sleep, Wake, Tick, Expire, Stop, LoopEnd, MapRace,
       Rest

(* With clients that use datagrams, the inductive invariant of the lease    *)
(* holds until a peer has been disconnected twice.                          *)
THEOREM UdpInvariant == ASSUME DatagramsOnly PROVE Spec => [](~repeated => UdpInv)
<1>1. Init => UdpInv
    BY UdpInit
<1>2. TypeInv /\ (~repeated => UdpInv) /\ [Next]_vars => (~repeated' => UdpInv')
    BY UdpStepKeepsInv, RepeatedForGood
<1>3. QED
    BY <1>1, <1>2, TypeInit, TypeStep, PTL DEF Spec

(* Under UdpInv the pool marks as used exactly the addresses that are       *)
(* registered, in hand or lost.                                             *)
LEMMA InvAccounts == ASSUME DatagramsOnly, TypeInv, UdpInv PROVE Accounting
<1>1. InHand("udp") = {HeldByUdp} \ {None}
    <2>1. "udp" \in Callers /\ (pc["udp"] \in Freeing <=> pc["udp"] = "free")
        BY DatagramNames DEF UdpInv, UdpControl, Freeing
    <2>2. CASE stage["udp"] \in {"load", "store", "done"}
        BY <2>1, <2>2 DEF InHand, HeldByUdp
    <2>3. CASE stage["udp"] \notin {"load", "store", "done"} /\ pc["udp"] \in {"register", "free"}
        BY <2>1, <2>3 DEF InHand, HeldByUdp
    <2>4. CASE stage["udp"] \notin {"load", "store", "done"} /\ pc["udp"] \notin {"register", "free"}
        BY <2>1, <2>4 DEF InHand, HeldByUdp
    <2>5. QED
        BY <2>2, <2>3, <2>4
<1>2. InHand("ping") = {HeldByPing} \ {None}
    <2>1. "ping" \notin Callers
        BY DatagramNames
    <2>2. pc["ping"] \in Freeing \cup {"register"} <=> pc["ping"] = "free"
        BY DEF UdpInv, UdpControl, Freeing
    <2>3. CASE pc["ping"] = "free"
        BY <2>1, <2>2, <2>3 DEF InHand, HeldByPing
    <2>4. CASE pc["ping"] # "free"
        BY <2>1, <2>2, <2>4 DEF InHand, HeldByPing
    <2>5. QED
        BY <2>3, <2>4
<1>3. UNION {InHand(g) : g \in Goroutines} = {HeldByUdp, HeldByPing} \ {None}
    <2>1. Goroutines = {"udp", "ping"}
        BY DatagramNames
    <2>2. UNION {InHand(g) : g \in Goroutines} = InHand("udp") \cup InHand("ping")
        BY <2>1
    <2>3. QED
        BY <1>1, <1>2, <2>2
<1>4. Used \subseteq Lease \cup {Alias, NetworkIP} /\ {Alias, NetworkIP} \subseteq Used
    BY DEF Lease, TypeInv, PoolTypeInv, Progress, PoolTypeOK
<1>5. ip["udp"] \in Lease \cup {None} /\ \A g \in Goroutines : vip[g] \in Lease \cup {None}
    BY DatagramNames
       DEF Lease, TypeInv, TypeOK, OwnTypeOK, MaybeLease, PoolTypeInv, Progress, PoolTypeOK
<1>6. HeldByUdp \in Lease \cup {None} /\ HeldByPing \in Lease \cup {None}
    BY <1>5, DatagramNames DEF HeldByUdp, HeldByPing
<1>7. Peers \in [Sources -> Lease \cup {None}] /\ None \notin Lease
    BY NoneAssumption DEF TypeInv, TypeOK, OwnTypeOK, MaybeLease, Lease
<1>8. \A v : v \in Leased <=> v \in Lease /\ \E a \in Sources : Peers[a] = v
    BY <1>7 DEF Leased, Registered
<1>9. lost \subseteq Lease
    BY DEF TypeInv, TypeOK, OwnTypeOK
<1>10. \A v \in Lease : v \in Used <=> v \in Leased \cup lost \cup ({HeldByUdp, HeldByPing} \ {None})
    BY <1>7, <1>8 DEF UdpInv, UsedAreHeld
<1>11. QED
    BY <1>3, <1>4, <1>6, <1>8, <1>9, <1>10 DEF Accounting

LEMMA InvExcludes == ASSUME UdpInv PROVE AddressesExclusive
BY DEF UdpInv, OnePlaceEach, AddressesExclusive, Registered

(* With clients that use datagrams and say goodbye, no virtual address      *)
(* belongs to two peers and the pool is accurate, until a peer has been     *)
(* disconnected twice.                                                      *)
THEOREM SoundWithGoodbyes == ASSUME DatagramsOnly PROVE Spec => []SoundUnlessRepeated
<1>1. TypeInv /\ (~repeated => UdpInv) => SoundUnlessRepeated
    BY InvAccounts, InvExcludes DEF SoundUnlessRepeated
<1>2. QED
    BY <1>1, UdpInvariant, TypeInit, TypeStep, PTL DEF Spec

(* The shipped clients never say goodbye: PingLoop alone disconnects peers, *)
(* each once.                                                               *)
NoGoodbye == ~repeated /\ UdpInv /\ pc["udp"] \notin {"disconnect", "free"}

LEMMA NoGoodbyeStep ==
    ASSUME UdpOnly
    PROVE  TypeInv /\ NoGoodbye /\ [Next]_vars => NoGoodbye'
<1> SUFFICES ASSUME TypeInv, NoGoodbye, [Next]_vars
             PROVE  NoGoodbye'
    OBVIOUS
<1>1. DatagramsOnly /\ "disconnect" \notin Requests
    BY DEF UdpOnly
<1> USE DatagramNames, <1>1 DEF TypeInv, TypeOK, OwnTypeOK
<1>2. ~DisconnectStep("udp")
    BY DEF NoGoodbye, UdpInv, UdpControl, DisconnectStep, Remove, Free, FreeDeferred, Stopping
<1>3. ~DisconnectRequest("udp")
    BY RequestsAssumption DEF DisconnectRequest
<1>4. ~repeated'
    <2>1. CASE Remove("ping")
        <3>1. ~AboutToRemove("udp", at["ping"])
            BY NamesAreDistinct DEF NoGoodbye, UdpInv, UdpControl, AboutToRemove, Stopping
        <3>2. QED
            BY <2>1, <3>1 DEF Remove, NoGoodbye
    <2>2. CASE ~Remove("ping")
        BY <1>2, <2>2
           DEF NoGoodbye, Next, Arrival, UdpHello, UdpPacket, UdpStep, HandshakeStep,
               HandshakeNext, HandshakeRefused, HandshakeFailed, HandshakeAnswered, Register,
               UdpAdopt, Touch, PacketStep, Forward, AnswerPing, DisconnectRequest, PingStep,
               DisconnectStep, Free, FreeDeferred, Unlocked, Scan, Evict, Sleep, Wake, Tick,
               Expire, Stop, LoopEnd, MapRace, Rest
    <2>3. QED
        BY <2>1, <2>2
<1>5. UdpInv'
    BY <1>4, UdpStepKeepsInv DEF NoGoodbye
<1>6. pc'["udp"] \notin {"disconnect", "free"}
    <2> USE DEF NoGoodbye
    <2>1. CASE Arrival
        BY <2>1 DEF Arrival, UdpHello, UdpPacket, Goto
    <2>2. CASE UdpStep
        <3>1. CASE HandshakeStep("udp")
            BY <3>1 DEF HandshakeStep, HandshakeNext, HandshakeRefused, HandshakeFailed,
                        HandshakeAnswered, Register, GiveUp, BackToRead, Goto
        <3>2. CASE UdpAdopt \/ Touch
            BY <3>2 DEF UdpAdopt, Touch, BackToRead, Goto
        <3>3. CASE PacketStep("udp")
            BY <1>3, <3>3 DEF PacketStep, Forward, AnswerPing, BackToRead, Goto
        <3>4. QED
            BY <1>2, <2>2, <3>1, <3>2, <3>3 DEF UdpStep
    <2>3. CASE PingStep
        BY <2>3 DEF PingStep, Scan, Evict, Sleep, Wake, DisconnectStep, Remove, Free,
                    FreeDeferred, BackToRead, Goto
    <2>4. CASE Tick \/ (\E v \in Watched : Expire(v)) \/ Stop
               \/ (\E g \in Goroutines : LoopEnd(g)) \/ MapRace \/ Rest \/ UNCHANGED vars
        BY <2>4 DEF Tick, Expire, Stop, LoopEnd, MapRace, Rest, vars, Goto
    <2>5. QED
        BY <1>1, <2>1, <2>2, <2>3, <2>4 DEF Next
<1>7. QED
    BY <1>4, <1>5, <1>6 DEF NoGoodbye

(* With the shipped clients, no peer is ever disconnected twice.            *)
THEOREM NeverRepeated == ASSUME UdpOnly PROVE Spec => []~repeated
<1>1. Init => NoGoodbye
    BY UdpInit DEF UdpOnly, Init, NoGoodbye, Goroutines
<1>2. NoGoodbye => ~repeated
    BY DEF NoGoodbye
<1>3. QED
    BY <1>1, <1>2, NoGoodbyeStep, TypeInit, TypeStep, PTL DEF Spec

(* With the shipped clients, no virtual address belongs to two peers.       *)
THEOREM LeaseIsExclusive == ASSUME UdpOnly PROVE Spec => []AddressesExclusive
<1>1. DatagramsOnly
    BY DEF UdpOnly
<1>2. SoundUnlessRepeated /\ ~repeated => AddressesExclusive
    BY DEF SoundUnlessRepeated
<1>3. QED
    BY <1>1, <1>2, SoundWithGoodbyes, NeverRepeated, PTL

(* With the shipped clients, the pool marks as used exactly the addresses   *)
(* that are registered, in hand or lost.                                    *)
THEOREM PoolIsAccurate == ASSUME UdpOnly PROVE Spec => []Accounting
<1>1. DatagramsOnly
    BY DEF UdpOnly
<1>2. SoundUnlessRepeated /\ ~repeated => Accounting
    BY DEF SoundUnlessRepeated
<1>3. QED
    BY <1>1, <1>2, SoundWithGoodbyes, NeverRepeated, PTL
============================================================================
