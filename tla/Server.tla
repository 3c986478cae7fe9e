------------------------------- MODULE Server -------------------------------
(***************************************************************************)
(* The goroutines of the server that share its table of peers: the UDP     *)
(* pipe, one TCP pipe per connection, and PingLoop, which evicts the peers *)
(* it has not heard from (core/server.go, the server half of               *)
(* core/handshake.go, Server.PacketAPI of core/netwotk.go).                *)
(*                                                                         *)
(* DisconnectPeer acts on a peer only through its address and its virtual  *)
(* address, so a *Peer is the pair of the two.  A step of a goroutine is   *)
(* what it does between two accesses to shared state; a critical section   *)
(* that is a single access is one step, guarded by the lock being free.    *)
(***************************************************************************)
EXTENDS Network

CONSTANTS
    Addrs,        \* UDP addresses clients may send from
    Conns,        \* TCP connections; each has a remote address of its own
    Requests,     \* what clients send once they are registered
    PeerTimeout,  \* Server.PeerTimeout, in ticks
    Watched,      \* the virtual addresses whose routes in Cache are followed
    MaxLost,      \* bound: the handshakes that may fail after Next
    Prompt        \* TRUE: no tick between the two stores of one handshake

ASSUME CallersAreTheHandshakers == Callers = {"udp"} \cup Conns
ASSUME NamesAreDistinct ==
    /\ Addrs \cap Conns = {}
    /\ {"udp", "ping"} \cap (Addrs \cup Conns) = {}
    /\ None \notin Addrs \cup Conns \cup {"udp", "ping"}
ASSUME RequestsAssumption ==
    /\ Requests \subseteq {"data", "ping", "disconnect", "junk"}
    /\ None \notin {"data", "ping", "disconnect", "junk"}
ASSUME PeerTimeoutAssumption == PeerTimeout \in Nat \ {0}
ASSUME WatchedAssumption == Watched \subseteq Lease
ASSUME MaxLostAssumption == MaxLost \in Nat
ASSUME PromptAssumption == Prompt \in BOOLEAN /\ (Conns # {} => Prompt)

VARIABLES
    Peers,     \* Server.Peers: the virtual address registered for an address
    age,       \* ticks since Peer.LastSeen, up to PeerTimeout
    Cache,     \* Server.Cache: the address that packets for a host go to
    mu,        \* the goroutine inside the critical section of DisconnectPeer
    pc,        \* the next access of each goroutine
    at, vip,   \* address and virtual address of the peer it is dealing with
    pkt,       \* the packet it has read
    todo,      \* toRemove of PingLoop: the virtual address, by address
    open,      \* the TCP connections the server has not closed
    phase,     \* "up", "stopped" by Server.Stop, or "crashed"
    lost,      \* history: addresses Next gave to handshakes that then failed
    repeated   \* history: two goroutines have set out to disconnect one peer

peerVars == <<Peers, age>>
localVars == <<at, vip, pkt>>
historyVars == <<lost, repeated>>
vars == <<poolVars, peerVars, Cache, mu, pc, localVars, todo, open, phase, historyVars>>

Sources == Addrs \cup Conns
Goroutines == {"udp", "ping"} \cup Conns
MaybeLease == Lease \cup {None}

Stopping == {"disconnect", "quit", "panic"}
Freeing == {"free", "quitfree", "panicfree"}

Labels ==
    {"idle", "read", "touch", "api", "next", "register", "adopt", "hello",
     "scan", "evict", "sleep", "done"} \cup Stopping \cup Freeing

OwnTypeOK ==
    /\ Peers \in [Sources -> MaybeLease]
    /\ age \in [Sources -> 0 .. PeerTimeout]
    /\ Cache \in [Watched -> Sources \cup {None}]
    /\ mu \in Goroutines \cup {None}
    /\ pc \in [Goroutines -> Labels]
    /\ at \in [Goroutines -> Sources \cup {None}]
    /\ vip \in [Goroutines -> MaybeLease]
    /\ pkt \in [Goroutines -> Requests \cup {None}]
    /\ todo \in [Sources -> MaybeLease]
    /\ open \subseteq Conns
    /\ phase \in {"up", "stopped", "crashed"}
    /\ lost \subseteq Lease
    /\ repeated \in BOOLEAN

TypeOK == PoolTypeOK /\ OwnTypeOK

Init ==
    /\ PoolInit
    /\ Peers = [a \in Sources |-> None]
    /\ age = [a \in Sources |-> 0]
    /\ Cache = [v \in Watched |-> None]
    /\ mu = None
    /\ pc = [g \in Goroutines |-> IF g = "udp" THEN "read"
                                  ELSE IF g = "ping" THEN "scan" ELSE "idle"]
    /\ at = [g \in Goroutines |-> IF g \in Conns THEN g ELSE None]
    /\ vip = [g \in Goroutines |-> None]
    /\ pkt = [g \in Goroutines |-> None]
    /\ todo = [a \in Sources |-> None]
    /\ open = {}
    /\ phase = "up"
    /\ lost = {}
    /\ repeated = FALSE

----------------------------------------------------------------------------
(* Control of one goroutine.  A process that has crashed takes no step. *)

Goto(g, label) ==
    /\ phase # "crashed"
    /\ pc' = [pc EXCEPT ![g] = label]

(* The UDP pipe and PingLoop deal with another peer next; a TCP pipe keeps  *)
(* the peer of its connection.                                              *)
Forget(g) ==
    /\ pkt' = [pkt EXCEPT ![g] = None]
    /\ at' = [at EXCEPT ![g] = IF g \in Conns THEN @ ELSE None]
    /\ vip' = [vip EXCEPT ![g] = IF g \in Conns THEN @ ELSE None]

BackToRead(g) == Goto(g, "read") /\ Forget(g)

(* A failed handshake: the UDP pipe continues with the next datagram, a TCP *)
(* pipe returns and its deferred DisconnectPeer runs.                       *)
GiveUp(g) == Goto(g, IF g \in Conns THEN "quit" ELSE "read") /\ Forget(g)

----------------------------------------------------------------------------
(* Server.Handshake, called by the UDP pipe and by the TCP pipes.  A hello  *)
(* that is refused before Next is called changes nothing and has no action. *)

(* A datagram from an address that is not in Peers; the map is read without *)
(* the lock.                                                                *)
UdpHello(a) ==
    /\ phase = "up"
    /\ pc["udp"] = "read"
    /\ Peers[a] = None
    /\ at' = [at EXCEPT !["udp"] = a]
    /\ Goto("udp", "next")
    /\ Call("udp")
    /\ UNCHANGED <<peerVars, Cache, mu, vip, pkt, todo, open, phase, historyVars>>

TcpHello(c) ==
    /\ pc[c] = "read"
    /\ vip[c] = None
    /\ Goto(c, "next")
    /\ Call(c)
    /\ UNCHANGED <<peerVars, Cache, mu, localVars, todo, open, phase, historyVars>>

HandshakeNext(g) ==
    /\ phase # "crashed"
    /\ pc[g] = "next"
    /\ NextStep(g)
    /\ UNCHANGED <<peerVars, Cache, mu, pc, localVars, todo, open, phase, historyVars>>

HandshakeRefused(g) ==
    /\ pc[g] = "next"
    /\ stage[g] = "full"
    /\ Return(g)
    /\ GiveUp(g)
    /\ UNCHANGED <<peerVars, Cache, mu, todo, open, phase, historyVars>>

(* The session keys, a layer or the write of the answer fails: the address  *)
(* that Next has put in Used is not given back.                             *)
HandshakeFailed(g) ==
    /\ pc[g] = "next"
    /\ stage[g] = "done"
    /\ Cardinality(lost) < MaxLost
    /\ lost' = lost \cup {ip[g]}
    /\ Return(g)
    /\ GiveUp(g)
    /\ UNCHANGED <<peerVars, Cache, mu, todo, open, phase, repeated>>

HandshakeAnswered(g) ==
    /\ pc[g] = "next"
    /\ stage[g] = "done"
    /\ vip' = [vip EXCEPT ![g] = ip[g]]
    /\ Return(g)
    /\ Goto(g, "register")
    /\ UNCHANGED <<peerVars, Cache, mu, at, pkt, todo, open, phase, historyVars>>

Register(g) ==
    /\ pc[g] = "register"
    /\ mu = None
    /\ Peers' = [Peers EXCEPT ![at[g]] = vip[g]]
    /\ age' = [age EXCEPT ![at[g]] = 0]
    /\ Goto(g, "adopt")
    /\ UNCHANGED <<poolVars, Cache, mu, localVars, todo, open, phase, historyVars>>

(* The pipe stores the peer a second time.  If PingLoop has removed it in   *)
(* between, it is back with its old LastSeen.                               *)
UdpAdopt ==
    /\ pc["udp"] = "adopt"
    /\ mu = None
    /\ Peers' = [Peers EXCEPT ![at["udp"]] = vip["udp"]]
    /\ age' = IF Peers[at["udp"]] = None
              THEN [age EXCEPT ![at["udp"]] = PeerTimeout] ELSE age
    /\ BackToRead("udp")
    /\ UNCHANGED <<poolVars, Cache, mu, todo, open, phase, historyVars>>

(* A TCP pipe stores its own peer object, whose LastSeen is the time of the *)
(* accept and is never renewed.                                             *)
TcpAdopt(c) ==
    /\ pc[c] = "adopt"
    /\ mu = None
    /\ Peers' = [Peers EXCEPT ![c] = vip[c]]
    /\ \E t \in 0 .. PeerTimeout : age' = [age EXCEPT ![c] = t]
    /\ Goto(c, "hello")
    /\ UNCHANGED <<poolVars, Cache, mu, localVars, todo, open, phase, historyVars>>

(* The TCP pipe falls through and decodes the hello itself as a packet with *)
(* the new layers.  When that fails in UnmarshalPacket, the log statement   *)
(* reads a nil packet and panics.                                           *)
TcpFallThrough(c) ==
    /\ pc[c] = "hello"
    /\ \E label \in {"read", "panic"} : Goto(c, label)
    /\ UNCHANGED <<poolVars, peerVars, Cache, mu, localVars, todo, open, phase, historyVars>>

----------------------------------------------------------------------------
(* Packets of registered peers. *)

(* Junk, which does not unwrap or unmarshal, is dropped without a trace.    *)
UdpPacket(a, k) ==
    /\ phase = "up"
    /\ pc["udp"] = "read"
    /\ Peers[a] # None
    /\ k # "junk"
    /\ at' = [at EXCEPT !["udp"] = a]
    /\ vip' = [vip EXCEPT !["udp"] = Peers[a]]
    /\ pkt' = [pkt EXCEPT !["udp"] = k]
    /\ Goto("udp", "touch")
    /\ UNCHANGED <<poolVars, peerVars, Cache, mu, todo, open, phase, historyVars>>

(* peer.LastSeen = time.Now(), on an object PingLoop may have removed.      *)
Touch ==
    /\ pc["udp"] = "touch"
    /\ mu = None
    /\ age' = IF Peers[at["udp"]] = vip["udp"]
              THEN [age EXCEPT ![at["udp"]] = 0] ELSE age
    /\ Goto("udp", "api")
    /\ UNCHANGED <<poolVars, Peers, Cache, mu, localVars, todo, open, phase, historyVars>>

MutantTcpPacket(c, k) ==
    /\ pc[c] = "read"
    /\ vip[c] # None
    /\ phase # "crashed"
    /\ age' = [age EXCEPT ![c] = 0]
    /\ UNCHANGED <<poolVars, Peers, Cache, mu, pc, localVars, todo, open, phase, historyVars>>

(* A packet may still be in tcpBuffer when the connection is closed.  Junk  *)
(* panics in the log statement that follows UnmarshalPacket.                *)
TcpPacket(c, k) ==
    /\ pc[c] = "read"
    /\ vip[c] # None
    /\ IF k = "junk"
       THEN Goto(c, "panic") /\ UNCHANGED pkt
       ELSE Goto(c, "api") /\ pkt' = [pkt EXCEPT ![c] = k]
    /\ UNCHANGED <<poolVars, peerVars, Cache, mu, at, vip, todo, open, phase, historyVars>>

MutantForward(g) ==
    /\ pc[g] = "api"
    /\ pkt[g] = "data"
    /\ Cache' = [v \in Watched |-> IF v = vip[g] THEN Cache[v] ELSE at[g]]
    /\ BackToRead(g)
    /\ UNCHANGED <<poolVars, peerVars, mu, todo, open, phase, historyVars>>

(* Interface.Write, and the route back to the sender if it succeeds.        *)
Forward(g) ==
    /\ pc[g] = "api"
    /\ pkt[g] = "data"
    /\ \/ Cache' = [v \in Watched |-> IF v = vip[g] THEN at[g] ELSE Cache[v]]
       \/ UNCHANGED Cache
    /\ BackToRead(g)
    /\ UNCHANGED <<poolVars, peerVars, mu, todo, open, phase, historyVars>>

AnswerPing(g) ==
    /\ pc[g] = "api"
    /\ pkt[g] = "ping"
    /\ BackToRead(g)
    /\ UNCHANGED <<poolVars, peerVars, Cache, mu, todo, open, phase, historyVars>>

(* The table is read without the lock to see whether the peer is in it.     *)
DisconnectRequest(g) ==
    /\ pc[g] = "api"
    /\ pkt[g] = "disconnect"
    /\ IF Peers[at[g]] # None
       THEN Goto(g, "disconnect") /\ UNCHANGED localVars
       ELSE BackToRead(g)
    /\ UNCHANGED <<poolVars, peerVars, Cache, mu, todo, open, phase, historyVars>>

----------------------------------------------------------------------------
(* DisconnectPeer.  It removes whatever is registered at the address of the *)
(* peer and frees the virtual address, without a look at the peer that is   *)
(* registered.  The two maps are changed one after the other, and Used is   *)
(* read without the lock.                                                   *)

AboutToRemove(h, a) ==
    \/ h = "ping" /\ todo[a] # None
    \/ pc[h] \in Stopping /\ at[h] = a

Remove(g) ==
    /\ pc[g] \in Stopping
    /\ mu = None
    /\ mu' = g
    /\ Peers' = [Peers EXCEPT ![at[g]] = None]
    /\ age' = [age EXCEPT ![at[g]] = 0]
    /\ repeated' = (repeated \/ \E h \in Goroutines \ {g} : AboutToRemove(h, at[g]))
    /\ Goto(g, CASE pc[g] = "disconnect" -> "free"
                 [] pc[g] = "quit" -> "quitfree"
                 [] pc[g] = "panic" -> "panicfree")
    /\ UNCHANGED <<poolVars, Cache, localVars, todo, open, phase, lost>>

MutantKeepsAddress(g) ==
    /\ mu = g
    /\ mu' = None
    /\ open' = open \ {at[g]}
    /\ UNCHANGED <<poolVars, peerVars, Cache, todo, phase, historyVars>>

MutantKeepsLock(g) ==
    /\ mu = g
    /\ Release(vip[g])
    /\ open' = open \ {at[g]}
    /\ UNCHANGED <<peerVars, Cache, mu, todo, phase, historyVars>>

MutantRewinds(g) ==
    /\ mu = g
    /\ mu' = None
    /\ Used' = Used \ {vip[g]}
    /\ Current' = IF vip[g] = None THEN Current ELSE vip[g]
    /\ open' = open \ {at[g]}
    /\ UNCHANGED <<stage, ip, seen, peerVars, Cache, todo, phase, historyVars>>

Unlocked(g) ==
    /\ mu = g
    /\ mu' = None
    /\ Release(vip[g])
    /\ open' = open \ {at[g]}
    /\ UNCHANGED <<peerVars, Cache, todo, phase, historyVars>>

Free(g) ==
    /\ pc[g] = "free"
    /\ Goto(g, IF g = "ping" THEN "evict" ELSE "read")
    /\ Forget(g)
    /\ Unlocked(g)

(* The deferred call of a TCP pipe.  After a panic funcSafe runs the pipe   *)
(* once more: it fails to read from the closed connection, returns, and the *)
(* deferred DisconnectPeer runs again.                                      *)
FreeDeferred(g) ==
    /\ pc[g] \in {"quitfree", "panicfree"}
    /\ Goto(g, IF pc[g] = "panicfree" THEN "quit" ELSE "done")
    /\ Unlocked(g)
    /\ UNCHANGED localVars

----------------------------------------------------------------------------
(* TCP connections. *)

Accept(c) ==
    /\ phase = "up"
    /\ pc[c] = "idle"
    /\ open' = open \cup {c}
    /\ Goto(c, "read")
    /\ UNCHANGED <<poolVars, peerVars, Cache, mu, localVars, todo, phase, historyVars>>

MutantTcpEnd(c) ==
    /\ pc[c] = "read"
    /\ Goto(c, "done")
    /\ UNCHANGED <<poolVars, peerVars, Cache, mu, localVars, todo, open, phase, historyVars>>

(* Read fails, because either side has closed the connection, or the stream *)
(* violates the protocol, or the server has been stopped.                   *)
TcpEnd(c) ==
    /\ pc[c] = "read"
    /\ Goto(c, "quit")
    /\ UNCHANGED <<poolVars, peerVars, Cache, mu, localVars, todo, open, phase, historyVars>>

----------------------------------------------------------------------------
(* PingLoop. *)

MutantSilentNever(a) == Peers[a] # None /\ age[a] > PeerTimeout

MutantSilentAlways(a) == Peers[a] # None

Silent(a) == Peers[a] # None /\ age[a] >= PeerTimeout

Scan ==
    /\ phase = "up"
    /\ pc["ping"] = "scan"
    /\ mu = None
    /\ todo' = [a \in Sources |-> IF Silent(a) THEN Peers[a] ELSE None]
    /\ Goto("ping", "evict")
    /\ UNCHANGED <<poolVars, peerVars, Cache, mu, localVars, open, phase, historyVars>>

Evict(a) ==
    /\ pc["ping"] = "evict"
    /\ todo[a] # None
    /\ todo' = [todo EXCEPT ![a] = None]
    /\ at' = [at EXCEPT !["ping"] = a]
    /\ vip' = [vip EXCEPT !["ping"] = todo[a]]
    /\ Goto("ping", "disconnect")
    /\ UNCHANGED <<poolVars, peerVars, Cache, mu, pkt, open, phase, historyVars>>

Sleep ==
    /\ pc["ping"] = "evict"
    /\ \A a \in Sources : todo[a] = None
    /\ Goto("ping", "sleep")
    /\ UNCHANGED <<poolVars, peerVars, Cache, mu, localVars, todo, open, phase, historyVars>>

Wake ==
    /\ pc["ping"] = "sleep"
    /\ Goto("ping", "scan")
    /\ UNCHANGED <<poolVars, peerVars, Cache, mu, localVars, todo, open, phase, historyVars>>

----------------------------------------------------------------------------
(* The clock, the expiry of routes, and the end of the process. *)

Tick ==
    /\ phase = "up"
    /\ \E a \in Sources : Peers[a] # None /\ age[a] < PeerTimeout
    /\ Prompt => \A g \in Goroutines : pc[g] # "adopt"
    /\ age' = [a \in Sources |-> IF Peers[a] # None /\ age[a] < PeerTimeout
                                 THEN age[a] + 1 ELSE age[a]]
    /\ UNCHANGED <<poolVars, Peers, Cache, mu, pc, localVars, todo, open, phase, historyVars>>

Expire(v) ==
    /\ phase # "crashed"
    /\ Cache[v] # None
    /\ Cache' = [Cache EXCEPT ![v] = None]
    /\ UNCHANGED <<poolVars, peerVars, mu, pc, localVars, todo, open, phase, historyVars>>

(* Server.Stop tells nobody: it sends the disconnect packet of a peer only  *)
(* when making it has failed, and for a registered peer it never fails.     *)
Stop ==
    /\ phase = "up"
    /\ mu = None
    /\ phase' = "stopped"
    /\ UNCHANGED <<poolVars, peerVars, Cache, mu, pc, localVars, todo, open, historyVars>>

LoopEnd(g) ==
    /\ phase = "stopped"
    /\ \/ g = "udp" /\ pc[g] = "read"
       \/ g = "ping" /\ pc[g] = "scan"
    /\ Goto(g, "done")
    /\ UNCHANGED <<poolVars, peerVars, Cache, mu, localVars, todo, open, phase, historyVars>>

(* The maps are read, and Used is also written, without the lock.  The Go   *)
(* runtime ends the process when it detects an access concurrent with a     *)
(* write.                                                                   *)
WritesPeers(g) == mu = None /\ pc[g] \in Stopping \cup {"register", "adopt"}

ReadsPeers(g) ==
    \/ g = "udp" /\ pc[g] = "read" /\ phase = "up"
    \/ pc[g] = "api" /\ pkt[g] = "disconnect"

WritesUsed(g) == mu = g \/ (g \in Callers /\ stage[g] = "insert")

ReadsUsed(g) == g \in Callers /\ stage[g] \in {"lookup", "insert"}

MapRace ==
    /\ phase # "crashed"
    /\ \E g \in Goroutines : \E h \in Goroutines \ {g} :
           \/ WritesPeers(g) /\ ReadsPeers(h)
           \/ WritesUsed(g) /\ ReadsUsed(h)
    /\ phase' = "crashed"
    /\ UNCHANGED <<poolVars, peerVars, Cache, mu, pc, localVars, todo, open, historyVars>>

----------------------------------------------------------------------------
HandshakeStep(g) ==
    \/ HandshakeNext(g)
    \/ HandshakeRefused(g)
    \/ HandshakeFailed(g)
    \/ HandshakeAnswered(g)
    \/ Register(g)

PacketStep(g) == Forward(g) \/ AnswerPing(g) \/ DisconnectRequest(g)

DisconnectStep(g) == Remove(g) \/ Free(g) \/ FreeDeferred(g)

UdpStep ==
    \/ HandshakeStep("udp")
    \/ UdpAdopt
    \/ Touch
    \/ PacketStep("udp")
    \/ DisconnectStep("udp")

TcpStep(c) ==
    \/ HandshakeStep(c)
    \/ TcpAdopt(c)
    \/ TcpFallThrough(c)
    \/ PacketStep(c)
    \/ DisconnectStep(c)

PingStep ==
    \/ Scan
    \/ \E a \in Sources : Evict(a)
    \/ Sleep
    \/ Wake
    \/ DisconnectStep("ping")

(* What clients and the network do. *)
Arrival ==
    \/ \E a \in Addrs : UdpHello(a) \/ \E k \in Requests : UdpPacket(a, k)
    \/ \E c \in Conns : Accept(c) \/ TcpHello(c) \/ TcpEnd(c)
                        \/ \E k \in Requests : TcpPacket(c, k)

(* A server that is no longer up may rest. *)
Rest == phase # "up" /\ UNCHANGED vars

Next ==
    \/ Arrival
    \/ UdpStep
    \/ \E c \in Conns : TcpStep(c)
    \/ PingStep
    \/ Tick
    \/ \E v \in Watched : Expire(v)
    \/ Stop
    \/ \E g \in Goroutines : LoopEnd(g)
    \/ MapRace
    \/ Rest

Spec == Init /\ [][Next]_vars

(* Every goroutine that can take its next step does, in the end, and time   *)
(* passes.  Reading from a connection the server has closed fails once the  *)
(* bytes that were already in the buffer are used up, hence the strong      *)
(* fairness of TcpEnd.                                                      *)
Fairness ==
    /\ WF_vars(UdpStep)
    /\ WF_vars(PingStep)
    /\ \A c \in Conns :
          /\ WF_vars(TcpStep(c))
          /\ SF_vars(c \notin open /\ TcpEnd(c))
    /\ WF_vars(Tick)

FairSpec == Spec /\ Fairness

----------------------------------------------------------------------------
Registered == {a \in Sources : Peers[a] # None}

Leased == {Peers[a] : a \in Registered}

(* The addresses a goroutine has taken from the pool and not yet registered, *)
(* or has unregistered and not yet given back.                               *)
InHand(g) ==
    IF g \in Callers /\ stage[g] \in {"load", "store", "done"} THEN {ip[g]} \ {None}
    ELSE IF pc[g] \in Freeing \cup {"register"} THEN {vip[g]} \ {None} ELSE {}

(* No two peers are registered with the same virtual address, although Next *)
(* runs without a lock and DisconnectPeer frees addresses by value.         *)
AddressesExclusive ==
    \A a, b \in Registered : Peers[a] = Peers[b] => a = b

(* Every address the pool believes used is accounted for: it is registered, *)
(* in the hands of one goroutine, or lost to a failed handshake; and every  *)
(* one of those is marked used, so that Next cannot hand it out again.      *)
Accounting ==
    Used = {Alias, NetworkIP} \cup Leased \cup lost \cup UNION {InHand(g) : g \in Goroutines}

(* The two above, for servers whose clients say goodbye: they hold as long  *)
(* as no peer has been disconnected twice (by its own request and by a      *)
(* PingLoop that had already listed it).                                    *)
SoundUnlessRepeated == ~repeated => AddressesExclusive /\ Accounting

(* The server the shipped clients meet: they use UDP only and never say     *)
(* goodbye, because the test around their disconnect packet is inverted.    *)
DatagramsOnly == Conns = {} /\ Prompt

UdpOnly == DatagramsOnly /\ "disconnect" \notin Requests

(* Why the two hold for datagrams, as long as nothing is repeated.          *)
(* HeldByUdp and HeldByPing are the addresses the two goroutines have in    *)
(* hand; UdpInv says where each goroutine can be, that the peers PingLoop   *)
(* has listed and the peer the UDP pipe has found are still registered, and *)
(* that no address is in two places.                                        *)
HeldByUdp ==
    IF stage["udp"] \in {"load", "store", "done"} THEN ip["udp"]
    ELSE IF pc["udp"] \in {"register", "free"} THEN vip["udp"] ELSE None

HeldByPing == IF pc["ping"] = "free" THEN vip["ping"] ELSE None

UdpControl ==
    /\ pc["udp"] \in {"read", "touch", "api", "next", "register", "adopt", "disconnect",
                      "free", "done"}
    /\ pc["ping"] \in {"scan", "evict", "sleep", "disconnect", "free", "done"}
    /\ pc["ping"] = "free" <=> mu = "ping"
    /\ pc["udp"] = "free" <=> mu = "udp"
    /\ pc["udp"] # "next" => stage["udp"] = "out"
    /\ stage["udp"] \in {"out", "length", "lookup", "full"} => ip["udp"] = None
    /\ stage["udp"] = "insert" => ip["udp"] \notin Used
    /\ pc["udp"] \in {"next", "register", "adopt"} => at["udp"] \in Sources
    /\ pc["udp"] \in {"next", "register"} => Peers[at["udp"]] = None
    /\ pc["udp"] \in {"register", "adopt"} => vip["udp"] \in Lease

ListedStillRegistered ==
    /\ \A a \in Sources : todo[a] # None => todo[a] = Peers[a]
    /\ pc["ping"] = "disconnect" =>
           /\ at["ping"] \in Sources
           /\ vip["ping"] \in Lease
           /\ Peers[at["ping"]] = vip["ping"]
           /\ todo[at["ping"]] = None
    /\ pc["ping"] = "free" =>
           /\ at["ping"] \in Sources
           /\ vip["ping"] \in Lease
    /\ pc["udp"] = "adopt" =>
           /\ Peers[at["udp"]] = vip["udp"]
           /\ age[at["udp"]] = 0
           /\ todo[at["udp"]] = None
           /\ pc["ping"] = "disconnect" => at["ping"] # at["udp"]

(* A peer that PingLoop has evicted since the pipe found it is gone, and    *)
(* nobody else is registered at its address.                                *)
FoundStillRegistered ==
    pc["udp"] \in {"touch", "api", "disconnect", "free"} =>
        /\ at["udp"] \in Sources
        /\ vip["udp"] \in Lease
        /\ pc["udp"] \in {"touch", "api"} => Peers[at["udp"]] \in {vip["udp"], None}
        /\ pc["udp"] = "disconnect" => Peers[at["udp"]] = vip["udp"]

OnePlaceEach ==
    /\ \A a, b \in Sources : Peers[a] # None /\ Peers[a] = Peers[b] => a = b
    /\ \A a \in Sources :
          Peers[a] # None => Peers[a] \notin lost \cup {HeldByUdp, HeldByPing}
    /\ HeldByUdp \notin lost /\ HeldByPing \notin lost
    /\ HeldByUdp # None => HeldByUdp # HeldByPing

UsedAreHeld ==
    \A v \in Lease :
        v \in Used <=> \/ v \in lost \cup {HeldByUdp, HeldByPing}
                     \/ \E a \in Sources : Peers[a] = v

UdpInv ==
    /\ UdpControl
    /\ ListedStillRegistered
    /\ FoundStillRegistered
    /\ OnePlaceEach
    /\ UsedAreHeld

(* A route is never set to lead to one address while the virtual address    *)
(* it is for is registered for another, although the pipe uses a peer it    *)
(* has looked up before and PingLoop may have evicted since.                *)
RouteNotStolen ==
    [][\A v \in Watched :
         Cache'[v] # Cache[v] /\ Cache'[v] # None =>
             \A a \in Sources : Peers[a] = v => a = Cache'[v]]_vars

(* The network address is never given away, whatever is disconnected how    *)
(* often, and the pool never grows more than one entry per TCP connection   *)
(* beyond its limit.                                                        *)
PoolGuarded ==
    /\ {Alias, NetworkIP} \subseteq Used
    /\ Bounded
    /\ NetworkIP \notin Leased

(* When the goroutine of a TCP connection has ended, the connection is      *)
(* closed and no peer is left in the table, however the goroutine ended and *)
(* whoever else disconnected the peer meanwhile.                            *)
TcpCleanedUp == \A c \in Conns : pc[c] = "done" => Peers[c] = None /\ c \notin open

(* A peer that stays silent for PeerTimeout is evicted and its address      *)
(* freed, unless it is heard from before PingLoop gets to it.               *)
SilentPeerReleased ==
    \A a \in Sources, v \in Lease :
        Peers[a] = v /\ age[a] = PeerTimeout ~>
            v \notin Used \/ (Peers[a] = v /\ age[a] < PeerTimeout) \/ phase # "up"

(* The UDP pipe serves all clients in turn: a handshake it has started, with *)
(* its search for an address, always comes to an end.                        *)
HandshakeEnds == pc["udp"] = "next" ~> pc["udp"] = "read" \/ phase = "crashed"

(* Once the server has closed a connection, by an eviction, the goroutine   *)
(* that serves it ends, and does so outside every critical section.         *)
ClosedPipeEnds ==
    \A c \in Conns :
        pc[c] # "idle" /\ c \notin open ~> (pc[c] = "done" /\ mu # c) \/ phase = "crashed"

(* A TCP peer is disconnected PeerTimeout after it has connected, however   *)
(* much it sends: nothing renews its LastSeen.                              *)
TcpPeerExpires ==
    \A c \in Conns : Peers[c] # None ~> Peers[c] = None \/ phase # "up"

----------------------------------------------------------------------------
(* The promise of AddressLease, read from the state of the server.          *)
leaseOf ==
    [v \in Lease |->
        IF v \in lost THEN "lost"
        ELSE IF v \in Leased THEN "held"
        ELSE IF \E g \in Goroutines : pc[g] \in Freeing /\ vip[g] = v THEN "closing"
        ELSE IF v \in Used THEN "offered" ELSE "free"]

holderOf ==
    [v \in Lease |->
        IF v \in Leased THEN CHOOSE a \in Registered : Peers[a] = v ELSE None]

Promise == INSTANCE AddressLease WITH
    Addresses <- Lease, Clients <- Sources, Nobody <- None,
    lease <- leaseOf, holder <- holderOf

(* Every run of the server is a run of AddressLease.                        *)
KeepsPromise == Promise!LeaseSpec

(* Every run of the server uses the pool as PoolSpec says.                  *)
UsesPool == PoolSpec
============================================================================
