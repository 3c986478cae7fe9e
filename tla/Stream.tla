------------------------------- MODULE Stream -------------------------------
(***************************************************************************)
(* What two ends make of the wire format.  Over UDP, a hello of either     *)
(* side arrives in one piece, or cut off.  Over TCP, after the handshake,  *)
(* the pipe of the server (core/server.go) collects what it reads in       *)
(* Peer.tcpBuffer and takes packets out of it, wherever the stream was cut *)
(* into pieces.  It does so before it unwraps, so that packets can only be *)
(* found when the layers leave them readable: the chain of this connection *)
(* is a DebugLayer, which changes nothing.                                 *)
(***************************************************************************)
EXTENDS Codec

CONSTANTS
    ClientHellos,  \* bound: the hellos of clients,
    ServerHellos,  \* of servers,
    Packets,       \* the packets that are sent,
    Junk,          \* malformed packets, and
    Chains,        \* the chains that RoundTrip tries
    ReadLen,       \* bytes of readBuf (4096)
    MaxSent        \* bound: packets sent over a connection

(* No beginning of it is taken for a packet.                               *)
Malformed(bytes) ==
    \A n \in 0 .. Len(bytes) :
        LET result == ExtractPacket(SubSeq(bytes, 1, n)) IN
        result.completed /\ ~result.err => UnmarshalPacket(result.packet) = Err

ASSUME StreamAssumption ==
    /\ Packets \subseteq Packet
    /\ ClientHellos \subseteq ClientHello
    /\ ServerHellos \subseteq ServerHello
    /\ Junk \subseteq Bytes
    /\ Chains \subseteq Seq(Bytes \ {<<>>})
    /\ ReadLen \in Nat

(* Packets are made by MakePacket, which shortens their addresses, and      *)
(* hellos by NewClientHello and NewServerHello.                            *)
ASSUME MadeAssumption ==
    /\ \A p \in Packets : \A ip \in {p.SrcIP, p.DstIP} : validateIP(ip).ip = ip
    /\ \A hello \in ClientHellos \cup ServerHellos : hello.ProtocolVersion = ProtocolVersion
    /\ \A bytes \in Junk : Malformed(bytes)

VARIABLES
    link,      \* "udp" or "tcp"
    greeting,  \* over UDP: the hello that was sent, what arrived, what was understood
    sent,      \* over TCP: the packets that were sent,
    spoilt,    \*           and whether a malformed one followed
    wire,      \* bytes in the connection
    tcpBuffer, \* Peer.tcpBuffer
    pc,        \* where the pipe is
    received   \* the packets that the server has taken out of the stream

streamVars == <<sent, spoilt, wire, tcpBuffer, pc, received>>
vars == <<link, greeting, streamVars>>

Nothing == [hello |-> Err, arrived |-> <<>>, understood |-> Err]

TypeOK ==
    /\ link \in {"udp", "tcp"}
    /\ greeting.arrived \in Bytes
    /\ sent \in Seq(Packets)
    /\ spoilt \in BOOLEAN
    /\ wire \in Bytes /\ tcpBuffer \in Bytes
    /\ Len(tcpBuffer) < HeaderLength(6) + Base * Base + ReadLen
    /\ pc \in {"read", "extract", "closed"}
    /\ received \in Seq(Packet)

Init ==
    /\ link \in {"udp", "tcp"}
    /\ greeting = Nothing
    /\ sent = <<>>
    /\ spoilt = FALSE
    /\ wire = <<>>
    /\ tcpBuffer = <<>>
    /\ pc = "read"
    /\ received = <<>>

----------------------------------------------------------------------------
(* The hellos: one hello reaches the other side, or the beginning of it.   *)

Greet(hello, arrived, understood) ==
    /\ link = "udp" /\ greeting = Nothing
    /\ greeting' = [hello |-> hello, arrived |-> arrived, understood |-> understood]
    /\ UNCHANGED <<link, streamVars>>

ClientGreets(ch) ==
    LET bytes == MarshalClientHello(ch) IN
    /\ bytes # Err
    /\ \E n \in 0 .. Len(bytes) :
         Greet(ch, SubSeq(bytes, 1, n), UnmarshalClientHello(SubSeq(bytes, 1, n)))

ServerGreets(sh) ==
    LET bytes == MarshalServerHello(sh) IN
    /\ bytes # Err
    /\ \E n \in 0 .. Len(bytes) :
         Greet(sh, SubSeq(bytes, 1, n), UnmarshalServerHello(SubSeq(bytes, 1, n)))

----------------------------------------------------------------------------
(* The stream. *)

(* A client writes a packet; after a malformed one it writes no more.      *)
Send(p) ==
    /\ link = "tcp" /\ ~spoilt
    /\ Len(sent) < MaxSent
    /\ MarshalPacket(p) # Err
    /\ sent' = Append(sent, p)
    /\ wire' = wire \o MarshalPacket(p)
    /\ UNCHANGED <<link, greeting, spoilt, tcpBuffer, pc, received>>

SendJunk(bytes) ==
    /\ link = "tcp" /\ ~spoilt
    /\ spoilt' = TRUE
    /\ wire' = wire \o bytes
    /\ UNCHANGED <<link, greeting, sent, tcpBuffer, pc, received>>

Read ==
    /\ pc = "read"
    /\ \E n \in 1 .. ReadLen :
         /\ n <= Len(wire)
         /\ tcpBuffer' = tcpBuffer \o SubSeq(wire, 1, n)
         /\ wire' = SubSeq(wire, n + 1, Len(wire))
    /\ pc' = "extract"
    /\ UNCHANGED <<link, greeting, sent, spoilt, received>>

(* The loop around ExtractPacket.  A protocol error ends the pipe, and so  *)
(* does a packet that cannot be unmarshalled: the error is logged with the *)
(* fields of a nil packet.                                                 *)
NeedsMore ==
    /\ pc = "extract"
    /\ ~ExtractPacket(tcpBuffer).completed
    /\ pc' = "read"
    /\ UNCHANGED <<link, greeting, sent, spoilt, wire, tcpBuffer, received>>

ProtocolError ==
    /\ pc = "extract"
    /\ LET result == ExtractPacket(tcpBuffer) IN result.completed /\ result.err
    /\ pc' = "closed"
    /\ UNCHANGED <<link, greeting, sent, spoilt, wire, tcpBuffer, received>>

MutantTakePacket ==
    LET result == ExtractPacket(tcpBuffer)
        packet == UnmarshalPacket(result.packet)
    IN  /\ pc = "extract"
        /\ result.completed /\ ~result.err
        /\ IF packet = Err
           THEN pc' = "closed" /\ UNCHANGED received
           ELSE received' = Append(received, packet) /\ UNCHANGED pc
        /\ UNCHANGED <<link, greeting, sent, spoilt, wire, tcpBuffer>>

TakePacket ==
    LET result == ExtractPacket(tcpBuffer)
        packet == UnmarshalPacket(result.packet)
    IN  /\ pc = "extract"
        /\ result.completed /\ ~result.err
        /\ tcpBuffer' = result.remaining
        /\ IF packet = Err
           THEN pc' = "closed" /\ UNCHANGED received
           ELSE received' = Append(received, packet) /\ UNCHANGED pc
        /\ UNCHANGED <<link, greeting, sent, spoilt, wire>>

Pipe == Read \/ NeedsMore \/ ProtocolError \/ TakePacket

Next ==
    \/ \E ch \in ClientHellos : ClientGreets(ch)
    \/ \E sh \in ServerHellos : ServerGreets(sh)
    \/ \E p \in Packets : Send(p)
    \/ \E bytes \in Junk : SendJunk(bytes)
    \/ Pipe

Spec == Init /\ [][Next]_vars

(* The goroutine of the pipe runs, and TCP brings it what was sent.        *)
FairSpec == Spec /\ WF_vars(Pipe)

----------------------------------------------------------------------------
(* Whatever was sent comes out of a datagram as it went in, for every      *)
(* chain: the server unwraps with Wrap, the client with Unwrap.            *)
RoundTrip ==
    \A chain \in Chains :
        sent # <<>> =>
            UnmarshalPacket(Wrap(chain, Wrap(chain, MarshalPacket(Last(sent))))) = Last(sent)

(* A hello is understood as it was meant or, if a part of it is missing,   *)
(* refused.                                                                *)
IsWhole(g) ==
    IF "Chain" \in DOMAIN g.hello
    THEN Len(g.hello.Chain) > 0 /\ g.arrived = MarshalClientHello(g.hello)
    ELSE g.arrived = MarshalServerHello(g.hello)

Meant(hello) ==
    IF "Chain" \in DOMAIN hello THEN hello
    ELSE [hello EXCEPT !.AssignedIP = MappedPrefix \o To4(hello.AssignedIP)]

HelloUnderstood ==
    greeting # Nothing =>
        greeting.understood = IF IsWhole(greeting) THEN Meant(greeting.hello) ELSE Err

(* However the stream is cut into pieces, the server takes the packets out *)
(* of it that were sent, in their order, and nothing else.                 *)
FramesInOrder == IsPrefix(received, sent)

(* Everything that was sent is taken out in the end.                       *)
AllDelivered == \A n \in 1 .. MaxSent : Len(sent) = n ~> Len(received) >= n

(* After a malformed packet the connection is given up.                    *)
JunkCloses == spoilt ~> pc = "closed"
============================================================================
