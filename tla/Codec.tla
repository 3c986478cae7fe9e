------------------------------- MODULE Codec -------------------------------
(***************************************************************************)
(* The wire format: packets (core/netwotk.go), hellos (core/handshake.go)  *)
(* and the layers that wrap them (core/layers.go, layers/ciphers.go), as   *)
(* functions of sequences of bytes.  The sizes are parameters, so that     *)
(* all of a small format can be enumerated; Err stands for the errors.     *)
(***************************************************************************)
EXTENDS Integers, Sequences, SequencesExt

CONSTANTS
    Base,          \* values of a byte (256)
    V4Len, V6Len,  \* bytes of an address (4, 16)
    RsvLen,        \* bytes of Rsv (4)
    RandomLen,     \* bytes of ClientRandom and ServerRandom (32)
    MappedPrefix,  \* what begins an IPv4 address in the form of IPv6
    XorByte(_, _), \* exclusive or of two bytes
    Err

ASSUME FormatAssumption ==
    /\ {Base, V4Len, V6Len, RsvLen, RandomLen} \subseteq Nat
    /\ Base > 6 /\ 0 < V4Len /\ V4Len < V6Len
    /\ MappedPrefix \in Seq(Nat) /\ Len(MappedPrefix) = V6Len - V4Len
    /\ Err \notin Nat

Byte == 0 .. Base - 1
Bytes == Seq(Byte)
Array(n) == [1 .. n -> Byte]
ProtocolVersion == 1

ASSUME XorAssumption ==
    \A a, b, c \in Byte :
        /\ XorByte(a, b) \in Byte
        /\ XorByte(XorByte(a, b), b) = a
        /\ XorByte(XorByte(a, b), c) = XorByte(XorByte(a, c), b)

(* n bytes of data, from the offset.                                       *)
Slice(data, offset, n) == SubSeq(data, offset + 1, offset + n)
At(data, offset) == data[offset + 1]

MutantPutUint16(n) == <<n \div Base, n>>

(* BigEndian.                                                              *)
PutUint16(n) == <<n \div Base, n % Base>>
Uint16(data, offset) == At(data, offset) * Base + At(data, offset + 1)

----------------------------------------------------------------------------
(* Packets.                                                                *)

Packet ==
    [ProtocolVersion : Byte, Type : Byte, AddrType : {4, 6},
     SrcIP : Bytes, DstIP : Bytes, Rsv : Array(RsvLen), Length : Nat, Data : Bytes]

(* validateIP: the version of an address, and its short form.              *)
To4(ip) ==
    IF Len(ip) = V4Len THEN ip
    ELSE IF Len(ip) = V6Len /\ IsPrefix(MappedPrefix, ip) THEN Slice(ip, V6Len - V4Len, V4Len)
    ELSE Err

validateIP(ip) ==
    IF To4(ip) # Err THEN [version |-> 4, ip |-> To4(ip)]
    ELSE IF Len(ip) = V6Len THEN [version |-> 6, ip |-> ip]
    ELSE [version |-> 0, ip |-> Err]

(* MakeDefaultPacket, and with no data the packets of the API.             *)
MakePacket(type, src, dst, rsv, data) ==
    LET s == validateIP(src)
        d == validateIP(dst)
    IN  IF s.version = 0 \/ s.version # d.version THEN Err
        ELSE [ProtocolVersion |-> ProtocolVersion, Type |-> type, AddrType |-> s.version,
              SrcIP |-> s.ip, DstIP |-> d.ip, Rsv |-> rsv,
              Length |-> Len(data) % (Base * Base), Data |-> data]

MarshalPacket(p) ==
    IF /\ p.ProtocolVersion = ProtocolVersion
       /\ p.AddrType \in {4, 6}
       /\ \A ip \in {p.SrcIP, p.DstIP} : validateIP(ip).version = p.AddrType
       /\ Len(p.Data) < Base * Base
       /\ p.Length = Len(p.Data)
    THEN <<p.ProtocolVersion, p.Type, p.AddrType>> \o validateIP(p.SrcIP).ip
         \o validateIP(p.DstIP).ip \o p.Rsv \o PutUint16(p.Length) \o p.Data
    ELSE Err

IpLen(addrType) == IF addrType = 4 THEN V4Len ELSE V6Len
HeaderLength(addrType) == 3 + IpLen(addrType) * 2 + RsvLen + 2

UnmarshalPacket(data) ==
    IF Len(data) < 3 THEN Err
    ELSE IF At(data, 0) # ProtocolVersion \/ At(data, 2) \notin {4, 6} THEN Err
    ELSE LET n == IpLen(At(data, 2))
             h == HeaderLength(At(data, 2))
         IN  IF Len(data) < h THEN Err
             ELSE IF Uint16(data, h - 2) # Len(data) - h THEN Err
             ELSE [ProtocolVersion |-> At(data, 0), Type |-> At(data, 1),
                   AddrType |-> At(data, 2),
                   SrcIP |-> Slice(data, 3, n), DstIP |-> Slice(data, 3 + n, n),
                   Rsv |-> Slice(data, 3 + 2 * n, RsvLen),
                   Length |-> Uint16(data, h - 2), Data |-> Slice(data, h, Len(data) - h)]

MutantFrameLength(buf) ==
    IF Len(buf) < 3 THEN 0
    ELSE LET h == HeaderLength(At(buf, 2)) IN
         IF Len(buf) < h THEN 0 ELSE h + Uint16(buf, h - 2)

(* The length of the packet at the beginning of a stream, 0 while there is *)
(* too little of it, or Err.  (No length exceeds the limit of 10 MB.)      *)
FrameLength(buf) ==
    IF Len(buf) < 3 THEN 0
    ELSE IF At(buf, 2) \notin {4, 6} THEN Err
    ELSE LET h == HeaderLength(At(buf, 2)) IN
         IF Len(buf) < h THEN 0 ELSE h + Uint16(buf, h - 2)

MutantExtractPacket(buf) ==
    LET n == FrameLength(buf) IN
    IF n = Err THEN [completed |-> TRUE, err |-> TRUE]
    ELSE IF n = 0 THEN [completed |-> FALSE]
    ELSE [completed |-> TRUE, err |-> FALSE,
          packet |-> SubSeq(buf, 1, IF n < Len(buf) THEN n ELSE Len(buf)),
          remaining |-> SubSeq(buf, n + 1, Len(buf))]

ExtractPacket(buf) ==
    LET n == FrameLength(buf) IN
    IF n = Err THEN [completed |-> TRUE, err |-> TRUE]
    ELSE IF n = 0 \/ Len(buf) < n THEN [completed |-> FALSE]
    ELSE [completed |-> TRUE, err |-> FALSE, packet |-> SubSeq(buf, 1, n),
          remaining |-> SubSeq(buf, n + 1, Len(buf))]

----------------------------------------------------------------------------
(* Hellos.                                                                 *)

ClientHello ==
    [ProtocolVersion : Byte, ClientRandom : Array(RandomLen), ChainLength : Byte, Chain : Bytes,
     AuthDataLength : Byte, AuthData : Bytes, Rsv : Array(RsvLen)]

ServerHello ==
    [ProtocolVersion : Byte, ServerRandom : Array(RandomLen), ServerResponse : Byte,
     AssignedIP : Bytes, Rsv : Array(RsvLen)]

NewClientHello(random, chain, auth) ==
    [ProtocolVersion |-> ProtocolVersion, ClientRandom |-> random,
     ChainLength |-> Len(chain) % Base, Chain |-> chain,
     AuthDataLength |-> Len(auth) % Base, AuthData |-> auth,
     Rsv |-> [i \in 1 .. RsvLen |-> 0]]

MarshalClientHello(ch) ==
    IF ch.ChainLength = Len(ch.Chain) /\ ch.AuthDataLength = Len(ch.AuthData)
    THEN <<ch.ProtocolVersion>> \o ch.ClientRandom \o <<ch.ChainLength>> \o ch.Chain
         \o <<ch.AuthDataLength>> \o ch.AuthData \o ch.Rsv
    ELSE Err

MutantChainFits(data, n) == n <= Len(data) - (RandomLen + 2) - 1 - RsvLen

(* A chain has to leave room for AuthDataLength and Rsv, and AuthData for  *)
(* Rsv; what follows is left alone.                                        *)
ChainFits(data, n) == 0 < n /\ n <= Len(data) - (RandomLen + 2) - 1 - RsvLen

UnmarshalClientHello(data) ==
    IF Len(data) < 1 + RandomLen + 1 + 1 + RsvLen THEN Err
    ELSE IF At(data, 0) # ProtocolVersion THEN Err
    ELSE LET n == At(data, RandomLen + 1) IN
         IF ~ChainFits(data, n) THEN Err
         ELSE LET o == RandomLen + 2 + n
                  m == At(data, o)
              IN  IF m > Len(data) - (o + 1) - RsvLen THEN Err
                  ELSE [ProtocolVersion |-> ProtocolVersion,
                        ClientRandom |-> Slice(data, 1, RandomLen),
                        ChainLength |-> n, Chain |-> Slice(data, RandomLen + 2, n),
                        AuthDataLength |-> m, AuthData |-> Slice(data, o + 1, m),
                        Rsv |-> Slice(data, o + 1 + m, RsvLen)]

NewServerHello(random, response, ip) ==
    [ProtocolVersion |-> ProtocolVersion, ServerRandom |-> random,
     ServerResponse |-> response, AssignedIP |-> ip, Rsv |-> [i \in 1 .. RsvLen |-> 0]]

MarshalServerHello(sh) ==
    IF To4(sh.AssignedIP) = Err THEN Err
    ELSE <<sh.ProtocolVersion>> \o sh.ServerRandom \o <<sh.ServerResponse>>
         \o To4(sh.AssignedIP) \o sh.Rsv

(* The address is in the form of IPv6, and the client takes its To4.       *)
UnmarshalServerHello(data) ==
    IF Len(data) < 1 + RandomLen + 1 + V4Len + RsvLen THEN Err
    ELSE IF At(data, 0) # ProtocolVersion THEN Err
    ELSE [ProtocolVersion |-> ProtocolVersion, ServerRandom |-> Slice(data, 1, RandomLen),
          ServerResponse |-> At(data, RandomLen + 1),
          AssignedIP |-> MappedPrefix \o Slice(data, RandomLen + 2, V4Len),
          Rsv |-> Slice(data, RandomLen + 2 + V4Len, RsvLen)]

----------------------------------------------------------------------------
(* Layers.  A layer is its key; that of a DebugLayer, which only logs,      *)
(* changes nothing.  A chain is a sequence of layers, and Wrap and Unwrap   *)
(* both go through it from its first layer on.                              *)

DebugLayer == <<0>>

MutantXorLayer(key, data) ==
    [i \in DOMAIN data |-> XorByte(data[i], At(key, (data[1] + i) % Len(key)))]

XorLayer(key, data) == [i \in DOMAIN data |-> XorByte(data[i], At(key, (i - 1) % Len(key)))]

Wrap(chain, data) ==
    LET wrapped[n \in 0 .. Len(chain)] ==
          IF n = 0 THEN data ELSE XorLayer(chain[n], wrapped[n - 1])
    IN  wrapped[Len(chain)]
============================================================================
