---------------------------- MODULE CodecProofs ----------------------------
(***************************************************************************)
(* What the wire format of Codec promises, for every size of its fields    *)
(* and any bytes: what ExtractPacket takes from a stream, that parsing     *)
(* inverts marshalling and refuses what is cut off, and that a chain of    *)
(* layers undoes itself.                                                   *)
(***************************************************************************)
EXTENDS Codec, SequenceTheorems, WellFoundedInduction, TLAPS

(* The longest packet is shorter than this.                                *)
FrameLimit == HeaderLength(6) + Base * Base

LEMMA Sizes ==
    /\ Base \in Nat /\ V4Len \in Nat /\ V6Len \in Nat /\ RsvLen \in Nat
    /\ Base * Base \in Nat
    /\ \A t \in Nat : /\ HeaderLength(t) \in Nat /\ HeaderLength(t) >= 5
                      /\ HeaderLength(t) <= HeaderLength(6)
    /\ HeaderLength(6) \in Nat /\ FrameLimit \in Nat /\ FrameLimit >= HeaderLength(6)
    /\ Byte \subseteq Nat
<1>1. Base \in Nat /\ V4Len \in Nat /\ V6Len \in Nat /\ RsvLen \in Nat /\ V4Len < V6Len
    BY FormatAssumption
<1>2. Base * Base \in Nat
    BY <1>1
<1>3. \A t \in Nat : IpLen(t) \in Nat /\ IpLen(t) <= V6Len
    BY <1>1 DEF IpLen
<1>4. IpLen(6) = V6Len
    BY DEF IpLen
<1>5. ASSUME NEW t \in Nat
      PROVE  HeaderLength(t) \in Nat /\ HeaderLength(t) >= 5 /\ HeaderLength(t) <= HeaderLength(6)
    BY <1>1, <1>3, <1>4 DEF HeaderLength
<1>6. HeaderLength(6) \in Nat
    BY <1>5
<1>7. \A a, b \in Nat : a + b \in Nat /\ a + b >= a
    OBVIOUS
<1>8. FrameLimit \in Nat /\ FrameLimit >= HeaderLength(6)
    BY <1>2, <1>6, <1>7 DEF FrameLimit
<1>9. Byte \subseteq Nat
    BY <1>1 DEF Byte
<1> QED
    BY <1>1, <1>2, <1>5, <1>6, <1>8, <1>9

LEMMA LengthField ==
    ASSUME NEW buf \in Bytes, NEW n \in Nat, n + 2 <= Len(buf)
    PROVE  Uint16(buf, n) \in Nat /\ Uint16(buf, n) < Base * Base
<1>1. n + 1 \in 1 .. Len(buf) /\ n + 2 \in 1 .. Len(buf)
    BY DEF Bytes
<1>2. buf[n + 1] \in Byte /\ buf[n + 2] \in Byte
    BY <1>1 DEF Bytes
<1>3. ASSUME NEW a \in Byte, NEW b \in Byte PROVE a * Base + b \in Nat /\ a * Base + b < Base * Base
  <2>1. a \in Nat /\ b \in Nat /\ a <= Base - 1 /\ b <= Base - 1 /\ Base \in Nat
      BY Sizes DEF Byte
  <2>2. a * Base <= (Base - 1) * Base
      BY <2>1
  <2>3. (Base - 1) * Base = Base * Base - Base
      BY <2>1
  <2> QED
      BY <2>1, <2>2, <2>3
<1>4. (n + 1) + 1 = n + 2
    OBVIOUS
<1> QED
    BY <1>2, <1>3, <1>4 DEF Uint16, At

(* A frame has a length below the limit, and is complete once that many    *)
(* bytes are there.                                                        *)
LEMMA FrameLengthBounds ==
    ASSUME NEW buf \in Bytes
    PROVE  /\ FrameLength(buf) # Err => FrameLength(buf) \in Nat /\ FrameLength(buf) < FrameLimit
           /\ FrameLength(buf) = 0 => Len(buf) < FrameLimit
<1> DEFINE t == At(buf, 2)
           h == HeaderLength(t)
<1>1. Len(buf) \in Nat
    BY DEF Bytes
<1>2. CASE Len(buf) < 3
  <2>1. FrameLength(buf) = 0
      BY <1>2 DEF FrameLength
  <2>2. FrameLimit >= 5
      BY Sizes
  <2> QED
      BY <1>1, <1>2, <2>1, <2>2, Sizes
<1>3. CASE Len(buf) >= 3 /\ t \notin {4, 6}
  <2>1. FrameLength(buf) = Err
      BY <1>1, <1>3 DEF FrameLength
  <2> QED
      BY <2>1, FormatAssumption
<1>4. CASE Len(buf) >= 3 /\ t \in {4, 6} /\ Len(buf) < h
  <2>1. FrameLength(buf) = 0
      BY <1>1, <1>4 DEF FrameLength
  <2>2. h \in Nat /\ h <= HeaderLength(6) /\ h >= 5
      BY <1>4, Sizes
  <2>3. Len(buf) < FrameLimit /\ 0 < FrameLimit
      BY <1>1, <1>4, <2>2, Sizes
  <2> QED
      BY <2>1, <2>3
<1>5. CASE Len(buf) >= 3 /\ t \in {4, 6} /\ Len(buf) >= h
  <2>1. h \in Nat /\ h <= HeaderLength(6) /\ h >= 5
      BY <1>5, Sizes
  <2>2. FrameLength(buf) = h + Uint16(buf, h - 2)
      BY <1>1, <1>5, <2>1 DEF FrameLength
  <2>3. h - 2 \in Nat /\ (h - 2) + 2 <= Len(buf)
      BY <1>1, <1>5, <2>1
  <2>4. Uint16(buf, h - 2) \in Nat /\ Uint16(buf, h - 2) < Base * Base
      BY <2>3, LengthField
  <2>5. ASSUME NEW a \in Nat, NEW b \in Nat, a <= HeaderLength(6), a >= 5, b < Base * Base
        PROVE  a + b \in Nat /\ a + b < FrameLimit /\ a + b # 0
      BY <2>5, Sizes DEF FrameLimit
  <2> HIDE DEF h
  <2>6. h + Uint16(buf, h - 2) \in Nat /\ h + Uint16(buf, h - 2) < FrameLimit
        /\ h + Uint16(buf, h - 2) # 0
      BY <2>1, <2>4, <2>5
  <2> QED
      BY <2>2, <2>6
<1>6. h \in Nat \/ t \notin {4, 6}
    BY Sizes
<1> HIDE DEF t, h
<1> QED
    BY <1>1, <1>2, <1>3, <1>4, <1>5, <1>6

(* ExtractPacket loses nothing and adds nothing: what it returns and what it
   leaves in the buffer are together what it got, cut at the length that the
   header says; and it always makes progress.                              *)
THEOREM ExtractSplits ==
    ASSUME NEW buf \in Bytes,
           ExtractPacket(buf).completed, ~ExtractPacket(buf).err
    PROVE  /\ ExtractPacket(buf).packet \in Bytes
           /\ ExtractPacket(buf).remaining \in Bytes
           /\ ExtractPacket(buf).packet \o ExtractPacket(buf).remaining = buf
           /\ Len(ExtractPacket(buf).packet) = FrameLength(buf)
           /\ Len(ExtractPacket(buf).remaining) < Len(buf)
<1> DEFINE n == FrameLength(buf)
<1>1. Len(buf) \in Nat
    BY DEF Bytes
<1>2. n # Err /\ n # 0 /\ ~(Len(buf) < n)
  <2>1. CASE n = Err
    <3>1. ExtractPacket(buf) = [completed |-> TRUE, err |-> TRUE]
        BY <2>1, Zenon DEF ExtractPacket
    <3>2. ExtractPacket(buf).err = TRUE
        BY <3>1
    <3> QED
        BY <3>2, Zenon
  <2>2. CASE n # Err /\ (n = 0 \/ Len(buf) < n)
    <3>1. ExtractPacket(buf) = [completed |-> FALSE]
        BY <2>2, Zenon DEF ExtractPacket
    <3>2. ExtractPacket(buf).completed = FALSE
        BY <3>1
    <3> QED
        BY <3>2, Zenon
  <2> QED
      BY <2>1, <2>2
<1>3. n \in Nat
    BY <1>2, FrameLengthBounds
<1>4. /\ ExtractPacket(buf).packet = SubSeq(buf, 1, n)
      /\ ExtractPacket(buf).remaining = SubSeq(buf, n + 1, Len(buf))
    BY <1>2 DEF ExtractPacket
<1> HIDE DEF n
<1>5. n \in 1 .. Len(buf)
    BY <1>1, <1>2, <1>3
<1>6. /\ SubSeq(buf, 1, n) \in Bytes /\ SubSeq(buf, n + 1, Len(buf)) \in Bytes
      /\ Len(SubSeq(buf, 1, n)) = n /\ Len(SubSeq(buf, n + 1, Len(buf))) = Len(buf) - n
    BY <1>1, <1>5 DEF Bytes
<1>7. SubSeq(buf, 1, n) \o SubSeq(buf, n + 1, Len(buf)) = buf
    BY <1>1, <1>5 DEF Bytes
<1>8. Len(buf) - n < Len(buf)
    BY <1>1, <1>5
<1>9. n = FrameLength(buf)
    BY DEF n
<1> QED
    BY <1>4, <1>6, <1>7, <1>8, <1>9

(* As long as there is no complete packet, there is less than the limit.   *)
LEMMA IncompleteIsShort ==
    ASSUME NEW buf \in Bytes, ~ExtractPacket(buf).completed
    PROVE  Len(buf) < FrameLimit
<1>1. FrameLength(buf) # Err /\ (FrameLength(buf) = 0 \/ Len(buf) < FrameLength(buf))
  <2> DEFINE n == FrameLength(buf)
  <2>1. CASE n = Err
    <3>1. ExtractPacket(buf) = [completed |-> TRUE, err |-> TRUE]
        BY <2>1, Zenon DEF ExtractPacket
    <3>2. ExtractPacket(buf).completed = TRUE
        BY <3>1
    <3> QED
        BY <3>2, Zenon
  <2>2. CASE n # Err /\ n # 0 /\ ~(Len(buf) < n)
    <3>1. ExtractPacket(buf) =
            [completed |-> TRUE, err |-> FALSE, packet |-> SubSeq(buf, 1, n),
             remaining |-> SubSeq(buf, n + 1, Len(buf))]
        BY <2>2, Zenon DEF ExtractPacket
    <3>2. ExtractPacket(buf).completed = TRUE
        BY <3>1
    <3> QED
        BY <3>2, Zenon
  <2> QED
      BY <2>1, <2>2
<1>2. Len(buf) \in Nat
    BY DEF Bytes
<1> QED
    BY <1>1, <1>2, FrameLengthBounds, Sizes

LEMMA SliceOfBytes ==
    ASSUME NEW data \in Bytes, NEW o \in Nat, NEW n \in Nat, o + n <= Len(data)
    PROVE  /\ Slice(data, o, n) \in Bytes
           /\ Slice(data, o, n) \in Array(n)
           /\ Len(Slice(data, o, n)) = n
           /\ \A i \in 1 .. n : Slice(data, o, n)[i] = data[o + i]
<1>1. Len(data) \in Nat
    BY DEF Bytes
<1>2. \A i \in o + 1 .. o + n : data[i] \in Byte
    BY <1>1 DEF Bytes
<1>3. /\ Slice(data, o, n) \in Bytes
      /\ Len(Slice(data, o, n)) = n
      /\ \A i \in 1 .. n : Slice(data, o, n)[i] = data[o + i]
  <2>1. /\ SubSeq(data, o + 1, o + n) \in Seq(Byte)
        /\ Len(SubSeq(data, o + 1, o + n)) = IF o + 1 <= o + n THEN o + n - (o + 1) + 1 ELSE 0
        /\ \A i \in 1 .. o + n - (o + 1) + 1 :
              SubSeq(data, o + 1, o + n)[i] = data[o + 1 + i - 1]
      BY <1>2, SubSeqProperties
  <2> DEFINE x == SubSeq(data, o + 1, o + n)
  <2>2. x = Slice(data, o, n)
      BY DEF Slice
  <2> HIDE DEF x
  <2>3. Len(x) = n
      BY <2>1 DEF x
  <2>4. \A i \in 1 .. n : x[i] = data[o + i]
    <3>1. \A i \in 1 .. n : i \in 1 .. o + n - (o + 1) + 1 /\ o + 1 + i - 1 = o + i
        OBVIOUS
    <3> QED
        BY <2>1, <3>1 DEF x
  <2>5. x \in Bytes
      BY <2>1 DEF x, Bytes
  <2> QED
      BY <2>2, <2>3, <2>4, <2>5
<1>4. Slice(data, o, n) \in Array(n)
    BY <1>3 DEF Array, Bytes
<1> QED
    BY <1>3, <1>4

(* A packet that is accepted is well-formed.                               *)
LEMMA UnmarshalIsPacket ==
    ASSUME NEW data \in Bytes, UnmarshalPacket(data) # Err
    PROVE  UnmarshalPacket(data) \in Packet
<1> DEFINE t == At(data, 2)
           n == IpLen(t)
           h == HeaderLength(t)
           packet == [ProtocolVersion |-> At(data, 0), Type |-> At(data, 1), AddrType |-> t,
                      SrcIP |-> Slice(data, 3, n), DstIP |-> Slice(data, 3 + n, n),
                      Rsv |-> Slice(data, 3 + 2 * n, RsvLen),
                      Length |-> Uint16(data, h - 2), Data |-> Slice(data, h, Len(data) - h)]
<1>1. Len(data) \in Nat
    BY DEF Bytes
<1>2. Len(data) >= 3 /\ t \in {4, 6} /\ Len(data) >= h
  <2>1. ~(Len(data) < 3) /\ ~(At(data, 0) # ProtocolVersion \/ t \notin {4, 6})
        /\ ~(Len(data) < h)
      BY Zenon DEF UnmarshalPacket
  <2>2. h \in Nat
      BY <2>1, Sizes
  <2> HIDE DEF h, t
  <2> QED
      BY <1>1, <2>1, <2>2
<1>3. UnmarshalPacket(data) = packet
    BY Zenon DEF UnmarshalPacket
<1>4. h \in Nat /\ h >= 5 /\ n \in Nat /\ RsvLen \in Nat /\ h = 3 + n * 2 + RsvLen + 2
    BY <1>2, Sizes DEF HeaderLength, IpLen
<1>5. At(data, 0) \in Byte /\ At(data, 1) \in Byte
    BY <1>1, <1>2 DEF At, Bytes
<1> HIDE DEF t, n, h
<1>6. /\ Slice(data, 3, n) \in Bytes /\ Slice(data, 3 + n, n) \in Bytes
      /\ Slice(data, 3 + 2 * n, RsvLen) \in Array(RsvLen) /\ Slice(data, h, Len(data) - h) \in Bytes
  <2>1. /\ 3 + n <= Len(data) /\ (3 + n) + n <= Len(data)
        /\ (3 + 2 * n) + RsvLen <= Len(data) /\ h + (Len(data) - h) <= Len(data)
        /\ 3 + n \in Nat /\ 3 + 2 * n \in Nat /\ Len(data) - h \in Nat
      BY <1>1, <1>2, <1>4
  <2> QED
      BY <1>4, <2>1, SliceOfBytes
<1>7. Uint16(data, h - 2) \in Nat
  <2>1. h - 2 \in Nat /\ (h - 2) + 2 <= Len(data)
      BY <1>1, <1>2, <1>4
  <2> QED
      BY <2>1, LengthField
<1> QED
    BY <1>2, <1>3, <1>5, <1>6, <1>7 DEF Packet, Bytes

----------------------------------------------------------------------------
(* What is marshalled is made of bytes. *)

LEMMA ArrayIsBytes ==
    ASSUME NEW n \in Nat, NEW a \in Array(n)
    PROVE  a \in Bytes /\ Len(a) = n
BY DEF Array, Bytes

LEMMA LengthBytes ==
    ASSUME NEW n \in Nat, n < Base * Base
    PROVE  PutUint16(n) \in Bytes
<1>1. Base \in Nat /\ Base > 0
    BY FormatAssumption
<1> DEFINE q == n \div Base
           r == n % Base
<1>2. r \in Nat /\ r < Base
    BY <1>1
<1>3. q \in Nat /\ n = Base * q + r
    BY <1>1
<1>4. q < Base
  <2> HIDE DEF q, r
  <2>1. SUFFICES ASSUME q >= Base PROVE FALSE
      BY <1>1, <1>3
  <2>2. Base * q >= Base * Base
      BY <1>1, <1>3, <2>1
  <2>3. Base * q \in Nat /\ Base * Base \in Nat
      BY <1>1, <1>3
  <2> QED
      BY <1>2, <1>3, <2>2, <2>3
<1>5. q \in Byte /\ r \in Byte
  <2> HIDE DEF q, r
  <2> QED
      BY <1>1, <1>2, <1>3, <1>4 DEF Byte
<1>6. <<q, r>> \in Bytes
  <2> HIDE DEF q, r
  <2> QED
      BY <1>5 DEF Bytes
<1> QED
    BY <1>6 DEF PutUint16

(* The short form of an address is as long as one of IPv4.                  *)
LEMMA ShortForm ==
    ASSUME NEW ip \in Bytes, To4(ip) # Err
    PROVE  To4(ip) \in Bytes /\ Len(To4(ip)) = V4Len
<1>1. V6Len - V4Len \in Nat /\ (V6Len - V4Len) + V4Len = V6Len /\ V4Len \in Nat
    BY FormatAssumption
<1>2. CASE Len(ip) = V4Len
    BY <1>2 DEF To4
<1>3. CASE Len(ip) # V4Len
    <2>1. Len(ip) = V6Len /\ To4(ip) = Slice(ip, V6Len - V4Len, V4Len)
        BY <1>3 DEF To4
    <2> QED BY <1>1, <2>1, SliceOfBytes
<1> QED BY <1>2, <1>3

(* The address that a packet carries is made of the bytes of the one given. *)
LEMMA AddressBytes ==
    ASSUME NEW ip \in Bytes, validateIP(ip).version \in {4, 6}
    PROVE  validateIP(ip).ip \in Bytes
<1>2. To4(ip) # Err => To4(ip) \in Bytes
    BY ShortForm
<1>3. CASE To4(ip) # Err
    BY <1>2, <1>3 DEF validateIP
<1>4. CASE To4(ip) = Err /\ Len(ip) = V6Len
    BY <1>4 DEF validateIP
<1>5. CASE To4(ip) = Err /\ Len(ip) # V6Len
  <2>1. validateIP(ip) = [version |-> 0, ip |-> Err]
      BY <1>5 DEF validateIP
  <2> QED
      BY <2>1
<1> QED
    BY <1>3, <1>4, <1>5

LEMMA SmallBytes == {0, 1, 2, 3, 4, 5, 6} \subseteq Byte
BY FormatAssumption DEF Byte

(* What is sent is made of bytes.                                          *)
LEMMA PacketBytes ==
    ASSUME NEW p \in Packet, MarshalPacket(p) # Err
    PROVE  MarshalPacket(p) \in Bytes
<1> DEFINE src == validateIP(p.SrcIP).ip
           dst == validateIP(p.DstIP).ip
<1>2. /\ p.AddrType \in {4, 6} /\ p.Length = Len(p.Data) /\ Len(p.Data) < Base * Base
      /\ \A ip \in {p.SrcIP, p.DstIP} : validateIP(ip).version = p.AddrType
      /\ MarshalPacket(p) = <<p.ProtocolVersion, p.Type, p.AddrType>> \o src \o dst
                            \o p.Rsv \o PutUint16(p.Length) \o p.Data
    BY Zenon DEF MarshalPacket
<1>3. /\ p.ProtocolVersion \in Byte /\ p.Type \in Byte /\ p.Length \in Nat
      /\ p.SrcIP \in Bytes /\ p.DstIP \in Bytes /\ p.Rsv \in Bytes /\ p.Data \in Bytes
    BY ArrayIsBytes, FormatAssumption DEF Packet, Bytes
<1>4. p.AddrType \in Byte
    BY <1>2, SmallBytes
<1>5. <<p.ProtocolVersion, p.Type, p.AddrType>> \in Bytes
    BY <1>3, <1>4 DEF Bytes
<1>6. src \in Bytes /\ dst \in Bytes
    BY <1>2, <1>3, AddressBytes
<1>7. PutUint16(p.Length) \in Bytes
    BY <1>2, <1>3, LengthBytes
<1> HIDE DEF src, dst
<1> QED
    BY <1>2, <1>3, <1>5, <1>6, <1>7, ConcatProperties DEF Bytes

LEMMA ClientHelloBytes ==
    ASSUME NEW ch \in ClientHello, MarshalClientHello(ch) # Err
    PROVE  MarshalClientHello(ch) \in Bytes
<1>2. MarshalClientHello(ch) =
        <<ch.ProtocolVersion>> \o ch.ClientRandom \o <<ch.ChainLength>> \o ch.Chain
        \o <<ch.AuthDataLength>> \o ch.AuthData \o ch.Rsv
    BY Zenon DEF MarshalClientHello
<1>3. /\ <<ch.ProtocolVersion>> \in Bytes /\ <<ch.ChainLength>> \in Bytes
      /\ <<ch.AuthDataLength>> \in Bytes /\ ch.ClientRandom \in Bytes
      /\ ch.Chain \in Bytes /\ ch.AuthData \in Bytes /\ ch.Rsv \in Bytes
    BY ArrayIsBytes, FormatAssumption DEF ClientHello, Bytes
<1> QED
    BY <1>2, <1>3, ConcatProperties DEF Bytes

LEMMA ServerHelloBytes ==
    ASSUME NEW sh \in ServerHello, MarshalServerHello(sh) # Err
    PROVE  MarshalServerHello(sh) \in Bytes
<1>2. To4(sh.AssignedIP) # Err
    BY Zenon DEF MarshalServerHello
<1>3. MarshalServerHello(sh) =
        <<sh.ProtocolVersion>> \o sh.ServerRandom \o <<sh.ServerResponse>>
        \o To4(sh.AssignedIP) \o sh.Rsv
    BY Zenon DEF MarshalServerHello
<1>4. /\ <<sh.ProtocolVersion>> \in Bytes /\ <<sh.ServerResponse>> \in Bytes
      /\ sh.ServerRandom \in Bytes /\ sh.AssignedIP \in Bytes /\ sh.Rsv \in Bytes
    BY ArrayIsBytes, FormatAssumption DEF ServerHello, Bytes
<1>5. validateIP(sh.AssignedIP) = [version |-> 4, ip |-> To4(sh.AssignedIP)]
    BY <1>2 DEF validateIP
<1>6. To4(sh.AssignedIP) \in Bytes
    BY <1>4, <1>5, AddressBytes
<1> QED
    BY <1>3, <1>4, <1>6, ConcatProperties DEF Bytes

----------------------------------------------------------------------------
(* Parts of what is marshalled. *)

(* The beginning of a concatenation is the first part, and the rest of it   *)
(* the second.                                                              *)
Joined(c, a, b) ==
    /\ c \in Bytes
    /\ Len(c) = Len(a) + Len(b)
    /\ \A o, n \in Nat : o + n <= Len(a) => Slice(c, o, n) = Slice(a, o, n)
    /\ Slice(c, Len(a), Len(b)) = b
    /\ \A i \in 1 .. Len(a) : c[i] = a[i]

LEMMA Parts ==
    ASSUME NEW a \in Bytes, NEW b \in Bytes
    PROVE  Joined(a \o b, a, b)
<1>1. /\ a \o b \in Bytes
      /\ Len(a \o b) = Len(a) + Len(b)
      /\ \A i \in 1 .. Len(a) + Len(b) :
            (a \o b)[i] = IF i <= Len(a) THEN a[i] ELSE b[i - Len(a)]
    BY ConcatProperties DEF Bytes
<1>2. Len(a) \in Nat /\ Len(b) \in Nat
    BY DEF Bytes
<1> HIDE DEF Bytes
<1>3. ASSUME NEW o \in Nat, NEW n \in Nat, o + n <= Len(a)
      PROVE  Slice(a \o b, o, n) = Slice(a, o, n)
    <2> DEFINE x == Slice(a \o b, o, n)
               y == Slice(a, o, n)
    <2>1. /\ x \in Bytes /\ Len(x) = n
          /\ \A i \in 1 .. n : x[i] = (a \o b)[o + i]
        <3> DEFINE c == a \o b
        <3>1. c \in Bytes /\ o + n <= Len(c)
            BY <1>1, <1>2, <1>3
        <3> HIDE DEF c
        <3>2. /\ Slice(c, o, n) \in Bytes /\ Len(Slice(c, o, n)) = n
              /\ \A i \in 1 .. n : Slice(c, o, n)[i] = c[o + i]
            BY <3>1, SliceOfBytes
        <3> QED BY <3>2 DEF c
    <2>2. /\ y \in Bytes /\ Len(y) = n
          /\ \A i \in 1 .. n : y[i] = a[o + i]
        BY <1>3, SliceOfBytes
    <2>3. \A i \in 1 .. n : o + i \in 1 .. Len(a) + Len(b) /\ o + i <= Len(a)
        BY <1>2, <1>3
    <2>4. \A i \in 1 .. n : x[i] = y[i]
        BY <1>1, <2>1, <2>2, <2>3
    <2> HIDE DEF x, y
    <2>5. x = y
        BY <2>1, <2>2, <2>4, SeqEqual DEF Bytes
    <2> QED BY <2>5 DEF x, y
<1>4. Slice(a \o b, Len(a), Len(b)) = b
    <2> DEFINE x == Slice(a \o b, Len(a), Len(b))
    <2>1. /\ x \in Bytes /\ Len(x) = Len(b)
          /\ \A i \in 1 .. Len(b) : x[i] = (a \o b)[Len(a) + i]
        <3> DEFINE c == a \o b
                   k == Len(a)
                   n == Len(b)
        <3>1. c \in Bytes /\ k \in Nat /\ n \in Nat /\ k + n <= Len(c)
            BY <1>1, <1>2
        <3> HIDE DEF c, k, n
        <3>2. /\ Slice(c, k, n) \in Bytes /\ Len(Slice(c, k, n)) = n
              /\ \A i \in 1 .. n : Slice(c, k, n)[i] = c[k + i]
            BY <3>1, SliceOfBytes
        <3> QED BY <3>2 DEF c, k, n
    <2>2. \A i \in 1 .. Len(b) : x[i] = b[i]
        BY <1>1, <1>2, <2>1
    <2> HIDE DEF x
    <2>3. x = b
        BY <2>1, <2>2, SeqEqual DEF Bytes
    <2> QED BY <2>3 DEF x
<1>5. \A i \in 1 .. Len(a) : (a \o b)[i] = a[i]
    BY <1>1, <1>2
<1> QED BY <1>1, <1>3, <1>4, <1>5 DEF Joined

(* A slice that lies in the beginning that has arrived is that of all.      *)
LEMMA SliceOfBeginning ==
    ASSUME NEW data \in Bytes, NEW k \in 0 .. Len(data)
    PROVE  /\ SubSeq(data, 1, k) \in Bytes
           /\ Len(SubSeq(data, 1, k)) = k
           /\ \A i \in Nat : i < k => At(SubSeq(data, 1, k), i) = At(data, i)
           /\ \A o, n \in Nat : o + n <= k =>
                 Slice(SubSeq(data, 1, k), o, n) = Slice(data, o, n)
<1> DEFINE x == Slice(data, 0, k)
<1>1. Len(data) \in Nat /\ k \in Nat /\ 0 + k <= Len(data)
    BY DEF Bytes
<1>2. SubSeq(data, 1, k) = x
    BY <1>1 DEF Slice
<1>3. x \in Bytes /\ Len(x) = k /\ \A i \in 1 .. k : x[i] = data[0 + i]
    BY <1>1, SliceOfBytes
<1>4. \A i \in 1 .. k : x[i] = data[i]
    BY <1>1, <1>3
<1> HIDE DEF x
<1>5. \A i \in Nat : i < k => At(x, i) = At(data, i)
    BY <1>1, <1>4 DEF At
<1>6. ASSUME NEW o \in Nat, NEW n \in Nat, o + n <= k
      PROVE  Slice(x, o, n) = Slice(data, o, n)
    <2> DEFINE y == Slice(x, o, n)
               z == Slice(data, o, n)
    <2>1. /\ y \in Bytes /\ Len(y) = n
          /\ \A i \in 1 .. n : y[i] = x[o + i]
        BY <1>3, <1>6, SliceOfBytes
    <2>2. /\ z \in Bytes /\ Len(z) = n
          /\ \A i \in 1 .. n : z[i] = data[o + i]
        BY <1>1, <1>6, SliceOfBytes
    <2>3. \A i \in 1 .. n : y[i] = z[i]
        BY <1>1, <1>4, <1>6, <2>1, <2>2
    <2> HIDE DEF y, z
    <2>4. y = z
        BY <2>1, <2>2, <2>3, SeqEqual DEF Bytes
    <2> QED BY <2>4 DEF y, z
<1> QED BY <1>2, <1>3, <1>5, <1>6

LEMMA OneByte ==
    ASSUME NEW b \in Byte
    PROVE  <<b>> \in Bytes /\ Len(<<b>>) = 1
BY DEF Bytes

(* The bytes of a length are its length.                                    *)
LEMMA LengthIsRead ==
    ASSUME NEW n \in Nat, n < Base * Base
    PROVE  /\ PutUint16(n) \in Bytes /\ Len(PutUint16(n)) = 2
           /\ PutUint16(n)[1] * Base + PutUint16(n)[2] = n
<1>1. Base \in Nat /\ Base > 0
    BY FormatAssumption
<1> DEFINE q == n \div Base
           r == n % Base
<1>2. q \in Nat /\ r \in Nat /\ n = Base * q + r
    BY <1>1
<1>3. PutUint16(n) = <<q, r>>
    BY DEF PutUint16
<1> HIDE DEF q, r
<1>4. q * Base + r = n
    BY <1>1, <1>2
<1> QED BY <1>3, <1>4, LengthBytes

----------------------------------------------------------------------------
(* Parsing inverts marshalling. *)

(* The addresses of a packet are in their short form: MakePacket sees to it *)
(* (and marshalling to the version).                                        *)
Short(p) == \A ip \in {p.SrcIP, p.DstIP} : validateIP(ip).ip = ip

LEMMA ShortAddress ==
    ASSUME NEW t \in {4, 6}, NEW ip \in Bytes,
           validateIP(ip).version = t, validateIP(ip).ip = ip
    PROVE  Len(ip) = IpLen(t)
<1>1. V4Len \in Nat /\ V6Len \in Nat /\ (V6Len - V4Len) + V4Len = V6Len /\ V6Len - V4Len \in Nat
    BY FormatAssumption
<1>2. CASE To4(ip) # Err
    <2>1. validateIP(ip) = [version |-> 4, ip |-> To4(ip)]
        BY <1>2 DEF validateIP
    <2>2. t = 4 /\ To4(ip) = ip
        BY <2>1
    <2>3. CASE Len(ip) = V4Len
        BY <2>2, <2>3 DEF IpLen
    <2>4. CASE Len(ip) # V4Len
        <3>1. Len(ip) = V6Len /\ To4(ip) = Slice(ip, V6Len - V4Len, V4Len)
            BY <1>2, <2>4 DEF To4
        <3>2. Len(Slice(ip, V6Len - V4Len, V4Len)) = V4Len
            BY <1>1, <3>1, SliceOfBytes
        <3> QED BY <2>2, <2>4, <3>1, <3>2
    <2> QED BY <2>3, <2>4
<1>3. CASE To4(ip) = Err /\ Len(ip) = V6Len
    <2>1. validateIP(ip) = [version |-> 6, ip |-> ip]
        BY <1>3 DEF validateIP
    <2> QED BY <1>3, <2>1 DEF IpLen
<1>4. CASE To4(ip) = Err /\ Len(ip) # V6Len
    <2>1. validateIP(ip) = [version |-> 0, ip |-> Err]
        BY <1>4 DEF validateIP
    <2> QED BY <2>1
<1> QED BY <1>2, <1>3, <1>4

(* Where the fields of a packet are among its bytes.                        *)
LEMMA PacketParts ==
    ASSUME NEW p \in Packet, MarshalPacket(p) # Err, Short(p)
    PROVE  LET m == MarshalPacket(p)
               n == IpLen(p.AddrType)
               h == HeaderLength(p.AddrType)
           IN  /\ p.AddrType \in {4, 6} /\ p.ProtocolVersion = ProtocolVersion
               /\ p.Length = Len(p.Data) /\ Len(p.Data) \in Nat
               /\ m \in Bytes /\ Len(m) = h + Len(p.Data)
               /\ n \in Nat /\ h \in Nat /\ h = 3 + n * 2 + RsvLen + 2
               /\ At(m, 0) = p.ProtocolVersion /\ At(m, 1) = p.Type /\ At(m, 2) = p.AddrType
               /\ Slice(m, 3, n) = p.SrcIP /\ Slice(m, 3 + n, n) = p.DstIP
               /\ Slice(m, 3 + 2 * n, RsvLen) = p.Rsv
               /\ Uint16(m, h - 2) = Len(p.Data)
               /\ Slice(m, h, Len(p.Data)) = p.Data
<1> DEFINE n == IpLen(p.AddrType)
           h == HeaderLength(p.AddrType)
           s1 == <<p.ProtocolVersion, p.Type, p.AddrType>>
           s2 == s1 \o p.SrcIP
           s3 == s2 \o p.DstIP
           s4 == s3 \o p.Rsv
           size == PutUint16(p.Length)
           s5 == s4 \o size
           m == s5 \o p.Data
<1>1. /\ p.AddrType \in {4, 6} /\ p.Length = Len(p.Data) /\ Len(p.Data) < Base * Base
      /\ p.ProtocolVersion = ProtocolVersion
      /\ \A ip \in {p.SrcIP, p.DstIP} : validateIP(ip).version = p.AddrType
      /\ MarshalPacket(p) = <<p.ProtocolVersion, p.Type, p.AddrType>> \o validateIP(p.SrcIP).ip
                            \o validateIP(p.DstIP).ip \o p.Rsv \o PutUint16(p.Length) \o p.Data
    BY Zenon DEF MarshalPacket
<1>2. MarshalPacket(p) = m
    BY <1>1 DEF Short
<1>3. /\ p.ProtocolVersion \in Byte /\ p.Type \in Byte /\ p.AddrType \in Byte
      /\ p.SrcIP \in Bytes /\ p.DstIP \in Bytes /\ p.Rsv \in Bytes /\ p.Data \in Bytes
      /\ Len(p.Rsv) = RsvLen /\ p.Length \in Nat
    BY <1>1, ArrayIsBytes, FormatAssumption, SmallBytes DEF Packet, Bytes
<1>4. Len(p.SrcIP) = n /\ Len(p.DstIP) = n
    BY <1>1, <1>3, ShortAddress DEF Short
<1>5. n \in Nat /\ RsvLen \in Nat /\ Len(p.Data) \in Nat /\ h = 3 + n * 2 + RsvLen + 2
    BY <1>1, <1>3, Sizes DEF IpLen, HeaderLength, Bytes
<1>6. /\ s1 \in Bytes /\ Len(s1) = 3
      /\ s1[1] = p.ProtocolVersion /\ s1[2] = p.Type /\ s1[3] = p.AddrType
    BY <1>3 DEF Bytes
<1>7. /\ size \in Bytes /\ Len(size) = 2 /\ size[1] * Base + size[2] = Len(p.Data)
    BY <1>1, <1>3, LengthIsRead
<1> HIDE DEF n, h, s1, size
<1>8. /\ s2 \in Bytes /\ Len(s2) = 3 + n
      /\ Slice(s2, 3, n) = p.SrcIP
      /\ \A i \in 1 .. 3 : s2[i] = s1[i]
    <2>1. Joined(s2, s1, p.SrcIP)
        BY <1>3, <1>6, Parts
    <2> QED BY <1>4, <1>6, <2>1 DEF Joined
<1> HIDE DEF s2
<1>9. /\ s3 \in Bytes /\ Len(s3) = 3 + n + n
      /\ \A a, b \in Nat : a + b <= 3 + n => Slice(s3, a, b) = Slice(s2, a, b)
      /\ Slice(s3, 3 + n, n) = p.DstIP
      /\ \A i \in 1 .. 3 + n : s3[i] = s2[i]
    <2>1. Joined(s3, s2, p.DstIP)
        BY <1>3, <1>4, <1>8, Parts
    <2> QED BY <1>4, <1>8, <2>1 DEF Joined
<1> HIDE DEF s3
<1>10. /\ s4 \in Bytes /\ Len(s4) = 3 + n + n + RsvLen
       /\ \A a, b \in Nat : a + b <= 3 + n + n => Slice(s4, a, b) = Slice(s3, a, b)
       /\ Slice(s4, 3 + n + n, RsvLen) = p.Rsv
       /\ \A i \in 1 .. 3 + n + n : s4[i] = s3[i]
    <2>1. Joined(s4, s3, p.Rsv)
        BY <1>3, <1>9, Parts
    <2> QED BY <1>3, <1>9, <2>1 DEF Joined
<1> HIDE DEF s4
<1>11. /\ s5 \in Bytes /\ Len(s5) = 3 + n + n + RsvLen + 2
       /\ \A a, b \in Nat : a + b <= 3 + n + n + RsvLen => Slice(s5, a, b) = Slice(s4, a, b)
       /\ Slice(s5, 3 + n + n + RsvLen, 2) = size
       /\ \A i \in 1 .. 3 + n + n + RsvLen : s5[i] = s4[i]
    <2>1. Joined(s5, s4, size)
        BY <1>7, <1>10, Parts
    <2> QED BY <1>7, <1>10, <2>1 DEF Joined
<1> HIDE DEF s5
<1>12. /\ m \in Bytes /\ Len(m) = h + Len(p.Data)
       /\ \A a, b \in Nat : a + b <= h => Slice(m, a, b) = Slice(s5, a, b)
       /\ Slice(m, h, Len(p.Data)) = p.Data
       /\ \A i \in 1 .. h : m[i] = s5[i]
    <2>1. Len(s5) = h
        BY <1>5, <1>11
    <2>2. Joined(m, s5, p.Data)
        BY <1>3, <1>11, Parts
    <2> QED BY <2>1, <2>2 DEF Joined
<1> HIDE DEF m
<1>13. At(m, 0) = p.ProtocolVersion /\ At(m, 1) = p.Type /\ At(m, 2) = p.AddrType
    <2>1. \A i \in 1 .. 3 : m[i] = s1[i]
        <3>1. \A i \in 1 .. 3 : /\ i \in 1 .. 3 + n
                                /\ i \in 1 .. 3 + n + n
                                /\ i \in 1 .. 3 + n + n + RsvLen
                                /\ i \in 1 .. h
            BY <1>5
        <3> QED BY <1>8, <1>9, <1>10, <1>11, <1>12, <3>1
    <2> QED BY <1>6, <2>1 DEF At
<1>14. Slice(m, 3, n) = p.SrcIP
    <2>1. 3 + n <= h /\ 3 + n <= 3 + n + n /\ 3 + n <= 3 + n + n + RsvLen /\ 3 \in Nat
        BY <1>5
    <2> QED BY <1>5, <1>8, <1>9, <1>10, <1>11, <1>12, <2>1
<1>15. Slice(m, 3 + n, n) = p.DstIP
    <2> DEFINE o == 3 + n
    <2>1. o \in Nat /\ o + n <= 3 + n + n /\ o + n <= 3 + n + n + RsvLen /\ o + n <= h
        BY <1>5
    <2>2. Slice(s3, o, n) = p.DstIP
        BY <1>9
    <2> HIDE DEF o
    <2>3. Slice(s4, o, n) = p.DstIP
        BY <1>5, <1>10, <2>1, <2>2
    <2>4. Slice(s5, o, n) = p.DstIP
        BY <1>5, <1>11, <2>1, <2>3
    <2>5. Slice(m, o, n) = p.DstIP
        BY <1>5, <1>12, <2>1, <2>4
    <2> QED BY <2>5 DEF o
<1>16. Slice(m, 3 + 2 * n, RsvLen) = p.Rsv
    <2> DEFINE o == 3 + n + n
    <2>1. /\ o \in Nat /\ o = 3 + 2 * n
          /\ o + RsvLen <= 3 + n + n + RsvLen /\ o + RsvLen <= h
        BY <1>5
    <2>2. Slice(s4, o, RsvLen) = p.Rsv
        BY <1>10
    <2> HIDE DEF o
    <2>3. Slice(s5, o, RsvLen) = p.Rsv
        BY <1>5, <1>11, <2>1, <2>2
    <2>4. Slice(m, o, RsvLen) = p.Rsv
        BY <1>5, <1>12, <2>1, <2>3
    <2> QED BY <2>1, <2>4
<1>17. Uint16(m, h - 2) = Len(p.Data)
    <2> DEFINE o == 3 + n + n + RsvLen
    <2>1. o \in Nat /\ o + 2 = h /\ h - 2 = o
        BY <1>5
    <2> HIDE DEF o
    <2>2. Slice(m, o, 2) = size
        <3>1. Slice(s5, o, 2) = size
            BY <1>11 DEF o
        <3>2. o + 2 <= h /\ 2 \in Nat
            BY <1>5, <2>1
        <3>3. Slice(m, o, 2) = Slice(s5, o, 2)
            BY <1>12, <2>1, <3>2
        <3> QED BY <3>1, <3>3
    <2>3. \A i \in 1 .. 2 : Slice(m, o, 2)[i] = m[o + i]
        <3>1. o + 2 <= Len(m)
            <4>1. Len(m) = h + Len(p.Data) /\ Len(p.Data) \in Nat
                BY <1>5, <1>12
            <4> QED BY <2>1, <4>1
        <3>2. \A l \in Nat : o + l <= Len(m) =>
                 \A i \in 1 .. l : Slice(m, o, l)[i] = m[o + i]
            BY <1>12, <2>1, SliceOfBytes
        <3> QED BY <3>1, <3>2
    <2>4. m[o + 1] = size[1] /\ m[o + 2] = size[2]
        BY <2>2, <2>3
    <2>5. (o + 1) + 1 = o + 2
        BY <2>1
    <2> QED BY <1>7, <2>1, <2>4, <2>5 DEF Uint16, At
<1>18. h \in Nat
    BY <1>5
<1> QED
    BY <1>1, <1>2, <1>5, <1>12, <1>13, <1>14, <1>15, <1>16, <1>17, <1>18 DEF n, h

(* What UnmarshalPacket makes of the bytes of a packet is the packet.       *)
THEOREM UnmarshalInverts ==
    ASSUME NEW p \in Packet, MarshalPacket(p) # Err, Short(p)
    PROVE  UnmarshalPacket(MarshalPacket(p)) = p
<1> DEFINE m == MarshalPacket(p)
           n == IpLen(p.AddrType)
           h == HeaderLength(p.AddrType)
           q == [ProtocolVersion |-> At(m, 0), Type |-> At(m, 1), AddrType |-> At(m, 2),
                 SrcIP |-> Slice(m, 3, n), DstIP |-> Slice(m, 3 + n, n),
                 Rsv |-> Slice(m, 3 + 2 * n, RsvLen),
                 Length |-> Uint16(m, h - 2), Data |-> Slice(m, h, Len(m) - h)]
<1>1. /\ p.AddrType \in {4, 6} /\ p.ProtocolVersion = ProtocolVersion
      /\ p.Length = Len(p.Data) /\ Len(p.Data) \in Nat
      /\ Len(m) = h + Len(p.Data)
      /\ n \in Nat /\ h \in Nat /\ h = 3 + n * 2 + RsvLen + 2
      /\ At(m, 0) = p.ProtocolVersion /\ At(m, 1) = p.Type /\ At(m, 2) = p.AddrType
      /\ Slice(m, 3, n) = p.SrcIP /\ Slice(m, 3 + n, n) = p.DstIP
      /\ Slice(m, 3 + 2 * n, RsvLen) = p.Rsv
      /\ Uint16(m, h - 2) = Len(p.Data)
      /\ Slice(m, h, Len(p.Data)) = p.Data
    BY PacketParts
<1>2. h >= 5
    BY <1>1, Sizes
<1>3. UnmarshalPacket(m) =
         IF Len(m) < 3 THEN Err
         ELSE IF At(m, 0) # ProtocolVersion \/ At(m, 2) \notin {4, 6} THEN Err
         ELSE IF Len(m) < h THEN Err
         ELSE IF Uint16(m, h - 2) # Len(m) - h THEN Err
         ELSE q
    BY <1>1 DEF UnmarshalPacket
<1> HIDE DEF m, n, h, q
<1>4. ~(Len(m) < 3) /\ ~(Len(m) < h) /\ Len(m) - h = Len(p.Data)
    BY <1>1, <1>2
<1>5. UnmarshalPacket(m) = q
    BY <1>1, <1>3, <1>4
<1>6. q = p
    BY <1>1, <1>4 DEF q, Packet
<1> QED BY <1>5, <1>6 DEF m

(* What follows a beginning is the same if the whole is.  (Then, as a name, *)
(* keeps the provers from expanding concatenations.)                        *)
Then(a, b) == a \o b

LEMMA SameBeginning ==
    ASSUME NEW a \in Bytes, NEW b \in Bytes, NEW c \in Bytes, NEW d \in Bytes,
           Then(Then(a, b), c) = Then(a, d)
    PROVE  Then(b, c) = d
<1>1. \A x, y, z \in Seq(Byte) : Then(Then(x, y), z) = Then(x, Then(y, z))
    BY ConcatAssociative DEF Then
<1>2. \A y, z \in Seq(Byte) : Then(y, z) \in Seq(Byte)
    BY ConcatProperties DEF Then
<1>3. \A s, t, v \in Seq(Byte) : s \o t = s \o v => t = v
    BY ConcatSimplifications, Zenon
<1>4. \A s, t, v \in Seq(Byte) : Then(s, t) = Then(s, v) => t = v
    BY <1>3, Zenon DEF Then
<1>5. a \in Seq(Byte) /\ b \in Seq(Byte) /\ c \in Seq(Byte) /\ d \in Seq(Byte)
    BY DEF Bytes
<1>6. Then(a, Then(b, c)) = Then(a, d) /\ Then(b, c) \in Seq(Byte)
    BY <1>1, <1>2, <1>5
<1> QED BY <1>4, <1>5, <1>6

(* In a stream that begins with a packet, ExtractPacket finds this packet   *)
(* as soon as all of it is in the buffer, whatever follows, and leaves the  *)
(* rest; and it waits until then.                                           *)
THEOREM FrameFound ==
    ASSUME NEW p \in Packet, MarshalPacket(p) # Err, Short(p),
           NEW buf \in Bytes, NEW wire \in Bytes, NEW rest \in Bytes,
           Then(buf, wire) = Then(MarshalPacket(p), rest)
    PROVE  /\ ExtractPacket(buf).completed <=> Len(buf) >= Len(MarshalPacket(p))
           /\ ExtractPacket(buf).completed =>
                 /\ ~ExtractPacket(buf).err
                 /\ ExtractPacket(buf).packet = MarshalPacket(p)
                 /\ Then(ExtractPacket(buf).remaining, wire) = rest
<1> DEFINE m == MarshalPacket(p)
           h == HeaderLength(p.AddrType)
           len == Len(p.Data)
<1>1. /\ p.AddrType \in {4, 6} /\ len \in Nat
      /\ m \in Bytes /\ Len(m) = h + len
      /\ h \in Nat
      /\ At(m, 2) = p.AddrType
      /\ Uint16(m, h - 2) = len
    BY PacketParts
<1>2. h >= 5
    BY <1>1, Sizes
<1> HIDE DEF m, h, len
<1>3. Len(buf) \in Nat /\ Len(wire) \in Nat /\ Len(rest) \in Nat
    BY DEF Bytes
<1>4. ASSUME NEW i \in Nat, i < Len(buf), i < Len(m) PROVE At(buf, i) = At(m, i)
    <2>1. Joined(Then(buf, wire), buf, wire) /\ Joined(Then(m, rest), m, rest)
        BY <1>1, Parts DEF Then
    <2>2. i + 1 \in 1 .. Len(buf) /\ i + 1 \in 1 .. Len(m)
        BY <1>1, <1>3, <1>4
    <2>3. Then(buf, wire)[i + 1] = buf[i + 1] /\ Then(m, rest)[i + 1] = m[i + 1]
        BY <2>1, <2>2 DEF Joined
    <2> QED BY <2>3 DEF At, m
<1>5. FrameLength(buf) = IF Len(buf) < h THEN 0 ELSE h + len
    <2>1. CASE Len(buf) < 3
        BY <1>2, <1>1, <1>3, <2>1 DEF FrameLength
    <2>2. CASE Len(buf) >= 3
        <3>1. 2 < Len(buf) /\ 2 < Len(m)
            BY <1>1, <1>2, <1>3, <2>2
        <3>2. At(buf, 2) = p.AddrType
            BY <1>1, <1>4, <3>1
        <3>3. FrameLength(buf) = IF Len(buf) < h THEN 0 ELSE h + Uint16(buf, h - 2)
            BY <1>1, <1>3, <2>2, <3>2 DEF FrameLength, h
        <3>4. ASSUME Len(buf) >= h PROVE Uint16(buf, h - 2) = len
            <4> DEFINE o == h - 2
            <4>1. /\ o \in Nat /\ o + 1 \in Nat
                  /\ o < Len(buf) /\ o < Len(m) /\ o + 1 < Len(buf) /\ o + 1 < Len(m)
                BY <1>1, <1>2, <1>3, <3>4
            <4>2. At(buf, o) = At(m, o) /\ At(buf, o + 1) = At(m, o + 1)
                <5> HIDE DEF o
                <5> QED BY <1>4, <4>1
            <4> QED BY <1>1, <4>2 DEF Uint16
        <3> QED BY <1>1, <1>3, <3>3, <3>4
    <2> QED BY <1>3, <2>1, <2>2
<1>6. CASE Len(buf) < Len(m)
    <2>1. FrameLength(buf) # Err /\ (FrameLength(buf) = 0 \/ Len(buf) < FrameLength(buf))
        BY <1>1, <1>5, <1>6, FormatAssumption
    <2>2. ExtractPacket(buf) = [completed |-> FALSE]
        BY <2>1, Zenon DEF ExtractPacket
    <2>3. ExtractPacket(buf).completed = FALSE
        BY <2>2
    <2>4. ~(Len(buf) >= Len(m))
        BY <1>1, <1>3, <1>6
    <2> QED BY <2>3, <2>4, Zenon DEF m
<1>7. CASE Len(buf) >= Len(m)
    <2> DEFINE k == Len(m)
               packet == SubSeq(buf, 1, k)
               remaining == SubSeq(buf, k + 1, Len(buf))
    <2>1. /\ FrameLength(buf) = k
          /\ FrameLength(buf) # Err /\ FrameLength(buf) # 0 /\ ~(Len(buf) < FrameLength(buf))
        BY <1>1, <1>2, <1>3, <1>5, <1>7, FormatAssumption, SMTT(30)
    <2>2. ExtractPacket(buf) = [completed |-> TRUE, err |-> FALSE, packet |-> packet,
                                remaining |-> remaining]
        BY <2>1 DEF ExtractPacket
    <2>3. /\ ExtractPacket(buf).completed = TRUE /\ ExtractPacket(buf).err = FALSE
          /\ ExtractPacket(buf).packet = packet
          /\ ExtractPacket(buf).remaining = remaining
        <3> HIDE DEF packet, remaining
        <3> QED BY <2>2
    <2>4. k \in 0 .. Len(buf) /\ k \in Nat
        BY <1>1, <1>3, <1>7
    <2>5. packet \in Bytes /\ Len(packet) = k /\ \A i \in Nat : i < k => At(packet, i) = At(buf, i)
        <3> HIDE DEF k
        <3> QED BY <2>4, SliceOfBeginning
    <2>6. packet = m
        <3>1. \A i \in Nat : i < k => At(packet, i) = At(m, i)
            BY <1>1, <1>3, <1>4, <1>7, <2>5
        <3>2. ASSUME NEW i \in 1 .. k PROVE packet[i] = m[i]
            <4>1. i - 1 \in Nat /\ i - 1 < k /\ (i - 1) + 1 = i
                BY <2>4
            <4>2. At(packet, i - 1) = At(m, i - 1)
                BY <3>1, <4>1
            <4> QED BY <4>1, <4>2 DEF At
        <3> HIDE DEF packet
        <3> QED BY <1>1, <2>5, <3>2, SeqEqual DEF Bytes
    <2>7. remaining \in Bytes /\ packet \o remaining = buf
        <3>1. packet \o remaining = SubSeq(buf, 1, Len(buf))
            <4>1. /\ 1 \in 1 .. Len(buf) + 1 /\ k \in 1 - 1 .. Len(buf)
                  /\ Len(buf) \in k .. Len(buf)
                BY <1>3, <2>4
            <4> HIDE DEF k
            <4> QED BY <4>1, ConcatAdjacentSubSeq DEF Bytes
        <3>2. remaining \in Bytes
            <4>1. \A i \in k + 1 .. Len(buf) : buf[i] \in Byte
                BY <1>3, <2>4 DEF Bytes
            <4>2. k + 1 \in Int /\ Len(buf) \in Int
                BY <1>3, <2>4
            <4> HIDE DEF k
            <4> QED BY <4>1, <4>2, SubSeqProperties DEF Bytes
        <3> QED BY <3>1, <3>2, SubSeqFull DEF Bytes
    <2> HIDE DEF packet, remaining, k
    <2>8. Then(remaining, wire) = rest
        <3>1. m \in Bytes /\ remaining \in Bytes /\ Then(m, remaining) = buf
            BY <1>1, <2>6, <2>7 DEF Then
        <3>2. Then(buf, wire) = Then(m, rest)
            BY DEF m
        <3> QED BY <3>1, <3>2, SameBeginning
    <2> QED BY <1>7, <2>3, <2>6, <2>8 DEF m
<1> QED BY <1>1, <1>3, <1>6, <1>7

(* MakePacket makes packets with short addresses: those of the version that *)
(* it writes into them.                                                     *)
LEMMA MadeShort ==
    ASSUME NEW type, NEW src \in Bytes, NEW dst \in Bytes, NEW rsv, NEW data,
           MakePacket(type, src, dst, rsv, data) # Err
    PROVE  Short(MakePacket(type, src, dst, rsv, data))
<1>1. ASSUME NEW ip \in Bytes, validateIP(ip).version # 0
      PROVE  validateIP(validateIP(ip).ip).ip = validateIP(ip).ip
    <2>1. V4Len \in Nat /\ V6Len - V4Len \in Nat /\ (V6Len - V4Len) + V4Len = V6Len
        BY FormatAssumption
    <2>2. CASE To4(ip) # Err
        <3>1. validateIP(ip).ip = To4(ip)
            BY <2>2 DEF validateIP
        <3>2. To4(ip) \in Bytes /\ Len(To4(ip)) = V4Len
            BY <2>2, ShortForm
        <3>3. To4(To4(ip)) = To4(ip)
            BY <3>2 DEF To4
        <3> QED BY <2>2, <3>1, <3>3 DEF validateIP
    <2>3. CASE To4(ip) = Err
        <3>1. validateIP(ip).ip = ip
            <4>1. CASE Len(ip) = V6Len
                BY <2>3, <4>1 DEF validateIP
            <4>2. CASE Len(ip) # V6Len
                BY <1>1, <2>3, <4>2 DEF validateIP
            <4> QED BY <4>1, <4>2
        <3> QED BY <3>1
    <2> QED BY <2>2, <2>3
<1> DEFINE s == validateIP(src)
           d == validateIP(dst)
<1>2. /\ s.version # 0 /\ d.version # 0
      /\ MakePacket(type, src, dst, rsv, data) =
            [ProtocolVersion |-> ProtocolVersion, Type |-> type, AddrType |-> s.version,
             SrcIP |-> s.ip, DstIP |-> d.ip, Rsv |-> rsv,
             Length |-> Len(data) % (Base * Base), Data |-> data]
    BY DEF MakePacket
<1>3. validateIP(s.ip).ip = s.ip /\ validateIP(d.ip).ip = d.ip
    BY <1>1, <1>2
<1> HIDE DEF s, d
<1> QED BY <1>2, <1>3 DEF Short

----------------------------------------------------------------------------
(* Hellos, whole and cut off. *)

(* Where the fields of a client's hello are among its bytes.                *)
LEMMA ClientHelloParts ==
    ASSUME NEW ch \in ClientHello, MarshalClientHello(ch) # Err
    PROVE  LET m == MarshalClientHello(ch)
               n == Len(ch.Chain)
               k == Len(ch.AuthData)
               o == RandomLen + 2 + n
           IN  /\ n \in Nat /\ k \in Nat /\ o \in Nat
               /\ ch.ChainLength = n /\ ch.AuthDataLength = k
               /\ m \in Bytes /\ Len(m) = o + 1 + k + RsvLen
               /\ At(m, 0) = ch.ProtocolVersion
               /\ Slice(m, 1, RandomLen) = ch.ClientRandom
               /\ At(m, RandomLen + 1) = n
               /\ Slice(m, RandomLen + 2, n) = ch.Chain
               /\ At(m, o) = k
               /\ Slice(m, o + 1, k) = ch.AuthData
               /\ Slice(m, o + 1 + k, RsvLen) = ch.Rsv
<1> DEFINE n == Len(ch.Chain)
           k == Len(ch.AuthData)
           o == RandomLen + 2 + n
           R == RandomLen
           s1 == <<ch.ProtocolVersion>>
           s2 == s1 \o ch.ClientRandom
           c == <<ch.ChainLength>>
           s3 == s2 \o c
           s4 == s3 \o ch.Chain
           a == <<ch.AuthDataLength>>
           s5 == s4 \o a
           s6 == s5 \o ch.AuthData
           m == s6 \o ch.Rsv
<1>1. /\ ch.ChainLength = n /\ ch.AuthDataLength = k
      /\ MarshalClientHello(ch) = m
    BY Zenon DEF MarshalClientHello
<1>2. /\ ch.ProtocolVersion \in Byte /\ ch.ChainLength \in Byte /\ ch.AuthDataLength \in Byte
      /\ ch.ClientRandom \in Bytes /\ Len(ch.ClientRandom) = R
      /\ ch.Chain \in Bytes /\ ch.AuthData \in Bytes
      /\ ch.Rsv \in Bytes /\ Len(ch.Rsv) = RsvLen
    BY ArrayIsBytes, FormatAssumption DEF ClientHello
<1>3. n \in Nat /\ k \in Nat /\ R \in Nat /\ RsvLen \in Nat /\ o = R + 2 + n
    BY <1>2, FormatAssumption DEF Bytes
<1>4. /\ s1 \in Bytes /\ Len(s1) = 1 /\ s1[1] = ch.ProtocolVersion
      /\ c \in Bytes /\ Len(c) = 1 /\ c[1] = n
      /\ a \in Bytes /\ Len(a) = 1 /\ a[1] = k
    BY <1>1, <1>2, OneByte
<1> HIDE DEF n, k, o, R, s1, c, a
<1>5. /\ s2 \in Bytes /\ Len(s2) = 1 + R
      /\ Slice(s2, 1, R) = ch.ClientRandom
      /\ \A i \in 1 .. 1 : s2[i] = s1[i]
    <2>1. Joined(s2, s1, ch.ClientRandom)
        BY <1>2, <1>4, Parts
    <2> QED BY <1>2, <1>4, <2>1 DEF Joined
<1> HIDE DEF s2
<1>6. /\ s3 \in Bytes /\ Len(s3) = 1 + R + 1
      /\ \A x, y \in Nat : x + y <= 1 + R => Slice(s3, x, y) = Slice(s2, x, y)
      /\ Slice(s3, 1 + R, 1) = c
      /\ \A i \in 1 .. 1 + R : s3[i] = s2[i]
    <2>1. Joined(s3, s2, c)
        BY <1>4, <1>5, Parts
    <2> QED BY <1>4, <1>5, <2>1 DEF Joined
<1> HIDE DEF s3
<1>7. /\ s4 \in Bytes /\ Len(s4) = o
      /\ \A x, y \in Nat : x + y <= 1 + R + 1 => Slice(s4, x, y) = Slice(s3, x, y)
      /\ Slice(s4, 1 + R + 1, n) = ch.Chain
      /\ \A i \in 1 .. 1 + R + 1 : s4[i] = s3[i]
    <2>1. Joined(s4, s3, ch.Chain)
        BY <1>2, <1>6, Parts
    <2>2. Len(s3) + n = o
        BY <1>3, <1>6
    <2>3. n = Len(ch.Chain)
        BY DEF n
    <2> QED BY <1>6, <2>1, <2>2, <2>3 DEF Joined
<1> HIDE DEF s4
<1>8. /\ s5 \in Bytes /\ Len(s5) = o + 1
      /\ \A x, y \in Nat : x + y <= o => Slice(s5, x, y) = Slice(s4, x, y)
      /\ Slice(s5, o, 1) = a
      /\ \A i \in 1 .. o : s5[i] = s4[i]
    <2>1. Joined(s5, s4, a)
        BY <1>4, <1>7, Parts
    <2> QED BY <1>4, <1>7, <2>1 DEF Joined
<1> HIDE DEF s5
<1>9. /\ s6 \in Bytes /\ Len(s6) = o + 1 + k
      /\ \A x, y \in Nat : x + y <= o + 1 => Slice(s6, x, y) = Slice(s5, x, y)
      /\ Slice(s6, o + 1, k) = ch.AuthData
      /\ \A i \in 1 .. o + 1 : s6[i] = s5[i]
    <2>1. Joined(s6, s5, ch.AuthData)
        BY <1>2, <1>8, Parts
    <2>2. k = Len(ch.AuthData)
        BY DEF k
    <2> QED BY <1>8, <2>1, <2>2 DEF Joined
<1> HIDE DEF s6
<1>10. /\ m \in Bytes /\ Len(m) = o + 1 + k + RsvLen
       /\ \A x, y \in Nat : x + y <= o + 1 + k => Slice(m, x, y) = Slice(s6, x, y)
       /\ Slice(m, o + 1 + k, RsvLen) = ch.Rsv
       /\ \A i \in 1 .. o + 1 + k : m[i] = s6[i]
    <2>1. Joined(m, s6, ch.Rsv)
        BY <1>2, <1>9, Parts
    <2> QED BY <1>2, <1>9, <2>1 DEF Joined
<1> HIDE DEF m
<1>11. o \in Nat /\ o >= R + 2 /\ o >= R + 1
    BY <1>3
<1>12. At(m, 0) = ch.ProtocolVersion
    <2>1. /\ 1 \in 1 .. 1 + R /\ 1 \in 1 .. 1 + R + 1 /\ 1 \in 1 .. o /\ 1 \in 1 .. o + 1
          /\ 1 \in 1 .. o + 1 + k /\ 1 \in 1 .. 1 /\ 0 + 1 = 1
        BY <1>3, <1>11
    <2>2. m[1] = s1[1]
        BY <1>5, <1>6, <1>7, <1>8, <1>9, <1>10, <2>1
    <2> QED BY <1>4, <2>1, <2>2 DEF At
<1>13. Slice(m, 1, R) = ch.ClientRandom
    <2>1. 1 \in Nat /\ 1 + R <= 1 + R /\ 1 + R <= 1 + R + 1 /\ 1 + R <= o /\ 1 + R <= o + 1 /\ 1 + R <= o + 1 + k
        BY <1>3, <1>11
    <2> QED BY <1>3, <1>5, <1>6, <1>7, <1>8, <1>9, <1>10, <2>1
<1>14. ASSUME NEW x \in Nat, NEW b, Slice(m, x, 1) = <<b>>, x + 1 <= Len(m)
       PROVE  At(m, x) = b
    <2>1. 1 \in Nat /\ 1 \in 1 .. 1
        OBVIOUS
    <2>2. Slice(m, x, 1)[1] = m[x + 1]
        BY <1>10, <1>14, <2>1, SliceOfBytes
    <2> QED BY <1>14, <2>2 DEF At
<1>15. At(m, R + 1) = n
    <2> DEFINE x == 1 + R
    <2>1. /\ x \in Nat /\ x + 1 <= 1 + R + 1 /\ x + 1 <= o /\ x + 1 <= o + 1 /\ x + 1 <= o + 1 + k
          /\ x = R + 1
        BY <1>3, <1>11
    <2>2. x + 1 <= Len(m)
        BY <1>3, <1>10, <1>11
    <2>3. Slice(s3, x, 1) = c
        BY <1>6
    <2> HIDE DEF x
    <2>4. Slice(m, x, 1) = c
        BY <1>7, <1>8, <1>9, <1>10, <2>1, <2>3
    <2>5. c = <<n>>
        BY <1>1 DEF c
    <2>6. At(m, x) = n
        BY <1>14, <2>1, <2>2, <2>4, <2>5
    <2> QED BY <2>1, <2>6
<1>16. Slice(m, R + 2, n) = ch.Chain
    <2> DEFINE x == 1 + R + 1
    <2>1. x \in Nat /\ x + n <= o /\ x + n <= o + 1 /\ x + n <= o + 1 + k /\ x = R + 2
        BY <1>3
    <2>2. Slice(s4, x, n) = ch.Chain
        BY <1>7
    <2> HIDE DEF x
    <2>3. Slice(m, x, n) = ch.Chain
        BY <1>3, <1>8, <1>9, <1>10, <2>1, <2>2
    <2> QED BY <2>1, <2>3
<1>17. At(m, o) = k
    <2>1. o + 1 <= o + 1 /\ o + 1 <= o + 1 + k /\ o + 1 <= Len(m) /\ 1 \in Nat
        BY <1>3, <1>10, <1>11
    <2>2. Slice(m, o, 1) = a
        BY <1>8, <1>9, <1>10, <1>11, <2>1
    <2>3. a = <<k>>
        BY <1>1 DEF a
    <2> QED BY <1>11, <1>14, <2>1, <2>2, <2>3
<1>18. Slice(m, o + 1, k) = ch.AuthData
    <2> DEFINE x == o + 1
    <2>1. x \in Nat /\ x + k <= o + 1 + k
        BY <1>3, <1>11
    <2>2. Slice(s6, x, k) = ch.AuthData
        BY <1>9
    <2> HIDE DEF x
    <2>3. Slice(m, x, k) = ch.AuthData
        BY <1>3, <1>10, <2>1, <2>2
    <2> QED BY <2>3 DEF x
<1> QED
    BY <1>1, <1>3, <1>10, <1>11, <1>12, <1>13, <1>15, <1>16, <1>17, <1>18 DEF n, k, o, R

(* A hello of a client that arrives whole is understood as it was meant, if *)
(* its chain is not empty; of one that is cut off nothing is.               *)
THEOREM ClientHelloUnderstood ==
    ASSUME NEW ch \in ClientHello, MarshalClientHello(ch) # Err,
           ch.ProtocolVersion = ProtocolVersion,
           NEW n \in 0 .. Len(MarshalClientHello(ch))
    PROVE  UnmarshalClientHello(SubSeq(MarshalClientHello(ch), 1, n)) =
              IF Len(ch.Chain) > 0 /\ n = Len(MarshalClientHello(ch)) THEN ch ELSE Err
<1> DEFINE m == MarshalClientHello(ch)
           d == SubSeq(m, 1, n)
           c == Len(ch.Chain)
           k == Len(ch.AuthData)
           o == RandomLen + 2 + c
           h == [ProtocolVersion |-> ProtocolVersion,
                 ClientRandom |-> Slice(d, 1, RandomLen),
                 ChainLength |-> c, Chain |-> Slice(d, RandomLen + 2, c),
                 AuthDataLength |-> k, AuthData |-> Slice(d, o + 1, k),
                 Rsv |-> Slice(d, o + 1 + k, RsvLen)]
<1>1. /\ c \in Nat /\ k \in Nat /\ o \in Nat
      /\ ch.ChainLength = c /\ ch.AuthDataLength = k
      /\ m \in Bytes /\ Len(m) = o + 1 + k + RsvLen
      /\ At(m, 0) = ch.ProtocolVersion
      /\ Slice(m, 1, RandomLen) = ch.ClientRandom
      /\ At(m, RandomLen + 1) = c
      /\ Slice(m, RandomLen + 2, c) = ch.Chain
      /\ At(m, o) = k
      /\ Slice(m, o + 1, k) = ch.AuthData
      /\ Slice(m, o + 1 + k, RsvLen) = ch.Rsv
    BY ClientHelloParts
<1>2. RandomLen \in Nat /\ RsvLen \in Nat /\ n \in Nat /\ n <= Len(m) /\ o = RandomLen + 2 + c
    BY <1>1, FormatAssumption
<1>3. /\ d \in Bytes /\ Len(d) = n
      /\ \A i \in Nat : i < n => At(d, i) = At(m, i)
      /\ \A x, y \in Nat : x + y <= n => Slice(d, x, y) = Slice(m, x, y)
    <2>1. n \in 0 .. Len(m)
        OBVIOUS
    <2> HIDE DEF m
    <2> QED BY <1>1, <2>1, SliceOfBeginning
<1>4. c > 0 <=> 0 < c
    BY <1>1
<1> HIDE DEF m, d, c, k, o
<1>5. CASE n < 1 + RandomLen + 1 + 1 + RsvLen
    <2>1. UnmarshalClientHello(d) = Err
        BY <1>3, <1>5 DEF UnmarshalClientHello
    <2>2. ~(c > 0 /\ n = Len(m))
        BY <1>1, <1>2, <1>5, SMTT(30)
    <2> QED BY <2>1, <2>2 DEF m, d, c
<1>6. CASE ~(n < 1 + RandomLen + 1 + 1 + RsvLen)
    <2>1. /\ 0 < n /\ RandomLen + 1 < n /\ RandomLen + 1 \in Nat
        BY <1>2, <1>6
    <2>2. At(d, 0) = ProtocolVersion /\ At(d, RandomLen + 1) = c
        BY <1>1, <1>3, <2>1
    <2>3. CASE ~ChainFits(d, c)
        <3>1. UnmarshalClientHello(d) = Err
            BY <1>3, <1>6, <2>2, <2>3 DEF UnmarshalClientHello
        <3>2. ~(c > 0 /\ n = Len(m))
            BY <1>1, <1>2, <1>3, <2>3 DEF ChainFits
        <3> QED BY <3>1, <3>2 DEF m, d, c
    <2>4. CASE ChainFits(d, c)
        <3>1. 0 < c /\ o < n
            BY <1>1, <1>2, <1>3, <2>4 DEF ChainFits
        <3>2. At(d, o) = k
            BY <1>1, <1>3, <3>1
        <3>3. UnmarshalClientHello(d) = IF k > n - (o + 1) - RsvLen THEN Err ELSE h
            BY <1>3, <1>6, <2>2, <2>4, <3>2 DEF UnmarshalClientHello, o
        <3>4. CASE n # Len(m)
            <4>1. k > n - (o + 1) - RsvLen
                <5>1. \A x, a, b, r \in Nat : x <= a + b + r /\ x # a + b + r => b > x - a - r
                    OBVIOUS
                <5>2. o + 1 \in Nat /\ n <= o + 1 + k + RsvLen /\ n # o + 1 + k + RsvLen
                    BY <1>1, <1>2, <3>4, SMTT(30)
                <5> QED BY <1>1, <1>2, <5>1, <5>2, SMTT(30)
            <4> QED BY <3>3, <3>4, <4>1 DEF m, d, c
        <3>5. CASE n = Len(m)
            <4>1. /\ ~(k > n - (o + 1) - RsvLen)
                  /\ 1 + RandomLen <= n /\ RandomLen + 2 + c <= n
                  /\ (o + 1) + k <= n /\ (o + 1 + k) + RsvLen <= n
                  /\ 1 \in Nat /\ RandomLen + 2 \in Nat /\ o + 1 \in Nat /\ o + 1 + k \in Nat
                BY <1>1, <1>2, <3>5
            <4>2. /\ Slice(d, 1, RandomLen) = ch.ClientRandom
                  /\ Slice(d, RandomLen + 2, c) = ch.Chain
                  /\ Slice(d, o + 1, k) = ch.AuthData
                  /\ Slice(d, o + 1 + k, RsvLen) = ch.Rsv
                BY <1>1, <1>2, <1>3, <4>1
            <4>3. h = ch
                BY <1>1, <4>2 DEF ClientHello
            <4> HIDE DEF h
            <4>4. UnmarshalClientHello(d) = ch
                BY <3>3, <4>1, <4>3
            <4> QED BY <1>4, <3>1, <3>5, <4>4 DEF m, d, c
        <3> QED BY <3>4, <3>5
    <2> QED BY <2>3, <2>4
<1> QED BY <1>5, <1>6

(* A hello of the server is understood as it was meant, in the form of IPv6, *)
(* when it arrives whole; of one that is cut off nothing is.                 *)
THEOREM ServerHelloUnderstood ==
    ASSUME NEW sh \in ServerHello, MarshalServerHello(sh) # Err,
           sh.ProtocolVersion = ProtocolVersion,
           NEW n \in 0 .. Len(MarshalServerHello(sh))
    PROVE  UnmarshalServerHello(SubSeq(MarshalServerHello(sh), 1, n)) =
              IF n = Len(MarshalServerHello(sh))
              THEN [sh EXCEPT !.AssignedIP = MappedPrefix \o To4(sh.AssignedIP)] ELSE Err
<1> DEFINE R == RandomLen
           ip == To4(sh.AssignedIP)
           s1 == <<sh.ProtocolVersion>>
           s2 == s1 \o sh.ServerRandom
           r == <<sh.ServerResponse>>
           s3 == s2 \o r
           s4 == s3 \o ip
           m == s4 \o sh.Rsv
           d == SubSeq(m, 1, n)
           h == [ProtocolVersion |-> ProtocolVersion, ServerRandom |-> Slice(d, 1, R),
                 ServerResponse |-> At(d, R + 1),
                 AssignedIP |-> MappedPrefix \o Slice(d, R + 2, V4Len),
                 Rsv |-> Slice(d, R + 2 + V4Len, RsvLen)]
           meant == [sh EXCEPT !.AssignedIP = MappedPrefix \o ip]
<1>1. ip # Err /\ MarshalServerHello(sh) = m
    BY Zenon DEF MarshalServerHello
<1>2. /\ sh.ProtocolVersion \in Byte /\ sh.ServerResponse \in Byte
      /\ sh.ServerRandom \in Bytes /\ Len(sh.ServerRandom) = R
      /\ sh.AssignedIP \in Bytes
      /\ sh.Rsv \in Bytes /\ Len(sh.Rsv) = RsvLen
    BY ArrayIsBytes, FormatAssumption DEF ServerHello
<1>3. R \in Nat /\ RsvLen \in Nat /\ V4Len \in Nat
    BY FormatAssumption
<1>4. ip \in Bytes /\ Len(ip) = V4Len
    BY <1>1, <1>2, ShortForm
<1>5. /\ s1 \in Bytes /\ Len(s1) = 1 /\ s1[1] = sh.ProtocolVersion
      /\ r \in Bytes /\ Len(r) = 1
    BY <1>2, OneByte
<1>6. r = <<sh.ServerResponse>>
    OBVIOUS
<1> HIDE DEF R, ip, s1, r
<1>7. /\ s2 \in Bytes /\ Len(s2) = 1 + R
      /\ Slice(s2, 1, R) = sh.ServerRandom
      /\ \A i \in 1 .. 1 : s2[i] = s1[i]
    <2>1. Joined(s2, s1, sh.ServerRandom)
        BY <1>2, <1>5, Parts
    <2> QED BY <1>2, <1>5, <2>1 DEF Joined
<1> HIDE DEF s2
<1>8. /\ s3 \in Bytes /\ Len(s3) = 1 + R + 1
      /\ \A x, y \in Nat : x + y <= 1 + R => Slice(s3, x, y) = Slice(s2, x, y)
      /\ Slice(s3, 1 + R, 1) = r
      /\ \A i \in 1 .. 1 + R : s3[i] = s2[i]
    <2>1. Joined(s3, s2, r)
        BY <1>5, <1>7, Parts
    <2> QED BY <1>5, <1>7, <2>1 DEF Joined
<1> HIDE DEF s3
<1>9. /\ s4 \in Bytes /\ Len(s4) = 1 + R + 1 + V4Len
      /\ \A x, y \in Nat : x + y <= 1 + R + 1 => Slice(s4, x, y) = Slice(s3, x, y)
      /\ Slice(s4, 1 + R + 1, V4Len) = ip
      /\ \A i \in 1 .. 1 + R + 1 : s4[i] = s3[i]
    <2>1. Joined(s4, s3, ip)
        BY <1>4, <1>8, Parts
    <2> QED BY <1>4, <1>8, <2>1 DEF Joined
<1> HIDE DEF s4
<1>10. /\ m \in Bytes /\ Len(m) = 1 + R + 1 + V4Len + RsvLen
       /\ \A x, y \in Nat : x + y <= 1 + R + 1 + V4Len => Slice(m, x, y) = Slice(s4, x, y)
       /\ Slice(m, 1 + R + 1 + V4Len, RsvLen) = sh.Rsv
       /\ \A i \in 1 .. 1 + R + 1 + V4Len : m[i] = s4[i]
    <2>1. Joined(m, s4, sh.Rsv)
        BY <1>2, <1>9, Parts
    <2> QED BY <1>2, <1>9, <2>1 DEF Joined
<1> HIDE DEF m
<1>11. n \in Nat /\ n <= Len(m)
    BY <1>1, <1>3, <1>10
<1>12. /\ d \in Bytes /\ Len(d) = n
       /\ \A i \in Nat : i < n => At(d, i) = At(m, i)
       /\ \A x, y \in Nat : x + y <= n => Slice(d, x, y) = Slice(m, x, y)
    BY <1>1, <1>10, SliceOfBeginning
<1>13. d = SubSeq(MarshalServerHello(sh), 1, n) /\ Len(m) = Len(MarshalServerHello(sh))
    BY <1>1
<1> HIDE DEF d
<1>14. UnmarshalServerHello(d) =
         IF n < 1 + R + 1 + V4Len + RsvLen THEN Err
         ELSE IF At(d, 0) # ProtocolVersion THEN Err
         ELSE h
    BY <1>12, Zenon DEF UnmarshalServerHello, R
<1>15. CASE n < 1 + R + 1 + V4Len + RsvLen
    <2>1. UnmarshalServerHello(d) = Err
        BY <1>14, <1>15
    <2>2. n # Len(m)
        BY <1>3, <1>10, <1>11, <1>15
    <2> QED BY <1>13, <2>1, <2>2
<1>16. CASE ~(n < 1 + R + 1 + V4Len + RsvLen)
    <2>1. /\ n = 1 + R + 1 + V4Len + RsvLen /\ n = Len(m)
          /\ 0 < n /\ R + 1 < n /\ R + 1 \in Nat /\ R + 1 = 1 + R /\ R + 2 = 1 + R + 1
          /\ R + 2 \in Nat /\ R + 2 + V4Len = 1 + R + 1 + V4Len /\ R + 2 + V4Len \in Nat
        BY <1>3, <1>10, <1>11, <1>16
    <2>2. m[1] = s1[1]
        <3>1. 1 \in 1 .. 1 /\ 1 \in 1 .. 1 + R /\ 1 \in 1 .. 1 + R + 1 /\ 1 \in 1 .. 1 + R + 1 + V4Len
            BY <1>3
        <3> QED BY <1>7, <1>8, <1>9, <1>10, <3>1
    <2>3. At(d, 0) = ProtocolVersion
        <3>1. At(d, 0) = At(m, 0) /\ 0 + 1 = 1
            BY <1>12, <2>1
        <3> QED BY <1>5, <2>2, <3>1 DEF At
    <2>4. Slice(d, 1, R) = sh.ServerRandom
        <3>1. /\ 1 \in Nat /\ 1 + R <= 1 + R /\ 1 + R <= 1 + R + 1
              /\ 1 + R <= 1 + R + 1 + V4Len /\ 1 + R <= n
            BY <1>3, <2>1
        <3> QED BY <1>3, <1>7, <1>8, <1>9, <1>10, <1>12, <3>1
    <2>5. At(d, R + 1) = sh.ServerResponse
        <3> DEFINE x == 1 + R
        <3>1. /\ x \in Nat /\ 1 \in Nat /\ x + 1 <= 1 + R + 1 /\ x + 1 <= 1 + R + 1 + V4Len
              /\ x + 1 <= Len(m) /\ x < n /\ x = R + 1 /\ 1 \in 1 .. 1
            BY <1>3, <2>1
        <3>2. Slice(s3, x, 1) = r
            BY <1>8
        <3> HIDE DEF x
        <3>3. Slice(m, x, 1) = r
            BY <1>9, <1>10, <3>1, <3>2
        <3>4. Slice(m, x, 1)[1] = m[x + 1]
            BY <1>10, <3>1, SliceOfBytes
        <3>5. At(d, x) = At(m, x)
            BY <1>12, <3>1
        <3> QED BY <1>6, <3>1, <3>3, <3>4, <3>5 DEF At
    <2>6. Slice(d, R + 2, V4Len) = ip
        <3> DEFINE x == 1 + R + 1
        <3>1. /\ x \in Nat /\ x + V4Len <= 1 + R + 1 + V4Len /\ x + V4Len <= n /\ x = R + 2
            BY <1>3, <2>1
        <3>2. Slice(s4, x, V4Len) = ip
            BY <1>9
        <3> HIDE DEF x
        <3>3. Slice(d, x, V4Len) = ip
            BY <1>3, <1>10, <1>12, <3>1, <3>2
        <3> QED BY <3>1, <3>3
    <2>7. Slice(d, R + 2 + V4Len, RsvLen) = sh.Rsv
        <3> DEFINE x == 1 + R + 1 + V4Len
        <3>1. x \in Nat /\ x + RsvLen <= n /\ x = R + 2 + V4Len
            BY <1>3, <2>1
        <3>2. Slice(m, x, RsvLen) = sh.Rsv
            BY <1>10
        <3> HIDE DEF x
        <3>3. Slice(d, x, RsvLen) = sh.Rsv
            BY <1>3, <1>12, <3>1, <3>2
        <3> QED BY <3>1, <3>3
    <2>8. h = meant
        <3>1. ASSUME NEW v
              PROVE  [sh EXCEPT !.AssignedIP = v] =
                        [ProtocolVersion |-> ProtocolVersion, ServerRandom |-> sh.ServerRandom,
                         ServerResponse |-> sh.ServerResponse, AssignedIP |-> v, Rsv |-> sh.Rsv]
            BY DEF ServerHello
        <3> QED BY <2>4, <2>5, <2>6, <2>7, <3>1, Zenon
    <2> HIDE DEF h
    <2>9. UnmarshalServerHello(d) = meant
        BY <1>14, <1>16, <2>3, <2>8
    <2> QED BY <1>13, <2>1, <2>9 DEF ip
<1> QED BY <1>15, <1>16

----------------------------------------------------------------------------
(* A layer that is applied twice changes nothing: the server unwraps with  *)
(* Wrap what the client wrapped (core/handshake.go, core/server.go).       *)
THEOREM LayerUndoesItself ==
    ASSUME NEW key \in Bytes \ {<<>>}, NEW data \in Bytes
    PROVE  XorLayer(key, XorLayer(key, data)) = data
<1> DEFINE once == XorLayer(key, data)
           k(i) == At(key, (i - 1) % Len(key))
<1>1. Len(key) \in Nat \ {0} /\ Len(data) \in Nat /\ DOMAIN data = 1 .. Len(data)
    BY DEF Bytes
<1>2. \A i \in DOMAIN data : k(i) \in Byte /\ data[i] \in Byte
  <2> SUFFICES ASSUME NEW i \in DOMAIN data PROVE k(i) \in Byte /\ data[i] \in Byte
      OBVIOUS
  <2>1. i - 1 \in Nat
      BY <1>1
  <2>2. (i - 1) % Len(key) \in 0 .. Len(key) - 1
      BY <1>1, <2>1
  <2>3. ((i - 1) % Len(key)) + 1 \in 1 .. Len(key)
      BY <1>1, <2>2
  <2> QED
      BY <1>1, <2>3 DEF At, Bytes
<1>3. DOMAIN once = DOMAIN data /\ \A i \in DOMAIN data : once[i] = XorByte(data[i], k(i))
    BY DEF XorLayer
<1>4. XorLayer(key, once) = [i \in DOMAIN data |-> XorByte(XorByte(data[i], k(i)), k(i))]
    BY <1>3 DEF XorLayer
<1>5. \A i \in DOMAIN data : XorByte(XorByte(data[i], k(i)), k(i)) = data[i]
    BY <1>2, XorAssumption
<1>6. data = [i \in DOMAIN data |-> data[i]]
    BY DEF Bytes
<1> QED
    BY <1>4, <1>5, <1>6

(* Keys commute.                                                            *)
LEMMA LayersCommute ==
    ASSUME NEW key \in Bytes \ {<<>>}, NEW other \in Bytes \ {<<>>}, NEW data \in Bytes
    PROVE  /\ XorLayer(key, data) \in Bytes
           /\ XorLayer(key, XorLayer(other, data)) = XorLayer(other, XorLayer(key, data))
<1> DEFINE k(i) == At(key, (i - 1) % Len(key))
           o(i) == At(other, (i - 1) % Len(other))
<1>1. ASSUME NEW some \in Bytes \ {<<>>}, NEW i \in 1 .. Len(data)
      PROVE  At(some, (i - 1) % Len(some)) \in Byte
    <2>1. i - 1 \in Nat /\ Len(some) \in Nat \ {0}
        BY DEF Bytes
    <2>2. ((i - 1) % Len(some)) + 1 \in 1 .. Len(some)
        BY <2>1
    <2> QED BY <2>2 DEF At, Bytes
<1>2. DOMAIN data = 1 .. Len(data) /\ Len(data) \in Nat /\ \A i \in 1 .. Len(data) : data[i] \in Byte
    BY DEF Bytes
<1>3. \A i \in 1 .. Len(data) : k(i) \in Byte /\ o(i) \in Byte
    BY <1>1
<1> HIDE DEF k, o
<1>4. XorLayer(key, data) = [i \in 1 .. Len(data) |-> XorByte(data[i], k(i))]
      /\ XorLayer(other, data) = [i \in 1 .. Len(data) |-> XorByte(data[i], o(i))]
    BY <1>2 DEF XorLayer, k, o
<1>5. XorLayer(key, data) \in Bytes
    <2>1. \A i \in 1 .. Len(data) : XorByte(data[i], k(i)) \in Byte
        BY <1>2, <1>3, XorAssumption
    <2>2. [i \in 1 .. Len(data) |-> XorByte(data[i], k(i))] \in Seq(Byte)
        BY <1>2, <2>1, IsASeq
    <2> QED BY <1>4, <2>2 DEF Bytes
<1>6. /\ XorLayer(key, XorLayer(other, data)) =
            [i \in 1 .. Len(data) |-> XorByte(XorByte(data[i], o(i)), k(i))]
      /\ XorLayer(other, XorLayer(key, data)) =
            [i \in 1 .. Len(data) |-> XorByte(XorByte(data[i], k(i)), o(i))]
    BY <1>4 DEF XorLayer, k, o
<1>7. \A i \in 1 .. Len(data) :
         XorByte(XorByte(data[i], o(i)), k(i)) = XorByte(XorByte(data[i], k(i)), o(i))
    BY <1>2, <1>3, XorAssumption
<1> QED BY <1>5, <1>6, <1>7

(* What holds of no least number holds of none: the induction over chains.  *)
LessThan == {ss \in Nat \X Nat : ss[1] < ss[2]}

LEMMA LeastNumber ==
    ASSUME NEW T, T \subseteq Nat, T # {}
    PROVE  \E n \in T : \A m \in T : n <= m
<1>1. IsWellFoundedOn(LessThan, Nat)
    BY NatLessThanWellFounded DEF OpToRel, LessThan
<1>2. PICK n \in T : \A m \in T : ~(<<m, n>> \in LessThan)
    BY <1>1, WFMin
<1>3. ASSUME NEW m \in T PROVE n <= m
    <2>1. n \in Nat /\ m \in Nat
        BY <1>2
    <2>2. CASE m < n
        <3>1. <<m, n>> \in Nat \X Nat /\ <<m, n>>[1] = m /\ <<m, n>>[2] = n
            BY <2>1
        <3>2. <<m, n>> \in LessThan
            BY <2>2, <3>1 DEF LessThan
        <3> QED BY <1>2, <3>2
    <2> QED BY <2>1, <2>2
<1> QED BY <1>2, <1>3

(* What Wrap has made of the data after each of the layers.                 *)
Through(chain, data, n, f) ==
    f = [i \in 0 .. n |-> IF i = 0 THEN data ELSE XorLayer(chain[i], f[i - 1])]

Stages(chain, data) == CHOOSE f : Through(chain, data, Len(chain), f)

LEMMA WrapInStages ==
    ASSUME NEW chain, NEW data
    PROVE  Wrap(chain, data) = Stages(chain, data)[Len(chain)]
BY DEF Wrap, Stages, Through

LEMMA StagesExist ==
    ASSUME NEW chain, Len(chain) \in Nat, NEW data
    PROVE  Through(chain, data, Len(chain), Stages(chain, data))
<1> DEFINE Without == {n \in Nat : ~ \E f : Through(chain, data, n, f)}
<1>1. ASSUME Without # {} PROVE FALSE
    <2>1. PICK n \in Without : \A m \in Without : n <= m
        BY <1>1, LeastNumber
    <2>2. n # 0
        <3> DEFINE f == [i \in 0 .. 0 |-> data]
        <3>1. Through(chain, data, 0, f)
            BY DEF Through
        <3> QED BY <3>1
    <2>3. n - 1 \in Nat /\ n - 1 \notin Without
        BY <2>1, <2>2
    <2>4. PICK f : Through(chain, data, n - 1, f)
        BY <2>3
    <2> DEFINE g == [i \in 0 .. n |-> IF i = n THEN XorLayer(chain[i], f[i - 1]) ELSE f[i]]
    <2>5. Through(chain, data, n, g)
        BY <2>2, <2>3, <2>4 DEF Through
    <2> QED BY <2>5
<1> HIDE DEF Without
<1>2. \E f : Through(chain, data, Len(chain), f)
    BY <1>1 DEF Without
<1> QED BY <1>2 DEF Stages

(* A chain wraps by its layers one after the other.                         *)
LEMMA StageByStage ==
    ASSUME NEW chain \in Seq(Bytes \ {<<>>}), NEW data \in Bytes
    PROVE  /\ Stages(chain, data)[0] = data
           /\ \A n \in 1 .. Len(chain) :
                 Stages(chain, data)[n] = XorLayer(chain[n], Stages(chain, data)[n - 1])
           /\ \A n \in 0 .. Len(chain) : Stages(chain, data)[n] \in Bytes
<1> DEFINE f == Stages(chain, data)
<1>1. Len(chain) \in Nat /\ \A n \in 1 .. Len(chain) : chain[n] \in Bytes \ {<<>>}
    OBVIOUS
<1>2. f = [i \in 0 .. Len(chain) |-> IF i = 0 THEN data ELSE XorLayer(chain[i], f[i - 1])]
    BY <1>1, StagesExist DEF Through
<1> HIDE DEF f
<1>3. f[0] = data /\ \A n \in 1 .. Len(chain) : f[n] = XorLayer(chain[n], f[n - 1])
    BY <1>1, <1>2
<1> DEFINE Not == {n \in 0 .. Len(chain) : f[n] \notin Bytes}
<1>4. ASSUME Not # {} PROVE FALSE
    <2>1. PICK n \in Not : \A m \in Not : n <= m
        <3>1. Not \subseteq Nat
            BY <1>1
        <3> HIDE DEF Not
        <3> QED BY <1>4, <3>1, LeastNumber
    <2>2. n # 0
        BY <1>3, <2>1
    <2>3. n \in 1 .. Len(chain) /\ n - 1 \in 0 .. Len(chain) /\ n - 1 \notin Not
        BY <1>1, <2>1, <2>2
    <2>4. f[n - 1] \in Bytes
        BY <2>3
    <2>5. f[n] \in Bytes
        BY <1>1, <1>3, <2>3, <2>4, LayersCommute
    <2> QED BY <2>1, <2>5
<1> QED BY <1>3, <1>4 DEF f

(* A layer around the data is a layer around every stage.                   *)
LEMMA StagesCommute ==
    ASSUME NEW chain \in Seq(Bytes \ {<<>>}), NEW data \in Bytes, NEW key \in Bytes \ {<<>>},
           NEW n \in 0 .. Len(chain)
    PROVE  Stages(chain, XorLayer(key, data))[n] = XorLayer(key, Stages(chain, data)[n])
<1> DEFINE f == Stages(chain, data)
           g == Stages(chain, XorLayer(key, data))
<1>1. Len(chain) \in Nat /\ \A i \in 1 .. Len(chain) : chain[i] \in Bytes \ {<<>>}
    OBVIOUS
<1>2. XorLayer(key, data) \in Bytes
    BY LayersCommute
<1>3. /\ f[0] = data
      /\ \A i \in 1 .. Len(chain) : f[i] = XorLayer(chain[i], f[i - 1])
      /\ \A i \in 0 .. Len(chain) : f[i] \in Bytes
    BY StageByStage
<1>4. /\ g[0] = XorLayer(key, data)
      /\ \A i \in 1 .. Len(chain) : g[i] = XorLayer(chain[i], g[i - 1])
    BY <1>2, StageByStage
<1> HIDE DEF f, g
<1> DEFINE Not == {i \in 0 .. Len(chain) : g[i] # XorLayer(key, f[i])}
<1>5. ASSUME Not # {} PROVE FALSE
    <2>1. PICK i \in Not : \A m \in Not : i <= m
        <3>1. Not \subseteq Nat
            BY <1>1
        <3> HIDE DEF Not
        <3> QED BY <1>5, <3>1, LeastNumber
    <2>2. i # 0
        BY <1>3, <1>4, <2>1
    <2>3. i \in 1 .. Len(chain) /\ i - 1 \in 0 .. Len(chain) /\ i - 1 \notin Not
        BY <1>1, <2>1, <2>2
    <2>4. g[i - 1] = XorLayer(key, f[i - 1])
        BY <2>3
    <2>5. XorLayer(chain[i], XorLayer(key, f[i - 1])) = XorLayer(key, XorLayer(chain[i], f[i - 1]))
        BY <1>1, <1>3, <2>3, LayersCommute
    <2>6. g[i] = XorLayer(key, f[i])
        BY <1>3, <1>4, <2>3, <2>4, <2>5
    <2> QED BY <2>1, <2>6
<1>6. g[n] = XorLayer(key, f[n])
    BY <1>5
<1> QED BY <1>6 DEF f, g

(* A chain that is applied twice changes nothing, though both times it goes *)
(* from its first layer to its last (core/layers.go): its layers commute.   *)
THEOREM WrapUndoesItself ==
    ASSUME NEW chain \in Seq(Bytes \ {<<>>}), NEW data \in Bytes
    PROVE  Wrap(chain, Wrap(chain, data)) = data
<1> DEFINE W(n, x) == Stages(chain, x)[n]
<1>1. Len(chain) \in Nat /\ \A i \in 1 .. Len(chain) : chain[i] \in Bytes \ {<<>>}
    OBVIOUS
<1>2. \A x \in Bytes : /\ W(0, x) = x
                       /\ \A n \in 1 .. Len(chain) : W(n, x) = XorLayer(chain[n], W(n - 1, x))
                       /\ \A n \in 0 .. Len(chain) : W(n, x) \in Bytes
    BY StageByStage
<1>3. \A x \in Bytes, key \in Bytes \ {<<>>}, n \in 0 .. Len(chain) :
         W(n, XorLayer(key, x)) = XorLayer(key, W(n, x))
    BY StagesCommute
<1>4. Wrap(chain, Wrap(chain, data)) = W(Len(chain), W(Len(chain), data))
    BY WrapInStages
<1> HIDE DEF W
<1> DEFINE Not == {n \in 0 .. Len(chain) : W(n, W(n, data)) # data}
<1>5. ASSUME Not # {} PROVE FALSE
    <2>1. PICK n \in Not : \A m \in Not : n <= m
        <3>1. Not \subseteq Nat
            BY <1>1
        <3> HIDE DEF Not
        <3> QED BY <1>5, <3>1, LeastNumber
    <2>2. n # 0
        BY <1>2, <2>1
    <2>3. n \in 1 .. Len(chain) /\ n - 1 \in 0 .. Len(chain) /\ n - 1 \notin Not
        BY <1>1, <2>1, <2>2
    <2> DEFINE key == chain[n]
               v == W(n - 1, data)
    <2>4. key \in Bytes \ {<<>>} /\ v \in Bytes /\ W(n - 1, v) = data
        BY <1>1, <1>2, <2>3
    <2>5. W(n, data) = XorLayer(key, v)
        BY <1>2, <2>3
    <2>6. XorLayer(key, v) \in Bytes
        BY <2>4, LayersCommute
    <2>7. W(n, XorLayer(key, v)) = XorLayer(key, W(n - 1, XorLayer(key, v)))
        BY <1>2, <2>3, <2>6
    <2>8. W(n - 1, XorLayer(key, v)) = XorLayer(key, data)
        BY <1>3, <2>3, <2>4
    <2>9. XorLayer(key, XorLayer(key, data)) = data
        BY <2>4, LayerUndoesItself
    <2>10. W(n, W(n, data)) = data
        BY <2>5, <2>7, <2>8, <2>9
    <2> QED BY <2>1, <2>10
<1>6. Len(chain) \in 0 .. Len(chain)
    BY <1>1
<1> QED BY <1>4, <1>5, <1>6
============================================================================
