---------------------------- MODULE StreamProofs ----------------------------
(***************************************************************************)
(* Type correctness of Stream, and with it that the buffer of a TCP        *)
(* connection stays within one packet and one read; that hellos and        *)
(* packets are understood as they were meant, through every chain of       *)
(* layers; and that packets leave a stream in their order.  For every      *)
(* format, any bytes and any way to cut the stream.  CodecProofs supplies  *)
(* what the formats promise.                                               *)
(***************************************************************************)
EXTENDS Stream, CodecProofs

----------------------------------------------------------------------------
(* While the pipe reads there is no packet in the buffer, so that what it  *)
(* reads comes on top of less than one.                                    *)
BufferInv == pc = "read" => ~ExtractPacket(tcpBuffer).completed

StreamInv == TypeOK /\ BufferInv

LEMMA InitInv == Init => StreamInv
<1> SUFFICES ASSUME Init PROVE StreamInv
    OBVIOUS
<1>1. <<>> \in Bytes /\ Len(<<>>) = 0
    BY DEF Bytes
<1>2. FrameLength(<<>>) = 0
    BY DEF FrameLength
<1>3. ~ExtractPacket(<<>>).completed
  <2>1. ExtractPacket(<<>>) = [completed |-> FALSE]
      BY <1>2, FormatAssumption DEF ExtractPacket
  <2>2. ExtractPacket(<<>>).completed = FALSE
      BY <2>1
  <2> QED
      BY <2>2, Zenon
<1>4. 0 < HeaderLength(6) + Base * Base + ReadLen
  <2>1. 0 < FrameLimit + ReadLen
      BY Sizes, StreamAssumption
  <2> QED
      BY <2>1 DEF FrameLimit
<1>5. <<>> \in Seq(Packets) /\ <<>> \in Seq(Packet)
    OBVIOUS
<1>6. TypeOK
  <2>1. greeting.arrived = <<>>
      BY DEF Init, Nothing
  <2> QED
      BY <1>1, <1>4, <1>5, <2>1 DEF Init, TypeOK
<1> QED
    BY <1>3, <1>6 DEF Init, StreamInv, BufferInv

LEMMA GreetKeeps ==
    ASSUME StreamInv, NEW hello, NEW bytes \in Bytes, NEW n \in 0 .. Len(bytes), NEW u,
           greeting' = [hello |-> hello, arrived |-> SubSeq(bytes, 1, n), understood |-> u],
           UNCHANGED <<link, streamVars>>
    PROVE  StreamInv'
<1>1. SubSeq(bytes, 1, n) \in Bytes
  <2>1. Len(bytes) \in Nat /\ n \in Int /\ \A i \in 1 .. n : bytes[i] \in Byte
      BY DEF Bytes
  <2> QED
      BY <2>1, SubSeqProperties DEF Bytes
<1>2. greeting'.arrived \in Bytes
    BY <1>1
<1> QED
    BY <1>2 DEF StreamInv, TypeOK, BufferInv, streamVars

LEMMA NextInv == StreamInv /\ [Next]_vars => StreamInv'
<1> SUFFICES ASSUME StreamInv, [Next]_vars PROVE StreamInv'
    OBVIOUS
<1> USE DEF StreamInv
<1>1. ASSUME NEW ch \in ClientHellos, ClientGreets(ch) PROVE StreamInv'
  <2>1. MarshalClientHello(ch) \in Bytes
      BY <1>1, StreamAssumption, ClientHelloBytes DEF ClientGreets
  <2> QED
      BY <1>1, <2>1, GreetKeeps DEF ClientGreets, Greet
<1>2. ASSUME NEW sh \in ServerHellos, ServerGreets(sh) PROVE StreamInv'
  <2>1. MarshalServerHello(sh) \in Bytes
      BY <1>2, StreamAssumption, ServerHelloBytes DEF ServerGreets
  <2> QED
      BY <1>2, <2>1, GreetKeeps DEF ServerGreets, Greet
<1>3. ASSUME NEW p \in Packets, Send(p) PROVE StreamInv'
  <2>1. wire' \in Bytes
    <3>1. MarshalPacket(p) \in Bytes
        BY <1>3, StreamAssumption, PacketBytes DEF Send
    <3> QED
        BY <1>3, <3>1 DEF Send, TypeOK, Bytes
  <2>2. sent' \in Seq(Packets)
      BY <1>3 DEF Send, TypeOK
  <2> QED
      BY <1>3, <2>1, <2>2 DEF Send, TypeOK, BufferInv
<1>4. ASSUME NEW bytes \in Junk, SendJunk(bytes) PROVE StreamInv'
  <2>1. wire' \in Bytes
      BY <1>4, StreamAssumption DEF SendJunk, TypeOK, Bytes
  <2> QED
      BY <1>4, <2>1 DEF SendJunk, TypeOK, BufferInv
<1>5. CASE Read
  <2>1. PICK n \in 1 .. ReadLen :
          /\ n <= Len(wire)
          /\ tcpBuffer' = tcpBuffer \o SubSeq(wire, 1, n)
          /\ wire' = SubSeq(wire, n + 1, Len(wire))
      BY <1>5 DEF Read
  <2>2. wire \in Bytes /\ tcpBuffer \in Bytes /\ Len(wire) \in Nat /\ Len(tcpBuffer) \in Nat
      BY DEF TypeOK, Bytes
  <2>3. /\ SubSeq(wire, 1, n) \in Bytes /\ Len(SubSeq(wire, 1, n)) = n
        /\ SubSeq(wire, n + 1, Len(wire)) \in Bytes
      BY <2>1, <2>2 DEF Bytes
  <2>4. tcpBuffer' \in Bytes /\ Len(tcpBuffer') = Len(tcpBuffer) + n
      BY <2>1, <2>2, <2>3, ConcatProperties DEF Bytes
  <2>5. Len(tcpBuffer) < FrameLimit
      BY <1>5, <2>2, IncompleteIsShort DEF Read, BufferInv
  <2>6. n \in Nat /\ n <= ReadLen /\ ReadLen \in Nat
      BY StreamAssumption
  <2>7. Len(tcpBuffer') < HeaderLength(6) + Base * Base + ReadLen
    <3>1. Len(tcpBuffer') < FrameLimit + ReadLen
        BY <2>2, <2>4, <2>5, <2>6, Sizes
    <3> QED
        BY <3>1 DEF FrameLimit
  <2> QED
      BY <1>5, <2>1, <2>3, <2>4, <2>7 DEF Read, TypeOK, BufferInv
<1>6. CASE NeedsMore
    BY <1>6 DEF NeedsMore, TypeOK, BufferInv
<1>7. CASE ProtocolError
    BY <1>7 DEF ProtocolError, TypeOK, BufferInv
<1>8. CASE TakePacket
  <2> DEFINE result == ExtractPacket(tcpBuffer)
             packet == UnmarshalPacket(result.packet)
  <2>1. result.completed /\ ~result.err /\ tcpBuffer \in Bytes
      BY <1>8 DEF TakePacket, TypeOK
  <2>2. result.packet \in Bytes /\ result.remaining \in Bytes
        /\ Len(result.remaining) < Len(tcpBuffer)
      BY <2>1, ExtractSplits
  <2>3. tcpBuffer' \in Bytes /\ Len(tcpBuffer') < HeaderLength(6) + Base * Base + ReadLen
    <3>1. Len(tcpBuffer) \in Nat /\ Len(result.remaining) \in Nat
        BY <2>1, <2>2 DEF Bytes
    <3>2. HeaderLength(6) + Base * Base + ReadLen \in Nat
      <4>1. FrameLimit + ReadLen \in Nat
          BY Sizes, StreamAssumption
      <4> QED
          BY <4>1 DEF FrameLimit
    <3>3. tcpBuffer' = result.remaining
        BY <1>8 DEF TakePacket
    <3> HIDE DEF result
    <3> QED
        BY <2>2, <3>1, <3>2, <3>3 DEF TypeOK
  <2>4. CASE packet = Err
    <3>1. pc' = "closed" /\ UNCHANGED <<received, link, greeting, sent, spoilt, wire>>
        BY <1>8, <2>4 DEF TakePacket
    <3> QED
        BY <2>3, <3>1 DEF TypeOK, BufferInv
  <2>5. CASE packet # Err
    <3>1. received' = Append(received, packet)
          /\ UNCHANGED <<pc, link, greeting, sent, spoilt, wire>> /\ pc = "extract"
        BY <1>8, <2>5 DEF TakePacket
    <3>2. packet \in Packet
        BY <2>2, <2>5, UnmarshalIsPacket
    <3>3. received' \in Seq(Packet)
      <4> HIDE DEF packet
      <4> QED
          BY <3>1, <3>2 DEF TypeOK
    <3> QED
        BY <2>3, <3>1, <3>3 DEF TypeOK, BufferInv
  <2> QED
      BY <2>4, <2>5
<1>9. CASE UNCHANGED vars
    BY <1>9 DEF vars, streamVars, TypeOK, BufferInv
<1> QED
    BY <1>1, <1>2, <1>3, <1>4, <1>5, <1>6, <1>7, <1>8, <1>9 DEF Next, Pipe

(* The types of the pipe and the connection, and that the buffer of a TCP  *)
(* connection never holds more than one packet and one read, however its   *)
(* client cuts and mixes what it sends.                                    *)
THEOREM TypeCorrect == Spec => []TypeOK
<1>1. StreamInv => TypeOK
    BY DEF StreamInv
<1> QED
    BY <1>1, InitInv, NextInv, PTL DEF Spec

----------------------------------------------------------------------------
(* Hellos. *)

(* The whole of what is sent is its only beginning of its length.           *)
LEMMA WholeOnly ==
    ASSUME NEW m \in Bytes, NEW n \in 0 .. Len(m)
    PROVE  SubSeq(m, 1, n) = m <=> n = Len(m)
<1>1. Len(SubSeq(m, 1, n)) = n
    BY SliceOfBeginning
<1>2. SubSeq(m, 1, Len(m)) = m
    BY SubSeqFull DEF Bytes
<1> QED
    BY <1>1, <1>2

LEMMA HelloInit == Init => HelloUnderstood
BY DEF Init, HelloUnderstood

LEMMA HelloNext == HelloUnderstood /\ [Next]_vars => HelloUnderstood'
<1> SUFFICES ASSUME HelloUnderstood, [Next]_vars PROVE HelloUnderstood'
    OBVIOUS
<1>1. ASSUME NEW ch \in ClientHellos, ClientGreets(ch) PROVE HelloUnderstood'
  <2> DEFINE m == MarshalClientHello(ch)
  <2>1. /\ ch \in ClientHello /\ m # Err /\ ch.ProtocolVersion = ProtocolVersion
      BY <1>1, StreamAssumption, MadeAssumption DEF ClientGreets
  <2>2. PICK n \in 0 .. Len(m) :
          greeting' = [hello |-> ch, arrived |-> SubSeq(m, 1, n),
                       understood |-> UnmarshalClientHello(SubSeq(m, 1, n))]
      BY <1>1 DEF ClientGreets, Greet
  <2>3. UnmarshalClientHello(SubSeq(m, 1, n)) =
          IF Len(ch.Chain) > 0 /\ n = Len(m) THEN ch ELSE Err
      BY <2>1, ClientHelloUnderstood
  <2>4. m \in Bytes
      BY <2>1, ClientHelloBytes
  <2>5. SubSeq(m, 1, n) = m <=> n = Len(m)
    <3> HIDE DEF m
    <3> QED
        BY <2>4, WholeOnly
  <2>6. "Chain" \in DOMAIN ch
      BY <2>1 DEF ClientHello
  <2> HIDE DEF m
  <2>7. /\ greeting'.hello = ch /\ greeting'.arrived = SubSeq(m, 1, n)
        /\ greeting'.understood = UnmarshalClientHello(SubSeq(m, 1, n))
      BY <2>2
  <2>8. IsWhole(greeting') <=> Len(ch.Chain) > 0 /\ n = Len(m)
      BY <2>5, <2>6, <2>7 DEF IsWhole, m
  <2>9. Meant(greeting'.hello) = ch
      BY <2>6, <2>7 DEF Meant
  <2> QED
      BY <2>3, <2>7, <2>8, <2>9 DEF HelloUnderstood
<1>2. ASSUME NEW sh \in ServerHellos, ServerGreets(sh) PROVE HelloUnderstood'
  <2> DEFINE m == MarshalServerHello(sh)
             meant == [sh EXCEPT !.AssignedIP = MappedPrefix \o To4(sh.AssignedIP)]
  <2>1. /\ sh \in ServerHello /\ m # Err /\ sh.ProtocolVersion = ProtocolVersion
      BY <1>2, StreamAssumption, MadeAssumption DEF ServerGreets
  <2>2. PICK n \in 0 .. Len(m) :
          greeting' = [hello |-> sh, arrived |-> SubSeq(m, 1, n),
                       understood |-> UnmarshalServerHello(SubSeq(m, 1, n))]
      BY <1>2 DEF ServerGreets, Greet
  <2>3. UnmarshalServerHello(SubSeq(m, 1, n)) = IF n = Len(m) THEN meant ELSE Err
      BY <2>1, ServerHelloUnderstood
  <2>4. m \in Bytes
      BY <2>1, ServerHelloBytes
  <2>5. SubSeq(m, 1, n) = m <=> n = Len(m)
    <3> HIDE DEF m
    <3> QED
        BY <2>4, WholeOnly
  <2>6. "Chain" \notin DOMAIN sh
      BY <2>1 DEF ServerHello
  <2>7. Meant(sh) = meant
      BY <2>6, Zenon DEF Meant
  <2> HIDE DEF m, meant
  <2>8. /\ greeting'.hello = sh /\ greeting'.arrived = SubSeq(m, 1, n)
        /\ greeting'.understood = UnmarshalServerHello(SubSeq(m, 1, n))
      BY <2>2
  <2>9. IsWhole(greeting') <=> n = Len(m)
      BY <2>5, <2>6, <2>8 DEF IsWhole, m
  <2> QED
      BY <2>3, <2>7, <2>8, <2>9 DEF HelloUnderstood
<1>3. CASE UNCHANGED greeting
    BY <1>3 DEF HelloUnderstood, IsWhole
<1>4. ASSUME NEW p \in Packets, Send(p) PROVE HelloUnderstood'
    BY <1>3, <1>4 DEF Send
<1>5. ASSUME NEW bytes \in Junk, SendJunk(bytes) PROVE HelloUnderstood'
    BY <1>3, <1>5 DEF SendJunk
<1>6. CASE Pipe
    BY <1>3, <1>6 DEF Pipe, Read, NeedsMore, ProtocolError, TakePacket
<1>7. CASE UNCHANGED vars
    BY <1>3, <1>7 DEF vars
<1> QED
    BY <1>1, <1>2, <1>4, <1>5, <1>6, <1>7 DEF Next

(* A hello of either side is understood as it was meant, or refused when a  *)
(* part of it is missing: for every hello that can be made, and every place *)
(* where it may be cut.                                                     *)
THEOREM HellosUnderstood == Spec => []HelloUnderstood
BY HelloInit, HelloNext, PTL DEF Spec

----------------------------------------------------------------------------
(* Packets in datagrams. *)

(* What was sent could be marshalled.                                       *)
SentInv == \A k \in 1 .. Len(sent) : MarshalPacket(sent[k]) # Err

LEMMA SentInit == Init => SentInv
BY DEF Init, SentInv

LEMMA SentNext == TypeOK /\ SentInv /\ [Next]_vars => SentInv'
<1> SUFFICES ASSUME TypeOK, SentInv, [Next]_vars PROVE SentInv'
    OBVIOUS
<1>1. ASSUME NEW p \in Packets, Send(p) PROVE SentInv'
  <2>1. MarshalPacket(p) # Err /\ sent' = Append(sent, p) /\ sent \in Seq(Packets)
      BY <1>1 DEF Send, TypeOK
  <2>2. /\ Len(sent') = Len(sent) + 1 /\ Len(sent) \in Nat
        /\ \A k \in 1 .. Len(sent) : sent'[k] = sent[k]
        /\ sent'[Len(sent) + 1] = p
      BY <2>1, AppendProperties
  <2>3. ASSUME NEW k \in 1 .. Len(sent') PROVE MarshalPacket(sent'[k]) # Err
    <3>1. k \in 1 .. Len(sent) \/ k = Len(sent) + 1
        BY <2>2
    <3> QED
        BY <2>1, <2>2, <3>1 DEF SentInv
  <2> QED
      BY <2>3 DEF SentInv
<1>2. CASE UNCHANGED sent
    BY <1>2 DEF SentInv
<1>3. ASSUME NEW ch \in ClientHellos, ClientGreets(ch) PROVE SentInv'
    BY <1>2, <1>3 DEF ClientGreets, Greet, streamVars
<1>4. ASSUME NEW sh \in ServerHellos, ServerGreets(sh) PROVE SentInv'
    BY <1>2, <1>4 DEF ServerGreets, Greet, streamVars
<1>5. ASSUME NEW bytes \in Junk, SendJunk(bytes) PROVE SentInv'
    BY <1>2, <1>5 DEF SendJunk
<1>6. CASE Pipe
    BY <1>2, <1>6 DEF Pipe, Read, NeedsMore, ProtocolError, TakePacket
<1>7. CASE UNCHANGED vars
    BY <1>2, <1>7 DEF vars, streamVars
<1> QED
    BY <1>1, <1>3, <1>4, <1>5, <1>6, <1>7 DEF Next

(* A packet that was sent is known by its bytes.                            *)
LEMMA SentIsRead ==
    ASSUME NEW p \in Packets, MarshalPacket(p) # Err
    PROVE  /\ p \in Packet /\ Short(p)
           /\ MarshalPacket(p) \in Bytes
           /\ UnmarshalPacket(MarshalPacket(p)) = p
<1>1. p \in Packet /\ Short(p)
    BY StreamAssumption, MadeAssumption DEF Short
<1> QED
    BY <1>1, PacketBytes, UnmarshalInverts

(* What a client sends in a datagram through any chain of layers is what    *)
(* the server reads, though it unwraps in the order in which the client     *)
(* wrapped.                                                                 *)
THEOREM DatagramsRoundTrip == Spec => []RoundTrip
<1>1. TypeOK /\ SentInv => RoundTrip
  <2> SUFFICES ASSUME TypeOK, SentInv, NEW chain \in Chains, sent # <<>>
               PROVE  UnmarshalPacket(Wrap(chain, Wrap(chain, MarshalPacket(Last(sent)))))
                        = Last(sent)
      BY DEF RoundTrip
  <2>1. sent \in Seq(Packets)
      BY DEF TypeOK
  <2>2. Len(sent) \in 1 .. Len(sent)
      BY <2>1
  <2> DEFINE p == Last(sent)
  <2>3. p \in Packets /\ MarshalPacket(p) # Err
      BY <2>1, <2>2 DEF Last, SentInv
  <2>4. chain \in Seq(Bytes \ {<<>>})
      BY StreamAssumption
  <2> HIDE DEF p
  <2>5. Wrap(chain, Wrap(chain, MarshalPacket(p))) = MarshalPacket(p)
      BY <2>3, <2>4, SentIsRead, WrapUndoesItself
  <2> QED
      BY <2>3, <2>5, SentIsRead DEF p
<1> QED
    BY <1>1, SentInit, SentNext, TypeCorrect, PTL DEF Spec

----------------------------------------------------------------------------
(* Packets in a stream. *)

LEMMA Joining ==
    ASSUME NEW a \in Bytes, NEW b \in Bytes
    PROVE  /\ Then(a, b) \in Bytes
           /\ Then(a, <<>>) = a /\ Then(<<>>, a) = a
           /\ <<>> \in Bytes
           /\ Then(a, b) = <<>> => a = <<>>
           /\ Len(a) \in 0 .. Len(Then(a, b))
           /\ a = SubSeq(Then(a, b), 1, Len(a))
<1>1. a \in Seq(Byte) /\ b \in Seq(Byte) /\ <<>> \in Bytes
    BY DEF Bytes
<1>2. a \o <<>> = a /\ <<>> \o a = a
    BY <1>1, ConcatEmptySeq
<1>3. a \o b = <<>> => a = <<>>
    BY <1>1, ConcatEqualIffEmpty
<1> DEFINE c == a \o b
<1>4. /\ c \in Bytes /\ Len(c) = Len(a) + Len(b)
      /\ \A i \in 1 .. Len(a) : c[i] = a[i]
  <2>1. Joined(a \o b, a, b)
      BY Parts
  <2> QED
      BY <2>1 DEF Joined
<1>5. Len(a) \in Nat /\ Len(b) \in Nat
    BY <1>1
<1> HIDE DEF c
<1>6. Len(a) \in 0 .. Len(c)
    BY <1>4, <1>5
<1>7. SubSeq(c, 1, Len(a)) = a
  <2>1. /\ SubSeq(c, 1, Len(a)) \in Bytes /\ Len(SubSeq(c, 1, Len(a))) = Len(a)
        /\ \A i \in Nat : i < Len(a) => At(SubSeq(c, 1, Len(a)), i) = At(c, i)
      BY <1>4, <1>6, SliceOfBeginning
  <2> DEFINE d == SubSeq(c, 1, Len(a))
  <2>2. ASSUME NEW i \in 1 .. Len(a) PROVE d[i] = a[i]
    <3>1. i - 1 \in Nat /\ i - 1 < Len(a) /\ (i - 1) + 1 = i
        BY <1>5
    <3> QED
        BY <1>4, <2>1, <3>1 DEF At
  <2>3. d \in Seq(Byte) /\ Len(d) = Len(a)
      BY <2>1 DEF Bytes
  <2> HIDE DEF d
  <2>4. d = a
      BY <1>1, <2>2, <2>3, SeqEqual
  <2> QED
      BY <2>4 DEF d
<1>8. c = Then(a, b)
    BY Zenon DEF c, Then
<1>9. Then(a, <<>>) = a /\ Then(<<>>, a) = a
    BY <1>2, Zenon DEF Then
<1>10. Then(a, b) = <<>> => a = <<>>
    BY <1>3, Zenon DEF Then
<1> QED
    BY <1>1, <1>4, <1>6, <1>7, <1>8, <1>9, <1>10

LEMMA JoiningAssociates ==
    \A a, b, c \in Bytes : Then(Then(a, b), c) = Then(a, Then(b, c))
BY ConcatAssociative DEF Then, Bytes

(* FrameFound, of a packet that was sent.                                   *)
LEMMA SentFrameFound ==
    ASSUME NEW p \in Packets, MarshalPacket(p) # Err,
           NEW buf \in Bytes, NEW ahead \in Bytes, NEW rest \in Bytes,
           Then(buf, ahead) = Then(MarshalPacket(p), rest),
           ExtractPacket(buf).completed
    PROVE  /\ ~ExtractPacket(buf).err
           /\ ExtractPacket(buf).packet = MarshalPacket(p)
           /\ Then(ExtractPacket(buf).remaining, ahead) = rest
<1>1. p \in Packet /\ Short(p)
    BY SentIsRead
<1> QED
    BY <1>1, FrameFound

(* There is an account of the stream: what is left of it after each of the  *)
(* packets that were sent begins with the next, and ends with the junk, if  *)
(* there was any; and what the server has left after those that it received *)
(* is in its buffer and in the connection.                                  *)
Account(rest) ==
    /\ rest \in [0 .. Len(sent) -> Bytes]
    /\ \A k \in 1 .. Len(sent) : rest[k - 1] = Then(MarshalPacket(sent[k]), rest[k])
    /\ spoilt => rest[Len(sent)] \in Junk
    /\ ~spoilt => rest[Len(sent)] = <<>>
    /\ pc # "closed" => Then(tcpBuffer, wire) = rest[Len(received)]

FlowInv ==
    /\ Len(received) <= Len(sent)
    /\ \A k \in 1 .. Len(received) : received[k] = sent[k]
    /\ \E rest : Account(rest)

LEMMA FlowInit == Init => FlowInv
<1> SUFFICES ASSUME Init PROVE FlowInv
    OBVIOUS
<1> DEFINE rest == [k \in 0 .. 0 |-> <<>>]
<1>1. Then(<<>>, <<>>) = <<>> /\ <<>> \in Bytes
  <2>1. <<>> \in Bytes
      BY DEF Bytes
  <2> QED
      BY <2>1, Joining
<1>2. Len(sent) = 0 /\ Len(received) = 0
    BY DEF Init
<1>3. rest \in [0 .. 0 -> Bytes] /\ rest[0] = <<>>
    BY <1>1
<1> HIDE DEF rest
<1>4. Account(rest)
    BY <1>1, <1>2, <1>3 DEF Init, Account
<1> QED
    BY <1>2, <1>4 DEF FlowInv

LEMMA FlowSend ==
    ASSUME TypeOK, SentInv, FlowInv, NEW p \in Packets, Send(p)
    PROVE  FlowInv'
<1> DEFINE m == MarshalPacket(p)
<1>0. PICK n \in Nat : n = Len(sent)
    BY DEF TypeOK
<1>1. /\ ~spoilt /\ spoilt' = spoilt /\ m # Err /\ sent' = Append(sent, p)
      /\ wire' = Then(wire, m)
      /\ UNCHANGED <<tcpBuffer, pc, received>>
    BY DEF Send, Then
<1>2. /\ sent \in Seq(Packets) /\ wire \in Bytes /\ tcpBuffer \in Bytes
      /\ n \in Nat /\ Len(received) \in Nat
    BY <1>0 DEF TypeOK
<1>3. m \in Bytes
    BY <1>1, SentIsRead
<1>4. /\ Len(sent') = n + 1
      /\ \A k \in 1 .. n : sent'[k] = sent[k]
      /\ sent'[n + 1] = p
    BY <1>0, <1>1, <1>2, AppendProperties
<1>5. PICK rest : Account(rest)
    BY DEF FlowInv
<1> HIDE DEF m
<1>6. /\ rest \in [0 .. n -> Bytes] /\ rest[n] = <<>>
      /\ \A k \in 1 .. n : rest[k - 1] = Then(MarshalPacket(sent[k]), rest[k])
      /\ pc # "closed" => Then(tcpBuffer, wire) = rest[Len(received)]
    BY <1>0, <1>1, <1>5 DEF Account
<1>7. Len(received) <= n /\ \A k \in 1 .. Len(received) : received[k] = sent[k]
    BY <1>0 DEF FlowInv
<1> DEFINE next == [k \in 0 .. n + 1 |-> IF k = n + 1 THEN <<>> ELSE Then(rest[k], m)]
<1>8. \A k \in 0 .. n : Then(rest[k], m) \in Bytes
    BY <1>3, <1>6, Joining
<1>9. /\ <<>> \in Bytes
      /\ Then(<<>>, m) = m /\ Then(m, <<>>) = m
    BY <1>3, Joining
<1>10. /\ next \in [0 .. n + 1 -> Bytes]
       /\ next[n + 1] = <<>>
       /\ \A k \in 0 .. n : next[k] = Then(rest[k], m)
    BY <1>2, <1>8, <1>9
<1> HIDE DEF next
<1>11. ASSUME NEW k \in 1 .. n + 1
       PROVE  next[k - 1] = Then(MarshalPacket(sent'[k]), next[k])
  <2>1. CASE k = n + 1
    <3>1. next[k - 1] = Then(rest[n], m)
        BY <1>2, <1>10, <2>1
    <3>2. next[k - 1] = m
        BY <1>6, <1>9, <3>1
    <3> QED
        BY <1>4, <1>9, <1>10, <2>1, <3>2 DEF m
  <2>2. CASE k \in 1 .. n
    <3>1. sent[k] \in Packets /\ MarshalPacket(sent[k]) # Err
        BY <1>0, <1>2, <2>2 DEF SentInv
    <3>2. MarshalPacket(sent[k]) \in Bytes
        BY <3>1, SentIsRead
    <3>3. k - 1 \in 0 .. n /\ k \in 0 .. n
        BY <1>2, <2>2
    <3>4. Then(Then(MarshalPacket(sent[k]), rest[k]), m)
            = Then(MarshalPacket(sent[k]), Then(rest[k], m))
        BY <1>3, <1>6, <3>2, <3>3, JoiningAssociates
    <3> QED
        BY <1>4, <1>6, <1>10, <2>2, <3>3, <3>4
  <2> QED
      BY <1>2, <2>1, <2>2
<1>12. ASSUME pc' # "closed" PROVE Then(tcpBuffer', wire') = next[Len(received')]
  <2>1. Len(received) \in 0 .. n
      BY <1>2, <1>7
  <2>2. next[Len(received)] = Then(Then(tcpBuffer, wire), m)
      BY <1>1, <1>6, <1>10, <1>12, <2>1
  <2>3. Then(Then(tcpBuffer, wire), m) = Then(tcpBuffer, Then(wire, m))
      BY <1>2, <1>3, JoiningAssociates
  <2> QED
      BY <1>1, <2>2, <2>3
<1>13. Account(next)'
    BY <1>1, <1>4, <1>10, <1>11, <1>12 DEF Account
<1>14. Len(received') <= Len(sent') /\ \A k \in 1 .. Len(received') : received'[k] = sent'[k]
    BY <1>1, <1>2, <1>4, <1>7
<1> QED
    BY <1>13, <1>14 DEF FlowInv

LEMMA FlowJunk ==
    ASSUME TypeOK, SentInv, FlowInv, NEW bytes \in Junk, SendJunk(bytes)
    PROVE  FlowInv'
<1>0. PICK n \in Nat : n = Len(sent)
    BY DEF TypeOK
<1>1. /\ ~spoilt /\ spoilt' /\ sent' = sent
      /\ wire' = Then(wire, bytes)
      /\ UNCHANGED <<tcpBuffer, pc, received>>
    BY DEF SendJunk, Then
<1>2. /\ sent \in Seq(Packets) /\ wire \in Bytes /\ tcpBuffer \in Bytes /\ bytes \in Bytes
      /\ n \in Nat /\ Len(received) \in Nat
    BY <1>0, StreamAssumption DEF TypeOK
<1>3. PICK rest : Account(rest)
    BY DEF FlowInv
<1>4. /\ rest \in [0 .. n -> Bytes] /\ rest[n] = <<>>
      /\ \A k \in 1 .. n : rest[k - 1] = Then(MarshalPacket(sent[k]), rest[k])
      /\ pc # "closed" => Then(tcpBuffer, wire) = rest[Len(received)]
    BY <1>0, <1>1, <1>3 DEF Account
<1>5. Len(received) <= n
    BY <1>0 DEF FlowInv
<1> DEFINE next == [k \in 0 .. n |-> Then(rest[k], bytes)]
<1>6. /\ next \in [0 .. n -> Bytes]
      /\ \A k \in 0 .. n : next[k] = Then(rest[k], bytes)
  <2>1. \A k \in 0 .. n : Then(rest[k], bytes) \in Bytes
      BY <1>2, <1>4, Joining
  <2> QED
      BY <2>1
<1> HIDE DEF next
<1>7. next[n] = bytes
  <2>1. Then(<<>>, bytes) = bytes
      BY <1>2, Joining
  <2> QED
      BY <1>2, <1>4, <1>6, <2>1
<1>8. ASSUME NEW k \in 1 .. n
      PROVE  next[k - 1] = Then(MarshalPacket(sent[k]), next[k])
  <2>1. sent[k] \in Packets /\ MarshalPacket(sent[k]) # Err
      BY <1>0, <1>2 DEF SentInv
  <2>2. MarshalPacket(sent[k]) \in Bytes
      BY <2>1, SentIsRead
  <2>3. k - 1 \in 0 .. n /\ k \in 0 .. n
      BY <1>2
  <2>4. Then(Then(MarshalPacket(sent[k]), rest[k]), bytes)
          = Then(MarshalPacket(sent[k]), Then(rest[k], bytes))
      BY <1>2, <1>4, <2>2, <2>3, JoiningAssociates
  <2> QED
      BY <1>4, <1>6, <2>3, <2>4
<1>9. ASSUME pc' # "closed" PROVE Then(tcpBuffer', wire') = next[Len(received')]
  <2>1. Len(received) \in 0 .. n
      BY <1>2, <1>5
  <2>2. next[Len(received)] = Then(Then(tcpBuffer, wire), bytes)
      BY <1>1, <1>4, <1>6, <1>9, <2>1
  <2>3. Then(Then(tcpBuffer, wire), bytes) = Then(tcpBuffer, Then(wire, bytes))
      BY <1>2, JoiningAssociates
  <2> QED
      BY <1>1, <2>2, <2>3
<1>10. Account(next)'
    BY <1>0, <1>1, <1>6, <1>7, <1>8, <1>9 DEF Account
<1> QED
    BY <1>1, <1>10 DEF FlowInv

LEMMA FlowRead ==
    ASSUME TypeOK, FlowInv, Read
    PROVE  FlowInv'
<1>1. PICK n \in 1 .. ReadLen :
        /\ n <= Len(wire)
        /\ tcpBuffer' = tcpBuffer \o SubSeq(wire, 1, n)
        /\ wire' = SubSeq(wire, n + 1, Len(wire))
    BY DEF Read
<1> DEFINE x == SubSeq(wire, 1, n)
           y == SubSeq(wire, n + 1, Len(wire))
<1>2. wire \in Bytes /\ tcpBuffer \in Bytes /\ Len(wire) \in Nat
    BY DEF TypeOK, Bytes
<1>3. x \in Bytes /\ y \in Bytes
    BY <1>1, <1>2 DEF Bytes
<1>4. Then(x, y) = wire
  <2>1. x \o y = wire
      BY <1>1, <1>2 DEF Bytes
  <2> HIDE DEF x, y
  <2> QED
      BY <2>1, Zenon DEF Then
<1> HIDE DEF x, y
<1>5. tcpBuffer' = Then(tcpBuffer, x) /\ wire' = y
    BY <1>1, Zenon DEF Then, x, y
<1>6. Then(tcpBuffer', wire') = Then(tcpBuffer, wire)
    BY <1>2, <1>3, <1>4, <1>5, JoiningAssociates
<1>7. pc = "read" /\ UNCHANGED <<sent, spoilt, received>>
    BY DEF Read
<1>8. PICK rest : Account(rest)
    BY DEF FlowInv
<1>9. Account(rest)'
    BY <1>6, <1>7, <1>8 DEF Account
<1> QED
    BY <1>7, <1>9 DEF FlowInv

LEMMA FlowTake ==
    ASSUME TypeOK, SentInv, FlowInv, TakePacket
    PROVE  FlowInv'
<1> DEFINE result == ExtractPacket(tcpBuffer)
           packet == UnmarshalPacket(result.packet)
           r == Len(received)
<1>1. /\ pc = "extract" /\ result.completed /\ ~result.err
      /\ tcpBuffer' = result.remaining
      /\ packet = Err => pc' = "closed" /\ UNCHANGED received
      /\ packet # Err => received' = Append(received, packet) /\ UNCHANGED pc
      /\ UNCHANGED <<sent, spoilt, wire>>
    BY DEF TakePacket
<1>2. /\ sent \in Seq(Packets) /\ received \in Seq(Packet)
      /\ tcpBuffer \in Bytes /\ wire \in Bytes
      /\ Len(sent) \in Nat /\ r \in Nat
    BY DEF TypeOK
<1>3. PICK rest : Account(rest)
    BY DEF FlowInv
<1> HIDE DEF result, packet, r
<1>4. /\ rest \in [0 .. Len(sent) -> Bytes]
      /\ \A k \in 1 .. Len(sent) : rest[k - 1] = Then(MarshalPacket(sent[k]), rest[k])
      /\ spoilt => rest[Len(sent)] \in Junk
      /\ ~spoilt => rest[Len(sent)] = <<>>
      /\ Then(tcpBuffer, wire) = rest[r]
    BY <1>1, <1>3 DEF Account, r
<1>5. r <= Len(sent) /\ \A k \in 1 .. r : received[k] = sent[k]
    BY DEF FlowInv, r
<1>6. CASE packet = Err
  <2>1. Account(rest)'
      BY <1>1, <1>3, <1>6 DEF Account
  <2> QED
      BY <1>1, <1>6, <2>1 DEF FlowInv
<1>7. CASE r < Len(sent) /\ packet # Err
  <2> DEFINE p == sent[r + 1]
  <2>1. r + 1 \in 1 .. Len(sent) /\ (r + 1) - 1 = r /\ r + 1 \in 0 .. Len(sent)
      BY <1>2, <1>7
  <2>2. p \in Packets /\ MarshalPacket(p) # Err /\ rest[r + 1] \in Bytes
      BY <1>2, <1>4, <2>1 DEF SentInv
  <2>3. Then(tcpBuffer, wire) = Then(MarshalPacket(p), rest[r + 1])
      BY <1>4, <2>1
  <2> HIDE DEF p
  <2>4. result.packet = MarshalPacket(p) /\ Then(result.remaining, wire) = rest[r + 1]
      BY <1>1, <1>2, <2>2, <2>3, SentFrameFound DEF result
  <2>5. packet = p
      BY <2>2, <2>4, SentIsRead DEF packet
  <2>6. received' = Append(received, p) /\ pc' = pc /\ p \in Packet
      BY <1>1, <1>7, <2>2, <2>5, SentIsRead
  <2>7. /\ Len(received') = r + 1
        /\ \A k \in 1 .. r : received'[k] = received[k]
        /\ received'[r + 1] = p
      BY <1>2, <2>6, AppendProperties DEF r
  <2>8. Then(tcpBuffer', wire') = rest[Len(received')]
      BY <1>1, <2>4, <2>7
  <2>9. Account(rest)'
      BY <1>1, <1>4, <2>8 DEF Account
  <2>10. Len(received') <= Len(sent')
      BY <1>1, <1>2, <1>7, <2>7
  <2>11. ASSUME NEW k \in 1 .. Len(received') PROVE received'[k] = sent'[k]
    <3>1. k \in 1 .. r \/ k = r + 1
        BY <1>2, <2>7
    <3> QED
        BY <1>1, <1>5, <2>7, <3>1 DEF p
  <2> QED
      BY <2>9, <2>10, <2>11 DEF FlowInv
<1>8. CASE r = Len(sent) /\ packet # Err
  <2>1. Then(tcpBuffer, wire) = rest[Len(sent)]
      BY <1>4, <1>8
  <2>2. CASE ~spoilt
    <3>1. tcpBuffer = <<>>
        BY <1>2, <1>4, <2>1, <2>2, Joining
    <3>2. Len(result.remaining) < 0
      <4>1. Len(result.remaining) < Len(tcpBuffer)
          BY <1>1, <1>2, ExtractSplits DEF result
      <4>2. Len(tcpBuffer) = 0
          BY <3>1
      <4> QED
          BY <4>1, <4>2
    <3>3. Len(result.remaining) \in Nat
      <4>1. result.remaining \in Bytes
          BY <1>1, <1>2, ExtractSplits DEF result
      <4> QED
          BY <4>1 DEF Bytes
    <3> QED
        BY <3>2, <3>3
  <2>3. CASE spoilt
    <3> DEFINE junk == Then(tcpBuffer, wire)
               n == Len(tcpBuffer)
    <3>1. Malformed(junk)
        BY <1>4, <2>1, <2>3, MadeAssumption
    <3>2. n \in 0 .. Len(junk) /\ SubSeq(junk, 1, n) = tcpBuffer
        BY <1>2, Joining
    <3> HIDE DEF junk, n
    <3>3. packet = Err
        BY <1>1, <3>1, <3>2 DEF Malformed, result, packet
    <3> QED
        BY <1>8, <3>3
  <2> QED
      BY <2>2, <2>3
<1>9. packet = Err \/ packet # Err
    OBVIOUS
<1> QED
    BY <1>2, <1>5, <1>6, <1>7, <1>8

LEMMA FlowNext == TypeOK /\ SentInv /\ FlowInv /\ [Next]_vars => FlowInv'
<1> SUFFICES ASSUME TypeOK, SentInv, FlowInv, [Next]_vars PROVE FlowInv'
    OBVIOUS
<1>1. CASE UNCHANGED streamVars
    BY <1>1 DEF FlowInv, Account, streamVars
<1>2. ASSUME NEW ch \in ClientHellos, ClientGreets(ch) PROVE FlowInv'
    BY <1>1, <1>2 DEF ClientGreets, Greet
<1>3. ASSUME NEW sh \in ServerHellos, ServerGreets(sh) PROVE FlowInv'
    BY <1>1, <1>3 DEF ServerGreets, Greet
<1>4. ASSUME NEW p \in Packets, Send(p) PROVE FlowInv'
    BY <1>4, FlowSend
<1>5. ASSUME NEW bytes \in Junk, SendJunk(bytes) PROVE FlowInv'
    BY <1>5, FlowJunk
<1>6. CASE Read
    BY <1>6, FlowRead
<1>7. CASE NeedsMore
    BY <1>7 DEF NeedsMore, FlowInv, Account
<1>8. CASE ProtocolError
    BY <1>8 DEF ProtocolError, FlowInv, Account
<1>9. CASE TakePacket
    BY <1>9, FlowTake
<1>10. CASE UNCHANGED vars
    BY <1>1, <1>10 DEF vars
<1> QED
    BY <1>2, <1>3, <1>4, <1>5, <1>6, <1>7, <1>8, <1>9, <1>10 DEF Next, Pipe

(* However the connection cuts the stream into pieces, the server takes the *)
(* packets out of it that were sent, in their order, and nothing else, even *)
(* if a malformed one follows them.                                         *)
THEOREM PacketsInOrder == Spec => []FramesInOrder
<1>1. TypeOK /\ FlowInv => FramesInOrder
  <2> SUFFICES ASSUME TypeOK, FlowInv PROVE FramesInOrder
      OBVIOUS
  <2> DEFINE r == Len(received)
  <2>1. /\ sent \in Seq(Packets) /\ received \in Seq(Packet)
        /\ r \in Nat /\ Len(sent) \in Nat /\ r <= Len(sent)
        /\ \A k \in 1 .. r : received[k] = sent[k]
      BY DEF TypeOK, FlowInv
  <2>2. SubSeq(received, 1, r) = SubSeq(sent, 1, r)
    <3>1. SubSeq(received, 1, r) = [k \in 1 .. r |-> received[k]]
        BY <2>1
    <3>2. SubSeq(sent, 1, r) = [k \in 1 .. r |-> sent[k]]
        BY <2>1
    <3> QED
        BY <2>1, <3>1, <3>2
  <2> QED
      BY <2>1, <2>2 DEF FramesInOrder, IsPrefix
<1> QED
    BY <1>1, FlowInit, FlowNext, SentInit, SentNext, TypeCorrect, PTL DEF Spec

============================================================================
