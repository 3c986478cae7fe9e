------------------------------ MODULE MCStream ------------------------------
(* A format of 8 values of a byte, addresses of 1 and 2 bytes.             *)
EXTENDS Stream, Bitwise

Table == [a \in 0 .. 7, b \in 0 .. 7 |-> a ^^ b]
XorOf(a, b) == Table[a, b]
Prefix == <<7>>
MCClientHellos ==
    {NewClientHello(<<r>>, chain, auth) :
        r \in {2}, chain \in {<<>>, <<0>>, <<1, 1>>}, auth \in {<<>>, <<3>>, <<4, 5>>}}
MCServerHellos ==
    {NewServerHello(<<r>>, response, ip) : r \in {3}, response \in {0, 7}, ip \in {<<4>>, <<7, 5>>}}
MCPackets ==
    {MakePacket(0, <<1>>, <<2>>, <<0>>, <<4, 6, 5>>), MakePacket(1, <<7, 2>>, <<1>>, <<2>>, <<>>),
     MakePacket(0, <<1, 2>>, <<2, 1>>, <<0>>, <<1, 0, 4, 1, 0, 0, 0, 0>>)}
MCJunk == {<<1, 0, 5>>, <<2, 0, 4, 1, 2, 0, 0, 0>>}
MCChains == {<<DebugLayer>>, <<<<5, 3>>>>, <<DebugLayer, <<1, 7, 2>>, <<6, 6>>>>}
============================================================================
