--------------------------- MODULE SessionProofs ---------------------------
(***************************************************************************)
(* Type correctness of Session, that the keys of client and server agree,  *)
(* that the pings keep a session alive, and that the silence of the server *)
(* shows: for any number of attempts, sockets, reader loops, ping loops,   *)
(* opens and crashes, over a network that loses, repeats, reorders and     *)
(* delays datagrams.                                                       *)
(***************************************************************************)
EXTENDS Session, TLAPS

LEMMA Transmission ==
    ASSUME NEW taken, NEW sent, Exchange(taken, sent)
    PROVE  /\ net' \subseteq net \cup taken \cup sent
           /\ net \ taken \subseteq net'
           /\ lost' \in BOOLEAN
           /\ ~lost' => ~lost /\ sent \subseteq net'
BY DEF Exchange

LEMMA DatagramsSent ==
    ASSUME NEW p \in Sockets, NEW k \in Keys
    PROVE  /\ \A r \in Nat : Hello(p, r) \in Datagrams
           /\ \A kind \in {"data", "ping"} : Packet(p, kind, k) \in Datagrams
           /\ \A s \in Nat : Answer(p, s) \in Datagrams
           /\ Refused(p) \in Datagrams
           /\ \A kind \in {"pong", "other"} : Reply(p, kind, k) \in Datagrams
<1>1. ASSUME NEW kind \in {"hello", "data", "ping"}, NEW x \in Keys
      PROVE  [to |-> "server", port |-> p, kind |-> kind, key |-> x] \in Datagrams
    BY DEF Datagrams
<1>2. ASSUME NEW kind \in {"answer", "refused", "pong", "other"}, NEW x \in Keys
      PROVE  [to |-> "client", port |-> p, kind |-> kind, key |-> x] \in Datagrams
    BY DEF Datagrams
<1>3. \A r \in Nat : <<r, 0>> \in Keys /\ <<0, r>> \in Keys
    BY DEF Keys
<1> QED
    BY <1>1, <1>2, <1>3 DEF Hello, Packet, Answer, Refused, Reply, Datagram

(* Boolean variables and the others have proofs of their own, each with the *)
(* prover that is good at them.                                            *)
SessionInv == SessionOK /\ AttemptsLeft /\ Waiting

----------------------------------------------------------------------------
(* The flags. *)

LEMMA FlagsInit == Init => FlagsOK
BY DEF Init, PingInit, FlagsOK, PingFlagsOK

LEMMA FlagsNet ==
    ASSUME FlagsOK, NEW taken, NEW sent,
           Exchange(taken, sent) \/ (\E m : Send(m)) \/ UNCHANGED netVars
    PROVE  lost' \in BOOLEAN
BY DEF Exchange, Send, FlagsOK, netVars

LEMMA FlagsHandshake == FlagsOK /\ HandshakeStep => FlagsOK'
<1> USE DEF FlagsOK, PingFlagsOK, pingVars, clientVars, loopVars, serverVars, netVars
<1> SUFFICES ASSUME FlagsOK, HandshakeStep PROVE FlagsOK'
    OBVIOUS
<1>1. CASE Dial
    BY <1>1, Zenon DEF Dial
<1>2. CASE DialFails
    BY <1>2, Zenon DEF DialFails, FailAttempt
<1>3. CASE SendHello
    BY <1>3, FlagsNet, Zenon DEF SendHello
<1>4. CASE Timeout
    BY <1>4, Zenon DEF Timeout, FailAttempt
<1>5. ASSUME NEW m \in net, ReadOther(m) PROVE FlagsOK'
    BY <1>5, FlagsNet, Zenon DEF ReadOther, FailAttempt
<1>6. ASSUME NEW m \in net, ReadAnswer(m) PROVE FlagsOK'
    BY <1>6, Zenon DEF ReadAnswer, NewDefaultPing
<1> QED BY <1>1, <1>2, <1>3, <1>4, <1>5, <1>6 DEF HandshakeStep

LEMMA FlagsServer == FlagsOK /\ ServerStep => FlagsOK'
<1> USE DEF FlagsOK, PingFlagsOK, pingVars, clientVars, loopVars, serverVars, netVars
<1> SUFFICES ASSUME FlagsOK, ServerStep PROVE FlagsOK'
    OBVIOUS
<1>1. ASSUME NEW m \in net, Register(m) PROVE FlagsOK'
    BY <1>1, FlagsNet, Zenon DEF Register
<1>2. ASSUME NEW m \in net, Refuse(m) PROVE FlagsOK'
    BY <1>2, FlagsNet, Zenon DEF Refuse
<1>3. ASSUME NEW m \in net, Handle(m) PROVE FlagsOK'
    BY <1>3, FlagsNet, Zenon DEF Handle
<1>4. ASSUME NEW p \in Sockets, ServerSends(p) PROVE FlagsOK'
    BY <1>4, FlagsNet, Zenon DEF ServerSends
<1>5. ASSUME NEW p \in Sockets, Evict(p) PROVE FlagsOK'
    BY <1>5, FlagsNet, Zenon DEF Evict
<1>6. CASE Crash
    BY <1>6, Zenon DEF Crash
<1>7. CASE Boot
    BY <1>7, Zenon DEF Boot
<1> QED BY <1>1, <1>2, <1>3, <1>4, <1>5, <1>6, <1>7 DEF ServerStep

LEMMA FlagsStep == FlagsOK /\ [Next]_vars => FlagsOK'
<1> USE DEF FlagsOK, PingFlagsOK, pingVars, clientVars, loopVars, serverVars, netVars
<1> SUFFICES ASSUME FlagsOK, [Next]_vars PROVE FlagsOK'
    OBVIOUS
<1>1. CASE Open
    BY <1>1, Zenon DEF Open
<1>2. CASE Write
    BY <1>2, FlagsNet, Zenon DEF Write
<1>3. CASE PingServer
    BY <1>3, FlagsNet, Zenon DEF PingServer, Start
<1>4. CASE Report
    BY <1>4, Zenon DEF Report
<1>5. CASE Timer
    BY <1>5, Zenon DEF Timer, TimerFires
<1>6. ASSUME NEW r \in Readers, StartReader(r) \/ EnterRead(r) \/ ReadFails(r) PROVE FlagsOK'
    BY <1>6, Zenon DEF StartReader, EnterRead, ReadFails
<1>7. ASSUME NEW r \in Readers, NEW m \in net, Read(r, m) PROVE FlagsOK'
    BY <1>7, FlagsNet, Zenon DEF Read, Calculate
<1>8. CASE Tick
    BY <1>8, Zenon DEF Tick, NextPeriod
<1>9. CASE UNCHANGED vars
    BY <1>9, Zenon DEF vars
<1> QED
    BY <1>1, <1>2, <1>3, <1>4, <1>5, <1>6, <1>7, <1>8, <1>9, FlagsHandshake, FlagsServer, Zenon
    DEF Next, PingLoopStep, ReaderLoopStep, Rest

----------------------------------------------------------------------------
(* The rest of the state. *)

(* What is sent and received has the type of a datagram.                   *)
LEMMA NetworkType ==
    ASSUME SessionOK, NEW m \in net, NEW sent \in SUBSET Datagrams, Exchange({m}, sent)
    PROVE  net' \subseteq Datagrams
BY Transmission DEF SessionOK

LEMMA SendType ==
    ASSUME SessionOK, NEW m \in Datagrams, Send(m)
    PROVE  net' \subseteq Datagrams
<1>1. Exchange({}, {m})
    BY DEF Send
<1> QED
    BY <1>1, Transmission DEF SessionOK

LEMMA FailAttemptType ==
    ASSUME SessionInv, FailAttempt, hs \in {"dial", "hello", "await"},
           net' \subseteq Datagrams, conn' \in {0} \cup Sockets
    PROVE  SessionInv'
BY CountsAssumption
   DEF SessionInv, SessionOK, TimersOK, pingVars, loopVars, serverVars, AttemptsLeft, Waiting, FailAttempt

LEMMA SessionInit == Init => SessionInv
BY CountsAssumption DEF Init, PingInit, SessionInv, SessionOK, TimersOK, AttemptsLeft, Waiting

LEMMA HandshakeType ==
    ASSUME SessionInv, HandshakeStep
    PROVE  SessionInv'
<1> USE DEF SessionInv, SessionOK, TimersOK, AttemptsLeft, Waiting, pingVars, clientVars, loopVars,
            serverVars, netVars
<1>1. CASE Dial
    BY <1>1, CountsAssumption DEF Dial, Sockets
<1>2. CASE DialFails
    BY <1>2, FailAttemptType DEF DialFails
<1>3. CASE SendHello
  <2>1. conn \in Sockets /\ conn \in Nat
    BY <1>3 DEF SendHello, Sockets
  <2>2. net' \subseteq Datagrams
    <3>1. <<0, 0>> \in Keys
        BY DEF Keys
    <3>2. Hello(conn, tried) \in Datagrams
        BY <1>3, <2>1, <3>1, DatagramsSent DEF SendHello
    <3> QED BY <1>3, <3>2, SendType DEF SendHello
  <2> QED BY <1>3, <2>2 DEF SendHello
<1>4. CASE Timeout
    BY <1>4, FailAttemptType DEF Timeout
<1>5. ASSUME NEW m \in net, ReadOther(m) PROVE SessionInv'
  <2>1. net' \subseteq Datagrams
    BY <1>5, NetworkType DEF ReadOther
  <2> QED BY <1>5, <2>1, FailAttemptType DEF ReadOther
<1>6. ASSUME NEW m \in net, ReadAnswer(m) PROVE SessionInv'
  <2>1. m.key[2] \in Nat
    BY DEF Datagrams, Keys
  <2>2. nlayer' \in Keys
    BY <1>6, <2>1, CountsAssumption DEF ReadAnswer, Keys
  <2>3. net' \subseteq Datagrams
    BY <1>6 DEF ReadAnswer
  <2> QED BY <1>6, <2>2, <2>3, CountsAssumption DEF ReadAnswer, NewDefaultPing
<1> QED BY <1>1, <1>2, <1>3, <1>4, <1>5, <1>6 DEF HandshakeStep

LEMMA LoopsType ==
    ASSUME SessionInv,
           Open \/ Write \/ PingLoopStep \/ Timer \/ \E r \in Readers : ReaderLoopStep(r)
    PROVE  SessionInv'
<1> USE DEF SessionInv, SessionOK, TimersOK, AttemptsLeft, Waiting, pingVars, clientVars,
            loopVars, serverVars, netVars
<1>1. CASE Open
    BY <1>1, CountsAssumption DEF Open
<1>2. CASE Write
    BY <1>2, DatagramsSent, SendType DEF Write
<1>3. CASE PingServer
  <2>1. net' \subseteq Datagrams
    BY <1>3, DatagramsSent, SendType DEF PingServer
  <2> QED BY <1>3, <2>1 DEF PingServer, Start
<1>4. CASE Report
    BY <1>4 DEF Report
<1>5. CASE Timer
    BY <1>5 DEF Timer, TimerFires
<1>6. ASSUME NEW r \in Readers, StartReader(r) \/ EnterRead(r) \/ ReadFails(r) PROVE SessionInv'
    BY <1>6 DEF StartReader, EnterRead, ReadFails
<1>7. ASSUME NEW r \in Readers, NEW m \in net, Read(r, m) PROVE SessionInv'
  <2>1. net' \subseteq Datagrams
    BY <1>7, NetworkType DEF Read
  <2>2. TimersOK' /\ silence' \in Nat
    BY <1>7 DEF Read, Calculate
  <2> QED BY <1>7, <2>1, <2>2 DEF Read
<1> QED BY <1>1, <1>2, <1>3, <1>4, <1>5, <1>6, <1>7 DEF PingLoopStep, ReaderLoopStep

LEMMA ServerType ==
    ASSUME SessionInv, ServerStep
    PROVE  SessionInv'
<1> USE DEF SessionInv, SessionOK, TimersOK, AttemptsLeft, Waiting, pingVars, clientVars,
            loopVars, serverVars, netVars
<1>1. \A m \in net : m.port \in Sockets /\ m.key \in Keys
    BY DEF Datagrams
<1>2. \A p \in Sockets : peers[p] # None => peers[p] \in Keys
    OBVIOUS
<1>3. ASSUME NEW m \in net, Register(m) PROVE SessionInv'
  <2>1. net' \subseteq Datagrams
    BY <1>1, <1>3, DatagramsSent, NetworkType DEF Register
  <2>2. <<m.key[1], serial'>> \in Keys /\ serial' \in Nat
    BY <1>1, <1>3 DEF Register, Keys
  <2>3. peers' \in [Sockets -> Keys \cup {None}]
    BY <1>1, <1>3, <2>2 DEF Register
  <2>4. age' \in [Sockets -> 0 .. PeerTimeout]
    BY <1>1, <1>3, CountsAssumption DEF Register
  <2> QED BY <1>3, <2>1, <2>2, <2>3, <2>4 DEF Register
<1>4. ASSUME NEW m \in net, Refuse(m) PROVE SessionInv'
    BY <1>1, <1>4, DatagramsSent, NetworkType DEF Refuse
<1>5. ASSUME NEW m \in net, Handle(m) PROVE SessionInv'
  <2>1. net' \subseteq Datagrams
    <3>1. CASE m.kind # "hello" /\ m.key = peers[m.port]
        BY <1>1, <1>5, <3>1, DatagramsSent, NetworkType DEF Handle
    <3>2. CASE ~(m.kind # "hello" /\ m.key = peers[m.port])
        BY <1>5, <3>2, NetworkType DEF Handle
    <3> QED BY <3>1, <3>2
  <2>2. age' \in [Sockets -> 0 .. PeerTimeout]
    BY <1>1, <1>5, CountsAssumption DEF Handle
  <2> QED BY <1>5, <2>1, <2>2 DEF Handle
<1>6. ASSUME NEW p \in Sockets, ServerSends(p) PROVE SessionInv'
    BY <1>2, <1>6, DatagramsSent, SendType DEF ServerSends
<1>7. ASSUME NEW p \in Sockets, Evict(p) PROVE SessionInv'
  <2>1. net' \subseteq Datagrams
    BY <1>2, <1>7, DatagramsSent, SendType DEF Evict, Old
  <2>2. /\ peers' \in [Sockets -> Keys \cup {None}]
        /\ age' \in [Sockets -> 0 .. PeerTimeout]
    BY <1>7, CountsAssumption DEF Evict
  <2> QED BY <1>7, <2>1, <2>2 DEF Evict
<1>8. CASE Crash
    BY <1>8, CountsAssumption DEF Crash
<1>9. CASE Boot
    BY <1>9 DEF Boot
<1> QED BY <1>3, <1>4, <1>5, <1>6, <1>7, <1>8, <1>9 DEF ServerStep

LEMMA SessionStep == SessionInv /\ [Next]_vars => SessionInv'
<1> SUFFICES ASSUME SessionInv, [Next]_vars PROVE SessionInv'
    OBVIOUS
<1>1. CASE Tick
    BY <1>1, CountsAssumption
    DEF Tick, NextPeriod, SessionInv, SessionOK, TimersOK, AttemptsLeft, Waiting, clientVars
<1>2. CASE UNCHANGED vars
    BY <1>2
    DEF vars, SessionInv, SessionOK, TimersOK, AttemptsLeft, Waiting, pingVars, clientVars, loopVars,
        serverVars, netVars
<1> QED BY <1>1, <1>2, HandshakeType, LoopsType, ServerType DEF Next, Rest

(* The fields of the session, its ping and the server keep their types.    *)
THEOREM TypeCorrect == Spec => []TypeOK
<1>1. FlagsOK /\ SessionInv => TypeOK
    BY DEF SessionInv, TypeOK
<1> QED BY <1>1, FlagsInit, FlagsStep, SessionInit, SessionStep, PTL DEF Spec

----------------------------------------------------------------------------
(* The keys. *)

LEMMA KeysInit == Init => KeysInv
BY DEF Init, KeysInv, Waiting, Fresh, NoSecondSession, OneAnswer, KeysAgree, Hellos, Answers,
       OpenOn

(* KeysInv knows hellos and answers only: other datagrams and those that   *)
(* are lost or delivered do not disturb it.                                *)
LEMMA KeysQuiet ==
    ASSUME SessionInv, KeysInv,
           \A p \in Sockets : Hellos(p)' \subseteq Hellos(p) /\ Answers(p)' \subseteq Answers(p),
           \A p \in Sockets : peers'[p] \in {peers[p], None},
           up' => up,
           \A p \in Sockets :
               IF peers'[p] = None THEN up' => peers[p] = None \/ Hellos(p)' = {}
                                   ELSE age'[p] \in {0, age[p]} \/ Hellos(p)' = {},
           tried' = tried, conn' = conn,
           hs' = hs, nlayer' = nlayer,
           ~up' => \A p \in Sockets : peers'[p] = None
    PROVE  KeysInv'
<1> USE DEF KeysInv, SessionInv
<1>1. Waiting'
    BY DEF Waiting
<1>2. Fresh'
    BY DEF Fresh
<1>3. NoSecondSession'
    BY DEF NoSecondSession, OpenOn
<1>4. OneAnswer'
    BY DEF OneAnswer
<1>5. KeysAgree'
    BY DEF KeysAgree, Waiting, SessionOK, Sockets
<1> QED BY <1>1, <1>2, <1>3, <1>4, <1>5

(* A step that adds only datagrams of other kinds to the network.          *)
LEMMA QuietNet ==
    ASSUME NEW taken, NEW sent, \A x \in sent : x.kind \notin {"hello", "answer"},
           taken \subseteq net, Exchange(taken, sent)
    PROVE  \A p \in Sockets : Hellos(p)' \subseteq Hellos(p) /\ Answers(p)' \subseteq Answers(p)
BY Transmission DEF Hellos, Answers

LEMMA QuietSend ==
    ASSUME NEW m, m.kind \notin {"hello", "answer"}, Send(m)
    PROVE  \A p \in Sockets : Hellos(p)' \subseteq Hellos(p) /\ Answers(p)' \subseteq Answers(p)
BY QuietNet DEF Send

LEMMA Kinds ==
    \A p, k, kind :
        /\ Packet(p, kind, k).kind = kind
        /\ Reply(p, kind, k).kind = kind
        /\ Refused(p).kind = "refused"
BY DEF Packet, Reply, Refused, Datagram

LEMMA KeysHandshake ==
    ASSUME SessionInv, KeysInv, HandshakeStep
    PROVE  KeysInv'
<1> USE DEF KeysInv, SessionInv
<1>1. ASSUME FailAttempt, conn' = conn \/ hs = "dial",
             \A p \in Sockets : Hellos(p)' \subseteq Hellos(p) /\ Answers(p)' \subseteq Answers(p)
      PROVE  KeysInv'
  <2>1. hs' \in {"dial", "failed"} /\ tried' = tried /\ UNCHANGED <<up, peers, age>>
    BY <1>1 DEF FailAttempt, serverVars
  <2> QED
    BY <1>1, <2>1 DEF Waiting, Fresh, NoSecondSession, OneAnswer, KeysAgree, OpenOn
<1>2. UNCHANGED net => \A p \in Sockets : Hellos(p)' = Hellos(p) /\ Answers(p)' = Answers(p)
    BY DEF Hellos, Answers
<1>3. CASE Dial
  <2>1. /\ hs' = "hello" /\ tried' = tried + 1 /\ conn' = tried' /\ tried' # 0
        /\ UNCHANGED <<up, peers, age, net>>
    BY <1>3 DEF Dial, serverVars, netVars, SessionOK
  <2>2. \A p \in Sockets : tried' < p \/ p = tried' => tried < p
    BY <2>1 DEF Sockets, SessionOK
  <2> QED
    BY <1>2, <2>1, <2>2 DEF Waiting, Fresh, NoSecondSession, OneAnswer, KeysAgree, OpenOn
<1>4. CASE DialFails
    BY <1>1, <1>2, <1>4 DEF DialFails, netVars
<1>5. CASE SendHello
  <2>1. /\ hs = "hello" /\ hs' = "await" /\ conn = tried /\ tried \in Sockets
        /\ UNCHANGED <<conn, tried, nlayer, up, peers, age>>
    BY <1>5 DEF SendHello, Waiting, SessionOK, serverVars, Sockets
  <2> DEFINE m == Hello(conn, tried)
  <2>2. m.kind = "hello" /\ m.port = tried /\ m.key[1] = tried
    BY <2>1 DEF Hello, Datagram
  <2>3. net' \subseteq net \cup {m}
    BY <1>5, Transmission DEF SendHello, Send
  <2> HIDE DEF m
  <2>4. \A p \in Sockets : /\ Answers(p)' \subseteq Answers(p)
                           /\ Hellos(p)' \subseteq Hellos(p) \cup {m}
                           /\ p # tried => Hellos(p)' \subseteq Hellos(p)
    BY <2>2, <2>3 DEF Hellos, Answers
  <2>5. Waiting' /\ KeysAgree'
    BY <2>1 DEF Waiting, KeysAgree
  <2>6. Fresh'
    BY <2>1, <2>4 DEF Fresh, Sockets, SessionOK
  <2>7. peers[tried] = None /\ Answers(tried) = {}
    BY <2>1 DEF Fresh
  <2>8. NoSecondSession'
    BY <2>1, <2>4, <2>7 DEF NoSecondSession, OpenOn
  <2>9. OneAnswer'
    BY <2>1, <2>2, <2>4 DEF OneAnswer
  <2> QED BY <2>1, <2>5, <2>6, <2>8, <2>9
<1>6. CASE Timeout
    BY <1>1, <1>2, <1>6 DEF Timeout, netVars
<1>7. ASSUME NEW m \in net, ReadOther(m) PROVE KeysInv'
    BY <1>1, <1>7, QuietNet DEF ReadOther
<1>8. ASSUME NEW m \in net, ReadAnswer(m) PROVE KeysInv'
  <2>1. /\ hs = "await" /\ hs' = "open" /\ conn = tried /\ tried \in Sockets
        /\ UNCHANGED <<conn, tried, up, peers, age>>
        /\ m \in Answers(conn) /\ nlayer' = <<tried, m.key[2]>>
    BY <1>8 DEF ReadAnswer, Waiting, SessionOK, serverVars, Sockets, Answers
  <2>2. net' \subseteq net
    BY <1>8 DEF ReadAnswer
  <2>3. \A p \in Sockets : Hellos(p)' \subseteq Hellos(p) /\ Answers(p)' \subseteq Answers(p)
    BY <2>2 DEF Hellos, Answers
  <2>4. Waiting' /\ Fresh'
    BY <2>1, <2>3 DEF Waiting, Fresh
  <2>5. NoSecondSession'
    BY <2>1, <2>3 DEF NoSecondSession, OpenOn
  <2>6. OneAnswer'
    BY <2>1, <2>3 DEF OneAnswer
  <2>7. KeysAgree'
    <3>1. peers[conn] \in {None, nlayer'}
        BY <2>1 DEF OneAnswer
    <3>2. nlayer' # None
        BY <2>1, NoneAssumption DEF SessionOK, Datagrams, Keys, Answers, Sockets
    <3> QED BY <2>1, <3>1, <3>2 DEF KeysAgree, Sockets
  <2> QED BY <2>1, <2>4, <2>5, <2>6, <2>7
<1> QED BY <1>3, <1>4, <1>5, <1>6, <1>7, <1>8 DEF HandshakeStep

LEMMA KeysLoops ==
    ASSUME SessionInv, KeysInv,
           Open \/ Write \/ PingLoopStep \/ Timer \/ \E r \in Readers : ReaderLoopStep(r)
    PROVE  KeysInv'
<1> USE DEF serverVars, netVars, clientVars
<1>1. UNCHANGED net => \A p \in Sockets : Hellos(p)' = Hellos(p) /\ Answers(p)' = Answers(p)
    BY DEF Hellos, Answers
<1>2. ~up => \A p \in Sockets : peers[p] = None
    BY DEF KeysInv
<1>3. CASE Open
  <2>1. hs' = "dial" /\ tried' = tried /\ UNCHANGED <<up, peers, age, net>>
    BY <1>3 DEF Open
  <2> QED
    BY <1>1, <2>1 DEF KeysInv, Waiting, Fresh, NoSecondSession, OneAnswer, KeysAgree, OpenOn
<1>4. CASE Write
    BY <1>2, <1>4, KeysQuiet, QuietSend, Kinds DEF Write
<1>5. CASE PingServer
  <2>1. \A p \in Sockets : Hellos(p)' \subseteq Hellos(p) /\ Answers(p)' \subseteq Answers(p)
    BY <1>1, <1>5, QuietSend, Kinds DEF PingServer
  <2> QED BY <1>2, <1>5, <2>1, KeysQuiet DEF PingServer
<1>6. CASE Report \/ Timer
    BY <1>1, <1>2, <1>6, KeysQuiet DEF Report, Timer
<1>7. ASSUME NEW r \in Readers, StartReader(r) \/ EnterRead(r) \/ ReadFails(r) PROVE KeysInv'
    BY <1>1, <1>2, <1>7, KeysQuiet DEF StartReader, EnterRead, ReadFails
<1>8. ASSUME NEW r \in Readers, NEW m \in net, Read(r, m) PROVE KeysInv'
  <2>1. \A p \in Sockets : Hellos(p)' \subseteq Hellos(p) /\ Answers(p)' \subseteq Answers(p)
    BY <1>8, QuietNet DEF Read
  <2> QED BY <1>2, <1>8, <2>1, KeysQuiet DEF Read
<1> QED BY <1>3, <1>4, <1>5, <1>6, <1>7, <1>8 DEF PingLoopStep, ReaderLoopStep

LEMMA KeysServer ==
    ASSUME SessionInv, KeysInv, ServerStep
    PROVE  KeysInv'
<1> USE DEF serverVars, netVars, clientVars
<1>1. ~up => \A p \in Sockets : peers[p] = None
    BY DEF KeysInv
<1>2. ASSUME NEW m \in net, Register(m) PROVE KeysInv'
  <2> DEFINE q == m.port
  <2>1. /\ m \in Hellos(q) /\ q \in Sockets /\ peers[q] = None /\ up
        /\ serial' = serial + 1 /\ peers' = [peers EXCEPT ![q] = <<m.key[1], serial'>>]
        /\ age' = [age EXCEPT ![q] = 0]
        /\ UNCHANGED <<conn, nlayer, hs, tried, up>>
    BY <1>2 DEF Register, Hellos, SessionInv, SessionOK, Datagrams
  <2>2. m.key[1] = q
    BY <2>1 DEF KeysInv, OneAnswer
  <2>3. Answers(q) = {} /\ ~OpenOn(q)
    BY <2>1 DEF KeysInv, NoSecondSession
  <2>4. /\ \A p \in Sockets : Hellos(p)' \subseteq Hellos(p)
        /\ \A p \in Sockets : p # q => Answers(p)' \subseteq Answers(p)
        /\ \A x \in Answers(q)' : x.key[2] = serial'
    <3>1. net' \subseteq net \cup {Answer(q, serial')}
        BY <1>2, Transmission DEF Register
    <3>2. /\ Answer(q, serial').kind = "answer" /\ Answer(q, serial').port = q
          /\ Answer(q, serial').key[2] = serial'
        BY DEF Answer, Datagram
    <3> QED BY <2>3, <3>1, <3>2 DEF Hellos, Answers
  <2>5. tried >= q /\ ~(hs = "hello" /\ q = tried)
    BY <2>1 DEF KeysInv, Fresh, Sockets, SessionInv, SessionOK
  <2>6. peers'[q] = <<q, serial'>> /\ \A p \in Sockets : p # q => peers'[p] = peers[p]
    BY <2>1, <2>2 DEF SessionInv, SessionOK
  <2>7. age'[q] = 0 /\ \A p \in Sockets : p # q => age'[p] = age[p]
    BY <2>1 DEF SessionInv, SessionOK
  <2>8. peers'[q] # None
    BY <2>1, <2>6, NoneAssumption DEF SessionInv, SessionOK, Sockets
  <2> HIDE DEF q
  <2>9. Waiting'
    BY <2>1 DEF KeysInv, Waiting
  <2>10. Fresh'
    BY <2>1, <2>4, <2>5, <2>6 DEF KeysInv, Fresh, Sockets, SessionInv, SessionOK
  <2>11. NoSecondSession'
    BY <2>1, <2>4, <2>6, <2>7, <2>8 DEF KeysInv, NoSecondSession, OpenOn
  <2>12. OneAnswer'
    BY <2>4, <2>6 DEF KeysInv, OneAnswer
  <2>13. KeysAgree'
    BY <2>1, <2>3, <2>6 DEF KeysInv, KeysAgree, OpenOn, Waiting, SessionInv, SessionOK, Sockets
  <2> QED BY <2>1, <2>9, <2>10, <2>11, <2>12, <2>13 DEF KeysInv
<1>3. ASSUME NEW m \in net, Refuse(m) PROVE KeysInv'
  <2>1. \A p \in Sockets : Hellos(p)' \subseteq Hellos(p) /\ Answers(p)' \subseteq Answers(p)
    BY <1>3, QuietNet, Kinds DEF Refuse
  <2> QED BY <1>1, <1>3, <2>1, KeysQuiet DEF Refuse
<1>4. ASSUME NEW m \in net, Handle(m) PROVE KeysInv'
  <2>1. \A p \in Sockets : Hellos(p)' \subseteq Hellos(p) /\ Answers(p)' \subseteq Answers(p)
    <3>1. CASE m.kind # "hello" /\ m.key = peers[m.port]
        BY <1>4, <3>1, QuietNet, Kinds DEF Handle
    <3>2. CASE ~(m.kind # "hello" /\ m.key = peers[m.port])
        BY <1>4, <3>2, QuietNet DEF Handle
    <3> QED BY <3>1, <3>2
  <2>2. \A p \in Sockets : age'[p] \in {0, age[p]}
    BY <1>4 DEF Handle, SessionInv, SessionOK
  <2>3. UNCHANGED <<conn, nlayer, hs, tried, up, peers>>
    BY <1>4 DEF Handle
  <2> QED BY <1>1, <2>1, <2>2, <2>3, KeysQuiet
<1>5. ASSUME NEW p \in Sockets, ServerSends(p) PROVE KeysInv'
    BY <1>1, <1>5, KeysQuiet, QuietSend, Kinds DEF ServerSends
<1>6. ASSUME NEW p \in Sockets, Evict(p) PROVE KeysInv'
  <2>1. \A q \in Sockets : Hellos(q)' \subseteq Hellos(q) /\ Answers(q)' \subseteq Answers(q)
    BY <1>6, QuietSend, Kinds DEF Evict
  <2>2. peers[p] # None /\ age[p] >= PeerTimeout
    BY <1>6 DEF Evict, Old
  <2>3. Hellos(p) = {}
    BY <2>2, CountsAssumption DEF KeysInv, NoSecondSession, SessionInv, SessionOK
  <2>4. /\ peers'[p] = None
        /\ \A q \in Sockets : q # p => peers'[q] = peers[q] /\ age'[q] = age[q]
    BY <1>6 DEF Evict, SessionInv, SessionOK
  <2>5. UNCHANGED <<conn, nlayer, hs, tried, up>>
    BY <1>6 DEF Evict
  <2> QED BY <1>1, <2>1, <2>3, <2>4, <2>5, KeysQuiet
<1>7. CASE Crash
  <2>1. \A p \in Sockets : Hellos(p)' = Hellos(p) /\ Answers(p)' = Answers(p)
    BY <1>7 DEF Crash, Hellos, Answers
  <2>2. ~up' /\ \A p \in Sockets : peers'[p] = None
    BY <1>7 DEF Crash
  <2>3. UNCHANGED <<conn, nlayer, hs, tried>>
    BY <1>7 DEF Crash
  <2> QED BY <2>1, <2>2, <2>3, KeysQuiet
<1>8. CASE Boot
  <2>1. \A p \in Sockets : Hellos(p) = {} /\ Hellos(p)' = Hellos(p) /\ Answers(p)' = Answers(p)
    BY <1>8 DEF Boot, Hellos, Answers
  <2>2. ~up /\ UNCHANGED <<conn, nlayer, hs, tried, peers, age>>
    BY <1>8 DEF Boot
  <2> QED
    BY <1>1, <2>1, <2>2
    DEF KeysInv, Waiting, Fresh, NoSecondSession, OneAnswer, KeysAgree, OpenOn
<1> QED BY <1>2, <1>3, <1>4, <1>5, <1>6, <1>7, <1>8 DEF ServerStep

LEMMA KeysStep == SessionInv /\ KeysInv /\ [Next]_vars => KeysInv'
<1> SUFFICES ASSUME SessionInv, KeysInv, [Next]_vars PROVE KeysInv'
    OBVIOUS
<1>1. CASE Tick
  <2>1. \A p \in Sockets : Hellos(p)' = {} /\ Answers(p)' = {}
    BY <1>1 DEF Tick, Hellos, Answers
  <2>2. UNCHANGED <<conn, nlayer, hs, tried, up, peers>>
    BY <1>1 DEF Tick, clientVars
  <2>3. ~up => \A p \in Sockets : peers[p] = None
    BY DEF KeysInv
  <2> QED BY <2>1, <2>2, <2>3, KeysQuiet
<1>2. CASE UNCHANGED vars
  <2>1. \A p \in Sockets : Hellos(p)' = Hellos(p) /\ Answers(p)' = Answers(p)
    BY <1>2 DEF vars, netVars, Hellos, Answers
  <2>2. UNCHANGED <<conn, nlayer, hs, tried, up, peers, age>>
    BY <1>2 DEF vars, clientVars, serverVars
  <2>3. ~up => \A p \in Sockets : peers[p] = None
    BY DEF KeysInv
  <2> QED BY <2>1, <2>2, <2>3, KeysQuiet
<1> QED BY <1>1, <1>2, KeysHandshake, KeysLoops, KeysServer DEF Next, Rest

(* Whatever the network loses, repeats, delays or reorders, and whoever    *)
(* crashes: an open session has the keys that the server has for it.       *)
THEOREM KeysAlwaysAgree == Spec => []KeysAgree
<1>1. KeysInv => KeysAgree
    BY DEF KeysInv
<1> QED BY <1>1, SessionInit, SessionStep, KeysInit, KeysStep, PTL DEF Spec

----------------------------------------------------------------------------
(* The pings. *)

KeepInv == SessionInv /\ KeysInv /\ KeptInv

LEMMA KeptInit == Init => KeptInv
BY DEF Init, KeptInv, Answers

(* A step that leaves the open session, its peer and its pings alone, or   *)
(* loses a datagram.                                                       *)
LEMMA KeptQuiet ==
    ASSUME KeepInv,
           hs' = "open" => hs = "open",
           opened' = opened, loops' = loops,
           \A p \in Sockets : Answers(p)' \subseteq Answers(p),
           \A p \in Sockets : peers'[p] = None \/ (peers'[p] = peers[p] /\ age'[p] \in {0, age[p]}),
           hs' = "open" /\ ~lost' =>
               /\ ~lost /\ conn' = conn /\ nlayer' = nlayer /\ peers'[conn] = peers[conn]
               /\ age'[conn] = 0 \/ (age'[conn] = age[conn] /\ toPing' = toPing
                                     /\ Pings(conn) \subseteq Pings(conn)')
    PROVE  KeptInv'
<1>1. hs' = "open" => opened' /\ loops' # 0
    BY DEF KeepInv, KeptInv
<1>2. \A p \in Sockets : Answers(p)' # {} => age'[p] = 0 \/ peers'[p] = None
    BY DEF KeepInv, KeptInv
<1>3. hs' = "open" /\ ~lost' =>
          /\ peers'[conn'] = nlayer'
          /\ age'[conn'] = 0 \/ (age'[conn'] = 1 /\ (toPing' # 0 \/ Pings(conn)' # {}))
    BY DEF KeepInv, KeptInv
<1>4. hs' = "open" /\ ~lost' => Pings(conn)' = {m \in net' : m.kind = "ping" /\ m.port = conn' /\ m.key = nlayer'}
    BY DEF Pings
<1> QED BY <1>1, <1>2, <1>3, <1>4 DEF KeptInv, Pings

LEMMA PingsStay ==
    ASSUME NEW taken, NEW sent, Exchange(taken, sent), nlayer' = nlayer,
           \A x \in taken : x.kind # "ping"
    PROVE  \A p : Pings(p) \subseteq Pings(p)'
BY Transmission DEF Pings

LEMMA AnswersOnly ==
    ASSUME NEW taken, NEW sent, Exchange(taken, sent), taken \subseteq net,
           \A x \in sent : x.kind # "answer"
    PROVE  \A p : Answers(p)' \subseteq Answers(p)
BY Transmission DEF Answers

LEMMA MoreKinds ==
    \A p, r : Hello(p, r).kind = "hello"
BY DEF Hello, Datagram

LEMMA KeptHandshake ==
    ASSUME KeepInv, HandshakeStep
    PROVE  KeptInv'
<1> USE DEF serverVars, netVars, loopVars
<1>1. UNCHANGED net => \A p \in Sockets : Answers(p)' = Answers(p)
    BY DEF Answers
<1>2. CASE Dial
    BY <1>1, <1>2, KeptQuiet DEF Dial
<1>3. CASE DialFails
    BY <1>1, <1>3, KeptQuiet DEF DialFails, FailAttempt
<1>4. CASE SendHello
  <2>1. \A p \in Sockets : Answers(p)' \subseteq Answers(p)
    BY <1>4, AnswersOnly, MoreKinds DEF SendHello, Send
  <2> QED BY <1>4, <2>1, KeptQuiet DEF SendHello
<1>5. CASE Timeout
    BY <1>1, <1>5, KeptQuiet DEF Timeout, FailAttempt
<1>6. ASSUME NEW m \in net, ReadOther(m) PROVE KeptInv'
  <2>1. \A p \in Sockets : Answers(p)' \subseteq Answers(p)
    BY <1>6, AnswersOnly DEF ReadOther
  <2> QED BY <1>6, <2>1, KeptQuiet DEF ReadOther, FailAttempt
<1>7. ASSUME NEW m \in net, ReadAnswer(m) PROVE KeptInv'
  <2>1. /\ conn \in Sockets /\ m \in Answers(conn) /\ conn' = conn
        /\ hs' = "open" /\ opened' /\ loops' = loops + 1
        /\ lost' = (peers[conn] # nlayer')
        /\ net' \subseteq net /\ UNCHANGED <<peers, age>>
    BY <1>7 DEF ReadAnswer, Answers, KeepInv, SessionInv, SessionOK, Waiting, Sockets
  <2>2. nlayer' # None
    BY <1>7, NoneAssumption DEF ReadAnswer, KeepInv, SessionInv, SessionOK, Datagrams, Keys
  <2>3. ~lost' => peers'[conn'] = nlayer' /\ age'[conn'] = 0
    BY <2>1, <2>2 DEF KeepInv, KeptInv
  <2>4. \A p \in Sockets : Answers(p)' \subseteq Answers(p)
    BY <2>1 DEF Answers
  <2>5. loops' # 0
    BY <2>1 DEF KeepInv, SessionInv, SessionOK
  <2> QED BY <2>1, <2>3, <2>4, <2>5 DEF KeepInv, KeptInv
<1> QED BY <1>2, <1>3, <1>4, <1>5, <1>6, <1>7 DEF HandshakeStep

LEMMA KeptLoops ==
    ASSUME KeepInv,
           Open \/ Write \/ PingLoopStep \/ Timer \/ \E r \in Readers : ReaderLoopStep(r)
    PROVE  KeptInv'
<1> USE DEF serverVars, netVars, loopVars, clientVars
<1>1. UNCHANGED net => \A p \in Sockets : Answers(p)' = Answers(p)
    BY DEF Answers
<1>2. UNCHANGED <<net, nlayer>> => \A p : Pings(p) \subseteq Pings(p)'
    BY DEF Pings
<1>3. CASE Open
    BY <1>1, <1>3, KeptQuiet DEF Open
<1>4. CASE Write
  <2>1. \A p \in Sockets : Answers(p)' \subseteq Answers(p)
    BY <1>4, AnswersOnly, Kinds DEF Write, Send
  <2>2. \A p : Pings(p) \subseteq Pings(p)'
    BY <1>4, PingsStay DEF Write, Send
  <2>3. ~lost' => ~lost
    BY <1>4, Transmission DEF Write, Send
  <2> QED BY <1>4, <2>1, <2>2, <2>3, KeptQuiet DEF Write
<1>5. CASE PingServer
  <2>1. \A p \in Sockets : Answers(p)' \subseteq Answers(p)
    BY <1>1, <1>5, AnswersOnly, Kinds DEF PingServer, Send
  <2>2. \A p : Pings(p) \subseteq Pings(p)'
    BY <1>2, <1>5, PingsStay DEF PingServer, Send
  <2>3. ~lost' => ~lost
    BY <1>5, Transmission DEF PingServer, Send
  <2>4. hs = "open" /\ ~lost' => Pings(conn)' # {}
    <3> SUFFICES ASSUME hs = "open", ~lost' PROVE Pings(conn)' # {}
        OBVIOUS
    <3> DEFINE m == Packet(conn, "ping", nlayer)
    <3>1. nlayer # None /\ conn # 0
        BY DEF KeepInv, KeysInv, KeysAgree
    <3>2. Exchange({}, {m})
        BY <1>5, <3>1 DEF PingServer, Send
    <3>3. m \in net'
        BY <3>2, Transmission
    <3>4. m.kind = "ping" /\ m.port = conn /\ m.key = nlayer
        BY DEF Packet, Datagram
    <3>5. nlayer' = nlayer /\ conn' = conn
        BY <1>5 DEF PingServer
    <3> HIDE DEF m
    <3> QED BY <3>3, <3>4, <3>5 DEF Pings
  <2>5. UNCHANGED <<hs, opened, loops, peers, age, conn, nlayer>>
    BY <1>5 DEF PingServer
  <2>6. Pings(conn)' = {m \in net' : m.kind = "ping" /\ m.port = conn' /\ m.key = nlayer'}
    BY <2>5 DEF Pings
  <2> QED BY <2>1, <2>3, <2>4, <2>5, <2>6 DEF KeepInv, KeptInv, Pings
<1>6. CASE Report \/ Timer
    BY <1>1, <1>2, <1>6, KeptQuiet DEF Report, Timer
<1>7. ASSUME NEW r \in Readers, StartReader(r) \/ EnterRead(r) \/ ReadFails(r) PROVE KeptInv'
    BY <1>1, <1>2, <1>7, KeptQuiet DEF StartReader, EnterRead, ReadFails
<1>8. ASSUME NEW r \in Readers, NEW m \in net, Read(r, m) PROVE KeptInv'
  <2>1. m.kind # "ping"
    BY <1>8 DEF Read, KeepInv, SessionInv, SessionOK, Datagrams
  <2>2. \A p \in Sockets : Answers(p)' \subseteq Answers(p)
    BY <1>8, AnswersOnly DEF Read
  <2>3. \A p : Pings(p) \subseteq Pings(p)'
    BY <1>8, <2>1, PingsStay DEF Read
  <2>4. ~lost' => ~lost
    BY <1>8, Transmission DEF Read
  <2> QED BY <1>8, <2>2, <2>3, <2>4, KeptQuiet DEF Read
<1> QED BY <1>3, <1>4, <1>5, <1>6, <1>7, <1>8 DEF PingLoopStep, ReaderLoopStep

LEMMA KeptServer ==
    ASSUME KeepInv, ServerStep
    PROVE  KeptInv'
<1> USE DEF serverVars, netVars, loopVars, clientVars
<1>1. hs = "open" => conn \in Sockets
    BY DEF KeepInv, SessionInv, SessionOK, Waiting, Sockets
<1>2. ASSUME NEW m \in net, Register(m) PROVE KeptInv'
  <2>1. /\ m \in Hellos(m.port) /\ m.port \in Sockets /\ peers[m.port] = None /\ up
        /\ \A p \in Sockets : p # m.port => peers'[p] = peers[p] /\ age'[p] = age[p]
        /\ age'[m.port] = 0
        /\ UNCHANGED <<conn, nlayer, hs, opened, loops, toPing>>
    BY <1>2 DEF Register, Hellos, KeepInv, SessionInv, SessionOK, Datagrams
  <2>2. ~OpenOn(m.port)
    BY <2>1 DEF KeepInv, KeysInv, NoSecondSession
  <2>3. ~lost' => ~lost
    BY <1>2, Transmission DEF Register
  <2>4. \A p : Pings(p) \subseteq Pings(p)'
    BY <1>2, PingsStay DEF Register
  <2>5. \A p \in Sockets : p # m.port => Answers(p)' \subseteq Answers(p)
    <3>1. net' \subseteq net \cup {Answer(m.port, serial')}
        BY <1>2, Transmission DEF Register
    <3>2. Answer(m.port, serial').port = m.port
        BY DEF Answer, Datagram
    <3> QED BY <3>1, <3>2 DEF Answers
  <2>6. hs' = "open" => conn # m.port
    BY <2>1, <2>2 DEF OpenOn
  <2>7. \A p \in Sockets : Answers(p)' # {} => age'[p] = 0 \/ peers'[p] = None
    BY <2>1, <2>5 DEF KeepInv, KeptInv
  <2>8. hs' = "open" /\ ~lost' =>
            /\ peers'[conn] = nlayer
            /\ age'[conn] = 0 \/ (age'[conn] = 1 /\ (toPing' # 0 \/ Pings(conn)' # {}))
    BY <1>1, <2>1, <2>3, <2>4, <2>6 DEF KeepInv, KeptInv
  <2>9. Pings(conn)' = {x \in net' : x.kind = "ping" /\ x.port = conn' /\ x.key = nlayer'}
    BY <2>1 DEF Pings
  <2> QED BY <2>1, <2>7, <2>8, <2>9 DEF KeepInv, KeptInv, Pings
<1>3. ASSUME NEW m \in net, Refuse(m) PROVE KeptInv'
  <2>1. peers[m.port] = None /\ UNCHANGED <<conn, nlayer, hs, opened, loops, toPing, peers, age>>
    BY <1>3 DEF Refuse
  <2>2. \A p \in Sockets : Answers(p)' \subseteq Answers(p)
    BY <1>3, AnswersOnly, Kinds DEF Refuse
  <2>3. hs = "open" /\ ~lost' => ~lost /\ Pings(conn) \subseteq Pings(conn)'
    <3> SUFFICES ASSUME hs = "open", ~lost' PROVE ~lost /\ Pings(conn) \subseteq Pings(conn)'
        OBVIOUS
    <3>1. ~lost /\ net \ {m} \subseteq net'
        BY <1>3, Transmission DEF Refuse
    <3>2. peers[conn] # None
        BY <3>1 DEF KeepInv, KeptInv, KeysInv, KeysAgree
    <3> QED BY <2>1, <3>1, <3>2 DEF Pings
  <2> QED BY <2>1, <2>2, <2>3, KeptQuiet
<1>4. ASSUME NEW m \in net, Handle(m) PROVE KeptInv'
  <2>1. UNCHANGED <<conn, nlayer, hs, opened, loops, toPing, peers>>
    BY <1>4 DEF Handle
  <2>2. /\ \A p \in Sockets : Answers(p)' \subseteq Answers(p)
        /\ ~lost' => ~lost
        /\ net \ {m} \subseteq net'
    <3>1. CASE m.kind # "hello" /\ m.key = peers[m.port]
        BY <1>4, <3>1, AnswersOnly, Transmission, Kinds DEF Handle
    <3>2. CASE ~(m.kind # "hello" /\ m.key = peers[m.port])
        BY <1>4, <3>2, AnswersOnly, Transmission DEF Handle
    <3> QED BY <3>1, <3>2
  <2>3. \A p \in Sockets : age'[p] \in {0, age[p]}
    BY <1>4 DEF Handle, KeepInv, SessionInv, SessionOK
  <2>4. hs = "open" /\ ~lost' => age'[conn] = 0 \/ Pings(conn) \subseteq Pings(conn)'
    <3> SUFFICES ASSUME hs = "open", ~lost', age'[conn] # 0
                 PROVE  Pings(conn) \subseteq Pings(conn)'
        OBVIOUS
    <3>1. peers[conn] = nlayer
        BY <2>2 DEF KeepInv, KeptInv
    <3>2. m \notin Pings(conn)
        BY <1>1, <1>4, <3>1 DEF Handle, Pings, KeepInv, SessionInv, SessionOK
    <3> QED BY <2>1, <2>2, <3>2 DEF Pings
  <2>5. hs = "open" /\ ~lost' => age'[conn] \in {0, age[conn]}
    BY <1>1, <2>3
  <2> QED BY <2>1, <2>2, <2>3, <2>4, <2>5, KeptQuiet
<1>5. ASSUME NEW p \in Sockets, ServerSends(p) PROVE KeptInv'
  <2>1. \A q \in Sockets : Answers(q)' \subseteq Answers(q)
    BY <1>5, AnswersOnly, Kinds DEF ServerSends, Send
  <2>2. \A q : Pings(q) \subseteq Pings(q)'
    BY <1>5, PingsStay DEF ServerSends, Send
  <2>3. ~lost' => ~lost
    BY <1>5, Transmission DEF ServerSends, Send
  <2> QED BY <1>5, <2>1, <2>2, <2>3, KeptQuiet DEF ServerSends
<1>6. ASSUME NEW p \in Sockets, Evict(p) PROVE KeptInv'
  <2>1. \A q \in Sockets : Answers(q)' \subseteq Answers(q)
    BY <1>6, AnswersOnly, Kinds DEF Evict, Send
  <2>2. \A q : Pings(q) \subseteq Pings(q)'
    BY <1>6, PingsStay DEF Evict, Send
  <2>3. ~lost' => ~lost
    BY <1>6, Transmission DEF Evict, Send
  <2>4. age[p] >= PeerTimeout
    BY <1>6 DEF Evict, Old
  <2>5. hs = "open" /\ ~lost => conn # p
    BY <2>4, CountsAssumption DEF KeepInv, KeptInv
  <2>6. /\ peers'[p] = None
        /\ \A q \in Sockets : q # p => peers'[q] = peers[q] /\ age'[q] = age[q]
        /\ UNCHANGED <<conn, nlayer, hs, opened, loops, toPing>>
    BY <1>6 DEF Evict, KeepInv, SessionInv, SessionOK
  <2> QED BY <1>1, <2>1, <2>2, <2>3, <2>5, <2>6, KeptQuiet
<1>7. CASE Crash
  <2>1. \A p \in Sockets : Answers(p)' = Answers(p)
    BY <1>7 DEF Crash, Answers
  <2>2. lost' /\ (\A p \in Sockets : peers'[p] = None) /\ UNCHANGED <<hs, opened, loops>>
    BY <1>7 DEF Crash
  <2> QED BY <2>1, <2>2, KeptQuiet
<1>8. CASE Boot
  <2>1. /\ \A p \in Sockets : Answers(p)' = Answers(p)
        /\ \A p : Pings(p) \subseteq Pings(p)'
    BY <1>8 DEF Boot, Answers, Pings
  <2> QED BY <1>8, <2>1, KeptQuiet DEF Boot
<1> QED BY <1>2, <1>3, <1>4, <1>5, <1>6, <1>7, <1>8 DEF ServerStep

LEMMA KeptStep == KeepInv /\ [Next]_vars => KeptInv'
<1> SUFFICES ASSUME KeepInv, [Next]_vars PROVE KeptInv'
    OBVIOUS
<1>1. CASE Tick
  <2>1. /\ \A p \in Sockets : Answers(p)' = {}
        /\ toPing = 0 /\ UNCHANGED <<hs, conn, nlayer, opened, loops, peers>>
        /\ toPing' = IF opened THEN loops ELSE 0
        /\ lost' = (lost \/ net # {})
    BY <1>1 DEF Tick, Answers, clientVars
  <2>2. hs = "open" /\ ~lost' => ~lost /\ Pings(conn) = {}
    BY <2>1 DEF Pings
  <2>3. hs = "open" /\ ~lost' => peers[conn] = nlayer /\ age[conn] = 0 /\ conn \in Sockets
    BY <2>1, <2>2 DEF KeepInv, KeptInv, SessionInv, SessionOK, Waiting, Sockets
  <2>4. hs = "open" /\ ~lost' => age'[conn] = 1
    BY <1>1, <2>3, CountsAssumption DEF Tick, KeepInv, KeysInv, KeysAgree
  <2>5. hs = "open" => opened /\ loops # 0 /\ toPing' # 0
    BY <2>1 DEF KeepInv, KeptInv
  <2> QED BY <2>1, <2>2, <2>3, <2>4, <2>5 DEF KeptInv
<1>2. CASE UNCHANGED vars
  <2>1. /\ \A p \in Sockets : Answers(p)' = Answers(p)
        /\ \A p : Pings(p) \subseteq Pings(p)'
        /\ UNCHANGED <<conn, nlayer, hs, opened, loops, toPing, peers, age, lost>>
    BY <1>2 DEF vars, netVars, clientVars, loopVars, serverVars, Answers, Pings
  <2> QED BY <2>1, KeptQuiet
<1> QED BY <1>1, <1>2, KeptHandshake, KeptLoops, KeptServer DEF Next, Rest

(* As long as no datagram is lost, and the server does not crash, it does  *)
(* not forget a session that is open, with any number of ping loops.       *)
THEOREM SessionsAreKept == Spec => []PingsKeepAlive
<1>1. KeepInv => PingsKeepAlive
    BY DEF KeepInv, KeptInv, PingsKeepAlive
<1>2. Init => KeepInv
    BY SessionInit, KeysInit, KeptInit DEF KeepInv
<1>3. KeepInv /\ [Next]_vars => KeepInv'
    BY SessionStep, KeysStep, KeptStep DEF KeepInv
<1> QED BY <1>1, <1>2, <1>3, PTL DEF Spec

----------------------------------------------------------------------------
(* Silence.  The invariant speaks of the ping of the session, its loops and *)
(* its state; the network and the server are not in it, because only a pong *)
(* that comes in matters, and it ends the silence.                          *)
silenceVars == <<pingVars, opened, hs, loops, toPing, reporting, state, silence>>

LEMMA SilenceQuiet ==
    ASSUME SilenceInv, UNCHANGED silenceVars
    PROVE  SilenceInv'
BY DEF SilenceInv, silenceVars, pingVars

LEMMA SilenceHandshake ==
    ASSUME SessionInv, SilenceInv, HandshakeStep \/ Open
    PROVE  SilenceInv'
<1> USE DEF pingVars, loopVars, serverVars, netVars
<1>1. CASE Dial \/ SendHello
    BY <1>1 DEF Dial, SendHello, SilenceInv
<1>2. ASSUME DialFails \/ Timeout \/ \E m \in net : ReadOther(m)
      PROVE  hs' # "open"
    BY <1>2 DEF DialFails, Timeout, ReadOther, FailAttempt
<1>3. ASSUME NEW m \in net, ReadAnswer(m)
      PROVE  SilenceInv'
  <2>1. opened' /\ loops' = loops + 1 /\ silence' = 0
    BY <1>3 DEF ReadAnswer
  <2>2. loops' # 0
    BY <2>1 DEF SessionInv, SessionOK
  <2> QED BY <2>1, <2>2 DEF SilenceInv
<1>4. CASE Open
    BY <1>4 DEF Open, SilenceInv
<1> QED BY <1>1, <1>2, <1>3, <1>4 DEF HandshakeStep, SilenceInv

(* The steps of the ping: a Start resets Calculated and arms a timer, a     *)
(* timer that finds Calculated reset clears Response, a report tells.       *)
LEMMA SilencePing ==
    ASSUME FlagsOK, SessionInv, SilenceInv, PingLoopStep \/ Timer
    PROVE  SilenceInv'
<1> USE DEF clientVars, SessionInv, SessionOK, TimersOK
<1>1. CASE PingServer
  <2>1. /\ ~calculated' /\ armed' = armed + 1 /\ reporting' = reporting + 1
        /\ UNCHANGED <<response, due, opened, hs, loops, state, silence>>
    BY <1>1 DEF PingServer, Start
  <2>2. armed' # 0 /\ reporting' # 0
    BY <2>1
  <2> QED BY <2>1, <2>2 DEF SilenceInv
<1>2. CASE Report
  <2>1. /\ state' = IF response THEN "connected" ELSE "connecting"
        /\ UNCHANGED <<pingVars, opened, hs, loops, toPing, silence>>
    BY <1>2 DEF Report
  <2> QED BY <2>1 DEF SilenceInv, pingVars
<1>3. CASE Timer
  <2>1. /\ response' = (response /\ calculated)
        /\ UNCHANGED <<calculated, armed, opened, hs, loops, toPing, reporting, state, silence>>
    BY <1>3 DEF Timer, TimerFires, loopVars
  <2>2. ~calculated \/ ~response => ~response'
    BY <2>1
  <2> QED BY <2>1, <2>2 DEF SilenceInv
<1> QED BY <1>1, <1>2, <1>3 DEF PingLoopStep

LEMMA SilenceTick ==
    ASSUME SessionInv, SilenceInv, Tick
    PROVE  SilenceInv'
<1>1. /\ toPing = 0 /\ reporting = 0 /\ due = 0
      /\ toPing' = IF opened THEN loops ELSE 0
      /\ due' = armed /\ calculated' = calculated /\ response' = response
      /\ silence' = IF hs = "open" /\ silence < 3 THEN silence + 1 ELSE silence
      /\ UNCHANGED <<opened, hs, loops>>
    BY DEF Tick, NextPeriod, clientVars
<1> SUFFICES ASSUME hs = "open"
             PROVE  SilenceInv'
    BY <1>1 DEF SilenceInv
<1>2. opened' /\ loops' # 0 /\ toPing' = loops' /\ toPing' # 0
    BY <1>1 DEF SilenceInv
<1>3. CASE silence = 0
    BY <1>1, <1>2, <1>3 DEF SilenceInv
<1>4. CASE silence = 1
  <2>1. silence' = 2 /\ ~calculated /\ armed # 0
    BY <1>1, <1>4 DEF SilenceInv
  <2> QED BY <1>1, <1>2, <2>1 DEF SilenceInv
<1>5. CASE silence = 2 \/ silence = 3
  <2>1. silence' = 3 /\ ~response
    BY <1>1, <1>5 DEF SilenceInv
  <2> QED BY <1>1, <1>2, <2>1 DEF SilenceInv
<1> QED BY <1>3, <1>4, <1>5 DEF SilenceInv

LEMMA SilenceStep == FlagsOK /\ SessionInv /\ SilenceInv /\ [Next]_vars => SilenceInv'
<1> SUFFICES ASSUME FlagsOK, SessionInv, SilenceInv, [Next]_vars PROVE SilenceInv'
    OBVIOUS
<1>1. ASSUME NEW r \in Readers, ReaderLoopStep(r)
      PROVE  SilenceInv'
  <2>1. CASE \E m \in net : Read(r, m) /\ m.kind = "pong" /\ m.key = nlayer
    BY <2>1 DEF Read, SilenceInv, clientVars, loopVars
  <2>2. CASE ~\E m \in net : Read(r, m) /\ m.kind = "pong" /\ m.key = nlayer
    BY <1>1, <2>2, SilenceQuiet
    DEF ReaderLoopStep, StartReader, EnterRead, ReadFails, Read, silenceVars, clientVars, loopVars
  <2> QED BY <2>1, <2>2
<1>2. CASE Write \/ ServerStep
    BY <1>2, SilenceQuiet
    DEF Write, ServerStep, Register, Refuse, Handle, ServerSends, Evict, Crash, Boot, silenceVars,
        clientVars, loopVars
<1>3. CASE UNCHANGED vars
    BY <1>3, SilenceQuiet DEF vars, silenceVars, clientVars, loopVars
<1> QED
    BY <1>1, <1>2, <1>3, SilenceHandshake, SilencePing, SilenceTick DEF Next, Rest

(* A session that has not heard a pong for three periods is not shown as    *)
(* connected, with any number of ping loops and timers on one ping object.  *)
THEOREM SilenceShows == Spec => []SilenceIsSeen
<1>1. SilenceInv => SilenceIsSeen
    BY DEF SilenceInv, SilenceIsSeen
<1>2. Init => SilenceInv
    BY DEF Init, SilenceInv
<1> QED
    BY <1>1, <1>2, FlagsInit, FlagsStep, SessionInit, SessionStep, SilenceStep, PTL DEF Spec
============================================================================
