---------------------------- MODULE TunnelProofs ----------------------------
(***************************************************************************)
(* Type correctness of Tunnel; that its state settles; and what a start or *)
(* a stop achieves that nobody disturbs, after whatever has gone before.   *)
(* For any number of requests served at once, any lists and any            *)
(* interleaving.                                                           *)
(***************************************************************************)
EXTENDS Tunnel, SequenceTheorems, TLAPS

LEMMA ListsAreSequences ==
    /\ Len(Whitelist) \in Nat
    /\ Len(Blacklist) \in Nat
    /\ \A i \in 1 .. Len(Whitelist) : Whitelist[i] \in Destinations
    /\ \A i \in 1 .. Len(Blacklist) : Blacklist[i] \in Destinations
BY ListsAssumption DEF Destinations, Entries

LEMMA ConcatParts ==
    ASSUME NEW S, NEW s1 \in Seq(S), NEW s2 \in Seq(S)
    PROVE  /\ s1 \o s2 \in Seq(S)
           /\ Len(s1 \o s2) = Len(s1) + Len(s2)
           /\ \A i \in 1 .. Len(s1) : (s1 \o s2)[i] = s1[i]
           /\ \A i \in 1 .. Len(s2) : (s1 \o s2)[Len(s1) + i] = s2[i]
<1>1. Len(s1) \in Nat /\ Len(s2) \in Nat
    BY LenProperties
<1>2. /\ s1 \o s2 \in Seq(S)
      /\ Len(s1 \o s2) = Len(s1) + Len(s2)
    BY ConcatProperties
<1>3. ASSUME NEW i \in 1 .. Len(s1) PROVE (s1 \o s2)[i] = s1[i]
    BY <1>1, ConcatProperties
<1>4. ASSUME NEW i \in 1 .. Len(s2) PROVE (s1 \o s2)[Len(s1) + i] = s2[i]
    BY <1>1, ConcatProperties
<1> QED BY <1>2, <1>3, <1>4

(* What Start runs: it adds a route to a link, or nothing. *)
Additions == [to : Destinations, via : Links \cup {"none"}]

LEMMA StopScriptType == StopScript \in Seq(Commands)
<1> DEFINE bypassed == [i \in 1 .. Len(Blacklist) |-> Command(Blacklist[i], "any")]
<1>1. bypassed \in Seq(Commands)
    BY ListsAreSequences DEF Commands, Command
<1>2. <<Command(Server, "any")>> \in Seq(Commands)
    BY DEF Commands, Command, Destinations
<1>3. <<Command(Everything, "tunnel"), Command(Resolver, "tunnel")>> \in Seq(Commands)
    BY DEF Commands, Command, Destinations, Links
<1> QED
    BY <1>1, <1>2, <1>3, ConcatProperties DEF StopScript

LEMMA RouteAllType ==
    ASSUME NEW via \in Links \cup {"none"}
    PROVE  RouteAll(via) \o RouteResolver \in Seq(Additions)
<1> DEFINE skipped(a) == a \in Malformed \cup {Server}
           bypassed == [i \in 1 .. Len(Blacklist) |->
                          Command(Blacklist[i], IF skipped(Blacklist[i]) THEN "none" ELSE via)]
<1>1. bypassed \in Seq(Additions)
    BY ListsAreSequences DEF Additions, Command
<1>2. <<Command(Server, via), Command(Everything, "tunnel")>> \in Seq(Additions)
    BY DEF Additions, Command, Destinations, Links
<1>3. RouteResolver \in Seq(Additions)
    BY DEF RouteResolver, Additions, Command, Destinations, Links
<1> QED
    BY <1>1, <1>2, <1>3, ConcatProperties DEF RouteAll

LEMMA RouteWhitelistType == RouteWhitelist \o RouteResolver \in Seq(Additions)
<1>1. RouteWhitelist \in Seq(Additions)
    BY ListsAreSequences DEF RouteWhitelist, Additions, Command, Links
<1>2. RouteResolver \in Seq(Additions)
    BY DEF RouteResolver, Additions, Command, Destinations, Links
<1> QED
    BY <1>1, <1>2, ConcatProperties

LEMMA AdditionsAreCommands == ASSUME NEW s \in Seq(Additions) PROVE s \in Seq(Commands)
<1>1. Additions \subseteq Commands
    BY DEF Additions, Commands
<1> QED BY <1>1, SeqMonotonic

----------------------------------------------------------------------------
(* TypeOK is inductive once a thread that adds routes is known to have      *)
(* nothing but additions to run.                                            *)
TypeInv ==
    /\ TypeOK
    /\ \A t \in Threads : pc[t] = "add" => script[t] \in Seq(Additions)

LEMMA TypeInit == Init => TypeInv
BY DEF Init, Idle, TypeInv, TypeOK, Routes

LEMMA EnterType ==
    ASSUME TypeInv, NEW t \in Threads,
           NEW what \in {"none", "start", "restart", "stop"},
           NEW label \in {"delete", "start"}, NEW commands \in Seq(Commands),
           Enter(t, what, label, commands),
           state' \in {"closed", "opening", "opened", "closing"},
           phase' \in {"connecting", "starting", "listening", "stopping"}
    PROVE  TypeInv'
BY DEF Enter, TypeInv, TypeOK

LEMMA LeaveType ==
    ASSUME TypeInv, NEW t \in Threads, Leave(t), UNCHANGED <<table, online, phase>>,
           state' \in {"closed", "opening", "opened", "closing"}
    PROVE  TypeInv'
BY DEF Leave, TypeInv, TypeOK, Links

LEMMA TypeStep == TypeInv /\ [Next]_vars => TypeInv'
<1> SUFFICES ASSUME TypeInv, [Next]_vars PROVE TypeInv'
    OBVIOUS
<1>1. CASE Connect
    <2>1. "main" \in Threads /\ <<>> \in Seq(Commands)
        BY DEF Threads
    <2>2. CASE OnStart
        BY <1>1, <2>1, <2>2, EnterType DEF Connect, TypeInv, TypeOK
    <2>3. CASE ~OnStart
        BY <1>1, <2>3 DEF Connect, TypeInv, TypeOK, threadVars
    <2> QED BY <2>2, <2>3
<1>2. CASE Listen
    BY <1>2 DEF Listen, TypeInv, TypeOK, threadVars
<1>3. CASE Shutdown
    BY <1>3, StopScriptType, EnterType DEF Shutdown, Threads
<1>4. CASE End
    BY <1>4 DEF End, TypeInv, TypeOK, Routes, Links
<1>5. ASSUME NEW h \in Handlers, StartTunnel(h) \/ StopTunnel(h) PROVE TypeInv'
    BY <1>5, StopScriptType, EnterType DEF StartTunnel, StopTunnel, Threads, TypeInv, TypeOK
<1>6. ASSUME NEW t \in Threads, Delete(t) PROVE TypeInv'
    <2>1. Tail(script[t]) \in Seq(Commands)
        BY <1>6, HeadTailProperties DEF Delete, TypeInv, TypeOK
    <2> QED BY <1>6, <2>1 DEF Delete, TypeInv, TypeOK
<1>7. ASSUME NEW t \in Threads, Stopped(t) PROVE TypeInv'
    <2>1. CASE task[t] = "restart"
        BY <1>7, <2>1 DEF Stopped, TypeInv, TypeOK
    <2>2. CASE task[t] # "restart"
        BY <1>7, <2>2, LeaveType DEF Stopped
    <2> QED BY <2>1, <2>2
<1>8. ASSUME NEW t \in Threads, Open(t) PROVE TypeInv'
    BY <1>8 DEF Open, TypeInv, TypeOK
<1>9. ASSUME NEW t \in Threads, LookUpInterfaces(t) PROVE TypeInv'
    <2>1. DefaultInterface \in Links \cup {"any"}
        BY DEF DefaultInterface, Links
    <2>2. CASE Whitelist = <<>>
        BY <1>9, <2>1, <2>2 DEF LookUpInterfaces, TypeInv, TypeOK
    <2>3. CASE Whitelist # <<>>
        BY <1>9, <2>1, <2>3, RouteWhitelistType, AdditionsAreCommands
        DEF LookUpInterfaces, TypeInv, TypeOK
    <2> QED BY <2>2, <2>3
<1>10. ASSUME NEW t \in Threads, InterfaceMissing(t) PROVE TypeInv'
    BY <1>10, LeaveType DEF InterfaceMissing
<1>11. ASSUME NEW t \in Threads, LookUpGateway(t) PROVE TypeInv'
    <2>1. DefaultGateway \in Links \cup {"none"}
        BY DEF DefaultGateway, Links
    <2> DEFINE via == Via(DefaultGateway, iface[t])
               commands == RouteAll(via) \o RouteResolver
    <2>2. via \in Links \cup {"none"}
        BY <2>1 DEF Via
    <2>3. commands \in Seq(Additions) /\ commands \in Seq(Commands)
        BY <2>2, RouteAllType, AdditionsAreCommands
    <2> HIDE DEF commands, via
    <2>4. /\ script' = [script EXCEPT ![t] = commands]
          /\ pc' = [pc EXCEPT ![t] = "add"]
          /\ gateway' = [gateway EXCEPT ![t] = DefaultGateway]
          /\ state' = IF DefaultGateway = "none" THEN "closed" ELSE state
          /\ UNCHANGED <<table, online, phase, task, iface, alone>>
        BY <1>11 DEF LookUpGateway, commands, via
    <2> QED BY <2>1, <2>3, <2>4 DEF TypeInv, TypeOK
<1>12. ASSUME NEW t \in Threads, Add(t) PROVE TypeInv'
    <2>1. /\ Head(script[t]) \in Additions
          /\ Tail(script[t]) \in Seq(Additions)
        BY <1>12, HeadTailProperties DEF Add, TypeInv, TypeOK
    <2>2. Tail(script[t]) \in Seq(Commands)
        BY <2>1, AdditionsAreCommands
    <2>3. table' \subseteq Routes
        BY <1>12, <2>1 DEF Add, Additions, Routes, TypeInv, TypeOK
    <2> QED BY <1>12, <2>1, <2>2, <2>3 DEF Add, TypeInv, TypeOK
<1>13. ASSUME NEW t \in Threads, Started(t) PROVE TypeInv'
    BY <1>13, LeaveType DEF Started
<1>14. CASE Outage
    BY <1>14 DEF Outage, TypeInv, TypeOK, threadVars
<1>15. CASE UNCHANGED vars
    BY <1>15 DEF vars, threadVars, TypeInv, TypeOK
<1> QED
    BY <1>1, <1>2, <1>3, <1>4, <1>5, <1>6, <1>7, <1>8, <1>9, <1>10, <1>11, <1>12,
       <1>13, <1>14, <1>15 DEF Next

(* Type correctness of the tunnel: whatever lists it is configured with,    *)
(* its scripts add and delete routes to known destinations only.            *)
THEOREM TypeCorrect == Spec => []TypeOK
<1>1. TypeInv => TypeOK
    BY DEF TypeInv
<1> QED BY <1>1, TypeInit, TypeStep, PTL DEF Spec

----------------------------------------------------------------------------
(* The last thread to leave Start or Stop has just written the state: this  *)
(* makes StateSettles inductive as it stands.                               *)
LEMMA SettlesStep == TypeInv /\ StateSettles /\ [Next]_vars => StateSettles'
<1> SUFFICES ASSUME TypeInv, StateSettles, [Next]_vars PROVE StateSettles'
    OBVIOUS
<1> USE DEF StateSettles, Busy, TypeInv, TypeOK
<1>1. CASE Connect
    <2>1. CASE OnStart
        BY <1>1, <2>1 DEF Connect, Enter, Threads
    <2>2. CASE ~OnStart
        BY <1>1, <2>2 DEF Connect, threadVars
    <2> QED BY <2>1, <2>2
<1>2. CASE Listen \/ Outage \/ UNCHANGED vars
    BY <1>2 DEF Listen, Outage, vars, threadVars
<1>3. CASE Shutdown
    BY <1>3 DEF Shutdown, Enter, Threads
<1>4. CASE End
    BY <1>4 DEF End
<1>5. ASSUME NEW h \in Handlers, StartTunnel(h) \/ StopTunnel(h) PROVE StateSettles'
    BY <1>5 DEF StartTunnel, StopTunnel, Enter, Threads
<1>6. ASSUME NEW t \in Threads,
             Delete(t) \/ Open(t) \/ LookUpInterfaces(t) \/ LookUpGateway(t) \/ Add(t)
      PROVE  StateSettles'
    <2>1. pc'[t] # "idle"
        BY <1>6 DEF Delete, Open, LookUpInterfaces, LookUpGateway, Add
    <2> QED BY <2>1
<1>7. ASSUME NEW t \in Threads, Stopped(t) \/ InterfaceMissing(t) \/ Started(t)
      PROVE  StateSettles'
    BY <1>7 DEF Stopped, InterfaceMissing, Started
<1> QED
    BY <1>1, <1>2, <1>3, <1>4, <1>5, <1>6, <1>7 DEF Next

(* However many requests overlap, and whatever fails or crashes: when       *)
(* nobody is in Start or Stop, the state is "opened" or "closed".           *)
THEOREM StateAlwaysSettles == Spec => []StateSettles
<1>1. Init => StateSettles
    BY DEF Init, StateSettles
<1> QED BY <1>1, TypeInit, TypeStep, SettlesStep, PTL DEF Spec

----------------------------------------------------------------------------
(* What an undisturbed request can rely on.  NeverLoopsAlone and StopCleans *)
(* are not inductive: they rest on what the request has done before it gets *)
(* there, and on nobody having been in between.                             *)

(* The routes that a list of deletions removes. *)
Cleared(commands, r) == \E i \in 1 .. Len(commands) : Covers(commands[i], r)

IntoTunnel == {<<Everything, "tunnel">>, <<Resolver, "tunnel">>}

(* Nobody else is in Start or Stop, and a new process starts without routes *)
(* into the tunnel.                                                         *)
AloneIsAlone == \A t \in Threads : alone[t] => \A u \in Threads \ {t} : pc[u] = "idle"

FreshStart == phase = "connecting" => Busy = {} /\ table \cap IntoTunnel = {}

(* Stop has still to run the deletion of every route that is left.          *)
Deleting ==
    \A t \in Threads : alone[t] /\ pc[t] = "delete" =>
        \A r \in table : Cleared(StopScript, r) => Cleared(script[t], r)

(* Start looks up the interface and the gateway with no route into the      *)
(* tunnel, and therefore does not find those of the tunnel.                 *)
LookingUp ==
    \A t \in Threads : alone[t] /\ pc[t] \in {"start", "lookup", "gateway"} =>
        /\ table \cap IntoTunnel = {}
        /\ pc[t] = "gateway" => iface[t] # "tunnel"

GatewayKnown == \A t \in Threads : pc[t] # "add" => gateway[t] = "none"

(* Start excludes the server before it routes everything.                   *)
Adding ==
    \A t \in Threads : alone[t] /\ pc[t] = "add" /\ gateway[t] # "none" =>
        \/ <<Server, "physical">> \in table
        \/ /\ <<Everything, "tunnel">> \notin table
           /\ script[t] # <<>>
           /\ Head(script[t]) = Command(Server, "physical")

AloneInv == AloneIsAlone /\ FreshStart /\ Deleting /\ LookingUp /\ GatewayKnown /\ Adding

LEMMA StopClearsTunnel == \A r \in IntoTunnel : Cleared(StopScript, r)
<1> DEFINE bypassed == [i \in 1 .. Len(Blacklist) |-> Command(Blacklist[i], "any")]
           first == <<Command(Server, "any")>> \o bypassed
           last == <<Command(Everything, "tunnel"), Command(Resolver, "tunnel")>>
<1>1. bypassed \in Seq(Commands) /\ <<Command(Server, "any")>> \in Seq(Commands)
    BY ListsAreSequences DEF Commands, Command, Destinations
<1>2. first \in Seq(Commands)
    BY <1>1, ConcatProperties
<1>3. last \in Seq(Commands) /\ Len(last) = 2
    BY DEF Commands, Command, Destinations, Links
<1>4. Len(first) \in Nat
    BY <1>2, LenProperties
<1> HIDE DEF first
<1>5. /\ Len(first \o last) = Len(first) + 2
      /\ (first \o last)[Len(first) + 1] = Command(Everything, "tunnel")
      /\ (first \o last)[Len(first) + 2] = Command(Resolver, "tunnel")
    BY <1>2, <1>3, <1>4, ConcatProperties
<1>6. StopScript = first \o last
    BY DEF StopScript, first
<1>7. Cleared(StopScript, <<Everything, "tunnel">>)
    <2>1. Covers(Command(Everything, "tunnel"), <<Everything, "tunnel">>)
        BY DEF Covers, Command
    <2> QED BY <1>4, <1>5, <1>6, <2>1 DEF Cleared
<1>8. Cleared(StopScript, <<Resolver, "tunnel">>)
    <2>1. Covers(Command(Resolver, "tunnel"), <<Resolver, "tunnel">>)
        BY DEF Covers, Command
    <2> QED BY <1>4, <1>5, <1>6, <2>1 DEF Cleared
<1> QED
    BY <1>7, <1>8 DEF IntoTunnel

LEMMA ServerFirst ==
    ASSUME NEW via \in Links \cup {"none"}
    PROVE  /\ RouteAll(via) \o RouteResolver # <<>>
           /\ Head(RouteAll(via) \o RouteResolver) = Command(Server, via)
<1> DEFINE skipped(a) == a \in Malformed \cup {Server}
           bypassed == [i \in 1 .. Len(Blacklist) |->
                          Command(Blacklist[i], IF skipped(Blacklist[i]) THEN "none" ELSE via)]
           start == <<Command(Server, via), Command(Everything, "tunnel")>>
<1>1. bypassed \in Seq(Additions)
    BY ListsAreSequences DEF Additions, Command
<1>2. start \in Seq(Additions) /\ Len(start) = 2 /\ start[1] = Command(Server, via)
    BY DEF Additions, Command, Destinations, Links
<1>3. RouteResolver \in Seq(Additions)
    BY DEF RouteResolver, Additions, Command, Destinations, Links
<1>4. Len(bypassed) \in Nat /\ Len(RouteResolver) \in Nat
    BY <1>1, <1>3, LenProperties
<1>5. RouteAll(via) = start \o bypassed
    BY DEF RouteAll
<1> HIDE DEF start, bypassed
<1>6. /\ start \o bypassed \in Seq(Additions)
      /\ Len(start \o bypassed) = 2 + Len(bypassed)
      /\ (start \o bypassed)[1] = Command(Server, via)
    <2>1. /\ start \o bypassed \in Seq(Additions)
          /\ Len(start \o bypassed) = Len(start) + Len(bypassed)
          /\ \A i \in 1 .. Len(start) : (start \o bypassed)[i] = start[i]
        BY <1>1, <1>2, ConcatParts, SMTT(30)
    <2>2. 1 \in 1 .. Len(start)
        BY <1>2
    <2> QED BY <1>2, <2>1, <2>2
<1>7. /\ RouteAll(via) \o RouteResolver \in Seq(Additions)
      /\ Len(RouteAll(via) \o RouteResolver) # 0
      /\ (RouteAll(via) \o RouteResolver)[1] = Command(Server, via)
    BY <1>3, <1>4, <1>5, <1>6, ConcatProperties
<1> QED
    BY <1>7, EmptySeq

LEMMA AloneInit == Init => AloneInv
BY DEF Init, Idle, AloneInv, AloneIsAlone, FreshStart, Deleting, LookingUp, GatewayKnown,
       Adding, Busy

LEMMA EnterAlone ==
    ASSUME TypeInv, AloneInv, NEW t \in Threads,
           NEW what, NEW label, NEW commands,
           Enter(t, what, label, commands),
           phase' # "connecting",
           \/ label = "delete" /\ commands = StopScript
           \/ label = "start" /\ table \cap IntoTunnel = {}
    PROVE  AloneInv'
<1> USE DEF AloneInv, TypeInv, TypeOK, Enter
<1>1. AloneIsAlone' BY DEF AloneIsAlone, Busy
<1>2. FreshStart' BY DEF FreshStart
<1>3. Deleting' BY DEF Deleting
<1>4. LookingUp' BY DEF LookingUp
<1>5. GatewayKnown' BY DEF GatewayKnown
<1>6. Adding' BY DEF Adding
<1> QED BY <1>1, <1>2, <1>3, <1>4, <1>5, <1>6

LEMMA LeaveAlone ==
    ASSUME TypeInv, AloneInv, NEW t \in Threads, pc[t] # "idle",
           Leave(t), UNCHANGED <<table, phase>>
    PROVE  AloneInv'
<1> USE DEF AloneInv, TypeInv, TypeOK, Leave
<1>1. AloneIsAlone' BY DEF AloneIsAlone
<1>2. FreshStart' BY DEF FreshStart, Busy
<1>3. Deleting' BY DEF Deleting
<1>4. LookingUp' BY DEF LookingUp
<1>5. GatewayKnown' BY DEF GatewayKnown
<1>6. Adding' BY DEF Adding
<1> QED BY <1>1, <1>2, <1>3, <1>4, <1>5, <1>6

LEMMA DeleteAlone ==
    ASSUME TypeInv, AloneInv, NEW t \in Threads, Delete(t)
    PROVE  AloneInv'
<1> USE DEF AloneInv, TypeInv, TypeOK, Delete
<1>1. AloneIsAlone' BY DEF AloneIsAlone
<1>2. FreshStart' BY DEF FreshStart, Busy
<1>3. Deleting'
    <2>1. ASSUME NEW u \in Threads, alone[u], pc[u] = "delete", NEW r \in table',
                 Cleared(StopScript, r)
          PROVE  Cleared(script'[u], r)
        <3>1. u = t
            BY <2>1 DEF AloneIsAlone
        <3>2. r \in table /\ ~Covers(Head(script[t]), r)
            OBVIOUS
        <3>3. PICK i \in 1 .. Len(script[t]) : Covers(script[t][i], r)
            BY <2>1, <3>1, <3>2 DEF Deleting, Cleared
        <3>4. i # 1 /\ Len(script[t]) \in Nat
            BY <3>2, <3>3, LenProperties
        <3>5. /\ Len(Tail(script[t])) = Len(script[t]) - 1
              /\ \A j \in 1 .. Len(Tail(script[t])) : Tail(script[t])[j] = script[t][j + 1]
            BY HeadTailProperties
        <3>6. i - 1 \in 1 .. Len(Tail(script[t])) /\ Tail(script[t])[i - 1] = script[t][i]
            BY <3>4, <3>5
        <3> QED BY <3>1, <3>3, <3>6 DEF Cleared
    <2> QED BY <2>1 DEF Deleting
<1>4. LookingUp' BY DEF LookingUp, AloneIsAlone
<1>5. GatewayKnown' BY DEF GatewayKnown
<1>6. Adding' BY DEF Adding, AloneIsAlone
<1> QED BY <1>1, <1>2, <1>3, <1>4, <1>5, <1>6

(* An undisturbed Stop that has run all its deletions has left no route     *)
(* that it names.                                                           *)
LEMMA AllDeleted ==
    ASSUME TypeInv, AloneInv, NEW t \in Threads, Stopped(t), alone[t]
    PROVE  \A r \in table : ~Cleared(StopScript, r)
<1>1. Len(script[t]) = 0
    BY DEF Stopped, TypeInv, TypeOK
<1> QED BY <1>1 DEF AloneInv, Deleting, Stopped, Cleared

LEMMA StoppedAlone ==
    ASSUME TypeInv, AloneInv, NEW t \in Threads, Stopped(t)
    PROVE  AloneInv'
<1>1. CASE task[t] # "restart"
    BY <1>1, LeaveAlone DEF Stopped
<1>2. CASE task[t] = "restart"
    <2> USE <1>2 DEF AloneInv, TypeInv, TypeOK, Stopped
    <2>1. AloneIsAlone' BY DEF AloneIsAlone
    <2>2. FreshStart' BY DEF FreshStart, Busy
    <2>3. Deleting' BY DEF Deleting
    <2>4. LookingUp'
        <3>1. alone[t] => table \cap IntoTunnel = {}
            BY AllDeleted, StopClearsTunnel
        <3> QED BY <3>1, ZenonT(40) DEF LookingUp
    <2>5. GatewayKnown' BY DEF GatewayKnown
    <2>6. Adding' BY ZenonT(40) DEF Adding
    <2> QED BY <2>1, <2>2, <2>3, <2>4, <2>5, <2>6
<1> QED BY <1>1, <1>2

LEMMA LookUpAlone ==
    ASSUME TypeInv, AloneInv, NEW t \in Threads, Open(t) \/ LookUpInterfaces(t)
    PROVE  AloneInv'
<1> USE DEF AloneInv, TypeInv, TypeOK, Open, LookUpInterfaces
<1>1. AloneIsAlone' BY DEF AloneIsAlone
<1>2. FreshStart' BY DEF FreshStart, Busy
<1>3. Deleting' BY ZenonT(40) DEF Deleting
<1>4. LookingUp' BY SMTT(30) DEF LookingUp, DefaultInterface, IntoTunnel
<1>5. GatewayKnown' BY DEF GatewayKnown
<1>6. Adding' BY ZenonT(40) DEF Adding, GatewayKnown
<1> QED BY <1>1, <1>2, <1>3, <1>4, <1>5, <1>6

LEMMA GatewayAlone ==
    ASSUME TypeInv, AloneInv, NEW t \in Threads, LookUpGateway(t)
    PROVE  AloneInv'
<1> USE DEF AloneInv, TypeInv, TypeOK, LookUpGateway
<1>1. AloneIsAlone' BY DEF AloneIsAlone
<1>2. FreshStart' BY DEF FreshStart, Busy
<1>3. Deleting' BY DEF Deleting
<1>4. LookingUp' BY DEF LookingUp
<1>5. GatewayKnown' BY DEF GatewayKnown
<1>6. Adding'
    <2>1. ASSUME alone[t], DefaultGateway # "none"
          PROVE  /\ <<Everything, "tunnel">> \notin table
                 /\ script'[t] # <<>>
                 /\ Head(script'[t]) = Command(Server, "physical")
        <3>1. table \cap IntoTunnel = {} /\ iface[t] \in {"physical", "any"}
            BY <2>1 DEF LookingUp, Links
        <3>2. DefaultGateway = "physical"
            BY <2>1, <3>1 DEF DefaultGateway, IntoTunnel
        <3>3. Via(DefaultGateway, iface[t]) = "physical"
            BY <3>1, <3>2 DEF Via
        <3>4. script'[t] = RouteAll("physical") \o RouteResolver
            BY <3>3
        <3> QED BY <3>1, <3>4, ServerFirst DEF IntoTunnel, Links
    <2>2. \A u \in Threads \ {t} :
             pc'[u] = pc[u] /\ gateway'[u] = gateway[u] /\ script'[u] = script[u]
        OBVIOUS
    <2>3. gateway'[t] = DefaultGateway /\ alone' = alone /\ table' = table
        OBVIOUS
    <2> HIDE DEF LookUpGateway
    <2> QED BY <2>1, <2>2, <2>3, ZenonT(40) DEF Adding
<1> QED BY <1>1, <1>2, <1>3, <1>4, <1>5, <1>6

LEMMA AddAlone ==
    ASSUME TypeInv, AloneInv, NEW t \in Threads, Add(t)
    PROVE  AloneInv'
<1> USE DEF AloneInv, TypeInv, TypeOK, Add
<1>1. AloneIsAlone' BY DEF AloneIsAlone
<1>2. FreshStart' BY DEF FreshStart, Busy
<1>3. Deleting' BY DEF Deleting, AloneIsAlone
<1>4. LookingUp' BY DEF LookingUp, AloneIsAlone
<1>5. GatewayKnown' BY DEF GatewayKnown
<1>6. Adding'
    <2>1. table \subseteq table'
        OBVIOUS
    <2>2. Head(script[t]) = Command(Server, "physical") => <<Server, "physical">> \in table'
        BY DEF Command
    <2>3. \A u \in Threads : alone[u] /\ pc[u] = "add" => u = t
        BY DEF AloneIsAlone
    <2>4. UNCHANGED <<alone, pc, gateway>>
        OBVIOUS
    <2> HIDE DEF Add
    <2> QED BY <2>1, <2>2, <2>3, <2>4 DEF Adding
<1> QED BY <1>1, <1>2, <1>3, <1>4, <1>5, <1>6

LEMMA AloneStep == TypeInv /\ AloneInv /\ [Next]_vars => AloneInv'
<1> SUFFICES ASSUME TypeInv, AloneInv, [Next]_vars PROVE AloneInv'
    OBVIOUS
<1>1. CASE Connect
    <2>1. "main" \in Threads /\ table \cap IntoTunnel = {} /\ phase' # "connecting"
        BY <1>1 DEF Connect, Threads, AloneInv, FreshStart
    <2>2. CASE OnStart
        BY <1>1, <2>1, <2>2, EnterAlone DEF Connect
    <2>3. CASE ~OnStart
        <3>1. UNCHANGED <<table, online, threadVars>>
            BY <1>1, <2>3 DEF Connect
        <3> QED BY <2>1, <3>1 DEF AloneInv, AloneIsAlone, FreshStart, Deleting, LookingUp,
                                  GatewayKnown, Adding, threadVars
    <2> QED BY <2>2, <2>3
<1>2. CASE Listen
    BY <1>2 DEF Listen, AloneInv, AloneIsAlone, FreshStart, Deleting, LookingUp,
                GatewayKnown, Adding, threadVars
<1>3. CASE Shutdown
    BY <1>3, EnterAlone DEF Shutdown, Threads
<1>4. CASE End
    <2>1. table' \cap IntoTunnel = {}
        BY <1>4 DEF End, IntoTunnel
    <2>2. \A t \in Threads : pc'[t] = "idle" /\ alone'[t] = FALSE /\ gateway'[t] = "none"
        BY <1>4 DEF End
    <2> QED BY <2>1, <2>2 DEF AloneInv, AloneIsAlone, FreshStart, Deleting, LookingUp,
                              GatewayKnown, Adding, Busy
<1>5. ASSUME NEW h \in Handlers, StartTunnel(h) \/ StopTunnel(h) PROVE AloneInv'
    BY <1>5, EnterAlone DEF StartTunnel, StopTunnel, Threads
<1>6. ASSUME NEW t \in Threads, Delete(t) PROVE AloneInv'
    BY <1>6, DeleteAlone
<1>7. ASSUME NEW t \in Threads, Stopped(t) PROVE AloneInv'
    BY <1>7, StoppedAlone
<1>8. ASSUME NEW t \in Threads, Open(t) \/ LookUpInterfaces(t) PROVE AloneInv'
    BY <1>8, LookUpAlone
<1>9. ASSUME NEW t \in Threads, InterfaceMissing(t) \/ Started(t) PROVE AloneInv'
    BY <1>9, LeaveAlone DEF InterfaceMissing, Started
<1>10. ASSUME NEW t \in Threads, LookUpGateway(t) PROVE AloneInv'
    BY <1>10, GatewayAlone
<1>11. ASSUME NEW t \in Threads, Add(t) PROVE AloneInv'
    BY <1>11, AddAlone
<1>12. CASE Outage \/ UNCHANGED vars
    BY <1>12 DEF Outage, vars, threadVars, AloneInv, AloneIsAlone, FreshStart, Deleting,
                 LookingUp, GatewayKnown, Adding, Busy
<1> QED
    BY <1>1, <1>2, <1>3, <1>4, <1>5, <1>6, <1>7, <1>8, <1>9, <1>10, <1>11, <1>12 DEF Next

(* A start that nobody disturbs never routes everything into the tunnel     *)
(* before the server is excluded, whatever is left from before: Stop has    *)
(* removed the routes into the tunnel, so that Start does not take the      *)
(* tunnel for the default interface.                                        *)
THEOREM UndisturbedNeverLoops == Spec => []NeverLoopsAlone
<1>1. AloneInv => NeverLoopsAlone
    BY DEF AloneInv, Adding, NeverLoopsAlone
<1> QED BY <1>1, TypeInit, TypeStep, AloneInit, AloneStep, PTL DEF Spec

----------------------------------------------------------------------------
(* Without a whitelist, Stop names every route that Start adds.             *)
Named == {c \in Additions : c.via # "none" => Cleared(StopScript, <<c.to, c.via>>)}

AllNamed ==
    /\ \A r \in table : Cleared(StopScript, r)
    /\ \A t \in Threads : pc[t] = "add" => script[t] \in Seq(Named)

LEMMA StopClearsBypassed ==
    ASSUME NEW link \in Links
    PROVE  /\ Cleared(StopScript, <<Server, link>>)
           /\ \A i \in 1 .. Len(Blacklist) : Cleared(StopScript, <<Blacklist[i], link>>)
<1> DEFINE server == <<Command(Server, "any")>>
           bypassed == [i \in 1 .. Len(Blacklist) |-> Command(Blacklist[i], "any")]
           last == <<Command(Everything, "tunnel"), Command(Resolver, "tunnel")>>
<1>1. server \in Seq(Commands) /\ Len(server) = 1 /\ server[1] = Command(Server, "any")
    BY DEF Commands, Command, Destinations
<1>2. /\ bypassed \in Seq(Commands)
      /\ Len(bypassed) = Len(Blacklist) /\ Len(Blacklist) \in Nat
      /\ \A i \in 1 .. Len(Blacklist) : bypassed[i] = Command(Blacklist[i], "any")
    BY ListsAreSequences DEF Commands, Command
<1>3. last \in Seq(Commands) /\ Len(last) = 2
    BY DEF Commands, Command, Destinations, Links
<1>4. StopScript = server \o bypassed \o last
    BY DEF StopScript
<1> HIDE DEF server, bypassed, last
<1> DEFINE head == server \o bypassed
<1>5. /\ head \in Seq(Commands)
      /\ Len(head) = 1 + Len(Blacklist)
      /\ head[1] = Command(Server, "any")
      /\ \A i \in 1 .. Len(Blacklist) : head[1 + i] = Command(Blacklist[i], "any")
    <2>1. /\ head \in Seq(Commands)
          /\ Len(head) = Len(server) + Len(bypassed)
          /\ \A i \in 1 .. Len(server) : head[i] = server[i]
          /\ \A i \in 1 .. Len(bypassed) : head[Len(server) + i] = bypassed[i]
        BY <1>1, <1>2, ConcatParts, SMTT(30)
    <2>2. 1 \in 1 .. Len(server)
        BY <1>1
    <2> HIDE DEF head
    <2> QED BY <1>1, <1>2, <2>1, <2>2
<1>6. StopScript = head \o last
    BY <1>4
<1> HIDE DEF head
<1>7. /\ Len(StopScript) = Len(Blacklist) + 3
      /\ \A i \in 1 .. 1 + Len(Blacklist) : StopScript[i] = head[i]
    <2>1. head \in Seq(Commands) /\ last \in Seq(Commands)
        BY <1>3, <1>5
    <2>2. /\ Len(head \o last) = Len(head) + Len(last)
          /\ \A i \in 1 .. Len(head) : (head \o last)[i] = head[i]
        BY <2>1, ConcatParts
    <2> QED BY <1>2, <1>3, <1>5, <1>6, <2>2
<1>8. /\ StopScript[1] = Command(Server, "any")
      /\ \A i \in 1 .. Len(Blacklist) : StopScript[1 + i] = Command(Blacklist[i], "any")
    BY <1>2, <1>5, <1>7
<1>9. \A a : Covers(Command(a, "any"), <<a, link>>)
    BY DEF Covers, Command
<1>10. Cleared(StopScript, <<Server, link>>)
    BY <1>2, <1>7, <1>8, <1>9 DEF Cleared
<1>11. ASSUME NEW i \in 1 .. Len(Blacklist) PROVE Cleared(StopScript, <<Blacklist[i], link>>)
    <2>1. 1 + i \in 1 .. Len(StopScript)
        BY <1>2, <1>7
    <2> QED BY <1>8, <1>9, <2>1 DEF Cleared
<1> QED BY <1>10, <1>11

LEMMA RouteAllNamed ==
    ASSUME NEW via \in Links \cup {"none"}
    PROVE  RouteAll(via) \o RouteResolver \in Seq(Named)
<1> DEFINE skipped(a) == a \in Malformed \cup {Server}
           bypassed == [i \in 1 .. Len(Blacklist) |->
                          Command(Blacklist[i], IF skipped(Blacklist[i]) THEN "none" ELSE via)]
<1> HIDE DEF skipped
<1>1. ASSUME NEW i \in 1 .. Len(Blacklist), NEW v \in {"none", via}
      PROVE  Command(Blacklist[i], v) \in Named
    BY ListsAreSequences, StopClearsBypassed DEF Named, Additions, Command
<1>2. bypassed \in Seq(Named)
    BY <1>1, ListsAreSequences
<1>3. Command(Server, via) \in Named
    BY StopClearsBypassed DEF Named, Additions, Command, Destinations
<1>4. Command(Everything, "tunnel") \in Named /\ Command(Resolver, "tunnel") \in Named
    BY StopClearsTunnel DEF Named, Additions, Command, Destinations, Links, IntoTunnel
<1>5. <<Command(Server, via), Command(Everything, "tunnel")>> \in Seq(Named)
    BY <1>3, <1>4
<1>6. RouteResolver \in Seq(Named)
    BY <1>4 DEF RouteResolver
<1>7. RouteAll(via) = <<Command(Server, via), Command(Everything, "tunnel")>> \o bypassed
    BY DEF RouteAll, skipped
<1> HIDE DEF bypassed
<1>8. RouteAll(via) \in Seq(Named)
    BY <1>2, <1>5, <1>7, ConcatProperties
<1> QED BY <1>6, <1>8, ConcatProperties

LEMMA NamedInit == Init => AllNamed
BY DEF Init, Idle, AllNamed

LEMMA NamedStep ==
    ASSUME Whitelist = <<>>
    PROVE  TypeInv /\ AllNamed /\ [Next]_vars => AllNamed'
<1> SUFFICES ASSUME TypeInv, AllNamed, [Next]_vars PROVE AllNamed'
    OBVIOUS
<1> USE DEF AllNamed, TypeInv, TypeOK
<1>1. CASE Connect
    BY <1>1, ZenonT(40) DEF Connect, Enter, threadVars
<1>2. CASE Listen \/ Outage \/ UNCHANGED vars
    BY <1>2 DEF Listen, Outage, vars, threadVars
<1>3. CASE Shutdown
    BY <1>3 DEF Shutdown, Enter
<1>4. CASE End
    BY <1>4 DEF End
<1>5. ASSUME NEW h \in Handlers, StartTunnel(h) \/ StopTunnel(h) PROVE AllNamed'
    BY <1>5 DEF StartTunnel, StopTunnel, Enter
<1>6. ASSUME NEW t \in Threads, Delete(t) \/ Open(t) \/ Stopped(t) PROVE AllNamed'
    BY <1>6, ZenonT(40) DEF Delete, Open, Stopped, Leave
<1>7. ASSUME NEW t \in Threads, InterfaceMissing(t) \/ Started(t) PROVE AllNamed'
    BY <1>7 DEF InterfaceMissing, Started, Leave
<1>8. ASSUME NEW t \in Threads, LookUpInterfaces(t) PROVE AllNamed'
    BY <1>8 DEF LookUpInterfaces
<1>9. ASSUME NEW t \in Threads, LookUpGateway(t) PROVE AllNamed'
    <2> DEFINE via == Via(DefaultGateway, iface[t])
               commands == RouteAll(via) \o RouteResolver
    <2>1. via \in Links \cup {"none"}
        BY DEF Via, DefaultGateway, Links
    <2>2. commands \in Seq(Named)
        BY <2>1, RouteAllNamed
    <2> HIDE DEF commands, via
    <2>3. /\ script' = [script EXCEPT ![t] = commands]
          /\ pc' = [pc EXCEPT ![t] = "add"]
          /\ table' = table
        BY <1>9 DEF LookUpGateway, commands, via
    <2> QED BY <2>2, <2>3
<1>10. ASSUME NEW t \in Threads, Add(t) PROVE AllNamed'
    <2>1. Head(script[t]) \in Named /\ Tail(script[t]) \in Seq(Named)
        BY <1>10, HeadTailProperties DEF Add
    <2>2. \A r \in table' : Cleared(StopScript, r)
        BY <1>10, <2>1 DEF Add, Named
    <2> QED BY <1>10, <2>1, <2>2 DEF Add
<1> QED
    BY <1>1, <1>2, <1>3, <1>4, <1>5, <1>6, <1>7, <1>8, <1>9, <1>10 DEF Next

(* The threads that leave Stop have run all its deletions. *)
LEMMA StopStep ==
    ASSUME TypeInv, AloneInv, AllNamed, [Next]_vars, NEW t \in Threads,
           pc[t] = "delete", pc'[t] = "idle", phase' # "connecting", alone[t]
    PROVE  table' = {}
<1> USE DEF TypeInv, TypeOK
<1>1. CASE Stopped(t)
    BY <1>1, AllDeleted DEF AllNamed, Stopped
<1>2. CASE End
    BY <1>2 DEF End
<1>3. CASE Connect \/ Listen \/ Shutdown \/ Outage \/ UNCHANGED vars
    BY <1>3 DEF Connect, Listen, Shutdown, Enter, Outage, vars, threadVars
<1>4. ASSUME NEW h \in Handlers, StartTunnel(h) \/ StopTunnel(h) PROVE FALSE
    BY <1>4 DEF StartTunnel, StopTunnel, Enter
<1>5. ASSUME NEW u \in Threads, Delete(u) \/ Open(u) \/ LookUpInterfaces(u) \/ LookUpGateway(u)
                                \/ Add(u)
      PROVE FALSE
    BY <1>5 DEF Delete, Open, LookUpInterfaces, LookUpGateway, Add
<1>6. ASSUME NEW u \in Threads, u # t, Stopped(u) PROVE FALSE
    BY <1>6 DEF Stopped, Leave
<1>7. ASSUME NEW u \in Threads, InterfaceMissing(u) \/ Started(u) PROVE FALSE
    BY <1>7 DEF InterfaceMissing, Started, Leave
<1> QED BY <1>1, <1>2, <1>3, <1>4, <1>5, <1>6, <1>7 DEF Next

(* Without a whitelist a stop that nobody disturbs removes every route that *)
(* any earlier request has left, overlapped or not.  (With a whitelist it   *)
(* does not: Stop names none of its routes.)                                *)
THEOREM UndisturbedStopCleans ==
    ASSUME Whitelist = <<>>
    PROVE  Spec => StopCleans
<1>1. TypeInv /\ AloneInv /\ AllNamed /\ [Next]_vars =>
          [\A t \in Threads :
              pc[t] = "delete" /\ pc'[t] = "idle" /\ phase' # "connecting" /\ alone[t] =>
                  table' = {}]_vars
    BY StopStep
<1>2. TypeInv /\ AllNamed /\ [Next]_vars => AllNamed'
    BY NamedStep
<1> QED
    BY <1>1, <1>2, TypeInit, TypeStep, AloneInit, AloneStep, NamedInit, PTL
    DEF Spec, StopCleans

----------------------------------------------------------------------------
(* That a start repairs the table rests on what the scripts contain: they   *)
(* lead nowhere but where they should, and leave out nothing.               *)
AddingOnly(S) == Seq({c \in Additions : c.via # "none" => <<c.to, c.via>> \in S})

(* The routes that a list of additions has still to make. *)
Ahead(commands) == {<<commands[i].to, commands[i].via>> : i \in 1 .. Len(commands)}

(* The routes that can be left behind.  Those outside the tunnel, and with  *)
(* a whitelist all of them, are routes a start makes in any case.           *)
Meant == {r \in Routes : r[2] = "physical" \/ Whitelist # <<>> => r \in Wanted}

LEMMA AheadOfConcat ==
    ASSUME NEW s1 \in Seq(Additions), NEW s2 \in Seq(Additions)
    PROVE  Ahead(s1) \cup Ahead(s2) \subseteq Ahead(s1 \o s2)
<1>1. /\ Len(s1) \in Nat /\ Len(s2) \in Nat
      /\ Len(s1 \o s2) = Len(s1) + Len(s2)
      /\ \A i \in 1 .. Len(s1) : (s1 \o s2)[i] = s1[i]
      /\ \A i \in 1 .. Len(s2) : (s1 \o s2)[Len(s1) + i] = s2[i]
    BY ConcatParts, LenProperties
<1>2. ASSUME NEW i \in 1 .. Len(s1)
      PROVE  <<s1[i].to, s1[i].via>> \in Ahead(s1 \o s2)
    <2>1. i \in 1 .. Len(s1 \o s2)
        BY <1>1
    <2> QED BY <1>1, <2>1 DEF Ahead
<1>3. ASSUME NEW i \in 1 .. Len(s2)
      PROVE  <<s2[i].to, s2[i].via>> \in Ahead(s1 \o s2)
    <2>1. Len(s1) + i \in 1 .. Len(s1 \o s2)
        BY <1>1
    <2> QED BY <1>1, <2>1 DEF Ahead
<1> QED BY <1>2, <1>3 DEF Ahead

LEMMA AheadOfTail ==
    ASSUME NEW s \in Seq(Additions), s # <<>>
    PROVE  Ahead(s) \subseteq Ahead(Tail(s)) \cup {<<Head(s).to, Head(s).via>>}
<1>1. /\ Len(s) \in Nat
      /\ Head(s) = s[1]
      /\ Len(Tail(s)) = Len(s) - 1
      /\ \A i \in 1 .. Len(Tail(s)) : Tail(s)[i] = s[i + 1]
    BY HeadTailProperties, LenProperties
<1>2. ASSUME NEW i \in 1 .. Len(s), i # 1
      PROVE  <<s[i].to, s[i].via>> \in Ahead(Tail(s))
    <2>1. i - 1 \in 1 .. Len(Tail(s)) /\ Tail(s)[i - 1] = s[i]
        BY <1>1, <1>2
    <2> QED BY <2>1 DEF Ahead
<1> QED BY <1>1, <1>2 DEF Ahead

LEMMA AddingOnlyAdds ==
    ASSUME NEW S, NEW s \in AddingOnly(S)
    PROVE  s \in Seq(Additions)
BY SeqMonotonic DEF AddingOnly

LEMMA AddingOnlyMore ==
    ASSUME NEW S, NEW T, S \subseteq T, NEW s \in AddingOnly(S)
    PROVE  s \in AddingOnly(T)
<1>1. {c \in Additions : c.via # "none" => <<c.to, c.via>> \in S}
         \subseteq {c \in Additions : c.via # "none" => <<c.to, c.via>> \in T}
    OBVIOUS
<1> QED BY <1>1, SeqMonotonic DEF AddingOnly

(* RouteWhitelist and RouteResolver add exactly the routes that are wanted. *)
LEMMA WhitelistIsWanted ==
    ASSUME Whitelist # <<>>
    PROVE  /\ RouteWhitelist \o RouteResolver \in AddingOnly(Wanted)
           /\ Wanted \subseteq Ahead(RouteWhitelist \o RouteResolver)
<1> DEFINE skipped == Malformed \cup Entries(Blacklist)
<1>1. /\ RouteWhitelist \in Seq(Additions) /\ RouteResolver \in Seq(Additions)
      /\ Len(RouteWhitelist) = Len(Whitelist)
      /\ \A i \in 1 .. Len(Whitelist) :
            RouteWhitelist[i] = Command(Whitelist[i],
                                        IF Whitelist[i] \in skipped THEN "none" ELSE "tunnel")
    BY ListsAreSequences
    DEF RouteWhitelist, RouteResolver, Additions, Command, Links, Destinations
<1>2. ASSUME NEW a \in Entries(Whitelist), a \notin skipped
      PROVE  <<a, "tunnel">> \in Wanted
    BY <1>2 DEF Wanted
<1>3. RouteWhitelist \in AddingOnly(Wanted)
    BY <1>1, <1>2, ListsAreSequences
    DEF RouteWhitelist, AddingOnly, Additions, Command, Links, Entries
<1>4. RouteResolver \in AddingOnly(Wanted) /\ <<Resolver, "tunnel">> \in Ahead(RouteResolver)
    BY DEF RouteResolver, AddingOnly, Additions, Command, Links, Destinations, Wanted, Ahead
<1>5. RouteWhitelist \o RouteResolver \in AddingOnly(Wanted)
    BY <1>3, <1>4, ConcatProperties DEF AddingOnly
<1>6. ASSUME NEW a \in Entries(Whitelist), a \notin skipped
      PROVE  <<a, "tunnel">> \in Ahead(RouteWhitelist)
    <2>1. PICK i \in 1 .. Len(Whitelist) : Whitelist[i] = a
        BY DEF Entries
    <2>2. RouteWhitelist[i] = Command(a, "tunnel") /\ i \in 1 .. Len(RouteWhitelist)
        BY <1>1, <1>6, <2>1
    <2> QED BY <2>2 DEF Ahead, Command
<1>7. Wanted \subseteq Ahead(RouteWhitelist) \cup Ahead(RouteResolver)
    BY <1>4, <1>6 DEF Wanted
<1> QED BY <1>1, <1>5, <1>7, AheadOfConcat

(* What RouteAll and RouteResolver run, in three parts. *)
LEMMA RouteAllParts ==
    ASSUME NEW via \in Links \cup {"none"}, Whitelist = <<>>
    PROVE  \E start, bypassed, resolver \in Seq(Additions) :
              /\ RouteAll(via) \o RouteResolver = (start \o bypassed) \o resolver
              /\ start = <<Command(Server, via), Command(Everything, "tunnel")>>
              /\ resolver = <<Command(Resolver, "tunnel")>>
              /\ Len(bypassed) = Len(Blacklist)
              /\ \A i \in 1 .. Len(Blacklist) :
                    bypassed[i] = Command(Blacklist[i],
                                          IF Blacklist[i] \in Malformed \cup {Server}
                                          THEN "none" ELSE via)
<1> DEFINE skipped(a) == a \in Malformed \cup {Server}
           bypassed == [i \in 1 .. Len(Blacklist) |->
                          Command(Blacklist[i], IF skipped(Blacklist[i]) THEN "none" ELSE via)]
           start == <<Command(Server, via), Command(Everything, "tunnel")>>
<1>1. /\ bypassed \in Seq(Additions) /\ Len(bypassed) = Len(Blacklist)
      /\ \A i \in 1 .. Len(Blacklist) :
            bypassed[i] = Command(Blacklist[i],
                                  IF Blacklist[i] \in Malformed \cup {Server}
                                  THEN "none" ELSE via)
    BY ListsAreSequences DEF Additions, Command
<1>2. start \in Seq(Additions)
    BY DEF Additions, Command, Destinations, Links
<1>3. RouteResolver \in Seq(Additions) /\ RouteResolver = <<Command(Resolver, "tunnel")>>
    BY DEF RouteResolver, Additions, Command, Destinations, Links
<1>4. RouteAll(via) \o RouteResolver = (start \o bypassed) \o RouteResolver
    BY DEF RouteAll
<1> HIDE DEF bypassed
<1> QED BY <1>1, <1>2, <1>3, <1>4

(* RouteAll and RouteResolver add only what is wanted as long as the        *)
(* excluded addresses go to the physical link, and then all of it.          *)
LEMMA RouteAllIsWanted ==
    ASSUME Whitelist = <<>>
    PROVE  /\ RouteAll("physical") \o RouteResolver \in AddingOnly(Wanted)
           /\ Wanted \subseteq Ahead(RouteAll("physical") \o RouteResolver)
<1>1. PICK start, bypassed, resolver \in Seq(Additions) :
              /\ RouteAll("physical") \o RouteResolver = (start \o bypassed) \o resolver
              /\ start = <<Command(Server, "physical"), Command(Everything, "tunnel")>>
              /\ resolver = <<Command(Resolver, "tunnel")>>
              /\ Len(bypassed) = Len(Blacklist)
              /\ \A i \in 1 .. Len(Blacklist) :
                    bypassed[i] = Command(Blacklist[i],
                                          IF Blacklist[i] \in Malformed \cup {Server}
                                          THEN "none" ELSE "physical")
    BY RouteAllParts DEF Links
<1>2. ASSUME NEW a \in Entries(Blacklist), a \notin Malformed
      PROVE  <<a, "physical">> \in Wanted
    BY <1>2 DEF Wanted
<1>3. bypassed \in AddingOnly(Wanted)
    <2>1. ASSUME NEW i \in 1 .. Len(Blacklist)
          PROVE  bypassed[i] \in
                    {c \in Additions : c.via # "none" => <<c.to, c.via>> \in Wanted}
        <3>1. Blacklist[i] \in Entries(Blacklist) /\ Blacklist[i] \in Destinations
            BY ListsAreSequences DEF Entries
        <3>2. CASE Blacklist[i] \in Malformed \cup {Server}
            <4>1. bypassed[i] = Command(Blacklist[i], "none")
                BY <1>1, <3>2
            <4> QED BY <3>1, <4>1 DEF Additions, Command
        <3>3. CASE Blacklist[i] \notin Malformed \cup {Server}
            <4>1. bypassed[i] = Command(Blacklist[i], "physical")
                BY <1>1, <3>3
            <4> QED BY <1>2, <3>1, <3>3, <4>1 DEF Additions, Command, Links
        <3> QED BY <3>2, <3>3
    <2>2. bypassed = [i \in 1 .. Len(Blacklist) |-> bypassed[i]]
        BY <1>1
    <2> QED BY <2>1, <2>2, ListsAreSequences DEF AddingOnly
<1>4. /\ start \in AddingOnly(Wanted)
      /\ {<<Server, "physical">>, <<Everything, "tunnel">>} \subseteq Ahead(start)
    BY <1>1 DEF AddingOnly, Additions, Command, Links, Destinations, Wanted, Ahead
<1>5. resolver \in AddingOnly(Wanted) /\ <<Resolver, "tunnel">> \in Ahead(resolver)
    BY <1>1 DEF AddingOnly, Additions, Command, Links, Destinations, Wanted, Ahead
<1>6. ASSUME NEW a \in Entries(Blacklist) \ Malformed, a # Server
      PROVE  <<a, "physical">> \in Ahead(bypassed)
    <2>1. PICK i \in 1 .. Len(Blacklist) : Blacklist[i] = a
        BY DEF Entries
    <2>2. bypassed[i] = Command(a, "physical") /\ i \in 1 .. Len(bypassed)
        BY <1>1, <1>6, <2>1
    <2> QED BY <2>2, SMTT(30) DEF Ahead, Command
<1>7. start \o bypassed \in AddingOnly(Wanted) /\ start \o bypassed \in Seq(Additions)
    <2>1. start \o bypassed \in AddingOnly(Wanted)
        BY <1>3, <1>4, ConcatProperties DEF AddingOnly
    <2> QED BY <2>1, AddingOnlyAdds
<1>8. (start \o bypassed) \o resolver \in AddingOnly(Wanted)
    BY <1>5, <1>7, ConcatProperties DEF AddingOnly
<1>9. Wanted \subseteq Ahead(start) \cup Ahead(bypassed) \cup Ahead(resolver)
    <2>1. Wanted = {<<Resolver, "tunnel">>, <<Everything, "tunnel">>, <<Server, "physical">>}
                   \cup ((Entries(Blacklist) \ Malformed) \X {"physical"})
        BY DEF Wanted
    <2>2. ASSUME NEW r \in (Entries(Blacklist) \ Malformed) \X {"physical"}
          PROVE  r = <<Server, "physical">> \/ r \in Ahead(bypassed)
        <3>1. PICK a \in Entries(Blacklist) \ Malformed : r = <<a, "physical">>
            OBVIOUS
        <3> QED BY <1>6, <3>1
    <2> QED BY <1>4, <1>5, <2>1, <2>2
<1>10. Ahead(start) \cup Ahead(bypassed) \cup Ahead(resolver)
          \subseteq Ahead((start \o bypassed) \o resolver)
    BY <1>7, AheadOfConcat
<1> QED BY <1>1, <1>8, <1>9, <1>10

(* Wherever the excluded addresses lead, RouteAll adds nothing that a later *)
(* process could find and would not want.                                   *)
LEMMA RouteAllIsMeant ==
    ASSUME NEW via \in Links \cup {"none"}, Whitelist = <<>>
    PROVE  RouteAll(via) \o RouteResolver \in AddingOnly(Meant)
<1>1. PICK start, bypassed, resolver \in Seq(Additions) :
              /\ RouteAll(via) \o RouteResolver = (start \o bypassed) \o resolver
              /\ start = <<Command(Server, via), Command(Everything, "tunnel")>>
              /\ resolver = <<Command(Resolver, "tunnel")>>
              /\ Len(bypassed) = Len(Blacklist)
              /\ \A i \in 1 .. Len(Blacklist) :
                    bypassed[i] = Command(Blacklist[i],
                                          IF Blacklist[i] \in Malformed \cup {Server}
                                          THEN "none" ELSE via)
    BY RouteAllParts
<1> DEFINE Harmless == {c \in Additions : c.via # "none" => <<c.to, c.via>> \in Meant}
<1>2. ASSUME NEW a \in Destinations,
             a = Server \/ a \in Entries(Blacklist) \ Malformed
      PROVE  Command(a, via) \in Harmless
    BY <1>2 DEF Additions, Command, Meant, Routes, Wanted, Links
<1>3. \A a \in Destinations : Command(a, "none") \in Harmless
    BY DEF Additions, Command
<1>4. \A a \in Destinations : Command(a, "tunnel") \in Harmless
    BY DEF Additions, Command, Meant, Routes, Links
<1>5. Server \in Destinations /\ Everything \in Destinations /\ Resolver \in Destinations
    BY DEF Destinations
<1> HIDE DEF Harmless
<1>6. ASSUME NEW i \in 1 .. Len(Blacklist) PROVE bypassed[i] \in Harmless
    <2>1. Blacklist[i] \in Entries(Blacklist) /\ Blacklist[i] \in Destinations
        BY ListsAreSequences DEF Entries
    <2>2. CASE Blacklist[i] \in Malformed \cup {Server}
        BY <1>1, <1>3, <2>1, <2>2
    <2>3. CASE Blacklist[i] \notin Malformed \cup {Server}
        BY <1>1, <1>2, <2>1, <2>3
    <2> QED BY <2>2, <2>3
<1>7. bypassed \in Seq(Harmless)
    <2>1. bypassed = [i \in 1 .. Len(Blacklist) |-> bypassed[i]]
        BY <1>1
    <2> QED BY <1>6, <2>1, ListsAreSequences
<1>8. start \in Seq(Harmless) /\ resolver \in Seq(Harmless)
    BY <1>1, <1>2, <1>4, <1>5
<1>9. (start \o bypassed) \o resolver \in Seq(Harmless)
    BY <1>7, <1>8, ConcatProperties
<1> QED BY <1>1, <1>9 DEF AddingOnly, Harmless

LEMMA WantedIsMeant == Wanted \subseteq Meant
BY ListsAreSequences DEF Wanted, Meant, Routes, Destinations, Links

----------------------------------------------------------------------------
(* The invariant of the repair: what is left behind does no harm, a start   *)
(* that nobody disturbs begins with nothing but wanted routes, and has the  *)
(* missing ones ahead of it until it ends.                                  *)
LeftBehind ==
    /\ table \subseteq Meant
    /\ phase = "connecting" => \A r \in table : r[2] = "physical"

OnlyMeantAhead ==
    \A t \in Threads :
        /\ pc[t] = "gateway" => Whitelist = <<>>
        /\ pc[t] = "add" => script[t] \in AddingOnly(Meant)

StartsClean ==
    \A t \in Threads :
        alone[t] /\ pc[t] \in {"start", "lookup", "gateway"} => table \subseteq Wanted

Repairs(t) ==
    /\ alone[t]
    /\ pc[t] = "add"
    /\ Whitelist = <<>> => gateway[t] # "none"

Repairing ==
    \A t \in Threads : Repairs(t) =>
        /\ table \subseteq Wanted
        /\ script[t] \in AddingOnly(Wanted)
        /\ Wanted \subseteq table \cup Ahead(script[t])

RepairInv == LeftBehind /\ OnlyMeantAhead /\ StartsClean /\ Repairing

LEMMA RepairInit == Init => RepairInv
BY DEF Init, Idle, RepairInv, LeftBehind, OnlyMeantAhead, StartsClean, Repairing, Repairs

LEMMA EnterRepair ==
    ASSUME TypeInv, RepairInv, NEW t \in Threads,
           NEW what, NEW label, NEW commands,
           Enter(t, what, label, commands),
           phase' # "connecting",
           label = "delete" \/ (label = "start" /\ table \subseteq Wanted)
    PROVE  RepairInv'
<1> USE DEF RepairInv, TypeInv, TypeOK, Enter
<1>1. LeftBehind' BY DEF LeftBehind
<1>2. OnlyMeantAhead' BY DEF OnlyMeantAhead
<1>3. StartsClean' BY DEF StartsClean
<1>4. Repairing' BY DEF Repairing, Repairs
<1> QED BY <1>1, <1>2, <1>3, <1>4

LEMMA LeaveRepair ==
    ASSUME TypeInv, RepairInv, NEW t \in Threads, Leave(t), UNCHANGED <<table, phase>>
    PROVE  RepairInv'
<1> USE DEF RepairInv, TypeInv, TypeOK, Leave
<1>1. LeftBehind' BY DEF LeftBehind
<1>2. OnlyMeantAhead' BY DEF OnlyMeantAhead
<1>3. StartsClean' BY DEF StartsClean
<1>4. Repairing' BY DEF Repairing, Repairs
<1> QED BY <1>1, <1>2, <1>3, <1>4

(* With a whitelist everything that can be left behind is wanted; without   *)
(* one, Stop has removed everything.                                        *)
LEMMA StoppedRepair ==
    ASSUME TypeInv, AloneInv, Whitelist = <<>> => AllNamed, RepairInv,
           NEW t \in Threads, Stopped(t)
    PROVE  RepairInv'
<1>1. CASE task[t] # "restart"
    BY <1>1, LeaveRepair DEF Stopped
<1>2. CASE task[t] = "restart"
    <2> USE <1>2 DEF RepairInv, TypeInv, TypeOK, Stopped
    <2>1. LeftBehind' BY DEF LeftBehind
    <2>2. OnlyMeantAhead' BY DEF OnlyMeantAhead
    <2>3. StartsClean'
        <3>1. alone[t] => table \subseteq Wanted
            <4>1. CASE Whitelist = <<>>
                BY <4>1, AllDeleted DEF AllNamed
            <4>2. CASE Whitelist # <<>>
                BY <4>2 DEF LeftBehind, Meant
            <4> QED BY <4>1, <4>2
        <3> QED BY <3>1 DEF StartsClean
    <2>4. Repairing' BY DEF Repairing, Repairs
    <2> QED BY <2>1, <2>2, <2>3, <2>4
<1> QED BY <1>1, <1>2

LEMMA LookUpRepair ==
    ASSUME TypeInv, AloneInv, RepairInv, NEW t \in Threads, LookUpInterfaces(t)
    PROVE  RepairInv'
<1> USE DEF RepairInv, TypeInv, TypeOK, LookUpInterfaces
<1>1. LeftBehind' BY DEF LeftBehind
<1>2. StartsClean' BY DEF StartsClean
<1> DEFINE commands == RouteWhitelist \o RouteResolver
<1>3. CASE Whitelist = <<>>
    <2>1. OnlyMeantAhead' BY <1>3 DEF OnlyMeantAhead
    <2>2. Repairing' BY <1>3 DEF Repairing, Repairs
    <2> QED BY <1>1, <1>2, <2>1, <2>2
<1>4. CASE Whitelist # <<>>
    <2>1. commands \in AddingOnly(Wanted) /\ Wanted \subseteq Ahead(commands)
        BY <1>4, WhitelistIsWanted
    <2>2. commands \in AddingOnly(Meant)
        BY <2>1, WantedIsMeant, AddingOnlyMore
    <2> HIDE DEF commands
    <2>3. script' = [script EXCEPT ![t] = commands] /\ pc' = [pc EXCEPT ![t] = "add"]
        BY <1>4 DEF commands
    <2>4. OnlyMeantAhead' BY <2>2, <2>3 DEF OnlyMeantAhead
    <2>5. Repairing' BY <2>1, <2>3 DEF Repairing, Repairs, StartsClean
    <2> QED BY <1>1, <1>2, <2>4, <2>5
<1> QED BY <1>3, <1>4

(* A gateway that is found is not that of the tunnel, because no route into *)
(* the tunnel is left: the excluded addresses go where they should.         *)
LEMMA GatewayRepair ==
    ASSUME TypeInv, AloneInv, RepairInv, NEW t \in Threads, LookUpGateway(t)
    PROVE  RepairInv'
<1> DEFINE via == Via(DefaultGateway, iface[t])
           commands == RouteAll(via) \o RouteResolver
<1>1. via \in Links \cup {"none"} /\ Whitelist = <<>>
    BY DEF Via, DefaultGateway, Links, LookUpGateway, RepairInv, OnlyMeantAhead
<1>2. commands \in AddingOnly(Meant)
    BY <1>1, RouteAllIsMeant
<1>3. ASSUME alone[t], DefaultGateway # "none"
      PROVE  commands \in AddingOnly(Wanted) /\ Wanted \subseteq Ahead(commands)
    <2>1. table \cap IntoTunnel = {} /\ iface[t] \in {"physical", "any"}
        BY <1>3 DEF AloneInv, LookingUp, LookUpGateway, Links, TypeInv, TypeOK
    <2>2. via = "physical"
        BY <1>3, <2>1 DEF DefaultGateway, IntoTunnel, Via
    <2> QED BY <1>1, <2>2, RouteAllIsWanted
<1> HIDE DEF via, commands
<1>4. /\ pc[t] = "gateway"
      /\ script' = [script EXCEPT ![t] = commands]
      /\ pc' = [pc EXCEPT ![t] = "add"]
      /\ gateway' = [gateway EXCEPT ![t] = DefaultGateway]
      /\ UNCHANGED <<table, phase, alone>>
    BY DEF LookUpGateway, commands, via
<1> USE DEF RepairInv, TypeInv, TypeOK
<1>5. LeftBehind' BY <1>4 DEF LeftBehind
<1>6. OnlyMeantAhead' BY <1>2, <1>4 DEF OnlyMeantAhead
<1>7. StartsClean' BY <1>4 DEF StartsClean
<1>8. Repairing' BY <1>1, <1>3, <1>4 DEF Repairing, Repairs, StartsClean
<1> QED BY <1>5, <1>6, <1>7, <1>8

LEMMA AddOne ==
    ASSUME TypeInv, NEW t \in Threads, Add(t), NEW S, script[t] \in AddingOnly(S)
    PROVE  /\ script'[t] \in AddingOnly(S)
           /\ table' \subseteq table \cup S
           /\ table \cup (Ahead(script[t]) \cap Routes) \subseteq table' \cup Ahead(script'[t])
<1> DEFINE c == Head(script[t])
<1>1. /\ script[t] \in Seq(Additions) /\ script[t] # <<>>
      /\ script'[t] = Tail(script[t])
      /\ table' = IF c.via = "none" THEN table ELSE table \cup {<<c.to, c.via>>}
    BY AddingOnlyAdds DEF Add, TypeInv, TypeOK
<1>2. /\ c.via # "none" => <<c.to, c.via>> \in S
      /\ Tail(script[t]) \in AddingOnly(S)
    BY <1>1, HeadTailProperties DEF AddingOnly
<1>3. Ahead(script[t]) \subseteq Ahead(Tail(script[t])) \cup {<<c.to, c.via>>}
    BY <1>1, AheadOfTail
<1>4. <<c.to, c.via>> \in Routes => c.via # "none"
    BY DEF Routes, Links
<1> HIDE DEF c
<1> QED BY <1>1, <1>2, <1>3, <1>4

LEMMA AddRepair ==
    ASSUME TypeInv, AloneInv, RepairInv, NEW t \in Threads, Add(t)
    PROVE  RepairInv'
<1>1. /\ pc[t] = "add" /\ pc' = pc
      /\ script' = [script EXCEPT ![t] = Tail(script[t])]
      /\ UNCHANGED <<phase, gateway, alone>>
      /\ phase # "connecting"
    BY DEF Add, AloneInv, FreshStart, Busy
<1>2. script[t] \in AddingOnly(Meant) /\ table \subseteq Meant
    BY <1>1 DEF RepairInv, OnlyMeantAhead, LeftBehind
<1>3. script'[t] \in AddingOnly(Meant) /\ table' \subseteq Meant
    BY <1>2, AddOne
<1> USE DEF TypeInv, TypeOK
<1>4. LeftBehind' BY <1>1, <1>3 DEF LeftBehind
<1>5. OnlyMeantAhead' BY <1>1, <1>3 DEF RepairInv, OnlyMeantAhead
<1>6. \A u \in Threads : alone[u] => u = t
    BY <1>1 DEF AloneInv, AloneIsAlone
<1>7. StartsClean'
    BY <1>1, <1>6 DEF StartsClean
<1>8. Repairing'
    <2>1. ASSUME Repairs(t)
          PROVE  /\ table' \subseteq Wanted
                 /\ script'[t] \in AddingOnly(Wanted)
                 /\ Wanted \subseteq table' \cup Ahead(script'[t])
        <3>1. /\ table \subseteq Wanted
              /\ script[t] \in AddingOnly(Wanted)
              /\ Wanted \subseteq table \cup Ahead(script[t])
            BY <2>1 DEF RepairInv, Repairing
        <3>2. Wanted \subseteq Routes
            BY WantedIsMeant DEF Meant
        <3>3. /\ script'[t] \in AddingOnly(Wanted)
              /\ table' \subseteq table \cup Wanted
              /\ table \cup (Ahead(script[t]) \cap Routes)
                    \subseteq table' \cup Ahead(script'[t])
            BY <3>1, AddOne
        <3> QED BY <3>1, <3>2, <3>3
    <2> QED BY <1>1, <1>6, <2>1 DEF Repairing, Repairs
<1> QED BY <1>4, <1>5, <1>7, <1>8 DEF RepairInv

LEMMA RepairStep ==
    /\ TypeInv /\ AloneInv /\ RepairInv
    /\ Whitelist = <<>> => AllNamed
    /\ [Next]_vars
    => RepairInv'
<1> SUFFICES ASSUME TypeInv, AloneInv, RepairInv, Whitelist = <<>> => AllNamed, [Next]_vars
             PROVE  RepairInv'
    OBVIOUS
<1>1. CASE Connect
    <2>1. "main" \in Threads /\ phase' # "connecting" /\ table \subseteq Wanted
        BY <1>1 DEF Connect, Threads, RepairInv, LeftBehind, Meant
    <2>2. CASE OnStart
        BY <1>1, <2>1, <2>2, EnterRepair DEF Connect
    <2>3. CASE ~OnStart
        <3>1. UNCHANGED <<table, threadVars>>
            BY <1>1, <2>3 DEF Connect
        <3> QED BY <2>1, <3>1 DEF RepairInv, LeftBehind, OnlyMeantAhead, StartsClean,
                                  Repairing, Repairs, threadVars
    <2> QED BY <2>2, <2>3
<1>2. CASE Listen \/ Outage \/ UNCHANGED vars
    BY <1>2 DEF Listen, Outage, vars, threadVars, RepairInv, LeftBehind, OnlyMeantAhead,
                StartsClean, Repairing, Repairs
<1>3. CASE Shutdown
    BY <1>3, EnterRepair DEF Shutdown, Threads
<1>4. CASE End
    BY <1>4 DEF End, RepairInv, LeftBehind, OnlyMeantAhead, StartsClean, Repairing, Repairs
<1>5. ASSUME NEW h \in Handlers, StartTunnel(h) \/ StopTunnel(h) PROVE RepairInv'
    BY <1>5, EnterRepair DEF StartTunnel, StopTunnel, Threads
<1>6. ASSUME NEW t \in Threads, Delete(t) \/ Open(t) PROVE RepairInv'
    <2> USE <1>6 DEF RepairInv, TypeInv, TypeOK, Delete, Open
    <2>1. LeftBehind' BY DEF LeftBehind
    <2>2. OnlyMeantAhead' BY DEF OnlyMeantAhead
    <2>3. StartsClean' BY DEF StartsClean
    <2>4. Repairing' BY DEF Repairing, Repairs, AloneInv, AloneIsAlone
    <2> QED BY <2>1, <2>2, <2>3, <2>4
<1>7. ASSUME NEW t \in Threads, Stopped(t) PROVE RepairInv'
    BY <1>7, StoppedRepair
<1>8. ASSUME NEW t \in Threads, InterfaceMissing(t) \/ Started(t) PROVE RepairInv'
    BY <1>8, LeaveRepair DEF InterfaceMissing, Started
<1>9. ASSUME NEW t \in Threads, LookUpInterfaces(t) PROVE RepairInv'
    BY <1>9, LookUpRepair
<1>10. ASSUME NEW t \in Threads, LookUpGateway(t) PROVE RepairInv'
    BY <1>10, GatewayRepair
<1>11. ASSUME NEW t \in Threads, Add(t) PROVE RepairInv'
    BY <1>11, AddRepair
<1> QED
    BY <1>1, <1>2, <1>3, <1>4, <1>5, <1>6, <1>7, <1>8, <1>9, <1>10, <1>11 DEF Next

(* A start ends with nothing ahead of it. *)
LEMMA StartedStep ==
    ASSUME TypeInv, RepairInv, [Next]_vars, NEW t \in Threads,
           pc[t] = "add", state' = "opened", pc'[t] = "idle", alone[t],
           Whitelist = <<>> => gateway[t] # "none"
    PROVE  table' = Wanted
<1> USE DEF TypeInv, TypeOK
<1>1. CASE Started(t)
    <2>1. Ahead(script[t]) = {} /\ table' = table
        BY <1>1 DEF Started, Ahead
    <2> QED BY <2>1 DEF RepairInv, Repairing, Repairs
<1>2. CASE End
    BY <1>2 DEF End
<1>3. CASE Connect \/ Listen \/ Shutdown \/ Outage \/ UNCHANGED vars
    BY <1>3 DEF Connect, Listen, Shutdown, Enter, Outage, vars, threadVars
<1>4. ASSUME NEW h \in Handlers, StartTunnel(h) \/ StopTunnel(h) PROVE FALSE
    BY <1>4 DEF StartTunnel, StopTunnel, Enter
<1>5. ASSUME NEW u \in Threads, Delete(u) \/ Open(u) \/ LookUpInterfaces(u) \/ LookUpGateway(u)
                                \/ Add(u)
      PROVE FALSE
    BY <1>5 DEF Delete, Open, LookUpInterfaces, LookUpGateway, Add
<1>6. ASSUME NEW u \in Threads, u # t, Started(u) PROVE FALSE
    BY <1>6 DEF Started, Leave
<1>7. ASSUME NEW u \in Threads, InterfaceMissing(u) \/ Stopped(u) PROVE FALSE
    BY <1>7 DEF InterfaceMissing, Stopped, Leave
<1> QED BY <1>1, <1>2, <1>3, <1>4, <1>5, <1>6, <1>7 DEF Next

(* A start that nobody disturbs ends with exactly the configured routes,    *)
(* with any lists, and whatever requests that overlapped, crashes and       *)
(* outages have left in the table.                                          *)
THEOREM UndisturbedStartRepairs == Spec => StartRepairs
<1> DEFINE NamedInv == Whitelist = <<>> => AllNamed
<1>1. TypeInv /\ RepairInv /\ [Next]_vars =>
          [\A t \in Threads :
              /\ pc[t] = "add" /\ state' = "opened" /\ pc'[t] = "idle"
              /\ alone[t]
              /\ Whitelist = <<>> => gateway[t] # "none"
              => table' = Wanted]_vars
    BY StartedStep
<1>2. Init => NamedInv
    BY NamedInit
<1>3. TypeInv /\ NamedInv /\ [Next]_vars => NamedInv'
    BY NamedStep
<1>4. TypeInv /\ AloneInv /\ RepairInv /\ NamedInv /\ [Next]_vars => RepairInv'
    BY RepairStep
<1> QED
    BY <1>1, <1>2, <1>3, <1>4, TypeInit, TypeStep, AloneInit, AloneStep, RepairInit, PTL
    DEF Spec, StartRepairs
============================================================================
