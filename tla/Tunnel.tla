------------------------------- MODULE Tunnel -------------------------------
(***************************************************************************)
(* The tunnel of the Windows client: Tunnel.Start and Tunnel.Stop of       *)
(* core/system.go, called by Connect and Listen of core/client.go in the   *)
(* main goroutine and by the handlers of the HTTP API (core/api.go), which *)
(* nothing keeps from running at the same time.  Every command that        *)
(* changes or reads the routing table is a process of its own, and a step. *)
(*                                                                         *)
(* The routing table belongs to the operating system: what `route add`,    *)
(* `route delete` and `route print` do is external to the repository.      *)
(***************************************************************************)
EXTENDS Integers, Sequences, FiniteSets

CONSTANTS
    Handlers,   \* requests to the HTTP API that can be served at once
    Server,     \* Tunnel.DestinationIP
    Whitelist,  \* Tunnel.Whitelist and Tunnel.Blacklist, sequences of addresses
    Blacklist,
    Malformed,  \* the entries of the two lists that are no unicast address
    OnStart,    \* Client.TunnelOnStart
    Outages     \* TRUE: the machine may be without a default gateway at times

VARIABLES
    state,      \* Tunnel.State
    table,      \* the routes to hosts, and to everything, that Start has added
    online,     \* the machine has a default gateway of its own
    phase,      \* what the process does: Connect, Listen, its deferred calls
    pc,         \* where each thread is in Start or Stop
    task,       \* the request each thread serves
    script,     \* the route commands it has still to run
    iface,      \* defIfaceIndex
    gateway,    \* defGatewayIP
    alone       \* history: no other thread was in Start or Stop meanwhile

threadVars == <<pc, task, script, iface, gateway, alone>>
vars == <<state, table, online, phase, threadVars>>

Threads == {"main"} \cup Handlers

(* The destinations 0.0.0.0 and 8.8.8.8. *)
Everything == "everything"
Resolver == "resolver"

Entries(list) == {list[i] : i \in 1 .. Len(list)}
Destinations == {Server, Everything, Resolver} \cup Entries(Whitelist) \cup Entries(Blacklist)

ASSUME ListsAssumption ==
    /\ Whitelist \in Seq(Entries(Whitelist))
    /\ Blacklist \in Seq(Entries(Blacklist))
ASSUME NamesAssumption ==
    /\ "main" \notin Handlers
    /\ {Everything, Resolver} \cap ({Server} \cup Entries(Whitelist) \cup Entries(Blacklist)) = {}
ASSUME FlagsAssumption == OnStart \in BOOLEAN /\ Outages \in BOOLEAN

Links == {"tunnel", "physical"}
Routes == Destinations \X Links

(* A command names a destination and a link; "none" stands for a command    *)
(* that fails or a list entry that is skipped, "any" for a deletion that    *)
(* does not name the gateway.                                               *)
Commands == [to : Destinations, via : Links \cup {"none", "any"}]

Command(to, via) == [to |-> to, via |-> via]

TypeOK ==
    /\ state \in {"closed", "opening", "opened", "closing"}
    /\ table \subseteq Routes
    /\ online \in BOOLEAN
    /\ phase \in {"connecting", "starting", "listening", "stopping"}
    /\ pc \in [Threads -> {"idle", "delete", "start", "lookup", "gateway", "add"}]
    /\ task \in [Threads -> {"none", "start", "restart", "stop"}]
    /\ script \in [Threads -> Seq(Commands)]
    /\ iface \in [Threads -> Links \cup {"any"}]
    /\ gateway \in [Threads -> Links \cup {"none"}]
    /\ alone \in [Threads -> BOOLEAN]

Idle ==
    /\ pc = [t \in Threads |-> "idle"]
    /\ task = [t \in Threads |-> "none"]
    /\ script = [t \in Threads |-> <<>>]
    /\ iface = [t \in Threads |-> "any"]
    /\ gateway = [t \in Threads |-> "none"]
    /\ alone = [t \in Threads |-> FALSE]

Init ==
    /\ state = "closed"
    /\ table = {}
    /\ online = TRUE
    /\ phase = "connecting"
    /\ Idle

Busy == {t \in Threads : pc[t] # "idle"}

----------------------------------------------------------------------------
(* The commands of Stop and Start, in their order. *)

MutantStopScript ==
    <<Command(Server, "any"), Command(Everything, "tunnel"), Command(Resolver, "tunnel")>>

StopScript ==
    <<Command(Server, "any")>>
    \o [i \in 1 .. Len(Blacklist) |-> Command(Blacklist[i], "any")]
    \o <<Command(Everything, "tunnel"), Command(Resolver, "tunnel")>>

(* Where a route leads that is added with a gateway and an interface: the   *)
(* system refuses a gateway that is not on the link of the interface.       *)
Via(gw, link) == IF link \in {gw, "any"} THEN gw ELSE "none"

(* Without a whitelist everything goes into the tunnel but the server and   *)
(* the blacklist.                                                           *)
MutantRouteAll(via) ==
    <<Command(Everything, "tunnel"), Command(Server, via)>>
    \o [i \in 1 .. Len(Blacklist) |->
          Command(Blacklist[i],
                  IF Blacklist[i] \in Malformed \cup {Server} THEN "none" ELSE via)]

RouteAll(via) ==
    <<Command(Server, via), Command(Everything, "tunnel")>>
    \o [i \in 1 .. Len(Blacklist) |->
          Command(Blacklist[i],
                  IF Blacklist[i] \in Malformed \cup {Server} THEN "none" ELSE via)]

MutantRouteWhitelist ==
    [i \in 1 .. Len(Whitelist) |->
        Command(Whitelist[i], IF Whitelist[i] \in Malformed THEN "none" ELSE "tunnel")]

RouteWhitelist ==
    [i \in 1 .. Len(Whitelist) |->
        Command(Whitelist[i],
                IF Whitelist[i] \in Malformed \cup Entries(Blacklist) THEN "none" ELSE "tunnel")]

RouteResolver == <<Command(Resolver, "tunnel")>>

(* The link that leads to 8.8.8.8: the tunnel, once it is routed there. *)
DefaultInterface ==
    IF {<<Everything, "tunnel">>, <<Resolver, "tunnel">>} \cap table # {} THEN "tunnel"
    ELSE IF online THEN "physical" ELSE "any"

(* The gateway of the default route with the least metric. *)
DefaultGateway ==
    IF <<Everything, "tunnel">> \in table THEN "tunnel"
    ELSE IF online THEN "physical" ELSE "none"

----------------------------------------------------------------------------
(* A thread enters and leaves Start and Stop. *)

Enter(t, what, label, commands) ==
    /\ pc[t] = "idle"
    /\ pc' = [pc EXCEPT ![t] = label]
    /\ task' = [task EXCEPT ![t] = what]
    /\ script' = [script EXCEPT ![t] = commands]
    /\ alone' = [u \in Threads |-> u = t /\ Busy = {}]
    /\ UNCHANGED <<table, online, iface, gateway>>

Leave(t) ==
    /\ pc' = [pc EXCEPT ![t] = "idle"]
    /\ task' = [task EXCEPT ![t] = "none"]
    /\ script' = [script EXCEPT ![t] = <<>>]
    /\ iface' = [iface EXCEPT ![t] = "any"]
    /\ gateway' = [gateway EXCEPT ![t] = "none"]
    /\ alone' = [alone EXCEPT ![t] = FALSE]

(* Connect creates the tunnel and, in the statements that follow, starts it *)
(* if it is told to.  A request served between the two is not modelled.     *)
Connect ==
    /\ phase = "connecting"
    /\ phase' = "starting"
    /\ IF OnStart THEN Enter("main", "start", "start", <<>>)
                  ELSE UNCHANGED <<table, online, threadVars>>
    /\ UNCHANGED state

(* A handler that runs before Connect has created the tunnel panics, and    *)
(* net/http recovers: no action.                                            *)
MutantStartTunnel(h) ==
    /\ phase # "connecting"
    /\ Enter(h, "start", "start", <<>>)
    /\ UNCHANGED <<state, phase>>

StartTunnel(h) ==
    /\ phase # "connecting"
    /\ Enter(h, "restart", "delete", StopScript)
    /\ state' = "closing"
    /\ UNCHANGED phase

StopTunnel(h) ==
    /\ phase # "connecting"
    /\ Enter(h, "stop", "delete", StopScript)
    /\ state' = "closing"
    /\ UNCHANGED phase

(* Listen returns, and its deferred Tunnel.Stop runs. *)
Shutdown ==
    /\ phase = "listening"
    /\ phase' = "stopping"
    /\ Enter("main", "stop", "delete", StopScript)
    /\ state' = "closing"

----------------------------------------------------------------------------
(* Tunnel.Stop. *)

Covers(c, r) == c.to = r[1] /\ c.via \in {r[2], "any"}

Delete(t) ==
    /\ pc[t] = "delete"
    /\ script[t] # <<>>
    /\ table' = {r \in table : ~Covers(Head(script[t]), r)}
    /\ script' = [script EXCEPT ![t] = Tail(@)]
    /\ UNCHANGED <<state, online, phase, pc, task, iface, gateway, alone>>

Stopped(t) ==
    /\ pc[t] = "delete"
    /\ script[t] = <<>>
    /\ state' = "closed"
    /\ IF task[t] = "restart"
       THEN /\ pc' = [pc EXCEPT ![t] = "start"]
            /\ UNCHANGED <<task, script, iface, gateway, alone>>
       ELSE Leave(t)
    /\ UNCHANGED <<table, online, phase>>

----------------------------------------------------------------------------
(* Tunnel.Start. *)

Open(t) ==
    /\ pc[t] = "start"
    /\ state' = "opening"
    /\ pc' = [pc EXCEPT ![t] = "lookup"]
    /\ UNCHANGED <<table, online, phase, task, script, iface, gateway, alone>>

LookUpInterfaces(t) ==
    /\ pc[t] = "lookup"
    /\ iface' = [iface EXCEPT ![t] = DefaultInterface]
    /\ IF Whitelist = <<>>
       THEN /\ pc' = [pc EXCEPT ![t] = "gateway"]
            /\ UNCHANGED script
       ELSE /\ pc' = [pc EXCEPT ![t] = "add"]
            /\ script' = [script EXCEPT ![t] = RouteWhitelist \o RouteResolver]
    /\ UNCHANGED <<state, table, online, phase, task, gateway, alone>>

MutantInterfaceMissing(t) ==
    /\ pc[t] = "lookup"
    /\ Leave(t)
    /\ UNCHANGED <<state, table, online, phase>>

(* The interface of the tunnel is not there: Start fails. *)
InterfaceMissing(t) ==
    /\ pc[t] = "lookup"
    /\ state' = "closed"
    /\ Leave(t)
    /\ UNCHANGED <<table, online, phase>>

(* When there is no gateway the state becomes Closed, but Start goes on and *)
(* its commands that name the gateway fail.                                 *)
LookUpGateway(t) ==
    /\ pc[t] = "gateway"
    /\ gateway' = [gateway EXCEPT ![t] = DefaultGateway]
    /\ state' = IF DefaultGateway = "none" THEN "closed" ELSE state
    /\ script' = [script EXCEPT ![t] =
                    RouteAll(Via(DefaultGateway, iface[t])) \o RouteResolver]
    /\ pc' = [pc EXCEPT ![t] = "add"]
    /\ UNCHANGED <<table, online, phase, task, iface, alone>>

MutantAdd(t) ==
    /\ pc[t] = "add"
    /\ script[t] # <<>>
    /\ LET c == Head(script[t]) IN table' = table \cup {<<c.to, c.via>>}
    /\ script' = [script EXCEPT ![t] = Tail(@)]
    /\ UNCHANGED <<state, online, phase, pc, task, iface, gateway, alone>>

Add(t) ==
    /\ pc[t] = "add"
    /\ script[t] # <<>>
    /\ LET c == Head(script[t]) IN
           table' = IF c.via = "none" THEN table ELSE table \cup {<<c.to, c.via>>}
    /\ script' = [script EXCEPT ![t] = Tail(@)]
    /\ UNCHANGED <<state, online, phase, pc, task, iface, gateway, alone>>

Started(t) ==
    /\ pc[t] = "add"
    /\ script[t] = <<>>
    /\ state' = "opened"
    /\ Leave(t)
    /\ UNCHANGED <<table, online, phase>>

----------------------------------------------------------------------------
(* The process. *)

(* Connect reports whether the tunnel is open; if not, the program ends.    *)
Listen ==
    /\ phase = "starting"
    /\ pc["main"] = "idle"
    /\ OnStart => state = "opened"
    /\ phase' = "listening"
    /\ UNCHANGED <<state, table, online, threadVars>>

(* The process ends: after the deferred Stop, when Connect has failed, or   *)
(* by a crash at any moment.  The interface of the tunnel goes with it, and *)
(* the routes through it; the others stay.  Then the client is started anew.*)
End ==
    /\ phase # "connecting"
    /\ phase' = "connecting"
    /\ state' = "closed"
    /\ table' = {r \in table : r[2] = "physical"}
    /\ pc' = [t \in Threads |-> "idle"]
    /\ task' = [t \in Threads |-> "none"]
    /\ script' = [t \in Threads |-> <<>>]
    /\ iface' = [t \in Threads |-> "any"]
    /\ gateway' = [t \in Threads |-> "none"]
    /\ alone' = [t \in Threads |-> FALSE]
    /\ UNCHANGED online

Outage ==
    /\ Outages
    /\ online' = ~online
    /\ UNCHANGED <<state, table, phase, threadVars>>

Next ==
    \/ Connect
    \/ Listen
    \/ Shutdown
    \/ End
    \/ \E h \in Handlers : StartTunnel(h) \/ StopTunnel(h)
    \/ \E t \in Threads :
          \/ Delete(t)
          \/ Stopped(t)
          \/ Open(t)
          \/ LookUpInterfaces(t)
          \/ InterfaceMissing(t)
          \/ LookUpGateway(t)
          \/ Add(t)
          \/ Started(t)
    \/ Outage

Spec == Init /\ [][Next]_vars

----------------------------------------------------------------------------
(* The routes a started tunnel is meant to have. *)
Wanted ==
    {<<Resolver, "tunnel">>}
    \cup (IF Whitelist = <<>>
          THEN {<<Everything, "tunnel">>, <<Server, "physical">>}
               \cup ((Entries(Blacklist) \ Malformed) \X {"physical"})
          ELSE (Entries(Whitelist) \ (Malformed \cup Entries(Blacklist))) \X {"tunnel"})

(* A start that no other request disturbs ends with exactly the configured  *)
(* routes, in whatever mess requests that overlapped, a crash or an outage  *)
(* have left them before.  (The Stop at the beginning of startTunnel is     *)
(* there to "clear broken routes".)                                         *)
StartRepairs ==
    [][\A t \in Threads :
          /\ pc[t] = "add" /\ state' = "opened" /\ pc'[t] = "idle"
          /\ alone[t]
          /\ Whitelist = <<>> => gateway[t] # "none"
          => table' = Wanted]_vars

(* While such a start is under way, the server is excluded before           *)
(* everything is routed into the tunnel: the tunnel's own packets never     *)
(* enter it.                                                                *)
NeverLoopsAlone ==
    \A t \in Threads :
        /\ alone[t] /\ pc[t] = "add" /\ gateway[t] # "none"
        /\ <<Everything, "tunnel">> \in table
        => <<Server, "physical">> \in table

(* A stop that no other request disturbs removes every route, also those    *)
(* that requests that overlapped have left.                                 *)
StopCleans ==
    [][\A t \in Threads :
          pc[t] = "delete" /\ pc'[t] = "idle" /\ phase' # "connecting" /\ alone[t] =>
              table' = {}]_vars

(* When nobody is in Start or Stop the state is one that the launchers can  *)
(* leave again, "opened" or "closed", however requests have overlapped.     *)
StateSettles == Busy = {} => state \in {"opened", "closed"}

(* The comment in Start says "excluding route to remove connection loop"    *)
(* (core/system.go:302): a tunnel that takes everything does not take the   *)
(* packets to its server.                                                   *)
NoConnectionLoop ==
    state = "opened" /\ Busy = {} /\ <<Everything, "tunnel">> \in table =>
        <<Server, "physical">> \in table
============================================================================
