---------------------------- MODULE AddressLease ----------------------------
(***************************************************************************)
(* What the server promises about virtual addresses, without goroutines,   *)
(* locks, maps or packets.  An address is offered to one client at a time, *)
(* becomes its lease, is revoked when the client is gone and is free again *)
(* only after that.  An offer whose answer cannot be sent loses the        *)
(* address for good.  A client holds one lease at most.                    *)
(***************************************************************************)
CONSTANTS
    Addresses,  \* the virtual addresses that can be leased
    Clients,    \* the transport addresses of the clients
    Nobody

VARIABLES
    lease,      \* the state of each virtual address
    holder      \* the client that holds it, or Nobody

leaseVars == <<lease, holder>>

LeaseStates == {"free", "offered", "held", "closing", "lost"}

LeaseTypeOK ==
    /\ lease \in [Addresses -> LeaseStates]
    /\ holder \in [Addresses -> Clients \cup {Nobody}]

LeaseInit ==
    /\ lease = [v \in Addresses |-> "free"]
    /\ holder = [v \in Addresses |-> Nobody]

Move(v, from, to) ==
    /\ lease[v] = from
    /\ lease' = [lease EXCEPT ![v] = to]

Offer(v) == Move(v, "free", "offered") /\ UNCHANGED holder

Lose(v) == Move(v, "offered", "lost") /\ UNCHANGED holder

Grant(v, c) ==
    /\ Move(v, "offered", "held")
    /\ \A w \in Addresses : holder[w] # c
    /\ holder' = [holder EXCEPT ![v] = c]

Revoke(v) ==
    /\ Move(v, "held", "closing")
    /\ holder' = [holder EXCEPT ![v] = Nobody]

GiveBack(v) == Move(v, "closing", "free") /\ UNCHANGED holder

LeaseNext ==
    \E v \in Addresses :
        /\ lease'[v] # lease[v]
        /\ \/ Offer(v)
           \/ Lose(v)
           \/ \E c \in Clients : Grant(v, c)
           \/ Revoke(v)
           \/ GiveBack(v)

LeaseSpec == LeaseInit /\ [][LeaseNext]_leaseVars
============================================================================
