------------------------------ MODULE Network ------------------------------
(***************************************************************************)
(* The pool of virtual addresses of the server: type Network of            *)
(* core/server.go with NewNetwork, Next and increment.  Addresses are      *)
(* represented by their host part.  Next takes no lock although the UDP    *)
(* pipe and every TCP pipe may call it at the same time, so a call is      *)
(* split at each access to the shared fields Used and Current.             *)
(*                                                                         *)
(* The module is used in two ways: PoolSpec is the pool on its own, driven *)
(* by Callers and by an environment that gives addresses back; Server      *)
(* extends the module and drives the same actions from its goroutines.     *)
(***************************************************************************)
EXTENDS Integers, FiniteSets

CONSTANTS
    Size,     \* 2^(32 - ones): the number of addresses the mask of the CIDR leaves
    First,    \* the host part of the address written in the CIDR
    Callers,  \* the goroutines that may call Next
    None      \* no address

ASSUME SizeAssumption == Size \in Nat \ {0}
ASSUME FirstAssumption == First \in 0 .. Size - 1
ASSUME CallersAssumption == IsFiniteSet(Callers)

VARIABLES
    Used,     \* the keys of Network.Used
    Current,  \* the host part of Network.Current
    stage,    \* where each caller is in Next
    ip,       \* currentIP of each caller, from its lookup to its return
    seen      \* the value of Current each caller has loaded in increment

poolVars == <<Used, Current, stage, ip, seen>>

Host == 0 .. Size - 1
NetworkIP == 0
Lease == Host \ {NetworkIP}

(* ip[3] = 2 is meant to keep the server's own address out of the pool, but *)
(* ParseCIDR returns the 16-byte form, where byte 3 is always zero and is   *)
(* not part of the IPv4 address: the key entered in Used is an address      *)
(* outside every IPv4 network.                                              *)
Alias == Size

ASSUME NoneAssumption == None \notin Host \cup {Alias}

MaxLength == Size - 2

(* Mutants.  A definition whose name starts with Mutant is a wrong variant  *)
(* of the one that follows it.  No specification uses it: it shows that a   *)
(* property fails when the code has that mistake.                           *)
MutantIncrement(n) == n + 1

(* The branch for Current > BroadcastBits is never taken: the mask has      *)
(* already brought the host part back to zero.                              *)
Increment(n) == (n + 1) % Size

MutantFullLate == Cardinality(Used) >= Size

MutantFullEarly == Cardinality(Used) >= MaxLength - 1

Full == Cardinality(Used) >= MaxLength

Stages == {"out", "length", "lookup", "insert", "load", "store", "done", "full"}

PoolTypeOK ==
    /\ Used \subseteq Host \cup {Alias}
    /\ Current \in Host
    /\ stage \in [Callers -> Stages]
    /\ ip \in [Callers -> Host \cup {None}]
    /\ seen \in [Callers -> Host \cup {None}]

NewNetwork ==
    /\ Used = {Alias, NetworkIP}
    /\ Current = First

PoolInit ==
    /\ NewNetwork
    /\ stage = [c \in Callers |-> "out"]
    /\ ip = [c \in Callers |-> None]
    /\ seen = [c \in Callers |-> None]

----------------------------------------------------------------------------
Call(c) ==
    /\ stage[c] = "out"
    /\ stage' = [stage EXCEPT ![c] = "length"]
    /\ UNCHANGED <<Used, Current, ip, seen>>

(* len(network.Used) >= MaxLength: the call fails with "no free IPs left". *)
CheckLength(c) ==
    /\ stage[c] = "length"
    /\ stage' = [stage EXCEPT ![c] = IF Full THEN "full" ELSE "lookup"]
    /\ UNCHANGED <<Used, Current, ip, seen>>

MutantLookUp(c) ==
    /\ stage[c] = "lookup"
    /\ stage' = [stage EXCEPT ![c] = "insert"]
    /\ ip' = [ip EXCEPT ![c] = Current]
    /\ UNCHANGED <<Used, Current, seen>>

LookUp(c) ==
    /\ stage[c] = "lookup"
    /\ IF Current \in Used
       THEN /\ stage' = [stage EXCEPT ![c] = "load"]
            /\ UNCHANGED ip
       ELSE /\ stage' = [stage EXCEPT ![c] = "insert"]
            /\ ip' = [ip EXCEPT ![c] = Current]
    /\ UNCHANGED <<Used, Current, seen>>

Insert(c) ==
    /\ stage[c] = "insert"
    /\ Used' = Used \cup {ip[c]}
    /\ stage' = [stage EXCEPT ![c] = "load"]
    /\ UNCHANGED <<Current, ip, seen>>

(* increment is a read of Current and a later write: another caller may run *)
(* between the two.                                                         *)
LoadCurrent(c) ==
    /\ stage[c] = "load"
    /\ seen' = [seen EXCEPT ![c] = Current]
    /\ stage' = [stage EXCEPT ![c] = "store"]
    /\ UNCHANGED <<Used, Current, ip>>

MutantStoreCurrent(c) ==
    /\ stage[c] = "store"
    /\ Current' = IF ip[c] = None THEN Current ELSE Increment(seen[c])
    /\ seen' = [seen EXCEPT ![c] = None]
    /\ stage' = [stage EXCEPT ![c] = IF ip[c] = None THEN "length" ELSE "done"]
    /\ UNCHANGED <<Used, ip>>

(* After an insertion the call returns; after a skip it sleeps and retries. *)
StoreCurrent(c) ==
    /\ stage[c] = "store"
    /\ Current' = Increment(seen[c])
    /\ seen' = [seen EXCEPT ![c] = None]
    /\ stage' = [stage EXCEPT ![c] = IF ip[c] = None THEN "length" ELSE "done"]
    /\ UNCHANGED <<Used, ip>>

NextStep(c) ==
    \/ CheckLength(c)
    \/ LookUp(c)
    \/ Insert(c)
    \/ LoadCurrent(c)
    \/ StoreCurrent(c)

(* The caller takes the result, an address or the error. *)
Return(c) ==
    /\ stage[c] \in {"done", "full"}
    /\ stage' = [stage EXCEPT ![c] = "out"]
    /\ ip' = [ip EXCEPT ![c] = None]
    /\ UNCHANGED <<Used, Current, seen>>

(* delete(server.Network.Used, v) in DisconnectPeer; v is None for a peer   *)
(* without a virtual address, whose key "<nil>" is never in Used.           *)
Release(v) ==
    /\ Used' = Used \ {v}
    /\ UNCHANGED <<Current, stage, ip, seen>>

PoolNext ==
    \/ \E c \in Callers : Call(c) \/ NextStep(c) \/ Return(c)
    \/ \E v \in Lease \cup {None} : Release(v)

PoolSpec == PoolInit /\ [][PoolNext]_poolVars

----------------------------------------------------------------------------
(* The callers that have passed the length check and may still insert.      *)
Passed == {c \in Callers : stage[c] \in {"lookup", "insert"}}

(* Next compares len(Used) with MaxLength and inserts later, without a      *)
(* lock: calls that overlap can push the pool beyond its limit, but by no   *)
(* more than one entry for each goroutine other than the last to check.     *)
Bounded ==
    \/ Cardinality(Used) <= MaxLength - 1 + Cardinality(Callers)
    \/ Used = {Alias, NetworkIP}

(* What makes Bounded inductive: every call that may still insert has been  *)
(* accounted for, because it saw the pool below its limit.                  *)
Reserve ==
    \/ Passed = {}
    \/ Cardinality(Used) + Cardinality(Passed) <= MaxLength - 1 + Cardinality(Callers)

(* The error "no free IPs left" is not raised early: at the moment of the   *)
(* refusal at most three host addresses of the network are not in use (the  *)
(* limit is two below the size, and the stray entry Alias takes one place   *)
(* that no host holds).                                                     *)
RefusesWhenFull ==
    [][\A c \in Callers :
         stage'[c] = "full" /\ stage[c] # "full" => Cardinality(Lease \ Used) <= 3]_poolVars
============================================================================
