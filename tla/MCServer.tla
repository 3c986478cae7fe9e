------------------------------ MODULE MCServer ------------------------------
(***************************************************************************)
(* Model checking of Server on a /29 network, whose four leases and early  *)
(* wrap-around let two clients use up the pool, come back and be refused.  *)
(***************************************************************************)
EXTENDS Server, TLC

Symmetry == Permutations(Addrs)

(* Bound: runs are not continued once a peer has been disconnected twice.   *)
NotRepeated == ~repeated
============================================================================
