------------------------------ MODULE MCTunnel ------------------------------
(***************************************************************************)
(* Model checking of Tunnel: the lists the client is configured with.      *)
(***************************************************************************)
EXTENDS Tunnel, TLC

NoList == <<>>
Bypassed == <<"b1", "server">>
Selected == <<"w1", "b1", "w2">>
Symmetry == Permutations(Handlers)
============================================================================
