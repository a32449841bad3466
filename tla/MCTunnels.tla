----------------------------- MODULE MCTunnels -----------------------------
(* Tunnels on small instances: every instance listens on the first port,   *)
(* and the requests and the instances are interchangeable.                 *)
EXTENDS Tunnels, TLC

MCGamePort == [i \in Insts |-> 1]
Symmetry == Permutations(Requests) \cup Permutations(Insts)
=============================================================================
