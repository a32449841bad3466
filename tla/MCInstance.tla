----------------------------- MODULE MCInstance -----------------------------
(* Instance on small instances: the calls are interchangeable.             *)
EXTENDS Instance, TLC

Symmetry == Permutations(Clients)
=============================================================================
