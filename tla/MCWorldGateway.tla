---------------------------- MODULE MCWorldGateway ----------------------------
(* Model-checking instances of WorldGateway. *)
EXTENDS WorldGateway, TLC

Symmetry == Permutations(Socket) \cup Permutations(Monster)
===============================================================================
