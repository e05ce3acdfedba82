------------------------------ MODULE MCSimulation ------------------------------
(* Model-checking instances of Simulation. *)
EXTENDS Simulation, TLC

Symmetry == Permutations(Owned) \cup Permutations(Monster \ Owned) \cup Permutations(Egg)
            \cup Permutations(Request)
===============================================================================
