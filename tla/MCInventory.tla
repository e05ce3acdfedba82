------------------------------ MODULE MCInventory ------------------------------
(* Model-checking instances of Inventory. *)
EXTENDS Inventory, TLC

Symmetry == Permutations(Guest) \cup Permutations(Account) \cup Permutations(Monster)
            \cup Permutations(Dna) \cup Permutations(Call)
===============================================================================
