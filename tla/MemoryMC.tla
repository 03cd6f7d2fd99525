------------------------------ MODULE MemoryMC ------------------------------
(* Instances of Memory: what a page holds is only compared, never ordered. *)
EXTENDS Memory, TLC

ValueSymmetry == Permutations(Values)
=============================================================================
