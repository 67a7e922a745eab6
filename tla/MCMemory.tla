------------------------------ MODULE MCMemory ------------------------------
(***************************************************************************)
(* Processes are interchangeable, for no function of memory.c compares     *)
(* them, and so is what pages hold.                                        *)
(***************************************************************************)
EXTENDS Memory, TLC

Symmetry == Permutations(Proc) \cup Permutations(Value)
=============================================================================
