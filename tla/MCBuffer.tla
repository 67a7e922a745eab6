------------------------------- MODULE MCBuffer -------------------------------
(***************************************************************************)
(* Buffer for an idle task and three others, which are alike.  The blocks  *)
(* have two versions, which are alike too: Modify takes one for the other, *)
(* and all else compares the versions of one block or copies them.  States *)
(* are the same for TLC when each buffer differs from its block in both or *)
(* in neither; what a buffer holds that was not read is left out, as bread *)
(* reads it before anything else does.                                     *)
(***************************************************************************)
EXTENDS Buffer, TLC

CONSTANTS idle, a, b, c

MCTask == {idle, a, b, c}
Symmetry == Permutations({a, b, c})

Differing == [i \in Buf |-> valid[i] /\ block[i] # Unused /\ data[i] # disk[block[i]]]
View == <<dispatchVars, deviceVars, block, count, dirty, valid, Differing, lockVars,
          free, starved, pc, taskVars, slept>>
=============================================================================
