------------------------------- MODULE MCStream -------------------------------
(* Stream for an idle task and three others. *)
EXTENDS Stream, TLC

CONSTANTS idle, a, b, c

MCTask == {idle, a, b, c}
Symmetry == Permutations({a, b, c})
=============================================================================
