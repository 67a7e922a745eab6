-------------------------------- MODULE MCLock --------------------------------
(* Lock for an idle task and four others, any of which may be woken by a  *)
(* stale timer.                                                            *)
EXTENDS Lock, TLC

CONSTANTS idle, a, b, c, d

MCTask == {idle, a, b, c, d}
MCStale == {a, b, c, d}
Symmetry == Permutations({a, b, c, d})
=============================================================================
