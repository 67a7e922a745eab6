---------------------------- MODULE MCConsole -------------------------------
(* A screen of 2 rows of 4 cells in a memory of 6 rows: the window moves   *)
(* three times before it returns to the start.  Two digits of an argument  *)
(* reach every number, also those that wrap.                               *)
EXTENDS Console
=============================================================================
