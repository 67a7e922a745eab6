---------------------------- MODULE MCOpenFile ------------------------------
(* Two tasks with a standard descriptor and two others: a pipe fills them, *)
(* and what one task closes another may open.                              *)
EXTENDS OpenFile
=============================================================================
