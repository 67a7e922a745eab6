------------------------------ MODULE MCArena -------------------------------
(***************************************************************************)
(* Four kernel pages of eight units.  Blocks have two or four units, so a  *)
(* page holds three or one; the sizes are a whole block, part of one, all  *)
(* of a page but its header, and one unit more.                            *)
(***************************************************************************)
EXTENDS Arena

MCSize == {2, 3, 6, 7}
MCCount == {1, 2}
=============================================================================
