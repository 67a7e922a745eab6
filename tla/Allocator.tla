----------------------------- MODULE Allocator ------------------------------
(***************************************************************************)
(* What the callers of kmalloc and alloc_kpage rely on: an address space   *)
(* from which pieces are given out and taken back.  A piece has the size   *)
(* that was asked for, and no part of it belongs to anyone else.  Which    *)
(* free place a piece is cut from is left open.                            *)
(***************************************************************************)
EXTENDS Integers

CONSTANTS Addr,   (* the addresses                                          *)
          Amount  (* the sizes that are asked for, none of them 0           *)

VARIABLE owned    (* the pieces that have been given out                    *)

Piece(a, n) == a .. a + n - 1

Init == owned = {}

Allocate(n) == \E a \in Addr :
    /\ Piece(a, n) \subseteq Addr
    /\ \A piece \in owned : piece \cap Piece(a, n) = {}
    /\ owned' = owned \cup {Piece(a, n)}

Release(piece) == owned' = owned \ {piece}

Next == (\E n \in Amount : Allocate(n)) \/ (\E piece \in owned : Release(piece))

Spec == Init /\ [][Next]_owned

(* Two pieces never overlap.                                               *)
Disjoint == \A p, q \in owned : p # q => p \cap q = {}
=============================================================================
