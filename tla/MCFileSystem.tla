---------------------------- MODULE MCFileSystem ----------------------------
(* FileSystem for TLC: tasks and names are interchangeable. *)
EXTENDS FileSystem, TLC

Symmetry == Permutations(Task) \cup Permutations(Name)
=============================================================================
