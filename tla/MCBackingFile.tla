--------------------------- MODULE MCBackingFile ----------------------------
(***************************************************************************)
(* The backing file for TLC.                                               *)
(***************************************************************************)
EXTENDS BackingFile, TLC

(* Producers, and inodes, are interchangeable.                             *)
Symmetry == Permutations(Producers) \cup Permutations(Inodes)
=============================================================================
