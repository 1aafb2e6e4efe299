-------------------------- MODULE MCLosslessRing ----------------------------
(***************************************************************************)
(* The lossless ring for TLC.                                              *)
(***************************************************************************)
EXTENDS LosslessRing, TLC

(* Readers are interchangeable.                                            *)
Symmetry == Permutations(Readers)
=============================================================================
