----------------------------- MODULE MCMpmcRing -----------------------------
(***************************************************************************)
(* The multi-producer ring for TLC.                                        *)
(***************************************************************************)
EXTENDS MpmcRing, TLC

(* Producers, queue consumers and words are interchangeable.               *)
Symmetry ==
    Permutations(Producers) \cup Permutations(Consumers) \cup Permutations(Words)
=============================================================================
