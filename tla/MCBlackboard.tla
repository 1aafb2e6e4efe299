---------------------------- MODULE MCBlackboard ----------------------------
(***************************************************************************)
(* The last-value table for TLC.  Readers write nothing, so one of them    *)
(* meets every interleaving with the writer.                               *)
(***************************************************************************)
EXTENDS Blackboard
=============================================================================
