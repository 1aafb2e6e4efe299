---------------------------- MODULE MCSpmcRing ------------------------------
(***************************************************************************)
(* The broadcast ring for TLC.  Readers of a lossy ring write nothing that *)
(* another process reads, so one reader against the producer shows every   *)
(* interleaving that matters.                                              *)
(***************************************************************************)
EXTENDS SpmcRing
=============================================================================
