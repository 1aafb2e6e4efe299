---------------------------- MODULE MCFutexWait -----------------------------
(***************************************************************************)
(* The futex protocol for TLC.  futex_word is bumped at most once per      *)
(* publish, so MaxSeq bounds it.                                           *)
(***************************************************************************)
EXTENDS FutexWait
=============================================================================
