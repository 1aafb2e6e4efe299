----------------------------- MODULE MCBlobRing -----------------------------
(***************************************************************************)
(* The blob ring for TLC.  One consumer meets every interleaving with the  *)
(* producer: consumers write nothing.                                      *)
(***************************************************************************)
EXTENDS BlobRing
=============================================================================
