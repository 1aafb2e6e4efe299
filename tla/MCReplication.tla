--------------------------- MODULE MCReplication ----------------------------
(***************************************************************************)
(* Replication for TLC: one source, one mirror.  Mirrors do not influence  *)
(* each other: each has a connection and a thread of the server.           *)
(***************************************************************************)
EXTENDS Replication
=============================================================================
