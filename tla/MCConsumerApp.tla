--------------------------- MODULE MCConsumerApp ----------------------------
(***************************************************************************)
(* Consumer processes for TLC: p multiplexes two channels, q reads the      *)
(* first one alone; both keep their place in its offset file.              *)
(***************************************************************************)
EXTENDS ConsumerApp, TLC

CONSTANTS p, q

MCMaxChannels == p :> 2 @@ q :> 1

MCMaxSeq == 0 :> (0 :> 2 @@ 1 :> 1) @@ 1 :> (0 :> 2 @@ 1 :> 0)

MCDeployments ==
    {p :> "plain" @@ q :> "plain"}
    \cup {p :> k @@ q :> "off" : k \in {"sync", "async", "stream"}}
=============================================================================
