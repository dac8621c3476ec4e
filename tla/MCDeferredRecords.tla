------------------------- MODULE MCDeferredRecords -------------------------
(* Instances of DeferredRecords: two core shards whose five events make a  *)
(* full shard and a last one, an artifact of s2 being cut in two when s1   *)
(* comes first; and one core shard with one event.                         *)
EXTENDS DeferredRecords, TLC

CONSTANTS s1, s2

TwoShards == (s1 :> 1) @@ (s2 :> 4)
OneShard == s1 :> 1

=============================================================================
