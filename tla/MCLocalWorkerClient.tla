------------------------ MODULE MCLocalWorkerClient ------------------------
(***************************************************************************)
(* Instances of LocalWorkerClient: two shards of one proof that compete    *)
(* for one queue; an execution and a shard of two proofs; and single tasks *)
(* for the two disagreements with the documentation.                       *)
(***************************************************************************)
EXTENDS LocalWorkerClient, TLC

CONSTANTS x, s, u, P, Q

TwinTasks == {s, u}
TwinProofOf == (s :> P) @@ (u :> P)
TwinKindOf == (s :> "prove") @@ (u :> "prove")

MixedTasks == {x, s}
MixedProofOf == (x :> P) @@ (s :> Q)
MixedKindOf == (x :> "execute") @@ (s :> "prove")

ShardTasks == {s}
ShardProofOf == s :> P
ShardKindOf == s :> "prove"

StreamTasks == {x}
StreamProofOf == x :> P
StreamKindOf == x :> "execute"

=============================================================================
