--------------------------- MODULE MCCompressTree ---------------------------
(***************************************************************************)
(* Instances of CompressTree: a program with shards 0..3 of which one is   *)
(* proved twice (a re-delivered CoreExecute), with two precompile shards;  *)
(* a malformed execution whose ranges overlap; and a program of two shards *)
(* that both may end before they are recorded.                             *)
(***************************************************************************)
EXTENDS CompressTree, TLC

CONSTANTS a, b, c, pa, pb, bb

Rng(s, t) == [start |-> s, end |-> t]

SmallTasks == {a, b, c, bb, pa, pb}
SmallRange == (a :> Rng(0, 1)) @@ (b :> Rng(1, 2)) @@ (c :> Rng(2, 3))
              @@ (bb :> Rng(1, 2)) @@ (pa :> Precompile) @@ (pb :> Precompile)

OverlapTasks == {a, b, c, pa}
OverlapRange == (a :> Rng(0, 2)) @@ (b :> Rng(1, 3)) @@ (c :> Rng(3, 4))
                @@ (pa :> Precompile)

RaceTasks == {a, b}
RaceRange == (a :> Rng(0, 1)) @@ (b :> Rng(1, 2))

(* The shards of the well-formed executions are what ReductionProofs'      *)
(* theorems ask for; those of the malformed one are not.                   *)
ASSUME WellFormed ==
    (ShardsApart /\ ShardsAdjoin /\ SeveralShards) <=> RangeOf # OverlapRange

=============================================================================
