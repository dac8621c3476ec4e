-------------------------- MODULE ProofAggregation --------------------------
(***************************************************************************)
(* What the reduction of shard proofs promises, without its tree: shard    *)
(* proofs are accepted, at most one per range (precompile shards share one *)
(* range and are all accepted); once every range is covered, one proof of  *)
(* exactly the accepted ones is published; only then may the reduction     *)
(* return Ok.  It may fail at any time before that.                        *)
(***************************************************************************)
EXTENDS Naturals

CONSTANTS Tasks, RangeOf, None

VARIABLES accepted, published, outcome

aggVars == <<accepted, published, outcome>>

SharedRange == [start |-> 0, end |-> 0]

AggInit ==
    /\ accepted = {}
    /\ published = None
    /\ outcome = "running"

Accept(t) ==
    /\ outcome = "running"
    /\ published = None
    /\ t \notin accepted
    /\ RangeOf[t] = SharedRange \/ \A u \in accepted : RangeOf[u] # RangeOf[t]
    /\ accepted' = accepted \cup {t}
    /\ UNCHANGED <<published, outcome>>

Covered ==
    \A t \in Tasks : IF RangeOf[t] = SharedRange
                     THEN t \in accepted
                     ELSE \E u \in accepted : RangeOf[u] = RangeOf[t]

Publish ==
    /\ outcome = "running"
    /\ published = None
    /\ Covered
    /\ published' = accepted
    /\ UNCHANGED <<accepted, outcome>>

Return ==
    /\ outcome = "running"
    /\ published # None
    /\ outcome' = "ok"
    /\ UNCHANGED <<accepted, published>>

Fail ==
    /\ outcome = "running"
    /\ outcome' = "failed"
    /\ UNCHANGED <<accepted, published>>

AggNext == (\E t \in Tasks : Accept(t)) \/ Publish \/ Return \/ Fail

AggSpec == AggInit /\ [][AggNext]_aggVars

=============================================================================
