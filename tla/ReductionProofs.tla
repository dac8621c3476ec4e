-------------------------- MODULE ReductionProofs --------------------------
(***************************************************************************)
(* The safety of the reduction (CompressTree), and that it implements      *)
(* ProofAggregation: for every number of tasks, every batch size and every *)
(* order in which proofs arrive, fail and are reduced.                     *)
(*                                                                         *)
(* The theorems are about the shards that executions produce, so they say  *)
(* what they need of these: that ranges are equal or do not overlap        *)
(* (ShardsApart), that each begins at the initial boundary or where        *)
(* another ends (ShardsAdjoin), that there are at least two shards         *)
(* (SeveralShards).                                                        *)
(*                                                                         *)
(* The proofs at hand are of three kinds: those in line (queued or held    *)
(* back), the entries of the tree, each a run of proofs, and the ones that *)
(* are being reduced.  The invariant says that each fills its range with   *)
(* the shards it attests (Fine), that no two of them have a shard or a     *)
(* part of their ranges in common (Separate), and that together they       *)
(* attest what the intake took on and the loop has counted (TakenInv,      *)
(* MaxInv).                                                                *)
(***************************************************************************)
EXTENDS CompressTreeProofs, WellFoundedInduction

-----------------------------------------------------------------------------
(* Ranges and chains.                                                      *)

(* A range that a shard can have, or a proof of some.                      *)
Proper(r) == r = Precompile \/ r.start < r.end

(* Two ranges with something between them.                                 *)
Distant(r, s) == r.end < s.start \/ s.end < r.start

(* A nonempty set of natural numbers has a least element.                  *)
LEMMA Least ==
    ASSUME NEW S, S \subseteq Nat, S # {}
    PROVE  \E m \in S : \A x \in S : m <= x
<1>1. PICK m \in S : \A y \in S : ~(<<y, m>> \in OpToRel(<, Nat))
  BY NatLessThanWellFounded, WFMin
<1>2. ASSUME NEW y \in S PROVE m <= y
  <2> SUFFICES ASSUME y < m PROVE FALSE
    OBVIOUS
  <2>1. <<y, m>> \in Nat \X Nat
    OBVIOUS
  <2>2. <<y, m>> \in OpToRel(<, Nat)
    BY <2>1 DEF OpToRel
  <2> QED BY <1>1, <2>2
<1> QED BY <1>2

(* The places of a chain, without their proofs.                            *)
LEMMA ChainFacts ==
    ASSUME NEW q \in Seq(Proofs), Chained(q), Len(q) > 0,
           \A i \in 1..Len(q) : q[i].range.start <= q[i].range.end
    PROVE  /\ Len(q) \in Nat
           /\ \A i \in 1..Len(q) : /\ q[i] \in Proofs
                                   /\ q[i].range.start \in Nat /\ q[i].range.end \in Nat
                                   /\ q[i].leaves \subseteq Tasks
           /\ \A i \in 1..Len(q) : i > 1 => /\ i - 1 \in 1..Len(q)
                                            /\ q[i - 1].range.end = q[i].range.start
<1>1. Len(q) \in Nat /\ \A i \in 1..Len(q) : q[i] \in Proofs
  OBVIOUS
<1>2. \A i \in 1..Len(q) : q[i].range.start \in Nat /\ q[i].range.end \in Nat
                           /\ q[i].leaves \subseteq Tasks
  BY <1>1 DEF Proofs, Ranges
<1>3. ASSUME NEW i \in 1..Len(q), i > 1
      PROVE  i - 1 \in 1..Len(q) /\ q[i - 1].range.end = q[i].range.start
  <2>1. i - 1 \in 1..(Len(q) - 1) /\ (i - 1) + 1 = i
    BY <1>1, <1>3
  <2> QED BY <1>1, <2>1 DEF Chained
<1> QED BY <1>1, <1>2, <1>3

(* The proofs of a chain lie within its ends.                              *)
LEMMA ChainOrdered ==
    ASSUME NEW q \in Seq(Proofs), Chained(q), Len(q) > 0,
           \A i \in 1..Len(q) : q[i].range.start <= q[i].range.end
    PROVE  \A i \in 1..Len(q) : /\ q[1].range.start <= q[i].range.start
                                /\ q[i].range.end <= q[Len(q)].range.end
<1> DEFINE n == Len(q)
<1>0. /\ n \in Nat /\ n > 0
      /\ \A i \in 1..n : q[i].range.start \in Nat /\ q[i].range.end \in Nat
      /\ \A i \in 1..n : i > 1 => i - 1 \in 1..n /\ q[i - 1].range.end = q[i].range.start
      /\ \A i \in 1..n : q[i].range.start <= q[i].range.end
  BY ChainFacts
<1> HIDE DEF n
<1>1. ASSUME NEW i \in 1..n, q[i].range.start < q[1].range.start PROVE FALSE
  <2> DEFINE S == {k \in 1..n : q[k].range.start < q[1].range.start}
  <2>1. S \subseteq Nat /\ i \in S
    BY <1>1
  <2>2. PICK m \in S : \A x \in S : m <= x
    BY <2>1, Least
  <2>3. m \in 1..n /\ m > 1
    BY <1>0, <2>2
  <2>4. m - 1 \in 1..n /\ q[m - 1].range.end = q[m].range.start
    BY <1>0, <2>3
  <2>5. ~(m <= m - 1)
    BY <2>3
  <2>6. ~(q[m - 1].range.start < q[1].range.start)
    BY <2>2, <2>4, <2>5
  <2>7. q[m].range.start < q[1].range.start /\ 1 \in 1..n
    BY <1>0, <2>2
  <2> QED BY <1>0, <2>3, <2>4, <2>6, <2>7
<1>2. ASSUME NEW i \in 1..n, q[n].range.end < q[i].range.end PROVE FALSE
  <2> DEFINE S == {k \in 1..n : k >= i /\ q[k].range.end < q[i].range.end}
  <2>1. S \subseteq Nat /\ n \in S
    BY <1>0, <1>2
  <2>2. PICK m \in S : \A x \in S : m <= x
    BY <2>1, Least
  <2>3. m \in 1..n /\ m >= i /\ q[m].range.end < q[i].range.end
    BY <2>2
  <2>4. m # i
    BY <1>0, <2>3
  <2>5. m > 1 /\ m - 1 >= i
    BY <2>3, <2>4
  <2>6. m - 1 \in 1..n /\ q[m - 1].range.end = q[m].range.start
    BY <1>0, <2>3, <2>5
  <2>7. ~(m <= m - 1)
    BY <2>3
  <2>8. ~(q[m - 1].range.end < q[i].range.end)
    BY <2>2, <2>5, <2>6, <2>7
  <2> QED BY <1>0, <2>3, <2>6, <2>8
<1>3. 1 \in 1..n /\ n \in 1..n
  BY <1>0
<1>4. ASSUME NEW i \in 1..n
      PROVE  q[1].range.start <= q[i].range.start /\ q[i].range.end <= q[n].range.end
  BY <1>0, <1>1, <1>2, <1>3
<1> QED BY <1>4 DEF n

(* What is apart from every proof of a chain is apart from its range.      *)
LEMMA ChainApart ==
    ASSUME NEW q \in Seq(Proofs), Chained(q), Len(q) > 0,
           \A i \in 1..Len(q) : q[i].range.start <= q[i].range.end,
           NEW r \in Ranges, Proper(r), \A i \in 1..Len(q) : Apart(r, q[i].range)
    PROVE  Apart(r, Spanning(q).range)
<1> DEFINE n == Len(q)
<1>0. /\ n \in Nat /\ n > 0
      /\ \A i \in 1..n : q[i].range.start \in Nat /\ q[i].range.end \in Nat
      /\ \A i \in 1..n : i > 1 => i - 1 \in 1..n /\ q[i - 1].range.end = q[i].range.start
      /\ \A i \in 1..n : r.end <= q[i].range.start \/ q[i].range.end <= r.start
  BY ChainFacts DEF Apart
<1>1. r.start \in Nat /\ r.end \in Nat
  BY DEF Ranges
<1>2. Spanning(q).range.start = q[1].range.start /\ Spanning(q).range.end = q[n].range.end
  BY DEF Spanning
<1> HIDE DEF n
<1>3. 1 \in 1..n /\ n \in 1..n
  BY <1>0
<1>4. CASE r = Precompile
  BY <1>0, <1>1, <1>2, <1>3, <1>4 DEF Apart, Precompile
<1>5. CASE r.start < r.end
  <2> SUFFICES ASSUME ~(q[n].range.end <= r.start) PROVE r.end <= q[1].range.start
    BY <1>2 DEF Apart
  <2> DEFINE S == {k \in 1..n : ~(q[k].range.end <= r.start)}
  <2>1. S \subseteq Nat /\ n \in S
    BY <1>3
  <2>2. PICK m \in S : \A x \in S : m <= x
    BY <2>1, Least
  <2>3. m \in 1..n /\ ~(q[m].range.end <= r.start) /\ r.end <= q[m].range.start
    BY <1>0, <2>2
  <2>4. ASSUME m > 1 PROVE FALSE
    <3>1. m - 1 \in 1..n /\ q[m - 1].range.end = q[m].range.start
      BY <1>0, <2>3, <2>4
    <3>2. ~(m <= m - 1)
      BY <2>3
    <3>3. q[m - 1].range.end <= r.start
      BY <2>2, <3>1, <3>2
    <3> QED BY <1>0, <1>1, <1>5, <2>3, <3>1, <3>3
  <2>5. m = 1
    BY <2>3, <2>4
  <2> QED BY <2>3, <2>5
<1> QED BY <1>4, <1>5 DEF Proper

(* What is distant from every proof of a chain is distant from its range.  *)
LEMMA ChainDistant ==
    ASSUME NEW q \in Seq(Proofs), Chained(q), Len(q) > 0,
           \A i \in 1..Len(q) : q[i].range.start <= q[i].range.end,
           NEW r \in Ranges, r.start <= r.end, \A i \in 1..Len(q) : Distant(r, q[i].range)
    PROVE  Distant(r, Spanning(q).range)
<1> DEFINE n == Len(q)
<1>0. /\ n \in Nat /\ n > 0
      /\ \A i \in 1..n : q[i].range.start \in Nat /\ q[i].range.end \in Nat
      /\ \A i \in 1..n : i > 1 => i - 1 \in 1..n /\ q[i - 1].range.end = q[i].range.start
      /\ \A i \in 1..n : r.end < q[i].range.start \/ q[i].range.end < r.start
  BY ChainFacts DEF Distant
<1>1. r.start \in Nat /\ r.end \in Nat
  BY DEF Ranges
<1>2. Spanning(q).range.start = q[1].range.start /\ Spanning(q).range.end = q[n].range.end
  BY DEF Spanning
<1> HIDE DEF n
<1>3. 1 \in 1..n /\ n \in 1..n
  BY <1>0
<1> SUFFICES ASSUME ~(q[n].range.end < r.start) PROVE r.end < q[1].range.start
  BY <1>2 DEF Distant
<1> DEFINE S == {k \in 1..n : ~(q[k].range.end < r.start)}
<1>4. S \subseteq Nat /\ n \in S
  BY <1>3
<1>5. PICK m \in S : \A x \in S : m <= x
  BY <1>4, Least
<1>6. m \in 1..n /\ ~(q[m].range.end < r.start) /\ r.end < q[m].range.start
  BY <1>0, <1>5
<1>7. ASSUME m > 1 PROVE FALSE
  <2>1. m - 1 \in 1..n /\ q[m - 1].range.end = q[m].range.start
    BY <1>0, <1>6, <1>7
  <2>2. ~(m <= m - 1)
    BY <1>6
  <2>3. q[m - 1].range.end < r.start
    BY <1>5, <2>1, <2>2
  <2> QED BY <1>0, <1>1, <1>6, <2>1, <2>3
<1>8. m = 1
  BY <1>6, <1>7
<1> QED BY <1>6, <1>8
-----------------------------------------------------------------------------
(* Proofs and the shards they attest.                                      *)

(* A proof attests shards that fill its range: they lie in it and reach    *)
(* its ends, and every other shard is outside.                             *)
Fine(p) ==
    /\ p.leaves # {}
    /\ p.range.start <= p.range.end
    /\ \A l \in p.leaves : p.range.start <= RangeOf[l].start /\ RangeOf[l].end <= p.range.end
    /\ \E l \in p.leaves : RangeOf[l].start = p.range.start
    /\ \E l \in p.leaves : RangeOf[l].end = p.range.end
    /\ \A u \in Tasks : (\E l \in p.leaves : RangeOf[l] = RangeOf[u]) \/ Apart(RangeOf[u], p.range)

(* Two proofs have nothing in common.                                      *)
Separate(p, q) == p.leaves \cap q.leaves = {} /\ Apart(p.range, q.range)

(* A run of such proofs, each with shards of its own.                      *)
Sound(q) ==
    /\ \A i \in 1..Len(q) : Fine(q[i])
    /\ \A i, j \in 1..Len(q) : i # j => q[i].leaves \cap q[j].leaves = {}

(* That is symmetric.                                                      *)
LEMMA SeparateSym ==
    ASSUME NEW p, NEW q
    PROVE  Separate(p, q) <=> Separate(q, p)
  BY DEF Separate, Apart

(* The range of a shard.                                                   *)
LEMMA ShardRange ==
    ASSUME NEW t \in Tasks
    PROVE  /\ RangeOf[t] \in Ranges
           /\ RangeOf[t].start \in Nat /\ RangeOf[t].end \in Nat
           /\ ShardsApart => Proper(RangeOf[t]) /\ RangeOf[t].start <= RangeOf[t].end
<1>1. RangeOf[t] \in Ranges
  BY RangeAssumption
<1>2. RangeOf[t].start \in Nat /\ RangeOf[t].end \in Nat
  BY <1>1 DEF Ranges
<1>3. ShardsApart => Proper(RangeOf[t])
  BY DEF ShardsApart, Proper
<1>4. Proper(RangeOf[t]) => RangeOf[t].start <= RangeOf[t].end
  BY <1>2 DEF Proper, Precompile
<1> QED BY <1>1, <1>2, <1>3, <1>4

(* The parts of a proof.                                                   *)
LEMMA ProofFacts ==
    ASSUME NEW p \in Proofs
    PROVE  /\ p.range \in Ranges /\ p.range.start \in Nat /\ p.range.end \in Nat
           /\ p.leaves \subseteq Tasks
           /\ p.range = [start |-> p.range.start, end |-> p.range.end]
  BY DEF Proofs, Ranges

(* The range of a proof is one a shard could have.                         *)
LEMMA FineProper ==
    ASSUME ShardsApart, NEW p \in Proofs, Fine(p)
    PROVE  Proper(p.range)
<1>1. /\ p.range.start \in Nat /\ p.range.end \in Nat /\ p.leaves \subseteq Tasks
      /\ p.range = [start |-> p.range.start, end |-> p.range.end]
  BY ProofFacts
<1>2. PICK l \in p.leaves : RangeOf[l].start = p.range.start
  BY DEF Fine
<1>3. RangeOf[l].end <= p.range.end /\ p.range.start <= p.range.end
  BY <1>2 DEF Fine
<1>4. l \in Tasks
  BY <1>1
<1>5. RangeOf[l].start \in Nat /\ RangeOf[l].end \in Nat /\ Proper(RangeOf[l])
  BY <1>4, ShardRange
<1>6. CASE RangeOf[l].start < RangeOf[l].end
  BY <1>1, <1>2, <1>3, <1>5, <1>6 DEF Proper
<1>7. CASE RangeOf[l] = Precompile
  <2>1. p.range.start = 0
    BY <1>2, <1>7 DEF Precompile
  <2>2. p.range.end = 0 \/ p.range.start < p.range.end
    BY <1>1, <2>1
  <2> QED BY <1>1, <2>1, <2>2 DEF Proper, Precompile
<1> QED BY <1>5, <1>6, <1>7 DEF Proper

(* The proof of a shard is fine.                                           *)
LEMMA ShardFine ==
    ASSUME ShardsApart, NEW t \in Tasks
    PROVE  ToProof(t) \in Proofs /\ Fine(ToProof(t))
<1>1. ToProof(t).leaves = {t} /\ ToProof(t).range = RangeOf[t]
  BY DEF ToProof
<1>2. RangeOf[t].start \in Nat /\ RangeOf[t].end \in Nat /\ RangeOf[t].start <= RangeOf[t].end
  BY ShardRange
<1>3. \A u \in Tasks : RangeOf[t] = RangeOf[u] \/ Apart(RangeOf[u], RangeOf[t])
  BY DEF ShardsApart
<1>4. Fine(ToProof(t))
  BY <1>1, <1>2, <1>3 DEF Fine
<1> QED BY <1>4, ToProofType

(* What a run attests, as one proof.                                       *)
LEMMA RunProof ==
    ASSUME NEW q \in Seq(Proofs), Len(q) > 0
    PROVE  /\ Spanning(q) \in RangeProofs /\ Spanning(q).proofs = q
           /\ Reduced(Spanning(q)) \in Proofs
           /\ Reduced(Spanning(q)).range = Spanning(q).range
           /\ Spanning(q).range.start = q[1].range.start
           /\ Spanning(q).range.end = q[Len(q)].range.end
           /\ \A l : l \in Reduced(Spanning(q)).leaves <=> \E i \in 1..Len(q) : l \in q[i].leaves
<1>1. Spanning(q) \in RangeProofs
  BY NotEmpty, SpanningType
<1>2. Spanning(q).proofs = q /\ Spanning(q).range.start = q[1].range.start
      /\ Spanning(q).range.end = q[Len(q)].range.end
  BY DEF Spanning
<1>3. Reduced(Spanning(q)) \in Proofs
  BY <1>1, ReducedType
<1>4. /\ Reduced(Spanning(q)).range = Spanning(q).range
      /\ Reduced(Spanning(q)).leaves = UNION {q[i].leaves : i \in 1..Len(q)}
  BY <1>2 DEF Reduced
<1> QED BY <1>1, <1>2, <1>3, <1>4

(* Reducing a run of fine proofs gives a fine one.                         *)
LEMMA RunFine ==
    ASSUME ShardsApart, NEW q \in Seq(Proofs), Chained(q), Len(q) > 0,
           \A i \in 1..Len(q) : Fine(q[i])
    PROVE  Fine(Reduced(Spanning(q)))
<1> DEFINE x == Reduced(Spanning(q))
           n == Len(q)
<1>1. /\ x.range = Spanning(q).range
      /\ x.range.start = q[1].range.start /\ x.range.end = q[n].range.end
      /\ \A l : l \in x.leaves <=> \E i \in 1..n : l \in q[i].leaves
  BY RunProof
<1>2. \A i \in 1..n : q[i].range.start <= q[i].range.end
  BY DEF Fine
<1>3. /\ n \in Nat /\ 1 \in 1..n /\ n \in 1..n
      /\ \A i \in 1..n : /\ q[i] \in Proofs /\ q[i].leaves \subseteq Tasks
                         /\ q[i].range.start \in Nat /\ q[i].range.end \in Nat
  BY <1>2, ChainFacts
<1>4. \A i \in 1..n : /\ q[1].range.start <= q[i].range.start
                      /\ q[i].range.end <= q[n].range.end
  BY <1>2, ChainOrdered
<1> HIDE DEF x, n
<1>5. x.leaves # {} /\ \E l \in x.leaves : RangeOf[l].start = x.range.start
  <2>1. PICK l \in q[1].leaves : RangeOf[l].start = q[1].range.start
    BY <1>3 DEF Fine, n
  <2> QED BY <1>1, <1>3, <2>1
<1>6. \E l \in x.leaves : RangeOf[l].end = x.range.end
  <2>1. PICK l \in q[n].leaves : RangeOf[l].end = q[n].range.end
    BY <1>3 DEF Fine, n
  <2> QED BY <1>1, <1>3, <2>1
<1>7. x.range.start <= x.range.end
  <2>1. q[1].range.start <= q[n].range.start /\ q[n].range.start <= q[n].range.end
    BY <1>2, <1>3, <1>4 DEF n
  <2> QED BY <1>1, <1>3, <2>1
<1>8. ASSUME NEW l \in x.leaves
      PROVE  x.range.start <= RangeOf[l].start /\ RangeOf[l].end <= x.range.end
  <2>1. PICK i \in 1..n : l \in q[i].leaves
    BY <1>1
  <2>2. q[i].range.start <= RangeOf[l].start /\ RangeOf[l].end <= q[i].range.end
    BY <2>1 DEF Fine, n
  <2>3. RangeOf[l].start \in Nat /\ RangeOf[l].end \in Nat
    BY <1>3, <2>1, ShardRange
  <2>4. /\ q[i].range.start \in Nat /\ q[i].range.end \in Nat
        /\ q[1].range.start \in Nat /\ q[n].range.end \in Nat
        /\ q[1].range.start <= q[i].range.start /\ q[i].range.end <= q[n].range.end
    BY <1>3, <1>4
  <2>5. x.range.start = q[1].range.start /\ x.range.end = q[n].range.end
    BY <1>1
  <2>6. q[1].range.start <= RangeOf[l].start
    BY <2>2, <2>3, <2>4
  <2>7. RangeOf[l].end <= q[n].range.end
    BY <2>2, <2>3, <2>4
  <2> QED BY <2>5, <2>6, <2>7
<1>9. ASSUME NEW u \in Tasks, \A l \in x.leaves : RangeOf[l] # RangeOf[u]
      PROVE  Apart(RangeOf[u], x.range)
  <2>1. ASSUME NEW i \in 1..Len(q) PROVE Apart(RangeOf[u], q[i].range)
    <3>1. \A l \in q[i].leaves : l \in x.leaves
      BY <1>1, <2>1 DEF n
    <3> QED BY <1>9, <3>1 DEF Fine
  <2>2. RangeOf[u] \in Ranges /\ Proper(RangeOf[u])
    BY ShardRange
  <2>3. Apart(RangeOf[u], Spanning(q).range)
    BY <1>2, <2>1, <2>2, ChainApart DEF n
  <2> QED BY <1>1, <2>3
<1>10. Fine(x)
  BY <1>5, <1>6, <1>7, <1>8, <1>9 DEF Fine
<1> QED BY <1>10 DEF x

(* What has nothing in common with a run has nothing in common with any    *)
(* proof of it, and the other way round.                                   *)
LEMMA SeparateParts ==
    ASSUME NEW q \in Seq(Proofs), Chained(q), Len(q) > 0, Sound(q),
           NEW x \in Proofs, Separate(x, Reduced(Spanning(q)))
    PROVE  \A i \in 1..Len(q) : Separate(x, q[i])
<1> SUFFICES ASSUME NEW i \in 1..Len(q) PROVE Separate(x, q[i])
  OBVIOUS
<1> DEFINE y == Reduced(Spanning(q))
<1>1. /\ y.range.start = q[1].range.start /\ y.range.end = q[Len(q)].range.end
      /\ \A l : l \in q[i].leaves => l \in y.leaves
  BY RunProof
<1>2. \A k \in 1..Len(q) : q[k].range.start <= q[k].range.end
  BY DEF Sound, Fine
<1>3. /\ q[1].range.start <= q[i].range.start
      /\ q[i].range.end <= q[Len(q)].range.end
  BY <1>2, ChainOrdered
<1>4. /\ 1 \in 1..Len(q) /\ Len(q) \in 1..Len(q)
      /\ \A k \in 1..Len(q) : q[k].range.start \in Nat /\ q[k].range.end \in Nat
  BY <1>2, ChainFacts
<1>5. x.range.start \in Nat /\ x.range.end \in Nat
  BY ProofFacts
<1>6. x.leaves \cap y.leaves = {} /\ (x.range.end <= y.range.start \/ y.range.end <= x.range.start)
  BY DEF Separate, Apart
<1> HIDE DEF y
<1>7. x.leaves \cap q[i].leaves = {}
  BY <1>1, <1>6
<1>8. x.range.end <= q[i].range.start \/ q[i].range.end <= x.range.start
  BY <1>1, <1>3, <1>4, <1>5, <1>6
<1> QED BY <1>7, <1>8 DEF Separate, Apart

(* What is separate from every proof of a run is separate from the run.    *)
LEMMA SeparateRun ==
    ASSUME ShardsApart, NEW q \in Seq(Proofs), Chained(q), Len(q) > 0, Sound(q),
           NEW x \in Proofs, Fine(x), \A i \in 1..Len(q) : Separate(x, q[i])
    PROVE  Separate(x, Reduced(Spanning(q)))
<1>1. /\ Reduced(Spanning(q)).range = Spanning(q).range
      /\ \A l : l \in Reduced(Spanning(q)).leaves <=> \E i \in 1..Len(q) : l \in q[i].leaves
  BY RunProof
<1>2. \A k \in 1..Len(q) : q[k].range.start <= q[k].range.end
  BY DEF Sound, Fine
<1>3. x.range \in Ranges /\ Proper(x.range)
  BY ProofFacts, FineProper
<1>4. \A i \in 1..Len(q) : Apart(x.range, q[i].range) /\ x.leaves \cap q[i].leaves = {}
  BY DEF Separate
<1>5. Apart(x.range, Spanning(q).range)
  BY <1>2, <1>3, <1>4, ChainApart
<1>6. x.leaves \cap Reduced(Spanning(q)).leaves = {}
  BY <1>1, <1>4
<1> QED BY <1>1, <1>5, <1>6 DEF Separate
-----------------------------------------------------------------------------
(* The proofs at hand: those in line for the tree, the last core proof at  *)
(* the end of the line; the entries of the tree, each as one proof; and    *)
(* those being reduced.  Any two of them have nothing in common.           *)

Line == Send(proofQueue, lastCoreProof)

TreeSound == \A e \in map : Sound(e.proofs)
LineFine == \A i \in 1..Len(Line) : Fine(Line[i])
ReducingFine == \A r \in reducing : Fine(r.proof)

LineApart == \A i, j \in 1..Len(Line) : i # j => Separate(Line[i], Line[j])
LineTree == \A i \in 1..Len(Line), e \in map : Separate(Line[i], Reduced(e))
LineReducing == \A i \in 1..Len(Line), r \in reducing : Separate(Line[i], r.proof)
TreeApart == \A e, f \in map : e # f => Separate(Reduced(e), Reduced(f))
TreeReducing == \A e \in map, r \in reducing : Separate(Reduced(e), r.proof)
ReducingApart == \A r, s \in reducing : r # s => Separate(r.proof, s.proof)

Shape == TreeSound /\ LineFine /\ ReducingFine /\ EntriesApart
Pairs == LineApart /\ LineTree /\ LineReducing /\ TreeApart /\ TreeReducing /\ ReducingApart

(* An entry of the tree.                                                   *)
LEMMA EntryFacts ==
    ASSUME ShardsApart, TypeOK, EntriesAreRuns, TreeSound, NEW e \in map
    PROVE  /\ e.proofs \in Seq(Proofs) /\ Len(e.proofs) \in 1..(BatchSize - 1) /\ Len(e.proofs) > 0
           /\ Chained(e.proofs) /\ e = Spanning(e.proofs) /\ Sound(e.proofs)
           /\ Reduced(e) \in Proofs /\ Fine(Reduced(e)) /\ Reduced(e).range = e.range
           /\ e.range \in Ranges /\ e.range.start \in Nat /\ e.range.end \in Nat
           /\ e.range.start <= e.range.end
           /\ \A l : l \in Reduced(e).leaves <=> \E i \in 1..Len(e.proofs) : l \in e.proofs[i].leaves
<1> DEFINE q == e.proofs
<1>1. e \in RangeProofs /\ RunOfProofs(e) /\ Sound(q)
  BY DEF TypeOK, EntriesAreRuns, TreeSound
<1>2. q \in Seq(Proofs) /\ Len(q) \in 1..(BatchSize - 1) /\ Chained(q) /\ e = Spanning(q)
  BY <1>1 DEF RangeProofs, RunOfProofs, Chained
<1>3. Len(q) > 0
  BY <1>2, BatchSizeAssumption
<1> HIDE DEF q
<1>4. \A i \in 1..Len(q) : Fine(q[i])
  BY <1>1 DEF Sound
<1>5. Fine(Reduced(e))
  BY <1>2, <1>3, <1>4, RunFine
<1>6. /\ Reduced(e) \in Proofs /\ Reduced(e).range = e.range
      /\ \A l : l \in Reduced(e).leaves <=> \E i \in 1..Len(q) : l \in q[i].leaves
  BY <1>2, <1>3, RunProof
<1>7. e.range \in Ranges /\ e.range.start \in Nat /\ e.range.end \in Nat
  BY <1>6, ProofFacts
<1>8. e.range.start <= e.range.end
  BY <1>5, <1>6 DEF Fine
<1> QED BY <1>1, <1>2, <1>3, <1>5, <1>6, <1>7, <1>8 DEF q

(* sibling(): an entry that ends where the proof starts is its left        *)
(* sibling, there is at most one on each side, and every other entry that  *)
(* does not overlap with the proof is distant from it.                     *)
LEMMA SiblingFacts ==
    ASSUME ShardsApart, TypeOK, EntriesAreRuns, TreeSound, EntriesApart, NEW p \in Proofs
    PROVE  /\ \A e, f \in LeftSibling(p) : e = f
           /\ \A e, f \in RightSibling(p) : e = f
           /\ \A e \in map \ Siblings(p) : Apart(p.range, e.range) => Distant(e.range, p.range)
<1>0. p.range.start \in Nat /\ p.range.end \in Nat
  BY ProofFacts
<1>1. \A e \in map : /\ e.range.start \in Nat /\ e.range.end \in Nat
                     /\ e.range.start <= e.range.end
  BY EntryFacts
<1>2. \A e, f \in map : e = f \/ e.range.end < f.range.start \/ f.range.end < e.range.start
  BY DEF EntriesApart
<1>3. ASSUME NEW e \in map, e.range.end = p.range.start PROVE e \in LeftSibling(p)
  <2>1. e.range.start <= p.range.start
    BY <1>1, <1>3
  <2>2. ASSUME NEW f \in map, f.range.start <= p.range.start PROVE f.range.start <= e.range.start
    BY <1>0, <1>1, <1>2, <1>3, <2>2
  <2> QED BY <1>3, <2>1, <2>2 DEF LeftSibling
<1>4. ASSUME NEW e \in LeftSibling(p), NEW f \in LeftSibling(p) PROVE e = f
  <2>1. e \in map /\ f \in map /\ e.range.end = p.range.start /\ f.range.end = p.range.start
    BY DEF LeftSibling
  <2> QED BY <1>0, <1>1, <1>2, <2>1
<1>5. ASSUME NEW e \in RightSibling(p), NEW f \in RightSibling(p) PROVE e = f
  <2>1. e \in map /\ f \in map /\ e.range.start = p.range.end /\ f.range.start = p.range.end
    BY DEF RightSibling
  <2> QED BY <1>0, <1>1, <1>2, <2>1
<1>6. ASSUME NEW e \in map \ Siblings(p), Apart(p.range, e.range) PROVE Distant(e.range, p.range)
  <2>1. e \notin LeftSibling(p) /\ e \notin RightSibling(p) /\ e \in map
    BY DEF Siblings
  <2>2. e.range.end # p.range.start
    BY <1>3, <2>1
  <2>3. e.range.start # p.range.end
    BY <2>1 DEF RightSibling
  <2> QED BY <1>0, <1>1, <1>6, <2>1, <2>2, <2>3 DEF Apart, Distant
<1> QED BY <1>4, <1>5, <1>6

(* The proofs of a merge: the new one, and those of the siblings.          *)
LEMMA MergedParts ==
    ASSUME ShardsApart, TypeOK, EntriesAreRuns, TreeSound, EntriesApart, TreeApart,
           NEW p \in Proofs, Fine(p), \A e \in Siblings(p) : Separate(p, Reduced(e))
    PROVE  LET q == Merged(p).proofs
           IN  /\ Sound(q)
               /\ \A i \in 1..Len(q) :
                     \/ q[i] = p
                     \/ \E e \in Siblings(p) : \E k \in 1..Len(e.proofs) : q[i] = e.proofs[k]
               /\ \E i \in 1..Len(q) : q[i] = p
               /\ \A e \in Siblings(p) : \A k \in 1..Len(e.proofs) :
                     \E i \in 1..Len(q) : q[i] = e.proofs[k]
<1> DEFINE l == LeftSibling(p)
           r == RightSibling(p)
           lp == IF l = {} THEN <<>> ELSE The(l).proofs
           rp == IF r = {} THEN <<>> ELSE The(r).proofs
           q == lp \o <<p>> \o rp
           n == Len(lp)
           m == Len(rp)
<1>1. Merged(p).proofs = q
  BY DEF Merged
<1>2. /\ l \subseteq map /\ r \subseteq map /\ l \cap r = {}
      /\ l # {} => The(l) \in l
      /\ r # {} => The(r) \in r
  BY SiblingsInMap DEF RightSibling
<1>3. /\ \A e \in l : e = The(l)
      /\ \A e \in r : e = The(r)
  BY <1>2, SiblingFacts
<1>4. \A e \in Siblings(p) : e \in l \/ e \in r
  BY DEF Siblings
<1>5. l \subseteq Siblings(p) /\ r \subseteq Siblings(p)
  BY DEF Siblings
<1>6. ASSUME l # {}
      PROVE  /\ The(l) \in map /\ The(l) \in Siblings(p) /\ lp = The(l).proofs
             /\ lp \in Seq(Proofs) /\ Sound(lp) /\ Chained(lp) /\ Len(lp) > 0
             /\ The(l) = Spanning(lp)
  <2>1. The(l) \in map /\ The(l) \in Siblings(p) /\ lp = The(l).proofs
    BY <1>2, <1>5, <1>6
  <2> QED BY <2>1, EntryFacts
<1>7. ASSUME r # {}
      PROVE  /\ The(r) \in map /\ The(r) \in Siblings(p) /\ rp = The(r).proofs
             /\ rp \in Seq(Proofs) /\ Sound(rp) /\ Chained(rp) /\ Len(rp) > 0
             /\ The(r) = Spanning(rp)
  <2>1. The(r) \in map /\ The(r) \in Siblings(p) /\ rp = The(r).proofs
    BY <1>2, <1>5, <1>7
  <2> QED BY <2>1, EntryFacts
<1>8. lp \in Seq(Proofs) /\ rp \in Seq(Proofs)
  BY <1>6, <1>7
<1>9. Sound(lp) /\ Sound(rp)
  <2>1. Sound(<<>>)
    BY DEF Sound
  <2> QED BY <1>6, <1>7, <2>1
<1>10. (l = {} => n = 0) /\ (r = {} => m = 0)
  OBVIOUS
<1>11. \A i \in 1..n : l # {} /\ Separate(p, lp[i])
  <2> SUFFICES ASSUME NEW i \in 1..n PROVE l # {} /\ Separate(p, lp[i])
    OBVIOUS
  <2>1. l # {}
    BY <1>10
  <2>2. Separate(p, Reduced(Spanning(lp)))
    BY <1>6, <2>1
  <2> HIDE DEF l, lp
  <2> QED BY <1>6, <2>1, <2>2, SeparateParts
<1>12. \A i \in 1..m : r # {} /\ Separate(p, rp[i])
  <2> SUFFICES ASSUME NEW i \in 1..m PROVE r # {} /\ Separate(p, rp[i])
    OBVIOUS
  <2>1. r # {}
    BY <1>10
  <2>2. Separate(p, Reduced(Spanning(rp)))
    BY <1>7, <2>1
  <2> HIDE DEF r, rp
  <2> QED BY <1>7, <2>1, <2>2, SeparateParts
<1>13. ASSUME l # {}, r # {}, NEW i \in 1..n, NEW j \in 1..m
       PROVE  lp[i].leaves \cap rp[j].leaves = {}
  <2>1. The(l) # The(r)
    BY <1>2, <1>13
  <2>2. Separate(Reduced(The(l)), Reduced(The(r)))
    BY <1>6, <1>7, <1>13, <2>1 DEF TreeApart
  <2>3. Reduced(The(l)).leaves \cap Reduced(The(r)).leaves = {}
    BY <2>2 DEF Separate
  <2>4. /\ \A x : x \in Reduced(The(l)).leaves <=> \E k \in 1..n : x \in lp[k].leaves
        /\ \A x : x \in Reduced(The(r)).leaves <=> \E k \in 1..m : x \in rp[k].leaves
    BY <1>6, <1>7, <1>13, EntryFacts
  <2> QED BY <2>3, <2>4
<1> HIDE DEF l, r, lp, rp
<1>14. /\ n \in Nat /\ m \in Nat /\ Len(q) = n + 1 + m
       /\ \A i \in 1..n : q[i] = lp[i]
       /\ q[n + 1] = p
       /\ \A i \in 1..m : q[n + 1 + i] = rp[i]
  BY <1>8
<1> HIDE DEF q, n, m
<1>15. ASSUME NEW i \in 1..(n + 1 + m)
       PROVE  i \in 1..n \/ i = n + 1 \/ \E k \in 1..m : i = n + 1 + k
  <2>1. CASE i <= n + 1
    BY <1>14, <2>1
  <2>2. CASE i > n + 1
    <3>1. i - (n + 1) \in 1..m /\ i = n + 1 + (i - (n + 1))
      BY <1>14, <2>2
    <3> QED BY <3>1
  <2> QED BY <1>14, <2>1, <2>2
<1>16. Sound(q)
  <2>1. ASSUME NEW i \in 1..Len(q) PROVE Fine(q[i])
    BY <1>9, <1>14, <1>15 DEF Sound, n, m
  <2>2. ASSUME NEW i \in 1..Len(q), NEW j \in 1..Len(q), i < j
        PROVE  q[i].leaves \cap q[j].leaves = {}
    <3>1. \A k \in 1..n : lp[k].leaves \cap p.leaves = {}
      BY <1>11 DEF Separate
    <3>2. \A k \in 1..m : rp[k].leaves \cap p.leaves = {}
      BY <1>12 DEF Separate
    <3>3. CASE j \in 1..n
      <4>1. i \in 1..n
        BY <1>14, <2>2, <3>3
      <4>2. i # j
        BY <2>2
      <4> QED BY <1>9, <1>14, <3>3, <4>1, <4>2 DEF Sound, n
    <3>4. CASE j = n + 1
      <4>1. i \in 1..n
        BY <1>14, <2>2, <3>4
      <4> QED BY <1>14, <3>1, <3>4, <4>1
    <3>5. ASSUME NEW k \in 1..m, j = n + 1 + k PROVE q[i].leaves \cap q[j].leaves = {}
      <4>1. q[j] = rp[k]
        BY <1>14, <3>5
      <4>2. CASE i \in 1..n
        BY <1>11, <1>12, <1>13, <1>14, <4>1, <4>2
      <4>3. CASE i = n + 1
        BY <1>14, <3>2, <4>1, <4>3
      <4>4. ASSUME NEW h \in 1..m, i = n + 1 + h PROVE q[i].leaves \cap q[j].leaves = {}
        <5>1. h # k
          BY <1>14, <2>2, <3>5, <4>4
        <5>2. q[i] = rp[h]
          BY <1>14, <4>4
        <5> QED BY <1>9, <4>1, <5>1, <5>2 DEF Sound, m
      <4> QED BY <1>14, <1>15, <4>2, <4>3, <4>4
    <3> QED BY <1>14, <1>15, <3>3, <3>4, <3>5
  <2>3. ASSUME NEW i \in 1..Len(q), NEW j \in 1..Len(q), i # j
        PROVE  q[i].leaves \cap q[j].leaves = {}
    <3>1. i < j \/ j < i
      BY <1>14, <2>3
    <3> QED BY <2>2, <3>1
  <2> QED BY <2>1, <2>3 DEF Sound
<1>17. ASSUME NEW i \in 1..Len(q)
       PROVE  q[i] = p \/ \E e \in Siblings(p) : \E k \in 1..Len(e.proofs) : q[i] = e.proofs[k]
  <2>1. CASE i \in 1..n
    <3>1. l # {} /\ q[i] = lp[i]
      BY <1>11, <1>14, <2>1
    <3> QED BY <1>6, <2>1, <3>1 DEF n
  <2>2. ASSUME NEW k \in 1..m, i = n + 1 + k
        PROVE  \E e \in Siblings(p) : \E h \in 1..Len(e.proofs) : q[i] = e.proofs[h]
    <3>1. r # {} /\ q[i] = rp[k]
      BY <1>12, <1>14, <2>2
    <3> QED BY <1>7, <2>2, <3>1 DEF m
  <2> QED BY <1>14, <1>15, <2>1, <2>2
<1>18. \E i \in 1..Len(q) : q[i] = p
  <2>1. n + 1 \in 1..Len(q)
    BY <1>14
  <2> QED BY <1>14, <2>1
<1>19. ASSUME NEW e \in Siblings(p), NEW k \in 1..Len(e.proofs)
       PROVE  \E i \in 1..Len(q) : q[i] = e.proofs[k]
  <2>1. CASE e \in l
    <3>1. e.proofs = lp /\ k \in 1..n
      BY <1>3, <1>6, <2>1 DEF n
    <3>2. k \in 1..Len(q) /\ q[k] = lp[k]
      BY <1>14, <3>1
    <3> QED BY <3>1, <3>2
  <2>2. CASE e \in r
    <3>1. e.proofs = rp /\ k \in 1..m
      BY <1>3, <1>7, <2>2 DEF m
    <3>2. n + 1 + k \in 1..Len(q) /\ q[n + 1 + k] = rp[k]
      BY <1>14, <3>1
    <3> QED BY <3>1, <3>2
  <2> QED BY <1>4, <2>1, <2>2
<1> QED BY <1>1, <1>16, <1>17, <1>18, <1>19

(* A part of a run is a run.                                               *)
LEMMA PartSound ==
    ASSUME NEW q \in Seq(Proofs), Chained(q), Sound(q),
           NEW a \in 1..Len(q), NEW b \in 1..Len(q), a <= b
    PROVE  LET s == SubSeq(q, a, b)
           IN  /\ s \in Seq(Proofs) /\ Len(s) = b - a + 1 /\ Len(s) > 0
               /\ Chained(s) /\ Sound(s)
               /\ \A i \in 1..Len(s) : a + i - 1 \in 1..Len(q) /\ s[i] = q[a + i - 1]
               /\ \A k \in a..b : k - a + 1 \in 1..Len(s) /\ s[k - a + 1] = q[k]
<1> DEFINE s == SubSeq(q, a, b)
<1>1. s \in Seq(Proofs) /\ Len(s) = b - a + 1 /\ Chained(s)
  BY SubChain
<1>2. Len(q) \in Nat
  OBVIOUS
<1>3. \A i \in 1..(b - a + 1) : s[i] = q[a + i - 1]
  BY <1>2
<1> HIDE DEF s
<1>4. Len(s) > 0
  BY <1>1, <1>2
<1>5. \A i \in 1..Len(s) : a + i - 1 \in 1..Len(q) /\ s[i] = q[a + i - 1]
  BY <1>1, <1>2, <1>3
<1>6. ASSUME NEW k \in a..b PROVE k - a + 1 \in 1..Len(s) /\ s[k - a + 1] = q[k]
  <2>1. k - a + 1 \in 1..Len(s) /\ a + (k - a + 1) - 1 = k
    BY <1>1, <1>2
  <2> QED BY <1>5, <2>1
<1>7. Sound(s)
  <2>1. ASSUME NEW i \in 1..Len(s) PROVE Fine(s[i])
    BY <1>5 DEF Sound
  <2>2. ASSUME NEW i \in 1..Len(s), NEW j \in 1..Len(s), i # j
        PROVE  s[i].leaves \cap s[j].leaves = {}
    <3>1. a + i - 1 # a + j - 1
      BY <2>2
    <3> QED BY <1>5, <3>1 DEF Sound
  <2> QED BY <2>1, <2>2 DEF Sound
<1> QED BY <1>1, <1>4, <1>5, <1>6, <1>7 DEF s

(* split_off: the batch and the rest have nothing in common, and nothing   *)
(* is lost.                                                                *)
LEMMA SplitSound ==
    ASSUME NEW q \in Seq(Proofs), Chained(q), Sound(q), Len(q) > BatchSize
    PROVE  LET h == SubSeq(q, 1, BatchSize)
               t == SubSeq(q, BatchSize + 1, Len(q))
           IN  /\ h \in Seq(Proofs) /\ Len(h) = BatchSize /\ Len(h) > 0 /\ Chained(h) /\ Sound(h)
               /\ t \in Seq(Proofs) /\ Len(t) > 0 /\ Chained(t) /\ Sound(t)
               /\ \A i \in 1..Len(h) : \E k \in 1..Len(q) : h[i] = q[k]
               /\ \A i \in 1..Len(t) : \E k \in 1..Len(q) : t[i] = q[k]
               /\ \A k \in 1..Len(q) : \/ \E i \in 1..Len(h) : h[i] = q[k]
                                       \/ \E i \in 1..Len(t) : t[i] = q[k]
               /\ Separate(Reduced(Spanning(h)), Reduced(Spanning(t)))
<1> DEFINE n == Len(q)
           h == SubSeq(q, 1, BatchSize)
           t == SubSeq(q, BatchSize + 1, n)
<1>0. n \in Nat /\ BatchSize \in Nat /\ BatchSize >= 2 /\ n > BatchSize
  BY BatchSizeAssumption
<1>1. /\ 1 \in 1..n /\ BatchSize \in 1..n /\ BatchSize + 1 \in 1..n /\ n \in 1..n
      /\ 1 <= BatchSize /\ BatchSize + 1 <= n
  BY <1>0
<1>2. /\ h \in Seq(Proofs) /\ Len(h) = BatchSize - 1 + 1 /\ Len(h) > 0 /\ Chained(h) /\ Sound(h)
      /\ \A i \in 1..Len(h) : 1 + i - 1 \in 1..n /\ h[i] = q[1 + i - 1]
      /\ \A k \in 1..BatchSize : k - 1 + 1 \in 1..Len(h) /\ h[k - 1 + 1] = q[k]
  BY <1>1, PartSound
<1>3. /\ t \in Seq(Proofs) /\ Len(t) = n - (BatchSize + 1) + 1 /\ Len(t) > 0 /\ Chained(t) /\ Sound(t)
      /\ \A i \in 1..Len(t) : /\ (BatchSize + 1) + i - 1 \in 1..n
                              /\ t[i] = q[(BatchSize + 1) + i - 1]
      /\ \A k \in (BatchSize + 1)..n : /\ k - (BatchSize + 1) + 1 \in 1..Len(t)
                                       /\ t[k - (BatchSize + 1) + 1] = q[k]
  BY <1>1, PartSound
<1>4. q[BatchSize].range.end = q[BatchSize + 1].range.start
  BY <1>0 DEF Chained
<1>5. /\ Reduced(Spanning(h)).range.end = h[Len(h)].range.end
      /\ \A l : l \in Reduced(Spanning(h)).leaves <=> \E i \in 1..Len(h) : l \in h[i].leaves
  BY <1>2, RunProof
<1>6. /\ Reduced(Spanning(t)).range.start = t[1].range.start
      /\ \A l : l \in Reduced(Spanning(t)).leaves <=> \E i \in 1..Len(t) : l \in t[i].leaves
  BY <1>3, RunProof
<1>7. Reduced(Spanning(t)).range.start \in Nat
  BY <1>3, RunProof, ProofFacts
<1> HIDE DEF h, t, n
<1>8. Len(h) = BatchSize
  BY <1>0, <1>2
<1>9. h[Len(h)] = q[BatchSize]
  <2>1. Len(h) \in 1..Len(h) /\ 1 + Len(h) - 1 = BatchSize
    BY <1>0, <1>8
  <2> QED BY <1>2, <2>1
<1>10. t[1] = q[BatchSize + 1]
  <2>1. 1 \in 1..Len(t) /\ (BatchSize + 1) + 1 - 1 = BatchSize + 1
    BY <1>0, <1>3
  <2> QED BY <1>3, <2>1
<1>11. Apart(Reduced(Spanning(h)).range, Reduced(Spanning(t)).range)
  BY <1>4, <1>5, <1>6, <1>7, <1>9, <1>10 DEF Apart
<1>12. ASSUME NEW i \in 1..Len(h), NEW j \in 1..Len(t) PROVE h[i].leaves \cap t[j].leaves = {}
  <2>1. 1 + i - 1 # (BatchSize + 1) + j - 1
    BY <1>0, <1>8, <1>3
  <2>2. 1 + i - 1 \in 1..n /\ (BatchSize + 1) + j - 1 \in 1..n
    BY <1>2, <1>3
  <2>3. h[i] = q[1 + i - 1] /\ t[j] = q[(BatchSize + 1) + j - 1]
    BY <1>2, <1>3
  <2> QED BY <2>1, <2>2, <2>3 DEF Sound, n
<1>13. Separate(Reduced(Spanning(h)), Reduced(Spanning(t)))
  BY <1>5, <1>6, <1>11, <1>12 DEF Separate
<1>14. ASSUME NEW k \in 1..n
       PROVE  \/ \E i \in 1..Len(h) : h[i] = q[k]
              \/ \E i \in 1..Len(t) : t[i] = q[k]
  <2>1. k \in 1..BatchSize \/ k \in (BatchSize + 1)..n
    BY <1>0
  <2> QED BY <1>2, <1>3, <2>1
<1> QED BY <1>2, <1>3, <1>8, <1>13, <1>14 DEF h, t, n
-----------------------------------------------------------------------------
(* A proof enters the tree in one of three ways.  It is joined with its    *)
(* siblings, if it has some, to one entry; or they leave the tree as one   *)
(* batch; or a batch leaves it and the rest is put back.                   *)
Joined(p) ==
    /\ Len(Merged(p).proofs) < BatchSize
    /\ ~IsComplete(Merged(p).range, map \ Siblings(p), pendingTasks - 1)
    /\ map' = Insert(map \ Siblings(p), Merged(p))
    /\ reducing' = reducing
    /\ pendingTasks' = pendingTasks - 1

Submitted(rp) ==
    /\ reducing' = reducing \cup {[id |-> submitted, proof |-> Reduced(rp),
                                   isComplete |-> IsComplete(rp.range, map', pendingTasks - 1)]}
    /\ pendingTasks' = pendingTasks

Batched(p) ==
    /\ map' = map \ Siblings(p)
    /\ Submitted(Merged(p))

Halved(p) ==
    LET q == Merged(p).proofs
    IN  /\ Len(q) > BatchSize
        /\ map' = Insert(map \ Siblings(p), Spanning(SubSeq(q, BatchSize + 1, Len(q))))
        /\ Submitted(Spanning(SubSeq(q, 1, BatchSize)))

(* A proof that enters the tree does so in one of these three ways.        *)
LEMMA ThreeWays ==
    ASSUME TypeOK, EntriesAreRuns, NEW p \in Proofs, Park(p) \/ Combine(p)
    PROVE  Joined(p) \/ Batched(p) \/ Halved(p)
<1> DEFINE q == Merged(p).proofs
<1>1. Len(q) \in Nat /\ q \in Seq(Proofs)
  BY MergedRun, BatchSizeAssumption
<1>2. CASE Park(p)
  <2>1. Siblings(p) = {} /\ Len(q) = 1
    BY <1>2, MergedRun DEF Park
  <2>2. Merged(p).range = p.range
    <3>1. LeftSibling(p) = {} /\ RightSibling(p) = {}
      BY <2>1 DEF Siblings
    <3>2. Merged(p).range = [start |-> p.range.start, end |-> p.range.end]
      BY <3>1 DEF Merged
    <3> QED BY <3>2, ProofFacts
  <2>3. Len(q) < BatchSize
    BY <2>1, BatchSizeAssumption
  <2>4. map \ Siblings(p) = map
    BY <2>1
  <2> QED BY <1>2, <2>2, <2>3, <2>4 DEF Park, Joined
<1>3. CASE Combine(p)
  <2> DEFINE all == Merged(p)
             rp == Kept(all)
             tree == PutBack(map \ Siblings(p), all)
             last == IsComplete(rp.range, tree, pendingTasks - 1)
  <2>1. CASE Len(q) > BatchSize
    <3>1. /\ rp = Spanning(SubSeq(q, 1, BatchSize))
          /\ tree = Insert(map \ Siblings(p), Spanning(SubSeq(q, BatchSize + 1, Len(q))))
      BY <2>1 DEF Kept, PutBack
    <3>2. rp.proofs = SubSeq(q, 1, BatchSize)
      <4>1. \A x : Spanning(x).proofs = x
        BY DEF Spanning
      <4> HIDE DEF rp, q
      <4> QED BY <3>1, <4>1
    <3>3. Len(SubSeq(q, 1, BatchSize)) = BatchSize
      BY <1>1, <2>1, BatchSizeAssumption
    <3>4. /\ map' = tree /\ pendingTasks' = pendingTasks
          /\ reducing' = reducing \cup {[id |-> submitted, proof |-> Reduced(rp), isComplete |-> last]}
      BY <1>3, <3>2, <3>3 DEF Combine
    <3> QED BY <2>1, <3>1, <3>4 DEF Halved, Submitted
  <2>2. CASE ~(Len(q) > BatchSize)
    <3>1. rp = all /\ tree = map \ Siblings(p)
      BY <2>2 DEF Kept, PutBack
    <3>2. CASE Len(q) = BatchSize \/ last
      <4>1. /\ map' = tree /\ pendingTasks' = pendingTasks
            /\ reducing' = reducing \cup {[id |-> submitted, proof |-> Reduced(rp), isComplete |-> last]}
        BY <1>3, <3>1, <3>2 DEF Combine
      <4> QED BY <3>1, <4>1 DEF Batched, Submitted
    <3>3. CASE ~(Len(q) = BatchSize \/ last)
      <4>1. map' = Insert(tree, rp) /\ pendingTasks' = pendingTasks - 1 /\ reducing' = reducing
        BY <1>3, <3>1, <3>3 DEF Combine
      <4>2. Len(q) < BatchSize
        BY <1>1, <2>2, <3>3, BatchSizeAssumption
      <4> QED BY <3>1, <3>3, <4>1, <4>2 DEF Joined
    <3> QED BY <3>2, <3>3
  <2> QED BY <2>1, <2>2
<1> QED BY <1>2, <1>3

(* A proof that comes to the tree has nothing in common with its entries.  *)
Ready(p) ==
    /\ TypeOK /\ EntriesAreRuns /\ TreeSound /\ EntriesApart /\ TreeApart
    /\ p \in Proofs /\ Fine(p)
    /\ \A e \in map : Separate(p, Reduced(e))

(* What has nothing in common with the proof and its siblings.             *)
Foreign(x, p) ==
    /\ x \in Proofs /\ Fine(x) /\ Separate(x, p)
    /\ \A e \in Siblings(p) : Separate(x, Reduced(e))

(* The proofs of a merge attest what the proof and its siblings attest;    *)
(* what is foreign to these is foreign to them; and the other entries are  *)
(* distant from them.                                                      *)
LEMMA MergedFacts ==
    ASSUME ShardsApart, NEW p, Ready(p)
    PROVE  LET q == Merged(p).proofs
           IN  /\ q \in Seq(Proofs) /\ Chained(q) /\ Len(q) > 0 /\ Sound(q)
               /\ Merged(p) = Spanning(q)
               /\ \A l : (\E i \in 1..Len(q) : l \in q[i].leaves)
                           <=> (l \in p.leaves \/ \E e \in Siblings(p) : l \in Reduced(e).leaves)
               /\ \A x : Foreign(x, p) => \A i \in 1..Len(q) : Separate(x, q[i])
               /\ \A f \in map \ Siblings(p) : \A i \in 1..Len(q) : Distant(f.range, q[i].range)
<1> DEFINE q == Merged(p).proofs
<1>0. /\ TypeOK /\ EntriesAreRuns /\ TreeSound /\ EntriesApart /\ TreeApart
      /\ p \in Proofs /\ Fine(p) /\ \A e \in map : Separate(p, Reduced(e))
  BY DEF Ready
<1>1. q \in Seq(Proofs) /\ Chained(q) /\ Len(q) > 0 /\ Merged(p) = Spanning(q)
  <2>1. q \in Seq(Proofs) /\ Chained(q) /\ Merged(p) = Spanning(q) /\ Len(q) \in 1..(2 * BatchSize - 1)
    BY <1>0, MergedRun
  <2> QED BY <2>1, BatchSizeAssumption
<1>2. \A e \in Siblings(p) : e \in map
  BY SiblingsInMap DEF Siblings
<1>3. /\ Sound(q)
      /\ \A i \in 1..Len(q) :
            \/ q[i] = p
            \/ \E e \in Siblings(p) : \E k \in 1..Len(e.proofs) : q[i] = e.proofs[k]
      /\ \E i \in 1..Len(q) : q[i] = p
      /\ \A e \in Siblings(p) : \A k \in 1..Len(e.proofs) :
            \E i \in 1..Len(q) : q[i] = e.proofs[k]
  BY <1>0, <1>2, MergedParts
<1> HIDE DEF q
<1>4. ASSUME NEW e \in Siblings(p)
      PROVE  /\ e.proofs \in Seq(Proofs) /\ Len(e.proofs) > 0 /\ Chained(e.proofs)
             /\ Sound(e.proofs) /\ e = Spanning(e.proofs)
             /\ \A l : l \in Reduced(e).leaves <=> \E i \in 1..Len(e.proofs) : l \in e.proofs[i].leaves
             /\ e.range \in Ranges
  BY <1>0, <1>2, EntryFacts
<1>5. \A l : (\E i \in 1..Len(q) : l \in q[i].leaves)
               <=> (l \in p.leaves \/ \E e \in Siblings(p) : l \in Reduced(e).leaves)
  <2>1. ASSUME NEW l, NEW i \in 1..Len(q), l \in q[i].leaves
        PROVE  l \in p.leaves \/ \E e \in Siblings(p) : l \in Reduced(e).leaves
    <3>1. CASE q[i] = p
      BY <2>1, <3>1
    <3>2. ASSUME NEW e \in Siblings(p), NEW k \in 1..Len(e.proofs), q[i] = e.proofs[k]
          PROVE  l \in Reduced(e).leaves
      BY <1>4, <2>1, <3>2
    <3> QED BY <1>3, <3>1, <3>2
  <2>2. ASSUME NEW l, NEW e \in Siblings(p), l \in Reduced(e).leaves
        PROVE  \E i \in 1..Len(q) : l \in q[i].leaves
    <3>1. PICK k \in 1..Len(e.proofs) : l \in e.proofs[k].leaves
      BY <1>4, <2>2
    <3> QED BY <1>3, <3>1
  <2>3. ASSUME NEW l \in p.leaves PROVE \E i \in 1..Len(q) : l \in q[i].leaves
    BY <1>3
  <2> QED BY <2>1, <2>2, <2>3
<1>6. ASSUME NEW x, Foreign(x, p), NEW i \in 1..Len(q) PROVE Separate(x, q[i])
  <2>1. CASE q[i] = p
    BY <1>6, <2>1 DEF Foreign
  <2>2. ASSUME NEW e \in Siblings(p), NEW k \in 1..Len(e.proofs), q[i] = e.proofs[k]
        PROVE  Separate(x, q[i])
    <3>1. x \in Proofs /\ Separate(x, Reduced(Spanning(e.proofs)))
      BY <1>4, <1>6 DEF Foreign
    <3>2. Separate(x, e.proofs[k])
      BY <1>4, <3>1, SeparateParts
    <3> QED BY <2>2, <3>2
  <2> QED BY <1>3, <2>1, <2>2
<1>7. ASSUME NEW f \in map \ Siblings(p), NEW i \in 1..Len(q) PROVE Distant(f.range, q[i].range)
  <2>0. f.range.start \in Nat /\ f.range.end \in Nat /\ Reduced(f).range = f.range
    BY <1>0, EntryFacts
  <2>1. CASE q[i] = p
    <3>1. Apart(p.range, f.range)
      BY <1>0, <2>0 DEF Separate
    <3> QED BY <1>0, <2>1, <3>1, SiblingFacts
  <2>2. ASSUME NEW e \in Siblings(p), NEW k \in 1..Len(e.proofs), q[i] = e.proofs[k]
        PROVE  Distant(f.range, q[i].range)
    <3> DEFINE s == e.proofs
    <3>1. f # e /\ e \in map
      BY <1>2
    <3>2. f.range.end < e.range.start \/ e.range.end < f.range.start
      BY <1>0, <3>1 DEF EntriesApart
    <3>3. s \in Seq(Proofs) /\ Len(s) > 0 /\ Chained(s) /\ Sound(s) /\ e = Spanning(s)
      BY <1>4
    <3>4. e.range.start = s[1].range.start /\ e.range.end = s[Len(s)].range.end
      BY <3>3, RunProof
    <3> HIDE DEF s
    <3>5. \A j \in 1..Len(s) : s[j].range.start <= s[j].range.end
      BY <3>3 DEF Sound, Fine
    <3>6. s[1].range.start <= s[k].range.start /\ s[k].range.end <= s[Len(s)].range.end
      BY <3>3, <3>5, ChainOrdered DEF s
    <3>7. /\ 1 \in 1..Len(s) /\ Len(s) \in 1..Len(s)
          /\ \A j \in 1..Len(s) : s[j].range.start \in Nat /\ s[j].range.end \in Nat
      BY <3>3, <3>5, ChainFacts
    <3>8. s[k].range.start \in Nat /\ s[k].range.end \in Nat
      BY <3>7 DEF s
    <3>9. Distant(f.range, s[k].range)
      <4>1. e.range.start \in Nat /\ e.range.end \in Nat
        BY <3>4, <3>7
      <4>2. e.range.start <= s[k].range.start /\ s[k].range.end <= e.range.end
        BY <3>4, <3>6
      <4>3. f.range.end < s[k].range.start \/ s[k].range.end < f.range.start
        <5>1. ASSUME NEW a \in Nat, NEW b \in Nat, NEW c \in Nat, a < b, b <= c PROVE a < c
          BY <5>1
        <5>2. ASSUME NEW a \in Nat, NEW b \in Nat, NEW c \in Nat, a <= b, b < c PROVE a < c
          BY <5>2
        <5>3. CASE f.range.end < e.range.start
          BY <2>0, <3>8, <4>1, <4>2, <5>1, <5>3, Zenon
        <5>4. CASE e.range.end < f.range.start
          BY <2>0, <3>8, <4>1, <4>2, <5>2, <5>4, Zenon
        <5> QED BY <3>2, <5>3, <5>4
      <4> QED BY <4>3 DEF Distant
    <3> QED BY <2>2, <3>9 DEF s
  <2> QED BY <1>3, <2>1, <2>2
<1> QED BY <1>1, <1>3, <1>5, <1>6, <1>7 DEF q

(* So does a run of some of them.                                          *)
LEMMA PieceFacts ==
    ASSUME ShardsApart, NEW p, Ready(p),
           NEW s \in Seq(Proofs), Len(s) > 0, Chained(s), Sound(s),
           \A i \in 1..Len(s) : \E k \in 1..Len(Merged(p).proofs) : s[i] = Merged(p).proofs[k]
    PROVE  /\ Reduced(Spanning(s)) \in Proofs /\ Fine(Reduced(Spanning(s)))
           /\ Reduced(Spanning(s)).range = Spanning(s).range
           /\ Sound(Spanning(s).proofs)
           /\ \A x : Foreign(x, p) => Separate(x, Reduced(Spanning(s)))
           /\ \A f \in map \ Siblings(p) : Distant(f.range, Spanning(s).range)
           /\ \A l : l \in Reduced(Spanning(s)).leaves <=> \E i \in 1..Len(s) : l \in s[i].leaves
<1> DEFINE q == Merged(p).proofs
<1>0. \A i \in 1..Len(s) : \E k \in 1..Len(q) : s[i] = q[k]
  OBVIOUS
<1>1. /\ \A x : Foreign(x, p) => \A i \in 1..Len(q) : Separate(x, q[i])
      /\ \A f \in map \ Siblings(p) : \A i \in 1..Len(q) : Distant(f.range, q[i].range)
  BY MergedFacts
<1> HIDE DEF q
<1>2. /\ Reduced(Spanning(s)) \in Proofs /\ Reduced(Spanning(s)).range = Spanning(s).range
      /\ Spanning(s).proofs = s
      /\ \A l : l \in Reduced(Spanning(s)).leaves <=> \E i \in 1..Len(s) : l \in s[i].leaves
  BY RunProof
<1>3. \A i \in 1..Len(s) : Fine(s[i]) /\ s[i].range.start <= s[i].range.end
  BY DEF Sound, Fine
<1>4. Fine(Reduced(Spanning(s)))
  BY <1>3, RunFine
<1>5. ASSUME NEW x, Foreign(x, p) PROVE Separate(x, Reduced(Spanning(s)))
  <2>1. x \in Proofs /\ Fine(x)
    BY <1>5 DEF Foreign
  <2>2. \A i \in 1..Len(s) : Separate(x, s[i])
    BY <1>0, <1>1, <1>5
  <2> QED BY <2>1, <2>2, SeparateRun
<1>6. ASSUME NEW f \in map \ Siblings(p) PROVE Distant(f.range, Spanning(s).range)
  <2>1. f.range \in Ranges /\ f.range.start <= f.range.end
    BY EntryFacts DEF Ready
  <2>2. \A i \in 1..Len(s) : Distant(f.range, s[i].range)
    BY <1>0, <1>1
  <2> QED BY <1>3, <2>1, <2>2, ChainDistant
<1> QED BY <1>2, <1>4, <1>5, <1>6

(* What the tree becomes: the siblings are replaced by at most one entry   *)
(* and at most one reduce task, which attest the same shards.              *)
Fits(p, N, R) ==
    /\ map' = (map \ Siblings(p)) \cup N
    /\ reducing' = reducing \cup R
    /\ N # {} \/ R # {}
    /\ \A e, f \in N : e = f
    /\ \A r, s \in R : r = s
    /\ \A e \in N :
          /\ Sound(e.proofs)
          /\ \A f \in map \ Siblings(p) : Distant(f.range, e.range)
          /\ \A x : Foreign(x, p) => Separate(x, Reduced(e))
          /\ \A r \in R : Separate(Reduced(e), r.proof)
    /\ \A r \in R :
          /\ r.proof \in Proofs /\ Fine(r.proof)
          /\ \A x : Foreign(x, p) => Separate(x, r.proof)
          /\ r.isComplete <=> IsComplete(r.proof.range, map', pendingTasks - 1)
          /\ pendingTasks' = pendingTasks
    /\ R = {} => \A e \in N : ~IsComplete(e.range, map \ Siblings(p), pendingTasks - 1)
    /\ \A l : ((\E e \in N : l \in Reduced(e).leaves) \/ (\E r \in R : l \in r.proof.leaves))
                <=> (l \in p.leaves \/ \E e \in Siblings(p) : l \in Reduced(e).leaves)

(* An insert replaces no entry.                                            *)
LEMMA InsertNew ==
    ASSUME ShardsApart, NEW p, Ready(p),
           NEW s, Reduced(Spanning(s)) \in Proofs, Fine(Reduced(Spanning(s))),
           Reduced(Spanning(s)).range = Spanning(s).range,
           \A f \in map \ Siblings(p) : Distant(f.range, Spanning(s).range)
    PROVE  Insert(map \ Siblings(p), Spanning(s)) = (map \ Siblings(p)) \cup {Spanning(s)}
<1> DEFINE e == Spanning(s)
<1>1. e.range.start \in Nat /\ e.range.end \in Nat /\ e.range.start <= e.range.end
  BY ProofFacts DEF Fine
<1>2. \A f \in map \ Siblings(p) : Distant(f.range, e.range)
  OBVIOUS
<1> HIDE DEF e
<1>3. ASSUME NEW f \in map \ Siblings(p) PROVE f.range.start # e.range.start
  <2>1. f.range.start \in Nat /\ f.range.end \in Nat /\ f.range.start <= f.range.end
    BY EntryFacts DEF Ready
  <2> QED BY <1>1, <1>2, <2>1 DEF Distant
<1>4. Insert(map \ Siblings(p), e) = (map \ Siblings(p)) \cup {e}
  BY <1>3 DEF Insert
<1> QED BY <1>4 DEF e

(* The merged proofs are kept in the tree.                                 *)
LEMMA JoinedFits ==
    ASSUME ShardsApart, NEW p, Ready(p), Joined(p)
    PROVE  Fits(p, {Merged(p)}, {})
<1> DEFINE q == Merged(p).proofs
<1>1. /\ q \in Seq(Proofs) /\ Chained(q) /\ Len(q) > 0 /\ Sound(q)
      /\ Merged(p) = Spanning(q)
      /\ \A l : (\E i \in 1..Len(q) : l \in q[i].leaves)
                  <=> (l \in p.leaves \/ \E e \in Siblings(p) : l \in Reduced(e).leaves)
  BY MergedFacts
<1>2. /\ Reduced(Spanning(q)) \in Proofs /\ Fine(Reduced(Spanning(q)))
      /\ Reduced(Spanning(q)).range = Spanning(q).range
      /\ \A x : Foreign(x, p) => Separate(x, Reduced(Spanning(q)))
      /\ \A f \in map \ Siblings(p) : Distant(f.range, Spanning(q).range)
      /\ \A l : l \in Reduced(Spanning(q)).leaves <=> \E i \in 1..Len(q) : l \in q[i].leaves
  BY <1>1, PieceFacts
<1>3. Insert(map \ Siblings(p), Spanning(q)) = (map \ Siblings(p)) \cup {Spanning(q)}
  BY <1>2, InsertNew
<1>4. map' = (map \ Siblings(p)) \cup {Merged(p)} /\ reducing' = reducing
  BY <1>1, <1>3 DEF Joined
<1>5. ~IsComplete(Merged(p).range, map \ Siblings(p), pendingTasks - 1)
  BY DEF Joined
<1>6. Sound(Merged(p).proofs)
  BY <1>1
<1> HIDE DEF q
<1>7. \A l : l \in Reduced(Merged(p)).leaves
               <=> (l \in p.leaves \/ \E e \in Siblings(p) : l \in Reduced(e).leaves)
  BY <1>1, <1>2
<1>8. /\ \A x : Foreign(x, p) => Separate(x, Reduced(Merged(p)))
      /\ \A f \in map \ Siblings(p) : Distant(f.range, Merged(p).range)
  BY <1>1, <1>2
<1> QED BY <1>4, <1>5, <1>6, <1>7, <1>8 DEF Fits

(* The merged proofs make one batch, and nothing is put back.              *)
LEMMA BatchedFits ==
    ASSUME ShardsApart, NEW p, Ready(p), Batched(p)
    PROVE  \E R : Fits(p, {}, R)
<1> DEFINE q == Merged(p).proofs
           r == [id |-> submitted, proof |-> Reduced(Merged(p)),
                 isComplete |-> IsComplete(Merged(p).range, map', pendingTasks - 1)]
<1>1. /\ q \in Seq(Proofs) /\ Chained(q) /\ Len(q) > 0 /\ Sound(q)
      /\ Merged(p) = Spanning(q)
      /\ \A l : (\E i \in 1..Len(q) : l \in q[i].leaves)
                  <=> (l \in p.leaves \/ \E e \in Siblings(p) : l \in Reduced(e).leaves)
  BY MergedFacts
<1>2. /\ Reduced(Spanning(q)) \in Proofs /\ Fine(Reduced(Spanning(q)))
      /\ Reduced(Spanning(q)).range = Spanning(q).range
      /\ \A x : Foreign(x, p) => Separate(x, Reduced(Spanning(q)))
      /\ \A l : l \in Reduced(Spanning(q)).leaves <=> \E i \in 1..Len(q) : l \in q[i].leaves
  BY <1>1, PieceFacts
<1>3. /\ map' = (map \ Siblings(p)) \cup {} /\ reducing' = reducing \cup {r}
      /\ pendingTasks' = pendingTasks
  BY DEF Batched, Submitted
<1>4. r.proof = Reduced(Merged(p)) /\ r.isComplete = IsComplete(Merged(p).range, map', pendingTasks - 1)
  OBVIOUS
<1> HIDE DEF q, r
<1>5. \A l : l \in r.proof.leaves
               <=> (l \in p.leaves \/ \E e \in Siblings(p) : l \in Reduced(e).leaves)
  BY <1>1, <1>2, <1>4
<1>6. /\ r.proof \in Proofs /\ Fine(r.proof) /\ \A x : Foreign(x, p) => Separate(x, r.proof)
  BY <1>1, <1>2, <1>4
<1>7. r.proof.range = Merged(p).range
  BY <1>1, <1>2, <1>4
<1>8. r.isComplete <=> IsComplete(r.proof.range, map', pendingTasks - 1)
  BY <1>4, <1>7
<1>9. Fits(p, {}, {r})
  BY <1>3, <1>5, <1>6, <1>8 DEF Fits
<1> QED BY <1>9

(* The first batch of the merged proofs is reduced, the rest put back.     *)
LEMMA HalvedFits ==
    ASSUME ShardsApart, NEW p, Ready(p), Halved(p)
    PROVE  \E N, R : Fits(p, N, R)
<1> DEFINE q == Merged(p).proofs
           h == SubSeq(q, 1, BatchSize)
           t == SubSeq(q, BatchSize + 1, Len(q))
           r == [id |-> submitted, proof |-> Reduced(Spanning(h)),
                 isComplete |-> IsComplete(Spanning(h).range, map', pendingTasks - 1)]
<1>1. /\ q \in Seq(Proofs) /\ Chained(q) /\ Len(q) > 0 /\ Sound(q)
      /\ \A l : (\E i \in 1..Len(q) : l \in q[i].leaves)
                  <=> (l \in p.leaves \/ \E e \in Siblings(p) : l \in Reduced(e).leaves)
  BY MergedFacts
<1>2. Len(q) > BatchSize /\ map' = Insert(map \ Siblings(p), Spanning(t))
      /\ reducing' = reducing \cup {r} /\ pendingTasks' = pendingTasks
  BY DEF Halved, Submitted
<1>3. /\ h \in Seq(Proofs) /\ Len(h) > 0 /\ Chained(h) /\ Sound(h)
      /\ t \in Seq(Proofs) /\ Len(t) > 0 /\ Chained(t) /\ Sound(t)
      /\ \A i \in 1..Len(h) : \E k \in 1..Len(q) : h[i] = q[k]
      /\ \A i \in 1..Len(t) : \E k \in 1..Len(q) : t[i] = q[k]
      /\ \A k \in 1..Len(q) : \/ \E i \in 1..Len(h) : h[i] = q[k]
                              \/ \E i \in 1..Len(t) : t[i] = q[k]
      /\ Separate(Reduced(Spanning(h)), Reduced(Spanning(t)))
  BY <1>1, <1>2, SplitSound
<1>4. /\ r.proof = Reduced(Spanning(h))
      /\ r.isComplete = IsComplete(Spanning(h).range, map', pendingTasks - 1)
  OBVIOUS
<1> HIDE DEF h, t, r
<1>5. /\ Reduced(Spanning(h)) \in Proofs /\ Fine(Reduced(Spanning(h)))
      /\ Reduced(Spanning(h)).range = Spanning(h).range
      /\ \A x : Foreign(x, p) => Separate(x, Reduced(Spanning(h)))
      /\ \A l : l \in Reduced(Spanning(h)).leaves <=> \E i \in 1..Len(h) : l \in h[i].leaves
  BY <1>3, PieceFacts
<1>6. /\ Reduced(Spanning(t)) \in Proofs /\ Fine(Reduced(Spanning(t)))
      /\ Reduced(Spanning(t)).range = Spanning(t).range
      /\ Sound(Spanning(t).proofs)
      /\ \A x : Foreign(x, p) => Separate(x, Reduced(Spanning(t)))
      /\ \A f \in map \ Siblings(p) : Distant(f.range, Spanning(t).range)
      /\ \A l : l \in Reduced(Spanning(t)).leaves <=> \E i \in 1..Len(t) : l \in t[i].leaves
  BY <1>3, PieceFacts
<1> DEFINE e == Spanning(t)
<1>7. map' = (map \ Siblings(p)) \cup {e}
  BY <1>2, <1>6, InsertNew
<1> HIDE DEF q
<1>8. \A l : (l \in Reduced(e).leaves \/ l \in r.proof.leaves)
               <=> (\E i \in 1..Len(q) : l \in q[i].leaves)
  <2>1. ASSUME NEW l, l \in Reduced(e).leaves PROVE \E i \in 1..Len(q) : l \in q[i].leaves
    <3>1. PICK i \in 1..Len(t) : l \in t[i].leaves
      BY <1>6, <2>1
    <3> QED BY <1>3, <3>1
  <2>2. ASSUME NEW l, l \in r.proof.leaves PROVE \E i \in 1..Len(q) : l \in q[i].leaves
    <3>1. PICK i \in 1..Len(h) : l \in h[i].leaves
      BY <1>4, <1>5, <2>2
    <3> QED BY <1>3, <3>1
  <2>3. ASSUME NEW l, NEW k \in 1..Len(q), l \in q[k].leaves
        PROVE  l \in Reduced(e).leaves \/ l \in r.proof.leaves
    <3>1. (\E i \in 1..Len(h) : h[i] = q[k]) \/ (\E i \in 1..Len(t) : t[i] = q[k])
      BY <1>3
    <3> QED BY <1>4, <1>5, <1>6, <2>3, <3>1
  <2> QED BY <2>1, <2>2, <2>3
<1>9. /\ r.proof \in Proofs /\ Fine(r.proof) /\ \A x : Foreign(x, p) => Separate(x, r.proof)
  BY <1>4, <1>5
<1>10. r.isComplete <=> IsComplete(r.proof.range, map', pendingTasks - 1)
  BY <1>4, <1>5
<1>11. Separate(Reduced(e), r.proof)
  BY <1>3, <1>4, SeparateSym
<1>12. /\ Sound(e.proofs) /\ \A x : Foreign(x, p) => Separate(x, Reduced(e))
       /\ \A f \in map \ Siblings(p) : Distant(f.range, e.range)
  BY <1>6
<1>13. \A l : (l \in Reduced(e).leaves \/ l \in r.proof.leaves)
               <=> (l \in p.leaves \/ \E f \in Siblings(p) : l \in Reduced(f).leaves)
  BY <1>1, <1>8 DEF q
<1> HIDE DEF e
<1>14. Fits(p, {e}, {r})
  BY <1>2, <1>7, <1>9, <1>10, <1>11, <1>12, <1>13 DEF Fits
<1> QED BY <1>14

(* Whichever way it is.                                                    *)
LEMMA TreeFits ==
    ASSUME ShardsApart, NEW p, Ready(p), Park(p) \/ Combine(p)
    PROVE  \E N, R : Fits(p, N, R)
<1>1. Joined(p) \/ Batched(p) \/ Halved(p)
  BY ThreeWays DEF Ready
<1> QED BY <1>1, JoinedFits, BatchedFits, HalvedFits
-----------------------------------------------------------------------------
(* The line.                                                               *)

(* The line is the queue and, at its end, the proof held back.             *)
LEMMA LineFacts ==
    ASSUME TypeOK
    PROVE  /\ Line \in Seq(Proofs) /\ Len(Line) \in Nat /\ Len(proofQueue) \in Nat
           /\ Len(Line) = Len(proofQueue) + (IF lastCoreProof = None THEN 0 ELSE 1)
           /\ \A i \in 1..Len(proofQueue) : i \in 1..Len(Line) /\ Line[i] = proofQueue[i]
           /\ \A i \in 1..Len(Line) : Line[i] \in Proofs
           /\ lastCoreProof # None => Line[Len(Line)] = lastCoreProof
<1>1. /\ proofQueue \in Seq(Proofs) /\ lastCoreProof \in Proofs \cup {None}
  BY DEF TypeOK
<1>2. Len(proofQueue) \in Nat
  BY <1>1
<1>3. CASE lastCoreProof = None
  <2>1. Line = proofQueue
    BY <1>3 DEF Line, Send
  <2> QED BY <1>1, <1>2, <1>3, <2>1
<1>4. CASE lastCoreProof # None
  <2>1. Line = Append(proofQueue, lastCoreProof) /\ lastCoreProof \in Proofs
    BY <1>1, <1>4 DEF Line, Send
  <2>2. /\ Line \in Seq(Proofs) /\ Len(Line) = Len(proofQueue) + 1
        /\ \A i \in 1..Len(proofQueue) : Line[i] = proofQueue[i]
        /\ Line[Len(proofQueue) + 1] = lastCoreProof
    BY <1>1, <2>1
  <2>3. \A i \in 1..Len(proofQueue) : i \in 1..Len(Line)
    BY <1>2, <2>2
  <2>4. \A i \in 1..Len(Line) : Line[i] \in Proofs
    BY <2>2
  <2> QED BY <1>2, <1>4, <2>2, <2>3, <2>4
<1> QED BY <1>3, <1>4

(* A proof comes into the line, at place k.                                *)
Inserted(x, k) ==
    /\ k \in 1..(Len(Line) + 1)
    /\ Len(Line') = Len(Line) + 1
    /\ \A i \in 1..Len(Line') : Line'[i] = IF i < k THEN Line[i]
                                           ELSE IF i = k THEN x ELSE Line[i - 1]

(* The first leaves it.                                                    *)
Departed ==
    /\ Len(Line) > 0
    /\ Len(Line') = Len(Line) - 1
    /\ \A i \in 1..Len(Line') : Line'[i] = Line[i + 1]

(* What is in the line after that.                                         *)
LEMMA InsertedFacts ==
    ASSUME TypeOK, NEW x, NEW k, Inserted(x, k)
    PROVE  /\ \A i \in 1..Len(Line') :
                 Line'[i] = x \/ \E j \in 1..Len(Line) : Line'[i] = Line[j]
           /\ \A j \in 1..Len(Line) : \E i \in 1..Len(Line') : Line'[i] = Line[j]
           /\ k \in 1..Len(Line') /\ Line'[k] = x
           /\ \A i, j \in 1..Len(Line') : i < j =>
                 \/ Line'[i] = x /\ \E m \in 1..Len(Line) : Line'[j] = Line[m]
                 \/ Line'[j] = x /\ \E m \in 1..Len(Line) : Line'[i] = Line[m]
                 \/ \E m, n \in 1..Len(Line) : m # n /\ Line'[i] = Line[m] /\ Line'[j] = Line[n]
<1> DEFINE c == Len(Line)
           d == Len(Line')
<1>0. /\ c \in Nat /\ d = c + 1 /\ k \in 1..(c + 1)
      /\ \A i \in 1..d : Line'[i] = IF i < k THEN Line[i] ELSE IF i = k THEN x ELSE Line[i - 1]
  BY LineFacts DEF Inserted
<1> HIDE DEF c, d
<1>1. ASSUME NEW i \in 1..d, i < k PROVE i \in 1..c /\ Line'[i] = Line[i]
  BY <1>0, <1>1
<1>2. k \in 1..d /\ Line'[k] = x
  BY <1>0
<1>3. ASSUME NEW i \in 1..d, i > k PROVE i - 1 \in 1..c /\ Line'[i] = Line[i - 1]
  BY <1>0, <1>3
<1>4. ASSUME NEW i \in 1..d PROVE Line'[i] = x \/ \E j \in 1..c : Line'[i] = Line[j]
  <2>1. i < k \/ i = k \/ i > k
    BY <1>0
  <2> QED BY <1>1, <1>2, <1>3, <2>1
<1>5. ASSUME NEW j \in 1..c PROVE \E i \in 1..d : Line'[i] = Line[j]
  <2>1. CASE j < k
    <3>1. j \in 1..d
      BY <1>0
    <3> QED BY <1>1, <2>1, <3>1
  <2>2. CASE ~(j < k)
    <3>1. j + 1 \in 1..d /\ j + 1 > k /\ (j + 1) - 1 = j
      BY <1>0, <2>2
    <3> QED BY <1>3, <3>1
  <2> QED BY <2>1, <2>2
<1>6. ASSUME NEW i \in 1..d, NEW j \in 1..d, i < j
      PROVE  \/ Line'[i] = x /\ \E m \in 1..c : Line'[j] = Line[m]
             \/ Line'[j] = x /\ \E m \in 1..c : Line'[i] = Line[m]
             \/ \E m, n \in 1..c : m # n /\ Line'[i] = Line[m] /\ Line'[j] = Line[n]
  <2>1. CASE i = k
    <3>1. j > k
      BY <1>6, <2>1
    <3> QED BY <1>2, <1>3, <2>1, <3>1
  <2>2. CASE j = k
    <3>1. i < k
      BY <1>6, <2>2
    <3> QED BY <1>1, <1>2, <2>2, <3>1
  <2>3. CASE j < k
    <3>1. i < k /\ i # j
      BY <1>0, <1>6, <2>3
    <3> QED BY <1>1, <2>3, <3>1
  <2>4. CASE i > k
    <3>1. j > k /\ i - 1 # j - 1
      BY <1>0, <1>6, <2>4
    <3> QED BY <1>3, <2>4, <3>1
  <2>5. CASE i < k /\ j > k
    <3>1. i # j - 1
      BY <1>0, <2>5
    <3> QED BY <1>1, <1>3, <2>5, <3>1
  <2>6. i = k \/ j = k \/ j < k \/ i > k \/ (i < k /\ j > k)
    BY <1>0
  <2> QED BY <2>1, <2>2, <2>3, <2>4, <2>5, <2>6
<1> QED BY <1>2, <1>4, <1>5, <1>6 DEF c, d

(* A proof that has nothing in common with the others may come into the    *)
(* line; a reduce task may end.                                            *)
LEMMA UnitsInsert ==
    ASSUME TypeOK, Shape, Pairs, NEW x, NEW k, Inserted(x, k), Fine(x),
           map' = map, reducing' \subseteq reducing,
           \A i \in 1..Len(Line) : Separate(x, Line[i]),
           \A e \in map : Separate(x, Reduced(e)),
           \A r \in reducing' : Separate(x, r.proof)
    PROVE  Shape' /\ Pairs'
<1>0. /\ TreeSound /\ LineFine /\ ReducingFine /\ EntriesApart
      /\ LineApart /\ LineTree /\ LineReducing /\ TreeApart /\ TreeReducing /\ ReducingApart
  BY DEF Shape, Pairs
<1>1. /\ \A i \in 1..Len(Line') : Line'[i] = x \/ \E j \in 1..Len(Line) : Line'[i] = Line[j]
      /\ \A i, j \in 1..Len(Line') : i < j =>
            \/ Line'[i] = x /\ \E m \in 1..Len(Line) : Line'[j] = Line[m]
            \/ Line'[j] = x /\ \E m \in 1..Len(Line) : Line'[i] = Line[m]
            \/ \E m, n \in 1..Len(Line) : m # n /\ Line'[i] = Line[m] /\ Line'[j] = Line[n]
  BY InsertedFacts
<1>2. TreeSound' /\ EntriesApart' /\ TreeApart'
  BY <1>0 DEF TreeSound, EntriesApart, TreeApart
<1>3. ReducingFine' /\ ReducingApart' /\ TreeReducing'
  BY <1>0 DEF ReducingFine, ReducingApart, TreeReducing
<1>4. LineFine'
  <2> SUFFICES ASSUME NEW i \in 1..Len(Line') PROVE Fine(Line'[i])
    BY DEF LineFine
  <2> QED BY <1>0, <1>1 DEF LineFine
<1>5. LineTree'
  <2> SUFFICES ASSUME NEW i \in 1..Len(Line'), NEW e \in map PROVE Separate(Line'[i], Reduced(e))
    BY DEF LineTree
  <2> QED BY <1>0, <1>1 DEF LineTree
<1>6. LineReducing'
  <2> SUFFICES ASSUME NEW i \in 1..Len(Line'), NEW r \in reducing' PROVE Separate(Line'[i], r.proof)
    BY DEF LineReducing
  <2> QED BY <1>0, <1>1 DEF LineReducing
<1>7. LineApart'
  <2>1. ASSUME NEW i \in 1..Len(Line'), NEW j \in 1..Len(Line'), i < j
        PROVE  Separate(Line'[i], Line'[j])
    <3>1. \A m \in 1..Len(Line) : Separate(x, Line[m]) /\ Separate(Line[m], x)
      BY SeparateSym
    <3>2. \A m, n \in 1..Len(Line) : m # n => Separate(Line[m], Line[n])
      BY <1>0 DEF LineApart
    <3>3. \/ Line'[i] = x /\ \E m \in 1..Len(Line) : Line'[j] = Line[m]
          \/ Line'[j] = x /\ \E m \in 1..Len(Line) : Line'[i] = Line[m]
          \/ \E m, n \in 1..Len(Line) : m # n /\ Line'[i] = Line[m] /\ Line'[j] = Line[n]
      BY <1>1, <2>1
    <3> QED BY <3>1, <3>2, <3>3
  <2> SUFFICES ASSUME NEW i \in 1..Len(Line'), NEW j \in 1..Len(Line'), i # j
               PROVE  Separate(Line'[i], Line'[j])
    BY DEF LineApart
  <2>2. i < j \/ j < i
    OBVIOUS
  <2> QED BY <2>1, <2>2, SeparateSym
<1> QED BY <1>2, <1>3, <1>4, <1>5, <1>6, <1>7 DEF Shape, Pairs

(* The first proof of the line is ready for the tree, and whatever else is *)
(* at hand, apart from its siblings, is foreign to it.                     *)
LEMMA HeadReady ==
    ASSUME ShardsApart, TypeOK, EntriesAreRuns, Shape, Pairs, Len(Line) > 0
    PROVE  /\ Ready(Line[1])
           /\ \A i \in 2..Len(Line) : Foreign(Line[i], Line[1])
           /\ \A e \in map \ Siblings(Line[1]) : Foreign(Reduced(e), Line[1])
           /\ \A r \in reducing : Foreign(r.proof, Line[1])
<1> DEFINE p == Line[1]
<1>0. /\ TreeSound /\ LineFine /\ ReducingFine /\ EntriesApart
      /\ LineApart /\ LineTree /\ LineReducing /\ TreeApart /\ TreeReducing /\ ReducingApart
  BY DEF Shape, Pairs
<1>1. Len(Line) \in Nat /\ 1 \in 1..Len(Line) /\ \A i \in 1..Len(Line) : Line[i] \in Proofs /\ Fine(Line[i])
  BY <1>0, LineFacts DEF LineFine
<1>2. \A e \in map : Separate(p, Reduced(e)) /\ Separate(Reduced(e), p)
  BY <1>0, <1>1, SeparateSym DEF LineTree
<1>3. Ready(p)
  BY <1>0, <1>1, <1>2 DEF Ready
<1>4. Siblings(p) \subseteq map
  BY SiblingsInMap DEF Siblings
<1>5. ASSUME NEW i \in 2..Len(Line) PROVE Foreign(Line[i], p)
  <2>1. i \in 1..Len(Line) /\ i # 1
    BY <1>1
  <2>2. Separate(Line[i], p) /\ \A e \in map : Separate(Line[i], Reduced(e))
    BY <1>0, <1>1, <2>1 DEF LineApart, LineTree
  <2> QED BY <1>1, <1>4, <2>1, <2>2 DEF Foreign
<1>6. ASSUME NEW e \in map \ Siblings(p) PROVE Foreign(Reduced(e), p)
  <2>1. Reduced(e) \in Proofs /\ Fine(Reduced(e))
    BY <1>0, EntryFacts
  <2>2. \A f \in Siblings(p) : Separate(Reduced(e), Reduced(f))
    BY <1>0, <1>4 DEF TreeApart
  <2> QED BY <1>2, <2>1, <2>2 DEF Foreign
<1>7. ASSUME NEW r \in reducing PROVE Foreign(r.proof, p)
  <2>1. r.proof \in Proofs /\ Fine(r.proof)
    BY <1>0 DEF TypeOK, ReducingFine
  <2>2. Separate(r.proof, p)
    BY <1>0, <1>1, SeparateSym DEF LineReducing
  <2>3. \A f \in Siblings(p) : Separate(r.proof, Reduced(f))
    BY <1>0, <1>4, SeparateSym DEF TreeReducing
  <2> QED BY <2>1, <2>2, <2>3 DEF Foreign
<1> QED BY <1>3, <1>5, <1>6, <1>7

(* A proof enters the tree: the shape and the separation are kept.         *)
LEMMA UnitsTree ==
    ASSUME ShardsApart, TypeOK, EntriesAreRuns, Shape, Pairs, Departed,
           NEW N, NEW R, Fits(Line[1], N, R)
    PROVE  Shape' /\ Pairs'
<1> DEFINE p == Line[1]
           rest == map \ Siblings(p)
<1>0. /\ TreeSound /\ LineFine /\ ReducingFine /\ EntriesApart
      /\ LineApart /\ LineTree /\ LineReducing /\ TreeApart /\ TreeReducing /\ ReducingApart
  BY DEF Shape, Pairs
<1>1. /\ Len(Line) > 0 /\ Len(Line') = Len(Line) - 1 /\ Len(Line) \in Nat
      /\ \A i \in 1..Len(Line') : i + 1 \in 2..Len(Line) /\ i + 1 \in 1..Len(Line) /\ Line'[i] = Line[i + 1]
  BY LineFacts DEF Departed
<1>2. /\ \A i \in 2..Len(Line) : Foreign(Line[i], p)
      /\ \A e \in rest : Foreign(Reduced(e), p)
      /\ \A r \in reducing : Foreign(r.proof, p)
  BY <1>1, HeadReady
<1>3. /\ map' = rest \cup N
      /\ reducing' = reducing \cup R
      /\ \A e, f \in N : e = f
      /\ \A r, s \in R : r = s
      /\ \A e \in N :
            /\ Sound(e.proofs)
            /\ \A f \in rest : Distant(f.range, e.range)
            /\ \A x : Foreign(x, p) => Separate(x, Reduced(e))
            /\ \A r \in R : Separate(Reduced(e), r.proof)
      /\ \A r \in R :
            /\ r.proof \in Proofs /\ Fine(r.proof)
            /\ \A x : Foreign(x, p) => Separate(x, r.proof)
  BY DEF Fits
<1>4. rest \subseteq map
  OBVIOUS
<1> HIDE DEF p, rest
<1>5. TreeSound'
  <2> SUFFICES ASSUME NEW e \in map' PROVE Sound(e.proofs)
    BY DEF TreeSound
  <2> QED BY <1>0, <1>3, <1>4 DEF TreeSound
<1>6. EntriesApart'
  <2> SUFFICES ASSUME NEW e \in map', NEW f \in map', e # f
               PROVE  e.range.end < f.range.start \/ f.range.end < e.range.start
    BY DEF EntriesApart
  <2>1. CASE e \in rest /\ f \in rest
    BY <1>0, <1>4, <2>1 DEF EntriesApart
  <2>2. CASE e \in rest /\ f \in N
    BY <1>3, <2>2 DEF Distant
  <2>3. CASE e \in N /\ f \in rest
    BY <1>3, <2>3 DEF Distant
  <2> QED BY <1>3, <2>1, <2>2, <2>3
<1>7. ReducingFine'
  <2> SUFFICES ASSUME NEW r \in reducing' PROVE Fine(r.proof)
    BY DEF ReducingFine
  <2> QED BY <1>0, <1>3 DEF ReducingFine
<1>8. LineFine'
  <2> SUFFICES ASSUME NEW i \in 1..Len(Line') PROVE Fine(Line'[i])
    BY DEF LineFine
  <2> QED BY <1>0, <1>1 DEF LineFine
<1>9. LineApart'
  <2> SUFFICES ASSUME NEW i \in 1..Len(Line'), NEW j \in 1..Len(Line'), i # j
               PROVE  Separate(Line'[i], Line'[j])
    BY DEF LineApart
  <2>1. i + 1 # j + 1
    OBVIOUS
  <2> QED BY <1>0, <1>1, <2>1 DEF LineApart
<1>10. LineTree'
  <2> SUFFICES ASSUME NEW i \in 1..Len(Line'), NEW e \in map' PROVE Separate(Line'[i], Reduced(e))
    BY DEF LineTree
  <2>1. CASE e \in rest
    BY <1>0, <1>1, <1>4, <2>1 DEF LineTree
  <2>2. CASE e \in N
    BY <1>1, <1>2, <1>3, <2>2
  <2> QED BY <1>3, <2>1, <2>2
<1>11. LineReducing'
  <2> SUFFICES ASSUME NEW i \in 1..Len(Line'), NEW r \in reducing' PROVE Separate(Line'[i], r.proof)
    BY DEF LineReducing
  <2>1. CASE r \in reducing
    BY <1>0, <1>1, <2>1 DEF LineReducing
  <2>2. CASE r \in R
    BY <1>1, <1>2, <1>3, <2>2
  <2> QED BY <1>3, <2>1, <2>2
<1>12. TreeApart'
  <2> SUFFICES ASSUME NEW e \in map', NEW f \in map', e # f
               PROVE  Separate(Reduced(e), Reduced(f))
    BY DEF TreeApart
  <2>1. CASE e \in rest /\ f \in rest
    BY <1>0, <1>4, <2>1 DEF TreeApart
  <2>2. CASE e \in rest /\ f \in N
    BY <1>2, <1>3, <2>2
  <2>3. CASE e \in N /\ f \in rest
    BY <1>2, <1>3, <2>3, SeparateSym
  <2> QED BY <1>3, <2>1, <2>2, <2>3
<1>13. TreeReducing'
  <2> SUFFICES ASSUME NEW e \in map', NEW r \in reducing' PROVE Separate(Reduced(e), r.proof)
    BY DEF TreeReducing
  <2>1. CASE e \in rest /\ r \in reducing
    BY <1>0, <1>4, <2>1 DEF TreeReducing
  <2>2. CASE e \in rest /\ r \in R
    BY <1>2, <1>3, <2>2
  <2>3. CASE e \in N /\ r \in reducing
    BY <1>2, <1>3, <2>3, SeparateSym
  <2>4. CASE e \in N /\ r \in R
    BY <1>3, <2>4
  <2> QED BY <1>3, <2>1, <2>2, <2>3, <2>4
<1>14. ReducingApart'
  <2> SUFFICES ASSUME NEW r \in reducing', NEW s \in reducing', r # s
               PROVE  Separate(r.proof, s.proof)
    BY DEF ReducingApart
  <2>1. CASE r \in reducing /\ s \in reducing
    BY <1>0, <2>1 DEF ReducingApart
  <2>2. CASE r \in reducing /\ s \in R
    BY <1>2, <1>3, <2>2
  <2>3. CASE r \in R /\ s \in reducing
    BY <1>2, <1>3, <2>3, SeparateSym
  <2> QED BY <1>3, <2>1, <2>2, <2>3
<1> QED BY <1>5, <1>6, <1>7, <1>8, <1>9, <1>10, <1>11, <1>12, <1>13, <1>14 DEF Shape, Pairs

(* ... and so they are when the first proof of the line leaves it as the   *)
(* output.                                                                 *)
LEMMA UnitsDepart ==
    ASSUME TypeOK, Shape, Pairs, Departed, map' = map, reducing' = reducing
    PROVE  Shape' /\ Pairs'
<1>0. /\ TreeSound /\ LineFine /\ ReducingFine /\ EntriesApart
      /\ LineApart /\ LineTree /\ LineReducing /\ TreeApart /\ TreeReducing /\ ReducingApart
  BY DEF Shape, Pairs
<1>1. \A i \in 1..Len(Line') : i + 1 \in 1..Len(Line) /\ Line'[i] = Line[i + 1]
  BY LineFacts DEF Departed
<1>2. TreeSound' /\ EntriesApart' /\ TreeApart'
  BY <1>0 DEF TreeSound, EntriesApart, TreeApart
<1>3. ReducingFine' /\ ReducingApart' /\ TreeReducing'
  BY <1>0 DEF ReducingFine, ReducingApart, TreeReducing
<1>4. LineFine' /\ LineTree' /\ LineReducing'
  BY <1>0, <1>1 DEF LineFine, LineTree, LineReducing
<1>5. LineApart'
  <2> SUFFICES ASSUME NEW i \in 1..Len(Line'), NEW j \in 1..Len(Line'), i # j
               PROVE  Separate(Line'[i], Line'[j])
    BY DEF LineApart
  <2>1. i + 1 # j + 1
    OBVIOUS
  <2> QED BY <1>0, <1>1, <2>1 DEF LineApart
<1> QED BY <1>2, <1>3, <1>4, <1>5 DEF Shape, Pairs
-----------------------------------------------------------------------------
(* The shards attested.                                                    *)

InLine(l) == \E i \in 1..Len(Line) : l \in Line[i].leaves
InTree(l) == \E e \in map : l \in Reduced(e).leaves
InReducing(l) == \E r \in reducing : l \in r.proof.leaves

AttestedThere == \A l : l \in Attested <=> InLine(l) \/ InTree(l) \/ InReducing(l)

(* The proofs at hand are those of Pool.                                   *)
LEMMA AttestedParts == TypeOK => AttestedThere
<1> SUFFICES ASSUME TypeOK, NEW l
             PROVE  l \in Attested <=> InLine(l) \/ InTree(l) \/ InReducing(l)
  BY DEF AttestedThere
<1>t. \A a, b, c : <<a, b, c>>[3] = c
  OBVIOUS
<1>0. l \in Attested <=> \E x \in Pool : l \in x[3].leaves
  BY DEF Attested
<1>1. \A x : x \in Pool <=> x \in HeldBack \/ x \in Queued
                              \/ (\E e \in map : x \in ProofsOf(e)) \/ x \in InFlight
  <2> DEFINE U == UNION {ProofsOf(e) : e \in map}
  <2>1. \A x : x \in U <=> \E e \in map : x \in ProofsOf(e)
    OBVIOUS
  <2>2. Pool = HeldBack \cup Queued \cup U \cup InFlight
    BY DEF Pool
  <2> HIDE DEF U
  <2> QED BY <2>1, <2>2
<1>2. (\E x \in HeldBack : l \in x[3].leaves) <=> lastCoreProof # None /\ l \in lastCoreProof.leaves
  <2> DEFINE y == <<"last", <<0, 0>>, lastCoreProof>>
  <2>1. y[3] = lastCoreProof
    BY <1>t
  <2>2. CASE lastCoreProof = None
    BY <2>2 DEF HeldBack
  <2>3. CASE lastCoreProof # None
    <3>1. HeldBack = {y}
      BY <2>3 DEF HeldBack
    <3> HIDE DEF y
    <3> QED BY <2>1, <2>3, <3>1
  <2> QED BY <2>2, <2>3
<1>3. (\E x \in Queued : l \in x[3].leaves)
         <=> \E i \in 1..Len(proofQueue) : l \in proofQueue[i].leaves
  <2> DEFINE y(i) == <<"queue", <<0, i>>, proofQueue[i]>>
  <2>1. \A i : y(i)[3] = proofQueue[i]
    BY <1>t
  <2>2. \A x : x \in Queued <=> \E i \in 1..Len(proofQueue) : x = y(i)
    BY DEF Queued
  <2> HIDE DEF y
  <2> QED BY <2>1, <2>2
<1>4. (\E x \in InFlight : l \in x[3].leaves) <=> InReducing(l)
  <2> DEFINE y(r) == <<"reduce", <<0, r.id>>, r.proof>>
  <2>1. \A r : y(r)[3] = r.proof
    BY <1>t
  <2>2. \A x : x \in InFlight <=> \E r \in reducing : x = y(r)
    BY DEF InFlight
  <2> HIDE DEF y
  <2> QED BY <2>1, <2>2 DEF InReducing
<1>5. ASSUME NEW e
      PROVE  (\E x \in ProofsOf(e) : l \in x[3].leaves) <=> l \in Reduced(e).leaves
  <2>1. Reduced(e).leaves = UNION {e.proofs[i].leaves : i \in 1..Len(e.proofs)}
    BY DEF Reduced
  <2>2. l \in Reduced(e).leaves <=> \E i \in 1..Len(e.proofs) : l \in e.proofs[i].leaves
    BY <2>1
  <2> DEFINE y(i) == <<"tree", <<e.range.start, i>>, e.proofs[i]>>
  <2>3. \A i : y(i)[3] = e.proofs[i]
    BY <1>t
  <2>4. \A x : x \in ProofsOf(e) <=> \E i \in 1..Len(e.proofs) : x = y(i)
    BY DEF ProofsOf
  <2> HIDE DEF y
  <2> QED BY <2>2, <2>3, <2>4
<1>6. (\E e \in map : \E x \in ProofsOf(e) : l \in x[3].leaves) <=> InTree(l)
  BY <1>5 DEF InTree
<1>7. InLine(l) <=> \/ lastCoreProof # None /\ l \in lastCoreProof.leaves
                    \/ \E i \in 1..Len(proofQueue) : l \in proofQueue[i].leaves
  <2>1. /\ Len(Line) \in Nat /\ Len(proofQueue) \in Nat
        /\ Len(Line) = Len(proofQueue) + (IF lastCoreProof = None THEN 0 ELSE 1)
        /\ \A i \in 1..Len(proofQueue) : i \in 1..Len(Line) /\ Line[i] = proofQueue[i]
        /\ lastCoreProof # None => Line[Len(Line)] = lastCoreProof
    BY LineFacts
  <2>2. ASSUME NEW i \in 1..Len(Line), i \notin 1..Len(proofQueue)
        PROVE  lastCoreProof # None /\ Line[i] = lastCoreProof
    <3>1. lastCoreProof # None /\ i = Len(Line)
      BY <2>1, <2>2
    <3> QED BY <2>1, <3>1
  <2>3. lastCoreProof # None => Len(Line) \in 1..Len(Line)
    BY <2>1
  <2>4. ASSUME NEW i \in 1..Len(Line), l \in Line[i].leaves
        PROVE  \/ lastCoreProof # None /\ l \in lastCoreProof.leaves
               \/ \E j \in 1..Len(proofQueue) : l \in proofQueue[j].leaves
    BY <2>1, <2>2, <2>4
  <2>5. ASSUME lastCoreProof # None, l \in lastCoreProof.leaves PROVE InLine(l)
    BY <2>1, <2>3, <2>5 DEF InLine
  <2>6. ASSUME NEW j \in 1..Len(proofQueue), l \in proofQueue[j].leaves PROVE InLine(l)
    BY <2>1, <2>6 DEF InLine
  <2> QED BY <2>4, <2>5, <2>6 DEF InLine
<1> QED BY <1>0, <1>1, <1>2, <1>3, <1>4, <1>6, <1>7

(* A proof comes into the line.                                            *)
LEMMA AttestedInsert ==
    ASSUME TypeOK, TypeOK', NEW x, NEW k, Inserted(x, k), map' = map
    PROVE  \A l : l \in Attested' <=>
              InLine(l) \/ l \in x.leaves \/ InTree(l) \/ \E r \in reducing' : l \in r.proof.leaves
<1>1. AttestedThere'
  BY AttestedParts, PTL
<1> SUFFICES ASSUME NEW l
             PROVE  l \in Attested' <=>
                      InLine(l) \/ l \in x.leaves \/ InTree(l) \/ \E r \in reducing' : l \in r.proof.leaves
  OBVIOUS
<1>2. InTree(l)' <=> InTree(l)
  BY DEF InTree
<1>3. InReducing(l)' <=> \E r \in reducing' : l \in r.proof.leaves
  BY DEF InReducing
<1>4. InLine(l)' <=> InLine(l) \/ l \in x.leaves
  <2>1. InLine(l)' <=> \E i \in 1..Len(Line') : l \in Line'[i].leaves
    BY DEF InLine
  <2>2. /\ \A i \in 1..Len(Line') : Line'[i] = x \/ \E j \in 1..Len(Line) : Line'[i] = Line[j]
        /\ \A j \in 1..Len(Line) : \E i \in 1..Len(Line') : Line'[i] = Line[j]
        /\ k \in 1..Len(Line') /\ Line'[k] = x
    BY InsertedFacts
  <2>3. ASSUME NEW i \in 1..Len(Line'), l \in Line'[i].leaves PROVE InLine(l) \/ l \in x.leaves
    BY <2>2, <2>3 DEF InLine
  <2>4. ASSUME NEW j \in 1..Len(Line), l \in Line[j].leaves PROVE InLine(l)'
    BY <2>1, <2>2, <2>4
  <2>5. ASSUME l \in x.leaves PROVE InLine(l)'
    BY <2>1, <2>2, <2>5
  <2> QED BY <2>1, <2>3, <2>4, <2>5 DEF InLine
<1> QED BY <1>1, <1>2, <1>3, <1>4 DEF AttestedThere

(* A proof enters the tree: what it attests stays attested.                *)
LEMMA AttestedTree ==
    ASSUME TypeOK, TypeOK', Departed, NEW N, NEW R, Fits(Line[1], N, R)
    PROVE  Attested' = Attested
<1> DEFINE p == Line[1]
           rest == map \ Siblings(p)
<1>1. AttestedThere /\ AttestedThere'
  BY AttestedParts, PTL
<1>2. /\ map' = rest \cup N /\ reducing' = reducing \cup R
      /\ \A l : ((\E e \in N : l \in Reduced(e).leaves) \/ (\E r \in R : l \in r.proof.leaves))
                  <=> (l \in p.leaves \/ \E e \in Siblings(p) : l \in Reduced(e).leaves)
  BY DEF Fits
<1>3. map = rest \cup Siblings(p)
  BY SiblingsInMap DEF Siblings
<1>4. /\ Len(Line) \in Nat /\ Len(Line) > 0 /\ Len(Line') = Len(Line) - 1
      /\ \A i \in 1..Len(Line') : Line'[i] = Line[i + 1]
  BY LineFacts DEF Departed
<1> HIDE DEF p, rest
<1>5. ASSUME NEW l PROVE InLine(l) <=> l \in p.leaves \/ InLine(l)'
  <2>0. InLine(l)' <=> \E i \in 1..Len(Line') : l \in Line'[i].leaves
    BY DEF InLine
  <2>1. ASSUME NEW i \in 1..Len(Line), l \in Line[i].leaves PROVE l \in p.leaves \/ InLine(l)'
    <3>1. CASE i = 1
      BY <2>1, <3>1 DEF p
    <3>2. CASE i # 1
      <4>1. i - 1 \in 1..Len(Line') /\ (i - 1) + 1 = i
        BY <1>4, <3>2
      <4> QED BY <1>4, <2>0, <2>1, <4>1
    <3> QED BY <3>1, <3>2
  <2>2. ASSUME NEW i \in 1..Len(Line'), l \in Line'[i].leaves PROVE InLine(l)
    <3>1. i + 1 \in 1..Len(Line)
      BY <1>4
    <3> QED BY <1>4, <2>2, <3>1 DEF InLine
  <2>3. ASSUME l \in p.leaves PROVE InLine(l)
    <3>1. 1 \in 1..Len(Line)
      BY <1>4
    <3> QED BY <2>3, <3>1 DEF InLine, p
  <2> QED BY <2>0, <2>1, <2>2, <2>3 DEF InLine
<1>6. ASSUME NEW l
      PROVE  /\ InTree(l) <=> (\E e \in rest : l \in Reduced(e).leaves)
                              \/ (\E e \in Siblings(p) : l \in Reduced(e).leaves)
             /\ InTree(l)' <=> (\E e \in rest : l \in Reduced(e).leaves)
                               \/ (\E e \in N : l \in Reduced(e).leaves)
             /\ InReducing(l)' <=> InReducing(l) \/ (\E r \in R : l \in r.proof.leaves)
  <2>1. InTree(l) <=> \E e \in rest \cup Siblings(p) : l \in Reduced(e).leaves
    BY <1>3 DEF InTree
  <2>2. InTree(l)' <=> \E e \in rest \cup N : l \in Reduced(e).leaves
    BY <1>2 DEF InTree
  <2>3. InReducing(l)' <=> \E r \in reducing \cup R : l \in r.proof.leaves
    BY <1>2 DEF InReducing
  <2> QED BY <2>1, <2>2, <2>3 DEF InReducing
<1>7. ASSUME NEW l PROVE l \in Attested <=> l \in Attested'
  BY <1>1, <1>2, <1>5, <1>6 DEF AttestedThere
<1> QED BY <1>7

(* No shard is attested by two of the proofs of Pool.                      *)
LEMMA PoolApart ==
    ASSUME TypeOK, Shape, Pairs, NEW x \in Pool, NEW y \in Pool, x # y
    PROVE  x[3].leaves \cap y[3].leaves = {}
<1>0. /\ TreeSound /\ LineApart /\ LineTree /\ LineReducing /\ TreeApart /\ TreeReducing /\ ReducingApart
  BY DEF Shape, Pairs
<1>t. \A a, b, c : <<a, b, c>>[3] = c
  OBVIOUS
<1> DEFINE lineOf(z) == \E i \in 1..Len(Line) : /\ z[3] = Line[i]
                                                /\ z = IF i \in 1..Len(proofQueue)
                                                       THEN <<"queue", <<0, i>>, Line[i]>>
                                                       ELSE <<"last", <<0, 0>>, lastCoreProof>>
           treeOf(z) == \E e \in map : \E i \in 1..Len(e.proofs) :
                           z[3] = e.proofs[i] /\ z = <<"tree", <<e.range.start, i>>, e.proofs[i]>>
           reduceOf(z) == \E r \in reducing : z[3] = r.proof /\ z = <<"reduce", <<0, r.id>>, r.proof>>
<1>1. /\ Len(Line) \in Nat /\ Len(proofQueue) \in Nat
      /\ Len(Line) = Len(proofQueue) + (IF lastCoreProof = None THEN 0 ELSE 1)
      /\ \A i \in 1..Len(proofQueue) : i \in 1..Len(Line) /\ Line[i] = proofQueue[i]
      /\ lastCoreProof # None => Line[Len(Line)] = lastCoreProof
  BY LineFacts
<1>2. ASSUME NEW z \in HeldBack PROVE lineOf(z)
  <2>1. lastCoreProof # None /\ z = <<"last", <<0, 0>>, lastCoreProof>>
    BY DEF HeldBack
  <2>2. Len(Line) \in 1..Len(Line) /\ Len(Line) \notin 1..Len(proofQueue)
    BY <1>1, <2>1
  <2> QED BY <1>1, <1>t, <2>1, <2>2
<1>3. ASSUME NEW z \in Queued PROVE lineOf(z)
  <2>1. PICK i \in 1..Len(proofQueue) : z = <<"queue", <<0, i>>, proofQueue[i]>>
    BY DEF Queued
  <2> QED BY <1>1, <1>t, <2>1
<1>4. ASSUME NEW z \in InFlight PROVE reduceOf(z)
  BY <1>t DEF InFlight
<1>5. ASSUME NEW e \in map, NEW z \in ProofsOf(e) PROVE treeOf(z)
  BY <1>t DEF ProofsOf
<1>6. \A z \in Pool : lineOf(z) \/ treeOf(z) \/ reduceOf(z)
  <2> DEFINE U == UNION {ProofsOf(e) : e \in map}
  <2>1. \A z \in U : \E e \in map : z \in ProofsOf(e)
    OBVIOUS
  <2>2. Pool = HeldBack \cup Queued \cup U \cup InFlight
    BY DEF Pool
  <2> HIDE DEF U, lineOf, treeOf, reduceOf
  <2> QED BY <1>2, <1>3, <1>4, <1>5, <2>1, <2>2
<1>7. ASSUME NEW e \in map, NEW i \in 1..Len(e.proofs) PROVE e.proofs[i].leaves \subseteq Reduced(e).leaves
  <2>1. Reduced(e).leaves = UNION {e.proofs[j].leaves : j \in 1..Len(e.proofs)}
    BY DEF Reduced
  <2> QED BY <2>1
<1>8. ASSUME lineOf(x), lineOf(y) PROVE x[3].leaves \cap y[3].leaves = {}
  <2>1. PICK i \in 1..Len(Line) : /\ x[3] = Line[i]
                                  /\ x = IF i \in 1..Len(proofQueue)
                                         THEN <<"queue", <<0, i>>, Line[i]>>
                                         ELSE <<"last", <<0, 0>>, lastCoreProof>>
    BY <1>8
  <2>2. PICK j \in 1..Len(Line) : /\ y[3] = Line[j]
                                  /\ y = IF j \in 1..Len(proofQueue)
                                         THEN <<"queue", <<0, j>>, Line[j]>>
                                         ELSE <<"last", <<0, 0>>, lastCoreProof>>
    BY <1>8
  <2>3. i # j
    BY <2>1, <2>2
  <2> QED BY <1>0, <2>1, <2>2, <2>3 DEF LineApart, Separate
<1>9. ASSUME treeOf(x), treeOf(y) PROVE x[3].leaves \cap y[3].leaves = {}
  <2>1. PICK e \in map : \E i \in 1..Len(e.proofs) :
                           x[3] = e.proofs[i] /\ x = <<"tree", <<e.range.start, i>>, e.proofs[i]>>
    BY <1>9
  <2>2. PICK i \in 1..Len(e.proofs) :
                           x[3] = e.proofs[i] /\ x = <<"tree", <<e.range.start, i>>, e.proofs[i]>>
    BY <2>1
  <2>3. PICK f \in map : \E j \in 1..Len(f.proofs) :
                           y[3] = f.proofs[j] /\ y = <<"tree", <<f.range.start, j>>, f.proofs[j]>>
    BY <1>9
  <2>4. PICK j \in 1..Len(f.proofs) :
                           y[3] = f.proofs[j] /\ y = <<"tree", <<f.range.start, j>>, f.proofs[j]>>
    BY <2>3
  <2>5. CASE e = f
    <3>1. i # j
      BY <2>2, <2>4, <2>5
    <3> QED BY <1>0, <2>2, <2>4, <2>5, <3>1 DEF TreeSound, Sound
  <2>6. CASE e # f
    <3>1. Reduced(e).leaves \cap Reduced(f).leaves = {}
      BY <1>0, <2>6 DEF TreeApart, Separate
    <3> QED BY <1>7, <2>2, <2>4, <3>1
  <2> QED BY <2>5, <2>6
<1>10. ASSUME reduceOf(x), reduceOf(y) PROVE x[3].leaves \cap y[3].leaves = {}
  <2>1. PICK r \in reducing : x[3] = r.proof /\ x = <<"reduce", <<0, r.id>>, r.proof>>
    BY <1>10
  <2>2. PICK s \in reducing : y[3] = s.proof /\ y = <<"reduce", <<0, s.id>>, s.proof>>
    BY <1>10
  <2>3. r # s
    BY <2>1, <2>2
  <2> QED BY <1>0, <2>1, <2>2, <2>3 DEF ReducingApart, Separate
<1>11. ASSUME NEW w, NEW z, lineOf(w), treeOf(z) PROVE w[3].leaves \cap z[3].leaves = {}
  <2>1. PICK i \in 1..Len(Line) : w[3] = Line[i]
    BY <1>11
  <2>2. PICK e \in map : \E k \in 1..Len(e.proofs) : z[3] = e.proofs[k]
    BY <1>11
  <2>3. PICK k \in 1..Len(e.proofs) : z[3] = e.proofs[k]
    BY <2>2
  <2>4. Line[i].leaves \cap Reduced(e).leaves = {}
    BY <1>0 DEF LineTree, Separate
  <2> QED BY <1>7, <2>1, <2>3, <2>4
<1>12. ASSUME NEW w, NEW z, lineOf(w), reduceOf(z) PROVE w[3].leaves \cap z[3].leaves = {}
  BY <1>0, <1>12 DEF LineReducing, Separate
<1>13. ASSUME NEW w, NEW z, treeOf(w), reduceOf(z) PROVE w[3].leaves \cap z[3].leaves = {}
  <2>1. PICK r \in reducing : z[3] = r.proof
    BY <1>13
  <2>2. PICK e \in map : \E k \in 1..Len(e.proofs) : w[3] = e.proofs[k]
    BY <1>13
  <2>3. PICK k \in 1..Len(e.proofs) : w[3] = e.proofs[k]
    BY <2>2
  <2>4. Reduced(e).leaves \cap r.proof.leaves = {}
    BY <1>0 DEF TreeReducing, Separate
  <2> QED BY <1>7, <2>1, <2>3, <2>4
<1> HIDE DEF lineOf, treeOf, reduceOf
<1>14. (lineOf(x) \/ treeOf(x) \/ reduceOf(x)) /\ (lineOf(y) \/ treeOf(y) \/ reduceOf(y))
  BY <1>6
<1>15. \A a, b : a \cap b = {} => b \cap a = {}
  OBVIOUS
<1> QED BY <1>8, <1>9, <1>10, <1>11, <1>12, <1>13, <1>14, <1>15
-----------------------------------------------------------------------------
(* The line and the steps.                                                 *)

(* A proof is queued.                                                      *)
LEMMA LineQueued ==
    ASSUME TypeOK, NEW x \in Proofs, proofQueue' = Append(proofQueue, x),
           lastCoreProof' = lastCoreProof
    PROVE  Inserted(x, Len(proofQueue) + 1)
<1> DEFINE n == Len(proofQueue)
<1>1. /\ proofQueue \in Seq(Proofs) /\ lastCoreProof \in Proofs \cup {None}
      /\ n \in Nat
  BY DEF TypeOK
<1>2. /\ proofQueue' \in Seq(Proofs) /\ Len(proofQueue') = n + 1
      /\ \A i \in 1..n : proofQueue'[i] = proofQueue[i]
      /\ proofQueue'[n + 1] = x
  BY <1>1
<1>3. CASE lastCoreProof = None
  <2>1. Line = proofQueue /\ Line' = proofQueue'
    BY <1>3 DEF Line, Send
  <2>2. ASSUME NEW i \in 1..(n + 1)
        PROVE  proofQueue'[i] = IF i < n + 1 THEN proofQueue[i]
                                ELSE IF i = n + 1 THEN x ELSE proofQueue[i - 1]
    BY <1>1, <1>2
  <2>3. n + 1 \in 1..(n + 1)
    BY <1>1
  <2> QED BY <1>2, <2>1, <2>2, <2>3 DEF Inserted
<1>4. CASE lastCoreProof # None
  <2>1. Line = Append(proofQueue, lastCoreProof) /\ Line' = Append(proofQueue', lastCoreProof)
    BY <1>4 DEF Line, Send
  <2>2. /\ Len(Line) = n + 1
        /\ \A i \in 1..n : Line[i] = proofQueue[i]
        /\ Line[n + 1] = lastCoreProof
    BY <1>1, <1>4, <2>1
  <2>3. /\ Len(Line') = n + 2
        /\ \A i \in 1..(n + 1) : Line'[i] = proofQueue'[i]
        /\ Line'[n + 2] = lastCoreProof
    BY <1>1, <1>2, <1>4, <2>1
  <2> HIDE DEF n
  <2>4. ASSUME NEW i \in 1..(n + 2)
        PROVE  Line'[i] = IF i < n + 1 THEN Line[i] ELSE IF i = n + 1 THEN x ELSE Line[i - 1]
    <3>1. CASE i < n + 1
      <4>1. i \in 1..n /\ i \in 1..(n + 1)
        BY <1>1, <3>1
      <4> QED BY <1>2, <2>2, <2>3, <3>1, <4>1
    <3>2. CASE i = n + 1
      <4>1. n + 1 \in 1..(n + 1) /\ ~(n + 1 < n + 1)
        BY <1>1
      <4> QED BY <1>2, <2>3, <3>2, <4>1
    <3>3. CASE i = n + 2
      <4>1. i - 1 = n + 1 /\ ~(i < n + 1) /\ i # n + 1
        BY <1>1, <3>3
      <4> QED BY <2>2, <2>3, <3>3, <4>1
    <3> QED BY <1>1, <3>1, <3>2, <3>3
  <2>5. n + 1 \in 1..(Len(Line) + 1) /\ Len(Line') = Len(Line) + 1
    BY <1>1, <2>2, <2>3
  <2> QED BY <2>3, <2>4, <2>5 DEF Inserted, n
<1> QED BY <1>3, <1>4

(* A shard proof is ready: it comes to the end of the line, and the one    *)
(* held back is queued.                                                    *)
LEMMA LineShard ==
    ASSUME TypeOK, NEW t \in Tasks, ShardProofReady(t)
    PROVE  Inserted(ToProof(t), Len(Line) + 1)
<1> DEFINE n == Len(Line)
<1>1. Line \in Seq(Proofs) /\ n \in Nat
  BY LineFacts
<1>2. ToProof(t) \in Proofs /\ ToProof(t) # None
  BY ToProofType, NoneAssumption
<1>3. Line' = Append(Line, ToProof(t))
  <2>1. CASE numCoreProofs = completed'
    <3>1. proofQueue' = Append(Line, ToProof(t)) /\ lastCoreProof' = None
      BY <2>1 DEF ShardProofReady, Line
    <3> QED BY <3>1 DEF Line, Send
  <2>2. CASE numCoreProofs # completed'
    <3>1. proofQueue' = Line /\ lastCoreProof' = ToProof(t)
      BY <2>2 DEF ShardProofReady, Line
    <3>2. Line' = Send(proofQueue', lastCoreProof')
      BY DEF Line, Send
    <3>3. Line' = Append(proofQueue', lastCoreProof')
      BY <1>2, <3>1, <3>2 DEF Send
    <3> QED BY <3>1, <3>3
  <2> QED BY <2>1, <2>2
<1>4. /\ Len(Line') = n + 1 /\ Line'[n + 1] = ToProof(t)
      /\ \A i \in 1..n : Line'[i] = Line[i]
  BY <1>1, <1>2, <1>3
<1> HIDE DEF n
<1>5. ASSUME NEW i \in 1..(n + 1)
      PROVE  Line'[i] = IF i < n + 1 THEN Line[i] ELSE IF i = n + 1 THEN ToProof(t) ELSE Line[i - 1]
  BY <1>1, <1>4
<1>6. n + 1 \in 1..(n + 1)
  BY <1>1
<1> QED BY <1>4, <1>5, <1>6 DEF Inserted, n

(* A proof is received.                                                    *)
LEMMA LineReceived ==
    ASSUME TypeOK, proofQueue # <<>>, proofQueue' = Tail(proofQueue), lastCoreProof' = lastCoreProof
    PROVE  Departed /\ Line[1] = Head(proofQueue)
<1> DEFINE n == Len(proofQueue)
<1>1. /\ proofQueue \in Seq(Proofs) /\ lastCoreProof \in Proofs \cup {None}
      /\ n \in Nat
  BY DEF TypeOK
<1>2. /\ n > 0 /\ proofQueue' \in Seq(Proofs) /\ Len(proofQueue') = n - 1
      /\ \A i \in 1..(n - 1) : proofQueue'[i] = proofQueue[i + 1]
      /\ proofQueue[1] = Head(proofQueue)
  BY <1>1
<1>3. CASE lastCoreProof = None
  <2>1. Line = proofQueue /\ Line' = proofQueue'
    BY <1>3 DEF Line, Send
  <2> QED BY <1>2, <2>1 DEF Departed
<1>4. CASE lastCoreProof # None
  <2>1. Line = Append(proofQueue, lastCoreProof) /\ Line' = Append(proofQueue', lastCoreProof)
    BY <1>4 DEF Line, Send
  <2>2. /\ Len(Line) = n + 1
        /\ \A i \in 1..n : Line[i] = proofQueue[i]
        /\ Line[n + 1] = lastCoreProof
    BY <1>1, <1>4, <2>1
  <2>3. /\ Len(Line') = n
        /\ \A i \in 1..(n - 1) : Line'[i] = proofQueue'[i]
        /\ Line'[n] = lastCoreProof
    BY <1>1, <1>2, <1>4, <2>1
  <2> HIDE DEF n
  <2>4. ASSUME NEW i \in 1..n PROVE Line'[i] = Line[i + 1]
    <3>1. CASE i = n
      BY <2>2, <2>3, <3>1
    <3>2. CASE i # n
      <4>1. i \in 1..(n - 1) /\ i + 1 \in 1..n
        BY <1>1, <3>2
      <4> QED BY <1>2, <2>2, <2>3, <4>1
    <3> QED BY <3>1, <3>2
  <2>5. Len(Line) > 0 /\ Len(Line') = Len(Line) - 1 /\ 1 \in 1..n
    BY <1>1, <1>2, <2>2, <2>3
  <2> QED BY <1>2, <2>2, <2>3, <2>4, <2>5 DEF Departed
<1> QED BY <1>3, <1>4

(* The number of proofs is received: one that was held back is queued.     *)
LEMMA LineNumber ==
    ASSUME ReceiveNumCoreProofs
    PROVE  Line' = Line
<1>1. CASE completed = counted
  <2>1. proofQueue' = Line /\ lastCoreProof' = None
    BY <1>1 DEF ReceiveNumCoreProofs, Line
  <2> QED BY <2>1 DEF Line, Send
<1>2. CASE completed # counted
  <2>1. proofQueue' = proofQueue /\ lastCoreProof' = lastCoreProof
    BY <1>2 DEF ReceiveNumCoreProofs
  <2> QED BY <2>1 DEF Line, Send
<1> QED BY <1>1, <1>2

(* Nothing of this changes.                                                *)
LEMMA UnitsSame ==
    ASSUME TypeOK, TypeOK', Line' = Line, map' = map, reducing' = reducing
    PROVE  /\ Shape /\ Pairs => Shape' /\ Pairs'
           /\ Attested' = Attested
<1>1. TreeSound' = TreeSound /\ EntriesApart' = EntriesApart /\ TreeApart' = TreeApart
  BY DEF TreeSound, EntriesApart, TreeApart
<1>2. ReducingFine' = ReducingFine /\ ReducingApart' = ReducingApart /\ TreeReducing' = TreeReducing
  BY DEF ReducingFine, ReducingApart, TreeReducing
<1>3. /\ LineFine' = LineFine /\ LineTree' = LineTree /\ LineReducing' = LineReducing
      /\ LineApart' = LineApart
  BY DEF LineFine, LineTree, LineReducing, LineApart
<1>4. AttestedThere /\ AttestedThere'
  BY AttestedParts, PTL
<1>5. \A l : /\ InLine(l)' <=> InLine(l)
             /\ InTree(l)' <=> InTree(l)
             /\ InReducing(l)' <=> InReducing(l)
  BY DEF InLine, InTree, InReducing
<1>6. \A l : l \in Attested' <=> l \in Attested
  BY <1>4, <1>5 DEF AttestedThere
<1> QED BY <1>1, <1>2, <1>3, <1>6 DEF Shape, Pairs
-----------------------------------------------------------------------------
(* The shards that the intake took on: those that wait for their proof,    *)
(* and those attested.  One of every range was taken that has been seen,   *)
(* and every precompile shard seen.                                        *)
Waiting == ({handling} \ {None}) \cup coreProofMap
Taken == Waiting \cup Attested

TakenOnce == \A t, u \in Taken : t # u => RangeOf[t] = Precompile \/ RangeOf[t] # RangeOf[u]

TakenInv ==
    /\ Waiting \cap Attested = {}
    /\ Taken \subseteq seenTasks
    /\ \A t \in seenTasks : RangeOf[t] = Precompile \/ RangeOf[t] \in seenRanges
    /\ TakenOnce
    /\ \A t \in seenTasks : RangeOf[t] = Precompile => t \in Taken
    /\ \A r \in seenRanges : \E t \in Taken : RangeOf[t] = r
    /\ numChannel # "empty" => AllSent

(* What the loop has counted and measured.                                 *)
MaxInv ==
    /\ completed = Cardinality(Attested)
    /\ maxRange.start = 0
    /\ \A l \in Attested : RangeOf[l].end <= maxRange.end
    /\ \/ Attested = {} /\ maxRange.end = 0
       \/ \E l \in Attested : RangeOf[l].end = maxRange.end
    /\ fullRange = None /\ completed > 0 => lastCoreProof # None
    /\ lastCoreProof # None => \E t \in Tasks : lastCoreProof = ToProof(t)

(* A shard that waits has nothing in common with what is at hand.          *)
LEMMA ShardSeparate ==
    ASSUME ShardsApart, TakenInv, NEW t \in Waiting, t \in Tasks,
           NEW x \in Proofs, Fine(x), x.leaves \subseteq Attested
    PROVE  Separate(ToProof(t), x)
<1>1. ToProof(t).leaves = {t} /\ ToProof(t).range = RangeOf[t]
  BY DEF ToProof
<1>2. t \notin Attested /\ t \in Taken
  BY DEF TakenInv, Taken
<1>3. Apart(RangeOf[t], x.range)
  <2>1. CASE \E l \in x.leaves : RangeOf[l] = RangeOf[t]
    <3>1. PICK l \in x.leaves : RangeOf[l] = RangeOf[t]
      BY <2>1
    <3>2. l # t /\ l \in Taken
      BY <1>2 DEF Taken
    <3>3. RangeOf[t] = Precompile
      BY <1>2, <3>1, <3>2 DEF TakenInv, TakenOnce
    <3>4. x.range.start \in Nat
      BY ProofFacts
    <3> QED BY <3>3, <3>4 DEF Apart, Precompile
  <2>2. CASE ~ \E l \in x.leaves : RangeOf[l] = RangeOf[t]
    BY <2>2 DEF Fine
  <2> QED BY <2>1, <2>2
<1> QED BY <1>1, <1>2, <1>3 DEF Separate

(* Nothing new is seen, and nothing is taken or lost.                      *)
LEMMA TakenKept ==
    ASSUME TakenInv, Taken' = Taken, (Waiting \cap Attested)' = {},
           seenTasks' = seenTasks, seenRanges' = seenRanges,
           numChannel' = numChannel \/ AllSent
    PROVE  TakenInv'
<1>1. AllSent' = AllSent
  BY DEF AllSent
<1>2. TakenOnce' = TakenOnce
  BY DEF TakenOnce
<1>3. numChannel' # "empty" => AllSent
  BY DEF TakenInv
<1> QED BY <1>1, <1>2, <1>3 DEF TakenInv

(* A message is received.                                                  *)
LEMMA TakenReceive ==
    ASSUME TypeOK, TakenInv, NEW t \in Tasks, IntakeReceive(t), Attested' = Attested
    PROVE  TakenInv'
<1>0. /\ handling = None /\ numChannel = "empty" /\ numChannel' = "empty"
      /\ coreProofMap' = coreProofMap
      /\ seenTasks' = seenTasks \cup {t}
  BY DEF IntakeReceive
<1>1. Waiting = coreProofMap
  BY <1>0 DEF Waiting
<1>n. t # None
  BY NoneAssumption
<1>2. CASE Seen(t)
  <2>1. handling' = None /\ seenRanges' = seenRanges
    BY <1>0, <1>2 DEF IntakeReceive, Seen
  <2>2. Waiting' = Waiting /\ Taken' = Taken
    BY <1>0, <2>1 DEF Waiting, Taken
  <2>3. TakenOnce' = TakenOnce
    BY <2>2 DEF TakenOnce
  <2>4. ASSUME NEW u \in seenTasks \cup {t}, RangeOf[u] = Precompile PROVE u \in Taken
    <3>1. u \in seenTasks
      BY <1>2, <2>4 DEF Seen
    <3> QED BY <2>4, <3>1 DEF TakenInv
  <2>5. \A u \in seenTasks \cup {t} : RangeOf[u] = Precompile \/ RangeOf[u] \in seenRanges
    BY <1>2 DEF Seen, TakenInv
  <2> QED BY <1>0, <2>1, <2>2, <2>3, <2>4, <2>5 DEF TakenInv
<1>3. CASE ~Seen(t)
  <2>1. handling' = t /\ t \notin seenTasks
    BY <1>3 DEF IntakeReceive, Seen
  <2>2. seenRanges' = IF RangeOf[t] = Precompile THEN seenRanges ELSE seenRanges \cup {RangeOf[t]}
    BY <2>1 DEF IntakeReceive
  <2>3. Waiting' = Waiting \cup {t}
    BY <1>0, <1>1, <1>n, <2>1 DEF Waiting
  <2>4. Taken' = Taken \cup {t}
    BY <2>3 DEF Taken
  <2>5. t \notin Taken
    BY <2>1 DEF TakenInv
  <2>6. (Waiting \cap Attested)' = {}
    BY <2>3, <2>5 DEF TakenInv, Taken
  <2>7. RangeOf[t] = Precompile \/ \A u \in Taken : RangeOf[u] # RangeOf[t]
    BY <1>3 DEF TakenInv, Seen
  <2>8. TakenOnce'
    <3> SUFFICES ASSUME NEW u \in Taken \cup {t}, NEW w \in Taken \cup {t}, u # w
                 PROVE  RangeOf[u] = Precompile \/ RangeOf[u] # RangeOf[w]
      BY <2>4 DEF TakenOnce
    <3>1. CASE u \in Taken /\ w \in Taken
      BY <3>1 DEF TakenInv, TakenOnce
    <3>2. CASE u = t /\ w \in Taken
      BY <2>7, <3>2
    <3>3. CASE u \in Taken /\ w = t
      BY <2>7, <3>3
    <3> QED BY <3>1, <3>2, <3>3
  <2>9. \A u \in seenTasks' : RangeOf[u] = Precompile \/ RangeOf[u] \in seenRanges'
    BY <1>0, <2>2 DEF TakenInv
  <2>10. \A r \in seenRanges' : \E u \in Taken \cup {t} : RangeOf[u] = r
    BY <2>2 DEF TakenInv
  <2>11. \A u \in seenTasks' : RangeOf[u] = Precompile => u \in Taken \cup {t}
    BY <1>0 DEF TakenInv
  <2>12. Taken \cup {t} \subseteq seenTasks'
    BY <1>0 DEF TakenInv
  <2> QED BY <1>0, <2>4, <2>6, <2>8, <2>9, <2>10, <2>11, <2>12 DEF TakenInv
<1> QED BY <1>2, <1>3

(* What is attested is a finite set of shards.                             *)
LEMMA AttestedTasks ==
    ASSUME TypeOK
    PROVE  Attested \subseteq Tasks /\ IsFiniteSet(Attested) /\ Cardinality(Attested) \in Nat
<1>1. AttestedThere
  BY AttestedParts
<1>2. ASSUME NEW l, InLine(l) PROVE l \in Tasks
  BY <1>2, LineFacts, ProofFacts DEF InLine
<1>3. ASSUME NEW l, InTree(l) PROVE l \in Tasks
  <2>1. PICK e \in map : l \in Reduced(e).leaves
    BY <1>3 DEF InTree
  <2>2. e \in RangeProofs
    BY DEF TypeOK
  <2> QED BY <2>1, <2>2, ReducedType, ProofFacts
<1>4. ASSUME NEW l, InReducing(l) PROVE l \in Tasks
  <2>1. PICK r \in reducing : l \in r.proof.leaves
    BY <1>4 DEF InReducing
  <2>2. r.proof \in Proofs
    BY DEF TypeOK
  <2> QED BY <2>1, <2>2, ProofFacts
<1>5. Attested \subseteq Tasks
  BY <1>1, <1>2, <1>3, <1>4 DEF AttestedThere
<1> QED BY <1>5, TasksAssumption, FS_Subset, FS_CardinalityType

(* The shards attested and what was measured of them stay the same.        *)
LEMMA MaxKept ==
    ASSUME MaxInv, Attested' = Attested, completed' = completed, maxRange' = maxRange,
           \/ lastCoreProof' = lastCoreProof /\ fullRange' = fullRange
           \/ lastCoreProof' = None /\ fullRange' # None
    PROVE  MaxInv'
  BY DEF MaxInv

(* A shard proof is ready.                                                 *)
LEMMA MaxShard ==
    ASSUME TypeOK, TypeOK', MaxInv, NEW t \in Tasks, t \notin Attested, ShardProofReady(t),
           Attested' = Attested \cup {t}
    PROVE  MaxInv'
<1>0. /\ completed' = completed + 1 /\ maxRange' = Widen(maxRange, RangeOf[t])
      /\ maxRange \in Ranges /\ maxRange' \in Ranges
      /\ \/ lastCoreProof' = ToProof(t)
         \/ lastCoreProof' = None /\ fullRange' = maxRange'
  BY DEF ShardProofReady, TypeOK
<1>1. completed' = Cardinality(Attested')
  <2>1. Cardinality(Attested \cup {t}) = Cardinality(Attested) + 1
    BY AttestedTasks, FS_AddElement
  <2> QED BY <1>0, <2>1 DEF MaxInv
<1>2. /\ maxRange.start \in Nat /\ maxRange.end \in Nat
      /\ RangeOf[t].start \in Nat /\ RangeOf[t].end \in Nat
  BY <1>0, ShardRange DEF Ranges
<1>3. /\ maxRange'.start = IF RangeOf[t].start < maxRange.start THEN RangeOf[t].start ELSE maxRange.start
      /\ maxRange'.end = IF RangeOf[t].end > maxRange.end THEN RangeOf[t].end ELSE maxRange.end
  BY <1>0 DEF Widen
<1>4. maxRange'.start = 0
  BY <1>2, <1>3 DEF MaxInv
<1>5. \A l \in Attested : RangeOf[l].end \in Nat
  BY AttestedTasks, ShardRange
<1>6. ASSUME NEW l \in Attested' PROVE RangeOf[l].end <= maxRange'.end
  <2>1. CASE l = t
    BY <1>2, <1>3, <2>1
  <2>2. CASE l \in Attested
    <3>1. RangeOf[l].end <= maxRange.end /\ RangeOf[l].end \in Nat
      BY <1>5, <2>2 DEF MaxInv
    <3> QED BY <1>2, <1>3, <3>1
  <2> QED BY <2>1, <2>2
<1>7. \E l \in Attested' : RangeOf[l].end = maxRange'.end
  <2>1. CASE RangeOf[t].end > maxRange.end
    BY <1>3, <2>1
  <2>2. CASE ~(RangeOf[t].end > maxRange.end) /\ Attested # {}
    BY <1>3, <2>2 DEF MaxInv
  <2>3. CASE ~(RangeOf[t].end > maxRange.end) /\ Attested = {}
    <3>1. maxRange.end = 0
      BY <2>3 DEF MaxInv
    <3>2. RangeOf[t].end = maxRange'.end
      BY <1>2, <1>3, <2>3, <3>1
    <3> QED BY <3>2
  <2> QED BY <2>1, <2>2, <2>3
<1>8. /\ fullRange' = None => lastCoreProof' # None
      /\ lastCoreProof' # None => lastCoreProof' = ToProof(t)
  <2>1. ToProof(t) # None /\ maxRange' # None
    BY <1>0, ToProofType, NoneAssumption
  <2> QED BY <1>0, <2>1
<1> QED BY <1>1, <1>4, <1>6, <1>7, <1>8 DEF MaxInv

(* The tree, what was taken and what was counted.                          *)
TreeInv ==
    /\ Shape
    /\ Pairs
    /\ result # "ok" => TakenInv /\ MaxInv

BaseInv == PendingInv /\ CountInv /\ EntriesAreRuns

(* It holds before anything has been received.                             *)
LEMMA TreeInit == Init => TreeInv
<1> SUFFICES ASSUME Init PROVE TreeInv
  OBVIOUS
<1>0. TypeOK
  BY PendingInit DEF PendingInv
<1>1. /\ proofQueue = <<>> /\ lastCoreProof = None /\ map = {} /\ reducing = {}
      /\ handling = None /\ coreProofMap = {} /\ seenTasks = {} /\ seenRanges = {}
      /\ numChannel = "empty" /\ completed = 0 /\ maxRange = Precompile
  BY DEF Init
<1>2. Line = <<>>
  BY <1>1 DEF Line, Send
<1>3. Shape
  BY <1>1, <1>2 DEF Shape, TreeSound, LineFine, ReducingFine, EntriesApart
<1>4. Pairs
  BY <1>1, <1>2 DEF Pairs, LineApart, LineTree, LineReducing, TreeApart, TreeReducing, ReducingApart
<1>5. Attested = {}
  <2>1. \A l : ~InLine(l) /\ ~InTree(l) /\ ~InReducing(l)
    BY <1>1, <1>2 DEF InLine, InTree, InReducing
  <2> QED BY <1>0, <2>1, AttestedParts DEF AttestedThere
<1>6. Waiting = {} /\ Taken = {}
  BY <1>1, <1>5 DEF Waiting, Taken
<1>7. TakenInv
  BY <1>1, <1>5, <1>6 DEF TakenInv, TakenOnce
<1>8. MaxInv
  <2>1. maxRange.start = 0 /\ maxRange.end = 0
    BY <1>1 DEF Precompile
  <2>2. Cardinality(Attested) = 0
    BY <1>5, FS_EmptySet
  <2> QED BY <1>1, <1>5, <2>1, <2>2 DEF MaxInv
<1> QED BY <1>3, <1>4, <1>7, <1>8 DEF TreeInv

(* The intake and the shards leave it alone.                               *)
LEMMA TreeQuiet ==
    ASSUME TypeOK, TypeOK', TreeInv, result = "running" \/ result' = result,
           UNCHANGED <<proofQueue, lastCoreProof, map, reducing, coreVars>>,
           UNCHANGED <<handling, coreProofMap, seenTasks, seenRanges>>,
           numChannel' = numChannel \/ AllSent
    PROVE  TreeInv'
<1>1. Line' = Line
  BY DEF Line, Send
<1>2. Shape' /\ Pairs' /\ Attested' = Attested
  BY <1>1, UnitsSame DEF TreeInv
<1>3. Waiting' = Waiting /\ Taken' = Taken
  BY <1>2 DEF Waiting, Taken
<1>4. ASSUME TakenInv PROVE TakenInv'
  BY <1>2, <1>3, <1>4, TakenKept DEF TakenInv
<1>5. ASSUME MaxInv PROVE MaxInv'
  <2>1. /\ completed' = completed /\ maxRange' = maxRange
        /\ lastCoreProof' = lastCoreProof /\ fullRange' = fullRange
    BY DEF coreVars
  <2> QED BY <1>2, <1>5, <2>1, MaxKept
<1>6. result' # "ok" => result # "ok"
  OBVIOUS
<1> QED BY <1>2, <1>4, <1>5, <1>6 DEF TreeInv

(* A message is received, its task is recorded.                            *)
LEMMA TreeIntake ==
    ASSUME BaseInv, TypeOK', TreeInv,
           (\E t \in Tasks : IntakeReceive(t)) \/ IntakeInsert
    PROVE  TreeInv'
<1>0. TypeOK
  BY DEF BaseInv, PendingInv
<1>1. /\ result = "running" /\ result' = result
      /\ UNCHANGED <<proofQueue, lastCoreProof, map, reducing, coreVars>>
  BY DEF IntakeReceive, IntakeInsert, treeVars, coreVars
<1>2. Line' = Line
  BY <1>1 DEF Line, Send
<1>3. Shape' /\ Pairs' /\ Attested' = Attested
  BY <1>0, <1>1, <1>2, UnitsSame DEF TreeInv
<1>4. TakenInv /\ MaxInv
  BY <1>1 DEF TreeInv
<1>5. MaxInv'
  <2>1. /\ completed' = completed /\ maxRange' = maxRange
        /\ lastCoreProof' = lastCoreProof /\ fullRange' = fullRange
    BY <1>1 DEF coreVars
  <2> QED BY <1>3, <1>4, <2>1, MaxKept
<1>6. TakenInv'
  <2>1. CASE \E t \in Tasks : IntakeReceive(t)
    BY <1>0, <1>3, <1>4, <2>1, TakenReceive
  <2>2. CASE IntakeInsert
    <3>1. /\ handling # None /\ handling' = None /\ coreProofMap' = coreProofMap \cup {handling}
          /\ seenTasks' = seenTasks /\ seenRanges' = seenRanges /\ numChannel' = numChannel
      BY <2>2 DEF IntakeInsert
    <3>2. Waiting' = Waiting
      BY <3>1 DEF Waiting
    <3>3. Taken' = Taken /\ (Waiting \cap Attested)' = {}
      BY <1>3, <1>4, <3>2 DEF Taken, TakenInv
    <3> QED BY <1>4, <3>1, <3>3, TakenKept
  <2> QED BY <2>1, <2>2
<1> QED BY <1>3, <1>5, <1>6 DEF TreeInv

(* A shard proof is ready.                                                 *)
LEMMA TreeShard ==
    ASSUME ShardsApart, BaseInv, TypeOK', TreeInv, result = "running",
           NEW t \in Tasks, ShardProofReady(t)
    PROVE  TreeInv' /\ Attested' = Attested \cup {t}
<1>0. TypeOK /\ CountInv /\ EntriesAreRuns /\ Shape /\ Pairs /\ TakenInv /\ MaxInv
  BY DEF BaseInv, PendingInv, TreeInv
<1>1. /\ t \in coreProofMap /\ coreProofMap' = coreProofMap \ {t}
      /\ map' = map /\ reducing' = reducing
      /\ handling' = handling /\ seenTasks' = seenTasks /\ seenRanges' = seenRanges
      /\ numChannel' = numChannel
  BY DEF ShardProofReady, intakeVars
<1>2. t \in Waiting /\ t \notin Attested /\ handling # t
  <2>1. t \in Waiting
    BY <1>1 DEF Waiting
  <2>2. t \notin Attested
    BY <1>0, <2>1 DEF TakenInv
  <2>3. handling # t
    <3>1. handling # None => handling \notin coreProofMap
      BY <1>0 DEF CountInv
    <3> QED BY <1>1, <3>1, NoneAssumption
  <2> QED BY <2>1, <2>2, <2>3
<1> DEFINE x == ToProof(t)
<1>3. x \in Proofs /\ Fine(x) /\ Inserted(x, Len(Line) + 1) /\ x.leaves = {t}
  BY <1>0, ShardFine, LineShard DEF ToProof
<1>4. AttestedThere
  BY <1>0, AttestedParts
<1>5. ASSUME NEW i \in 1..Len(Line) PROVE Separate(x, Line[i])
  <2>1. Line[i] \in Proofs /\ Fine(Line[i])
    BY <1>0, LineFacts DEF Shape, LineFine
  <2>2. Line[i].leaves \subseteq Attested
    BY <1>4 DEF AttestedThere, InLine
  <2> QED BY <1>0, <1>2, <2>1, <2>2, ShardSeparate
<1>6. ASSUME NEW e \in map PROVE Separate(x, Reduced(e))
  <2>1. Reduced(e) \in Proofs /\ Fine(Reduced(e))
    BY <1>0, EntryFacts DEF Shape
  <2>2. Reduced(e).leaves \subseteq Attested
    BY <1>4 DEF AttestedThere, InTree
  <2> QED BY <1>0, <1>2, <2>1, <2>2, ShardSeparate
<1>7. ASSUME NEW r \in reducing PROVE Separate(x, r.proof)
  <2>1. r.proof \in Proofs /\ Fine(r.proof)
    BY <1>0 DEF TypeOK, Shape, ReducingFine
  <2>2. r.proof.leaves \subseteq Attested
    BY <1>4 DEF AttestedThere, InReducing
  <2> QED BY <1>0, <1>2, <2>1, <2>2, ShardSeparate
<1> HIDE DEF x
<1>8. Shape' /\ Pairs'
  BY <1>0, <1>1, <1>3, <1>5, <1>6, <1>7, UnitsInsert
<1>9. Attested' = Attested \cup {t}
  <2>1. \A l : l \in Attested' <=>
           InLine(l) \/ l \in x.leaves \/ InTree(l) \/ \E r \in reducing' : l \in r.proof.leaves
    BY <1>0, <1>1, <1>3, AttestedInsert
  <2>2. \A l : (\E r \in reducing' : l \in r.proof.leaves) <=> InReducing(l)
    BY <1>1 DEF InReducing
  <2> QED BY <1>3, <1>4, <2>1, <2>2 DEF AttestedThere
<1>10. MaxInv'
  BY <1>0, <1>2, <1>9, MaxShard
<1>11. TakenInv'
  <2>1. Waiting' = Waiting \ {t}
    BY <1>1, <1>2 DEF Waiting
  <2>2. Taken' = Taken
    BY <1>2, <1>9, <2>1 DEF Taken
  <2>3. (Waiting \cap Attested)' = {}
    BY <1>0, <1>9, <2>1 DEF TakenInv
  <2> QED BY <1>0, <1>1, <2>2, <2>3, TakenKept
<1> QED BY <1>8, <1>9, <1>10, <1>11 DEF TreeInv

(* A reduce task has ended.                                                *)
LEMMA TreeReduced ==
    ASSUME BaseInv, TypeOK', TreeInv, result = "running", NEW r \in reducing,
           reducing' = reducing \ {r}, proofQueue' = Append(proofQueue, r.proof),
           UNCHANGED <<intakeVars, coreProofMap, coreVars, map, result>>
    PROVE  TreeInv' /\ Attested' = Attested
<1>0. TypeOK /\ EntriesAreRuns /\ Shape /\ Pairs /\ TakenInv /\ MaxInv
  BY DEF BaseInv, PendingInv, TreeInv
<1>1. /\ lastCoreProof' = lastCoreProof /\ completed' = completed /\ maxRange' = maxRange
      /\ fullRange' = fullRange
      /\ handling' = handling /\ seenTasks' = seenTasks /\ seenRanges' = seenRanges
      /\ numChannel' = numChannel
  BY DEF intakeVars, coreVars
<1> DEFINE x == r.proof
<1>2. x \in Proofs /\ Fine(x)
  BY <1>0 DEF TypeOK, Shape, ReducingFine
<1>3. Inserted(x, Len(proofQueue) + 1)
  BY <1>0, <1>1, <1>2, LineQueued
<1>4. /\ \A i \in 1..Len(Line) : Separate(x, Line[i])
      /\ \A e \in map : Separate(x, Reduced(e))
      /\ \A s \in reducing' : Separate(x, s.proof)
  BY <1>0, SeparateSym DEF Pairs, LineReducing, TreeReducing, ReducingApart
<1> HIDE DEF x
<1>5. Shape' /\ Pairs'
  BY <1>0, <1>2, <1>3, <1>4, UnitsInsert
<1>6. Attested' = Attested
  <2>1. \A l : l \in Attested' <=>
           InLine(l) \/ l \in x.leaves \/ InTree(l) \/ \E s \in reducing' : l \in s.proof.leaves
    BY <1>0, <1>3, AttestedInsert
  <2>2. \A l : InReducing(l) <=> l \in x.leaves \/ \E s \in reducing' : l \in s.proof.leaves
    BY DEF InReducing, x
  <2>3. AttestedThere
    BY <1>0, AttestedParts
  <2>4. \A l : l \in Attested' <=> l \in Attested
    BY <2>1, <2>2, <2>3 DEF AttestedThere
  <2> QED BY <2>4
<1>7. Waiting' = Waiting /\ Taken' = Taken
  BY <1>1, <1>6 DEF Waiting, Taken
<1>8. TakenInv'
  BY <1>0, <1>1, <1>6, <1>7, TakenKept DEF TakenInv
<1>9. MaxInv'
  BY <1>0, <1>1, <1>6, MaxKept
<1> QED BY <1>5, <1>6, <1>8, <1>9 DEF TreeInv

(* A proof is received.                                                    *)
LEMMA TreeReceived ==
    ASSUME ShardsApart, BaseInv, TypeOK', TreeInv, ReceiveProof
    PROVE  TreeInv' /\ (result' # "ok" => Attested' = Attested)
<1>0. TypeOK /\ EntriesAreRuns /\ Shape /\ Pairs /\ result = "running" /\ TakenInv /\ MaxInv
  BY DEF BaseInv, PendingInv, TreeInv, ReceiveProof
<1>1. /\ proofQueue # <<>> /\ proofQueue' = Tail(proofQueue)
      /\ Finish(Head(proofQueue)) \/ Park(Head(proofQueue)) \/ Combine(Head(proofQueue))
      /\ UNCHANGED <<intakeVars, sharedVars, coreVars>>
  BY DEF ReceiveProof
<1>2. /\ lastCoreProof' = lastCoreProof /\ completed' = completed /\ maxRange' = maxRange
      /\ fullRange' = fullRange /\ coreProofMap' = coreProofMap
      /\ handling' = handling /\ seenTasks' = seenTasks /\ seenRanges' = seenRanges
      /\ numChannel' = numChannel
  BY <1>1 DEF intakeVars, sharedVars, coreVars
<1>3. Departed /\ Line[1] = Head(proofQueue)
  BY <1>0, <1>1, <1>2, LineReceived
<1>4. CASE Finish(Head(proofQueue))
  <2>1. map' = map /\ reducing' = reducing /\ result' = "ok"
    BY <1>4 DEF Finish
  <2>2. Shape' /\ Pairs'
    BY <1>0, <1>3, <2>1, UnitsDepart
  <2> QED BY <2>1, <2>2 DEF TreeInv
<1>5. CASE Park(Head(proofQueue)) \/ Combine(Head(proofQueue))
  <2>1. Ready(Line[1])
    BY <1>0, <1>3, HeadReady DEF Departed
  <2>2. PICK N, R : Fits(Line[1], N, R)
    BY <1>3, <1>5, <2>1, TreeFits
  <2>3. Shape' /\ Pairs'
    BY <1>0, <1>3, <2>2, UnitsTree
  <2>4. Attested' = Attested
    BY <1>0, <1>3, <2>2, AttestedTree
  <2>5. Waiting' = Waiting /\ Taken' = Taken
    BY <1>2, <2>4 DEF Waiting, Taken
  <2>6. TakenInv'
    BY <1>0, <1>2, <2>4, <2>5, TakenKept DEF TakenInv
  <2>7. MaxInv'
    BY <1>0, <1>2, <2>4, MaxKept
  <2> QED BY <2>3, <2>4, <2>6, <2>7 DEF TreeInv
<1> QED BY <1>1, <1>4, <1>5

(* The number of proofs is received.                                       *)
LEMMA TreeNumber ==
    ASSUME BaseInv, TypeOK', TreeInv, ReceiveNumCoreProofs
    PROVE  TreeInv' /\ Attested' = Attested
<1>0. TypeOK /\ Shape /\ Pairs /\ result = "running" /\ TakenInv /\ MaxInv
  BY DEF BaseInv, PendingInv, TreeInv, ReceiveNumCoreProofs
<1>1. /\ map' = map /\ reducing' = reducing /\ completed' = completed /\ maxRange' = maxRange
      /\ handling' = handling /\ seenTasks' = seenTasks /\ seenRanges' = seenRanges
      /\ coreProofMap' = coreProofMap /\ numChannel = "sent"
  BY DEF ReceiveNumCoreProofs, sharedVars
<1>2. Line' = Line
  BY LineNumber
<1>3. Shape' /\ Pairs' /\ Attested' = Attested
  BY <1>0, <1>1, <1>2, UnitsSame
<1>4. Waiting' = Waiting /\ Taken' = Taken
  BY <1>1, <1>3 DEF Waiting, Taken
<1>5. TakenInv'
  <2>1. AllSent
    BY <1>0, <1>1 DEF TakenInv
  <2> QED BY <1>0, <1>1, <1>3, <1>4, <2>1, TakenKept DEF TakenInv
<1>6. MaxInv'
  <2>1. maxRange # None
    BY <1>0, NoneAssumption DEF TypeOK
  <2>2. \/ lastCoreProof' = lastCoreProof /\ fullRange' = fullRange
        \/ lastCoreProof' = None /\ fullRange' # None
    BY <2>1 DEF ReceiveNumCoreProofs
  <2> QED BY <1>0, <1>1, <1>3, <2>2, MaxKept
<1> QED BY <1>3, <1>5, <1>6 DEF TreeInv

(* The loop fails, with everything as it is.                               *)
LEMMA TreeFails ==
    ASSUME TypeOK, TypeOK', TreeInv, result = "running", LoopFails
    PROVE  TreeInv'
<1>1. /\ UNCHANGED <<proofQueue, lastCoreProof, map, reducing, coreVars>>
      /\ UNCHANGED <<handling, coreProofMap, seenTasks, seenRanges>>
      /\ numChannel' = numChannel
  BY DEF LoopFails, coreVars, intakeVars, sharedVars
<1> QED BY <1>1, TreeQuiet

(* Every step keeps it.                                                    *)
LEMMA TreeNext ==
    ASSUME ShardsApart, BaseInv, TypeOK', TreeInv, [Next]_vars
    PROVE  TreeInv'
<1>0. TypeOK
  BY DEF BaseInv, PendingInv
<1>1. ASSUME NEW t \in Tasks, ShardEnds(t) PROVE TreeInv'
  <2>1. /\ UNCHANGED <<proofQueue, lastCoreProof, map, reducing, coreVars>>
        /\ UNCHANGED <<handling, coreProofMap, seenTasks, seenRanges>>
        /\ numChannel' = numChannel /\ result = "running"
    BY <1>1 DEF ShardEnds, treeVars, coreVars, intakeVars, sharedVars
  <2> QED BY <1>0, <2>1, TreeQuiet
<1>2. CASE (\E t \in Tasks : IntakeReceive(t)) \/ IntakeInsert
  BY <1>2, TreeIntake
<1>3. CASE IntakeClosed
  <2>1. /\ UNCHANGED <<proofQueue, lastCoreProof, map, reducing, coreVars>>
        /\ UNCHANGED <<handling, coreProofMap, seenTasks, seenRanges>>
        /\ AllSent /\ result = "running"
    BY <1>3 DEF IntakeClosed, treeVars, coreVars, sharedVars
  <2> QED BY <1>0, <2>1, TreeQuiet
<1>4. CASE ReceiveNumCoreProofs
  BY <1>4, TreeNumber
<1>5. ASSUME NEW t \in Tasks, ReceiveCoreEvent(t) PROVE TreeInv'
  <2>1. result = "running"
    BY <1>5 DEF ReceiveCoreEvent
  <2>2. CASE LoopFails
    BY <1>0, <2>1, <2>2, TreeFails
  <2>3. CASE ShardProofReady(t)
    BY <2>1, <2>3, TreeShard
  <2>4. CASE ShardProofUnknown(t)
    <3>1. /\ UNCHANGED <<proofQueue, lastCoreProof, map, reducing, coreVars>>
          /\ UNCHANGED <<handling, coreProofMap, seenTasks, seenRanges>>
          /\ numChannel' = numChannel
      BY <2>4 DEF ShardProofUnknown, treeVars, coreVars, intakeVars
    <3> QED BY <1>0, <2>1, <3>1, TreeQuiet
  <2> QED BY <1>5, <2>2, <2>3, <2>4 DEF ReceiveCoreEvent
<1>6. CASE ReceiveProof
  BY <1>6, TreeReceived
<1>7. CASE ReduceRefused
  <2>1. result = "running" /\ LoopFails
    BY <1>7 DEF ReduceRefused
  <2> QED BY <1>0, <2>1, TreeFails
<1>8. ASSUME NEW r \in reducing, ReceiveReduceEvent(r) PROVE TreeInv'
  <2>1. result = "running"
    BY <1>8 DEF ReceiveReduceEvent
  <2>2. CASE LoopFails
    BY <1>0, <2>1, <2>2, TreeFails
  <2>3. CASE ~LoopFails
    <3>1. /\ reducing' = reducing \ {r} /\ proofQueue' = Append(proofQueue, r.proof)
          /\ UNCHANGED <<intakeVars, coreProofMap, coreVars, map, result>>
      BY <1>8, <2>3 DEF ReceiveReduceEvent, sharedVars
    <3> QED BY <2>1, <3>1, TreeReduced
  <2> QED BY <2>2, <2>3
<1>9. CASE Returned \/ UNCHANGED vars
  <2>1. /\ UNCHANGED <<proofQueue, lastCoreProof, map, reducing, coreVars>>
        /\ UNCHANGED <<handling, coreProofMap, seenTasks, seenRanges>>
        /\ numChannel' = numChannel /\ result' = result
    BY <1>9 DEF Returned, vars, treeVars, coreVars, intakeVars, sharedVars
  <2> QED BY <1>0, <2>1, TreeQuiet
<1> QED BY <1>1, <1>2, <1>3, <1>4, <1>5, <1>6, <1>7, <1>8, <1>9 DEF Next

(* What CompressTreeProofs shows, in one invariant.                        *)
LEMMA BaseCorrect == Spec => []BaseInv
<1>1. Init => PendingInv /\ CountInv /\ EntriesAreRuns
  BY PendingInit, CountInit DEF Init, EntriesAreRuns
<1>2. PendingInv /\ CountInv /\ EntriesAreRuns /\ [Next]_vars
        => PendingInv' /\ CountInv' /\ EntriesAreRuns'
  BY PendingNext, CountNext, RunsNext DEF PendingInv
<1> QED BY <1>1, <1>2, PTL DEF Spec, BaseInv

(* And so is the one about the tree, for shards that do not overlap.       *)
LEMMA TreeCorrect == ShardsApart => (Spec => []TreeInv)
<1>1. BaseInv => TypeOK
  BY DEF BaseInv, PendingInv
<1>2. ShardsApart /\ BaseInv /\ TypeOK' /\ TreeInv /\ [Next]_vars => TreeInv'
  BY TreeNext
<1> SUFFICES ASSUME ShardsApart PROVE Spec => []TreeInv
  OBVIOUS
<1> QED BY <1>1, <1>2, BaseCorrect, TreeInit, PTL DEF Spec

(* The tree never holds two entries that could be merged, that overlap or  *)
(* that share their key: of shards whose ranges do not overlap, whichever  *)
(* way they are merged, split, reduced and put back.                       *)
THEOREM ApartCorrect == ShardsApart => (Spec => []EntriesApart)
  BY TreeCorrect, PTL DEF TreeInv, Shape

(* Every shard proof that was counted is attested by exactly one of the    *)
(* proofs held back, queued, in the tree or being reduced.                 *)
THEOREM OnceCorrect == ShardsApart => (Spec => []EachProofOnce)
<1>1. BaseInv /\ TreeInv => EachProofOnce
  BY PoolApart DEF BaseInv, PendingInv, TreeInv, MaxInv, EachProofOnce
<1> QED BY <1>1, TreeCorrect, BaseCorrect, PTL
-----------------------------------------------------------------------------
(* Once the range is known every shard has been taken on and is attested.  *)
AllAttested ==
    fullRange # None =>
        /\ Waiting = {} /\ handling = None /\ coreProofMap = {}
        /\ fullRange = maxRange /\ lastCoreProof = None /\ numChannel # "empty"
        /\ \A t \in Tasks :
              IF RangeOf[t] = Precompile
              THEN t \in Attested
              ELSE \E u \in Attested : {w \in Attested : RangeOf[w] = RangeOf[t]} = {u}

(* That follows from the invariants.                                       *)
LEMMA FullFacts == BaseInv /\ TakenInv => AllAttested
<1> SUFFICES ASSUME BaseInv, TakenInv, fullRange # None
             PROVE  /\ Waiting = {} /\ handling = None /\ coreProofMap = {}
                    /\ fullRange = maxRange /\ lastCoreProof = None /\ numChannel # "empty"
                    /\ \A t \in Tasks :
                          IF RangeOf[t] = Precompile
                          THEN t \in Attested
                          ELSE \E u \in Attested : {w \in Attested : RangeOf[w] = RangeOf[t]} = {u}
  BY DEF AllAttested
<1>1. CountInv /\ TypeOK
  BY DEF BaseInv, PendingInv
<1>2. numCoreProofs = completed /\ coreProofMap = {} /\ fullRange = maxRange /\ lastCoreProof = None
  BY <1>1 DEF CountInv, ShardsAccounted
<1>3. numCoreProofs # None
  BY <1>1, <1>2, NoneAssumption DEF TypeOK
<1>4. numChannel = "received"
  BY <1>1, <1>3 DEF CountInv
<1>5. handling = None
  BY <1>1, <1>4 DEF CountInv
<1>6. Waiting = {} /\ Taken = Attested
  BY <1>2, <1>5 DEF Waiting, Taken
<1>7. AllSent
  BY <1>4 DEF TakenInv
<1>8. ASSUME NEW t \in Tasks, RangeOf[t] = Precompile PROVE t \in Attested
  BY <1>6, <1>7, <1>8 DEF AllSent, TakenInv
<1>9. ASSUME NEW t \in Tasks, RangeOf[t] # Precompile
      PROVE  \E u \in Attested : {w \in Attested : RangeOf[w] = RangeOf[t]} = {u}
  <2>1. RangeOf[t] \in seenRanges
    BY <1>7, <1>9 DEF AllSent, TakenInv
  <2>2. PICK u \in Attested : RangeOf[u] = RangeOf[t]
    BY <1>6, <2>1 DEF TakenInv
  <2>3. ASSUME NEW w \in Attested, RangeOf[w] = RangeOf[t] PROVE w = u
    BY <1>6, <1>9, <2>2, <2>3 DEF TakenInv, TakenOnce
  <2>4. {w \in Attested : RangeOf[w] = RangeOf[t]} = {u}
    BY <2>2, <2>3
  <2> QED BY <2>4
<1> QED BY <1>2, <1>4, <1>5, <1>6, <1>8, <1>9

(* There are two of them at least.                                         *)
TwoAttested == fullRange # None => \E l, m \in Attested : l # m

(* So it is of an execution with several shards.                           *)
LEMMA TwoFacts == SeveralShards => (AllAttested => TwoAttested)
<1> SUFFICES ASSUME SeveralShards, AllAttested, fullRange # None
             PROVE  \E l, m \in Attested : l # m
  BY DEF TwoAttested
<1>1. \A t \in Tasks : \E u \in Attested : RangeOf[u] = RangeOf[t]
  BY DEF AllAttested
<1>2. \A t \in Tasks : RangeOf[t] = Precompile => t \in Attested
  BY DEF AllAttested
<1>3. PICK t \in Tasks, u \in Tasks : t # u /\ (RangeOf[t] # RangeOf[u] \/ RangeOf[t] = Precompile)
  BY DEF SeveralShards
<1>4. CASE RangeOf[t] # RangeOf[u]
  BY <1>1, <1>4
<1>5. CASE RangeOf[t] = RangeOf[u]
  BY <1>2, <1>3, <1>5
<1> QED BY <1>4, <1>5

(* A proof that attests all of them is alone.                              *)
Alone ==
    /\ \A i \in 1..Len(Line) : Line[i].leaves = Attested => Len(Line) = 1 /\ map = {} /\ reducing = {}
    /\ \A r \in reducing : r.proof.leaves = Attested => Len(Line) = 0 /\ map = {} /\ reducing = {r}

(* The proofs at hand are separate, and none of them is empty.             *)
LEMMA AloneFacts == ShardsApart => (BaseInv /\ Shape /\ Pairs => Alone)
<1> SUFFICES ASSUME ShardsApart, BaseInv, Shape, Pairs PROVE Alone
  OBVIOUS
<1>0. TypeOK /\ EntriesAreRuns
  BY DEF BaseInv, PendingInv
<1>1. AttestedThere /\ Len(Line) \in Nat
  BY <1>0, AttestedParts, LineFacts
<1>2. \A i \in 1..Len(Line) : Line[i].leaves # {} /\ Line[i].leaves \subseteq Attested
  BY <1>1 DEF Shape, LineFine, Fine, AttestedThere, InLine
<1>3. \A e \in map : Reduced(e).leaves # {} /\ Reduced(e).leaves \subseteq Attested
  <2>1. ASSUME NEW e \in map PROVE Reduced(e).leaves # {}
    <3>1. Fine(Reduced(e))
      BY <1>0, EntryFacts DEF Shape
    <3> QED BY <3>1 DEF Fine
  <2> QED BY <1>1, <2>1 DEF AttestedThere, InTree
<1>4. \A r \in reducing : r.proof.leaves # {} /\ r.proof.leaves \subseteq Attested
  BY <1>1 DEF Shape, ReducingFine, Fine, AttestedThere, InReducing
<1>5. ASSUME NEW i \in 1..Len(Line), Line[i].leaves = Attested
      PROVE  Len(Line) = 1 /\ map = {} /\ reducing = {}
  <2>1. map = {}
    BY <1>3, <1>5 DEF Pairs, LineTree, Separate
  <2>2. reducing = {}
    BY <1>4, <1>5 DEF Pairs, LineReducing, Separate
  <2>3. \A j \in 1..Len(Line) : j = i
    BY <1>2, <1>5 DEF Pairs, LineApart, Separate
  <2>4. Len(Line) = 1
    <3>1. 1 \in 1..Len(Line) /\ Len(Line) \in 1..Len(Line)
      BY <1>1
    <3> QED BY <2>3, <3>1
  <2> QED BY <2>1, <2>2, <2>4
<1>6. ASSUME NEW r \in reducing, r.proof.leaves = Attested
      PROVE  Len(Line) = 0 /\ map = {} /\ reducing = {r}
  <2>1. map = {}
    BY <1>3, <1>6 DEF Pairs, TreeReducing, Separate
  <2>2. reducing = {r}
    BY <1>4, <1>6 DEF Pairs, ReducingApart, Separate
  <2>3. \A j \in 1..Len(Line) : FALSE
    BY <1>2, <1>6 DEF Pairs, LineReducing, Separate
  <2>4. Len(Line) = 0
    BY <1>1, <2>3
  <2> QED BY <2>1, <2>2, <2>4
<1> QED BY <1>5, <1>6 DEF Alone

(* What the complete reduce task and the output are, before reduce_proofs  *)
(* returns: the proof that attests every shard.                            *)
Whole(x) == fullRange # None /\ x.leaves = Attested /\ x.range = fullRange

OutInv ==
    /\ \A r \in reducing : r.isComplete <=> Whole(r.proof)
    /\ output # None => Len(Line) > 0 /\ Line[1] = output /\ Whole(output)
    /\ \A i \in 1..Len(Line) : Whole(Line[i]) => output = Line[i]

OutputInv ==
    /\ result # "ok" => OutInv
    /\ OutputComplete

(* Nothing of this changes.                                                *)
LEMMA OutSame ==
    ASSUME OutputInv, result # "ok", result' # "ok", Line' = Line, reducing' = reducing,
           output' = output, fullRange' = fullRange, Attested' = Attested
    PROVE  OutputInv'
<1>1. \A x : Whole(x)' <=> Whole(x)
  BY DEF Whole
<1>2. ASSUME NEW r \in reducing PROVE r.isComplete <=> Whole(r.proof)'
  BY <1>1 DEF OutputInv, OutInv
<1>3. output' # None => Len(Line') > 0 /\ Line'[1] = output' /\ Whole(output)'
  BY <1>1 DEF OutputInv, OutInv, Whole
<1>4. \A i \in 1..Len(Line') : Whole(Line[i])' => output' = Line'[i]
  BY DEF OutputInv, OutInv, Whole
<1> QED BY <1>2, <1>3, <1>4 DEF OutputInv, OutInv, OutputComplete, Whole

(* As long as the range is not known there is neither.                     *)
LEMMA OutNone ==
    ASSUME OutInv, fullRange = None
    PROVE  output = None /\ \A r \in reducing : ~r.isComplete
  BY DEF OutInv, Whole

(* The range becomes known, and the last shard proof is still in line.     *)
LEMMA OutBegins ==
    ASSUME ShardsApart, SeveralShards, OutputInv, result # "ok", result' # "ok",
           fullRange = None, reducing' = reducing, output' = output,
           BaseInv', TreeInv',
           NEW i \in 1..Len(Line'), NEW t, Line'[i].leaves = {t}
    PROVE  OutputInv'
<1>1. output' = None /\ \A r \in reducing' : ~r.isComplete
  BY OutNone DEF OutputInv
<1>2. Alone' /\ AllAttested' /\ TwoAttested'
  <2>1. Shape' /\ Pairs' /\ TakenInv'
    BY DEF TreeInv
  <2> QED BY <2>1, AloneFacts, FullFacts, TwoFacts, PTL
<1>3. ASSUME fullRange' # None, NEW x, x.leaves = Attested',
             (\E j \in 1..Len(Line') : x = Line'[j]) \/ (\E r \in reducing' : x = r.proof)
      PROVE  FALSE
  <2>1. PICK l, m \in Attested' : l # m
    BY <1>2, <1>3 DEF TwoAttested
  <2>2. CASE \E r \in reducing' : x = r.proof
    <3>1. Len(Line') = 0
      BY <1>2, <1>3, <2>2 DEF Alone
    <3> QED BY <3>1
  <2>3. ASSUME NEW j \in 1..Len(Line'), x = Line'[j] PROVE FALSE
    <3>1. Len(Line') = 1
      BY <1>2, <1>3, <2>3 DEF Alone
    <3>2. i = j
      BY <3>1
    <3> QED BY <1>3, <2>1, <2>3, <3>2
  <2> QED BY <1>3, <2>2, <2>3
<1>4. \A j \in 1..Len(Line') : ~Whole(Line[j])'
  BY <1>3 DEF Whole
<1>5. \A r \in reducing' : ~Whole(r.proof)'
  BY <1>3 DEF Whole
<1>6. OutInv'
  BY <1>1, <1>4, <1>5 DEF OutInv
<1> QED BY <1>6 DEF OutputInv, OutputComplete

(* A shard proof is ready.                                                 *)
LEMMA OutShard ==
    ASSUME ShardsApart, SeveralShards, BaseInv, BaseInv', TreeInv, TreeInv', OutputInv,
           result = "running", NEW t \in Tasks, ShardProofReady(t)
    PROVE  OutputInv'
<1>0. TypeOK /\ CountInv
  BY DEF BaseInv, PendingInv
<1>1. fullRange = None
  BY <1>0 DEF ShardProofReady, CountInv, ShardsAccounted
<1>2. reducing' = reducing /\ output' = output /\ result' = result
  BY DEF ShardProofReady
<1>3. Inserted(ToProof(t), Len(Line) + 1)
  BY <1>0, LineShard
<1>4. PICK i \in 1..Len(Line') : Line'[i] = ToProof(t)
  BY <1>0, <1>3, InsertedFacts
<1>5. Line'[i].leaves = {t}
  BY <1>4 DEF ToProof
<1> QED BY <1>1, <1>2, <1>5, OutBegins

(* The number of proofs is received.                                       *)
LEMMA OutNumber ==
    ASSUME ShardsApart, SeveralShards, BaseInv, BaseInv', TreeInv, TreeInv', OutputInv,
           ReceiveNumCoreProofs
    PROVE  OutputInv'
<1>0. TypeOK /\ CountInv /\ TypeOK' /\ result = "running" /\ MaxInv
  BY DEF BaseInv, PendingInv, TreeInv, ReceiveNumCoreProofs
<1>1. fullRange = None
  <2>1. numChannel = "sent"
    BY DEF ReceiveNumCoreProofs
  <2>2. numCoreProofs = None
    BY <1>0, <2>1 DEF CountInv
  <2>3. completed # None
    BY <1>0, NoneAssumption DEF TypeOK
  <2> QED BY <1>0, <2>2, <2>3 DEF CountInv, ShardsAccounted
<1>2. reducing' = reducing /\ output' = output /\ result' = result /\ completed' = completed
  BY DEF ReceiveNumCoreProofs
<1>3. Line' = Line /\ Attested' = Attested
  BY <1>0, LineNumber, TreeNumber
<1>4. CASE fullRange' = None
  BY <1>0, <1>1, <1>2, <1>3, <1>4, OutSame
<1>5. CASE fullRange' # None
  <2>1. Shape' /\ Pairs' /\ TakenInv' /\ MaxInv'
    BY <1>0, <1>2 DEF TreeInv
  <2>2. TwoAttested'
    BY <2>1, FullFacts, TwoFacts, PTL
  <2>3. Attested # {}
    BY <1>3, <1>5, <2>2 DEF TwoAttested
  <2>4. completed > 0
    <3>1. Cardinality(Attested) # 0
      BY <1>0, <2>3, AttestedTasks, FS_EmptySet
    <3> QED BY <1>0, <3>1, AttestedTasks DEF MaxInv
  <2>5. lastCoreProof # None
    BY <1>0, <1>1, <2>4 DEF MaxInv
  <2>6. PICK t \in Tasks : lastCoreProof = ToProof(t)
    BY <1>0, <2>5 DEF MaxInv
  <2>7. Len(Line) \in 1..Len(Line) /\ Line[Len(Line)] = lastCoreProof
    BY <1>0, <2>5, LineFacts
  <2>8. Line'[Len(Line)].leaves = {t} /\ Len(Line) \in 1..Len(Line')
    BY <1>3, <2>6, <2>7 DEF ToProof
  <2> QED BY <1>0, <1>1, <1>2, <2>8, OutBegins
<1> QED BY <1>4, <1>5

(* The goal, when the range and what is attested stay the same.            *)
LEMMA OutChanged ==
    ASSUME result' # "ok", fullRange' = fullRange, Attested' = Attested,
           \A r \in reducing' : r.isComplete <=> Whole(r.proof),
           output' # None => Len(Line') > 0 /\ Line'[1] = output' /\ Whole(output'),
           \A i \in 1..Len(Line') : Whole(Line'[i]) => output' = Line'[i]
    PROVE  OutputInv'
<1>1. \A r \in reducing' : r.isComplete <=> Whole(r.proof)'
  BY DEF Whole
<1>2. output' # None => Len(Line') > 0 /\ Line'[1] = output' /\ Whole(output)'
  BY DEF Whole
<1>3. \A i \in 1..Len(Line') : Whole(Line[i])' => output' = Line'[i]
  BY DEF Whole
<1>4. OutInv'
  BY <1>1, <1>2, <1>3 DEF OutInv
<1> QED BY <1>4 DEF OutputInv, OutputComplete

(* A reduce task has ended.                                                *)
LEMMA OutReduced ==
    ASSUME ShardsApart, BaseInv, TypeOK', TreeInv, OutputInv, result = "running",
           NEW r \in reducing, reducing' = reducing \ {r}, proofQueue' = Append(proofQueue, r.proof),
           output' = IF r.isComplete THEN r.proof ELSE output,
           UNCHANGED <<intakeVars, coreProofMap, coreVars, map, result>>
    PROVE  OutputInv'
<1>0. TypeOK /\ Shape /\ Pairs /\ OutInv
  BY DEF BaseInv, PendingInv, TreeInv, OutputInv
<1>1. lastCoreProof' = lastCoreProof /\ fullRange' = fullRange /\ result' # "ok"
  BY DEF coreVars
<1>2. Attested' = Attested
  BY TreeReduced
<1>3. Alone
  BY <1>0, AloneFacts
<1>4. r.proof \in Proofs /\ r.proof # None
  BY <1>0, NoneAssumption DEF TypeOK
<1>5. Inserted(r.proof, Len(proofQueue) + 1)
  BY <1>0, <1>1, <1>4, LineQueued
<1>6. \A i \in 1..Len(Line') : Line'[i] = r.proof \/ \E j \in 1..Len(Line) : Line'[i] = Line[j]
  BY <1>0, <1>5, InsertedFacts
<1>7. Len(Line') = Len(Line) + 1 /\ Len(Line) \in Nat /\ \A i \in 1..Len(Line) : Line[i] # None
  BY <1>0, <1>5, LineFacts, NoneAssumption DEF Inserted
<1>8. r.isComplete <=> Whole(r.proof)
  BY <1>0 DEF OutInv
<1>9. \A s \in reducing' : s.isComplete <=> Whole(s.proof)
  BY <1>0 DEF OutInv
<1>10. CASE r.isComplete
  <2>1. output' = r.proof /\ Whole(r.proof)
    BY <1>8, <1>10
  <2>2. Len(Line) = 0
    BY <1>3, <2>1 DEF Alone, Whole
  <2>3. Len(Line') = 1 /\ \A i \in 1..Len(Line') : Line'[i] = r.proof
    BY <1>6, <1>7, <2>2
  <2>4. Len(Line') > 0 /\ Line'[1] = output'
    BY <2>1, <2>3
  <2> QED BY <1>1, <1>2, <1>9, <2>1, <2>3, <2>4, OutChanged
<1>11. CASE ~r.isComplete
  <2>1. output' = output /\ ~Whole(r.proof)
    BY <1>8, <1>11
  <2>2. output = None
    <3>1. ASSUME output # None PROVE FALSE
      <4>1. Len(Line) > 0 /\ Line[1] = output /\ output.leaves = Attested
        BY <1>0, <3>1 DEF OutInv, Whole
      <4>2. 1 \in 1..Len(Line)
        BY <1>7, <4>1
      <4>3. reducing = {}
        BY <1>3, <4>1, <4>2 DEF Alone
      <4> QED BY <4>3
    <3> QED BY <3>1
  <2>3. \A j \in 1..Len(Line) : ~Whole(Line[j])
    BY <1>0, <1>7, <2>2 DEF OutInv
  <2>4. \A i \in 1..Len(Line') : ~Whole(Line'[i])
    BY <1>6, <2>1, <2>3
  <2> QED BY <1>1, <1>2, <1>9, <2>1, <2>2, <2>4, OutChanged
<1> QED BY <1>10, <1>11

(* pending_tasks counts the line and the reduce tasks.                     *)
PendingLine ==
    /\ IsFiniteSet(reducing) /\ Cardinality(reducing) \in Nat /\ Len(Line) \in Nat
    /\ pendingTasks = Len(Line) + Cardinality(reducing)

(* That is PendingAccounted, of the line.                                  *)
LEMMA PendingFacts == BaseInv => PendingLine
<1> SUFFICES ASSUME BaseInv PROVE PendingLine
  OBVIOUS
<1>1. /\ TypeOK /\ IsFiniteSet(reducing)
      /\ pendingTasks = Len(proofQueue) + Cardinality(reducing) + (IF lastCoreProof = None THEN 0 ELSE 1)
  BY DEF BaseInv, PendingInv, ReduceIdsFresh, PendingAccounted
<1>2. /\ Len(proofQueue) \in Nat /\ Len(Line) \in Nat
      /\ Len(Line) = Len(proofQueue) + (IF lastCoreProof = None THEN 0 ELSE 1)
  BY <1>1, LineFacts
<1>3. Cardinality(reducing) \in Nat
  BY <1>1, FS_CardinalityType
<1>4. pendingTasks = Len(Line) + Cardinality(reducing)
  BY <1>1, <1>2, <1>3
<1> QED BY <1>1, <1>2, <1>3, <1>4 DEF PendingLine

(* A proof enters the tree: the task that is submitted is complete if and  *)
(* only if it attests every shard.                                         *)
LEMMA OutTree ==
    ASSUME ShardsApart, BaseInv, BaseInv', TreeInv, TreeInv', OutputInv, ReceiveProof,
           Park(Head(proofQueue)) \/ Combine(Head(proofQueue))
    PROVE  OutputInv'
<1>0. TypeOK /\ EntriesAreRuns /\ Shape /\ Pairs /\ result = "running" /\ OutInv /\ TypeOK'
  BY DEF BaseInv, PendingInv, TreeInv, OutputInv, ReceiveProof
<1>1. /\ proofQueue # <<>> /\ proofQueue' = Tail(proofQueue)
      /\ output' = output /\ lastCoreProof' = lastCoreProof /\ fullRange' = fullRange
  BY DEF ReceiveProof, coreVars
<1>2. result' # "ok" /\ ~IsComplete(Head(proofQueue).range, map, pendingTasks - 1)
  BY DEF Park, Combine, EndOfTurn
<1>3. Departed /\ Line[1] = Head(proofQueue)
  BY <1>0, <1>1, LineReceived
<1>4. PICK N, R : Fits(Line[1], N, R)
  <2>1. Ready(Line[1])
    BY <1>0, <1>3, HeadReady DEF Departed
  <2> QED BY <1>3, <2>1, TreeFits
<1>5. Attested' = Attested
  BY <1>0, <1>3, <1>4, AttestedTree
<1>6. Shape' /\ Pairs'
  BY DEF TreeInv
<1>7. Alone /\ Alone' /\ PendingLine /\ PendingLine'
  BY <1>0, <1>6, AloneFacts, PendingFacts, PTL
<1>8. /\ Len(Line) \in Nat /\ Len(Line) > 0 /\ Len(Line') = Len(Line) - 1
      /\ \A i \in 1..Len(Line') : i + 1 \in 1..Len(Line) /\ Line'[i] = Line[i + 1]
      /\ \A i \in 1..Len(Line) : Line[i] # None
  BY <1>0, <1>3, LineFacts, NoneAssumption DEF Departed
<1>9. output = None
  <2> SUFFICES ASSUME output # None PROVE FALSE
    OBVIOUS
  <2>1. Line[1] = output /\ output.leaves = Attested /\ output.range = fullRange
    BY <1>0 DEF OutInv, Whole
  <2>2. 1 \in 1..Len(Line)
    BY <1>8
  <2>3. Len(Line) = 1 /\ map = {} /\ reducing = {}
    BY <1>7, <2>1, <2>2 DEF Alone
  <2>4. pendingTasks - 1 = 0
    BY <1>7, <2>3, FS_EmptySet DEF PendingLine
  <2> QED BY <1>2, <1>3, <2>1, <2>3, <2>4 DEF IsComplete
<1>10. \A i \in 1..Len(Line') : ~Whole(Line'[i])
  BY <1>0, <1>8, <1>9 DEF OutInv
<1>11. ASSUME NEW r \in reducing, r \in reducing' PROVE r.isComplete <=> Whole(r.proof)
  BY <1>0 DEF OutInv
<1>12. ASSUME NEW r \in R, r \in reducing' PROVE r.isComplete <=> Whole(r.proof)
  <2>1. /\ r.proof \in Proofs /\ pendingTasks' = pendingTasks
        /\ r.isComplete <=> pendingTasks - 1 = 0 /\ map' = {} /\ r.proof.range = fullRange
    BY <1>4 DEF Fits, IsComplete
  <2>2. fullRange # None \/ r.proof.range # fullRange
    <3>1. r.proof.range \in Ranges
      BY <2>1, ProofFacts
    <3> QED BY <3>1, NoneAssumption
  <2>3. ASSUME pendingTasks - 1 = 0, map' = {} PROVE r.proof.leaves = Attested
    <3>1. pendingTasks \in Nat
      BY <1>0 DEF TypeOK
    <3>2. Len(Line') + Cardinality(reducing') = 1 /\ Len(Line') \in Nat /\ Cardinality(reducing') \in Nat
          /\ IsFiniteSet(reducing')
      BY <1>7, <2>1, <2>3, <3>1 DEF PendingLine
    <3>3. Cardinality(reducing') # 0
      BY <1>12, <3>2, FS_EmptySet
    <3>4. Cardinality(reducing') = 1 /\ Len(Line') = 0
      BY <3>2, <3>3
    <3>5. PICK s : reducing' = {s}
      BY <3>2, <3>4, FS_Singleton
    <3>6. reducing' = {r}
      BY <1>12, <3>5
    <3>7. \A l : l \in Attested' <=> l \in r.proof.leaves
      <4>1. AttestedThere'
        BY <1>0, AttestedParts, PTL
      <4>2. \A l : ~InLine(l)' /\ ~InTree(l)' /\ (InReducing(l)' <=> l \in r.proof.leaves)
        BY <2>3, <3>4, <3>6 DEF InLine, InTree, InReducing
      <4> QED BY <4>1, <4>2 DEF AttestedThere
    <3> QED BY <1>5, <3>7
  <2>4. ASSUME r.proof.leaves = Attested PROVE pendingTasks - 1 = 0 /\ map' = {}
    <3>1. Len(Line') = 0 /\ map' = {} /\ reducing' = {r}
      BY <1>5, <1>7, <1>12, <2>4 DEF Alone
    <3>2. Cardinality(reducing') = 1
      BY <3>1, FS_Singleton
    <3> QED BY <1>7, <2>1, <3>1, <3>2 DEF PendingLine
  <2> QED BY <2>1, <2>2, <2>3, <2>4 DEF Whole
<1>13. \A r \in reducing' : r.isComplete <=> Whole(r.proof)
  <2>1. reducing' = reducing \cup R
    BY <1>4 DEF Fits
  <2> QED BY <1>11, <1>12, <2>1
<1> QED BY <1>1, <1>2, <1>5, <1>9, <1>10, <1>13, OutChanged

(* reduce_proofs returns: the last proof is the output, and attests every  *)
(* shard.                                                                  *)
LEMMA OutFinish ==
    ASSUME ShardsApart, BaseInv, TreeInv, OutputInv, ReceiveProof, Finish(Head(proofQueue))
    PROVE  /\ OutputInv'
           /\ fullRange # None /\ output = Head(proofQueue) /\ output.leaves = Attested
           /\ result' = "ok"
<1> DEFINE p == Head(proofQueue)
<1>0. TypeOK /\ result = "running" /\ OutInv /\ TakenInv
  BY DEF BaseInv, PendingInv, TreeInv, OutputInv, ReceiveProof
<1>1. /\ proofQueue # <<>> /\ proofQueue' = Tail(proofQueue)
      /\ output' = output /\ lastCoreProof' = lastCoreProof /\ fullRange' = fullRange
      /\ result' = "ok" /\ pendingTasks - 1 = 0 /\ map = {} /\ p.range = fullRange
  BY DEF ReceiveProof, coreVars, Finish, IsComplete
<1>2. Departed /\ Line[1] = p
  BY <1>0, <1>1, LineReceived
<1>3. PendingLine /\ AllAttested
  BY <1>0, PendingFacts, FullFacts
<1>4. Len(Line) > 0
  BY <1>2 DEF Departed
<1>5. Len(Line) = 1 /\ Cardinality(reducing) = 0
  <2>1. pendingTasks = 1
    BY <1>0, <1>1 DEF TypeOK
  <2>2. 1 = Len(Line) + Cardinality(reducing) /\ Len(Line) \in Nat /\ Cardinality(reducing) \in Nat
    BY <1>3, <2>1 DEF PendingLine
  <2>3. ASSUME NEW n \in Nat, NEW c \in Nat, n > 0, 1 = n + c PROVE n = 1 /\ c = 0
    BY <2>3
  <2> HIDE DEF p
  <2> QED BY <1>4, <2>2, <2>3
<1>6. reducing = {}
  BY <1>3, <1>5, FS_EmptySet DEF PendingLine
<1>7. p \in Proofs /\ 1 \in 1..Len(Line)
  BY <1>0, <1>2, <1>5, LineFacts
<1>8. fullRange # None
  BY <1>1, <1>7, ProofFacts, NoneAssumption
<1>9. p.leaves = Attested
  <2>1. AttestedThere
    BY <1>0, AttestedParts
  <2>2. \A l : (InLine(l) <=> l \in p.leaves) /\ ~InTree(l) /\ ~InReducing(l)
    BY <1>1, <1>2, <1>5, <1>6 DEF InLine, InTree, InReducing
  <2>3. \A l : l \in p.leaves <=> l \in Attested
    BY <2>1, <2>2 DEF AttestedThere
  <2> QED BY <2>3
<1>10. output = p
  BY <1>0, <1>1, <1>2, <1>7, <1>8, <1>9 DEF OutInv, Whole
<1>11. p # None
  BY <1>7, NoneAssumption
<1>12. \A t \in Tasks :
          IF RangeOf[t] = Precompile
          THEN t \in p.leaves
          ELSE \E u \in p.leaves : {w \in p.leaves : RangeOf[w] = RangeOf[t]} = {u}
  BY <1>3, <1>8, <1>9 DEF AllAttested
<1> HIDE DEF p
<1>13. OutputComplete'
  BY <1>1, <1>10, <1>11, <1>12 DEF OutputComplete
<1>14. OutputInv'
  BY <1>1, <1>13 DEF OutputInv
<1> QED BY <1>1, <1>8, <1>9, <1>10, <1>14 DEF p

(* The intake, the shards and a failure leave it alone.                    *)
LEMMA OutQuiet ==
    ASSUME TypeOK, TypeOK', OutputInv, result = "running", result' # "ok",
           UNCHANGED <<proofQueue, lastCoreProof, map, reducing, fullRange, output>>
    PROVE  OutputInv'
<1>1. Line' = Line
  BY DEF Line, Send
<1>2. Attested' = Attested
  BY <1>1, UnitsSame
<1> QED BY <1>1, <1>2, OutSame

(* Before anything is received, there is no output.                        *)
LEMMA OutInit == Init => OutputInv
<1> SUFFICES ASSUME Init PROVE OutputInv
  OBVIOUS
<1>1. /\ proofQueue = <<>> /\ lastCoreProof = None /\ reducing = {}
      /\ output = None /\ fullRange = None /\ result = "running"
  BY DEF Init
<1>2. Line = <<>>
  BY <1>1 DEF Line, Send
<1> QED BY <1>1, <1>2 DEF OutputInv, OutInv, OutputComplete

(* Every step keeps it.                                                    *)
LEMMA OutNext ==
    ASSUME ShardsApart, SeveralShards, BaseInv, BaseInv', TreeInv, TreeInv', OutputInv,
           [Next]_vars
    PROVE  OutputInv'
<1>0. TypeOK /\ TypeOK'
  BY DEF BaseInv, PendingInv
<1>1. ASSUME NEW t \in Tasks, ShardEnds(t) PROVE OutputInv'
  <2>1. /\ UNCHANGED <<proofQueue, lastCoreProof, map, reducing, fullRange, output>>
        /\ result = "running" /\ result' = result
    BY <1>1 DEF ShardEnds, treeVars, coreVars
  <2> QED BY <1>0, <2>1, OutQuiet
<1>2. CASE (\E t \in Tasks : IntakeReceive(t)) \/ IntakeInsert \/ IntakeClosed
  <2>1. /\ UNCHANGED <<proofQueue, lastCoreProof, map, reducing, fullRange, output>>
        /\ result = "running" /\ result' = result
    BY <1>2 DEF IntakeReceive, IntakeInsert, IntakeClosed, treeVars, coreVars
  <2> QED BY <1>0, <2>1, OutQuiet
<1>3. ASSUME result = "running", LoopFails PROVE OutputInv'
  <2>1. /\ UNCHANGED <<proofQueue, lastCoreProof, map, reducing, fullRange, output>>
        /\ result' # "ok"
    BY <1>3 DEF LoopFails, coreVars
  <2> QED BY <1>0, <1>3, <2>1, OutQuiet
<1>4. CASE ReceiveNumCoreProofs
  BY <1>4, OutNumber
<1>5. ASSUME NEW t \in Tasks, ReceiveCoreEvent(t) PROVE OutputInv'
  <2>1. result = "running"
    BY <1>5 DEF ReceiveCoreEvent
  <2>2. CASE LoopFails
    BY <1>3, <2>1, <2>2
  <2>3. CASE ShardProofReady(t)
    BY <2>1, <2>3, OutShard
  <2>4. CASE ShardProofUnknown(t)
    <3>1. /\ UNCHANGED <<proofQueue, lastCoreProof, map, reducing, fullRange, output>>
          /\ result' = result
      BY <2>4 DEF ShardProofUnknown, treeVars, coreVars
    <3> QED BY <1>0, <2>1, <3>1, OutQuiet
  <2> QED BY <1>5, <2>2, <2>3, <2>4 DEF ReceiveCoreEvent
<1>6. CASE ReceiveProof
  <2>1. \/ Finish(Head(proofQueue))
        \/ Park(Head(proofQueue)) \/ Combine(Head(proofQueue))
    BY <1>6 DEF ReceiveProof
  <2> QED BY <1>6, <2>1, OutTree, OutFinish
<1>7. CASE ReduceRefused
  BY <1>3, <1>7 DEF ReduceRefused
<1>8. ASSUME NEW r \in reducing, ReceiveReduceEvent(r) PROVE OutputInv'
  <2>1. result = "running"
    BY <1>8 DEF ReceiveReduceEvent
  <2>2. CASE LoopFails
    BY <1>3, <2>1, <2>2
  <2>3. CASE ~LoopFails
    <3>1. /\ reducing' = reducing \ {r} /\ proofQueue' = Append(proofQueue, r.proof)
          /\ output' = IF r.isComplete THEN r.proof ELSE output
          /\ UNCHANGED <<intakeVars, coreProofMap, coreVars, map, result>>
      BY <1>8, <2>3 DEF ReceiveReduceEvent, sharedVars
    <3> QED BY <1>0, <2>1, <3>1, OutReduced
  <2> QED BY <2>2, <2>3
<1>9. CASE Returned \/ UNCHANGED vars
  <2>1. /\ UNCHANGED <<proofQueue, lastCoreProof, map, reducing, fullRange, output>>
        /\ result' = result
    BY <1>9 DEF Returned, vars, treeVars, coreVars
  <2>2. CASE result = "ok"
    BY <2>1, <2>2 DEF OutputInv, OutputComplete
  <2>3. CASE result # "ok"
    <3>1. Line' = Line
      BY <2>1 DEF Line, Send
    <3>2. Attested' = Attested
      BY <1>0, <2>1, <3>1, UnitsSame
    <3> QED BY <2>1, <2>3, <3>1, <3>2, OutSame
  <2> QED BY <2>2, <2>3
<1> QED BY <1>1, <1>2, <1>4, <1>5, <1>6, <1>7, <1>8, <1>9 DEF Next

(* What the output is, is an invariant.                                    *)
LEMMA OutCorrect == ShardsApart /\ SeveralShards => (Spec => []OutputInv)
<1>1. /\ ShardsApart /\ SeveralShards /\ BaseInv /\ BaseInv' /\ TreeInv /\ TreeInv' /\ OutputInv
      /\ [Next]_vars
      => OutputInv'
  BY OutNext
<1> SUFFICES ASSUME ShardsApart, SeveralShards PROVE Spec => []OutputInv
  OBVIOUS
<1> QED BY <1>1, OutInit, BaseCorrect, TreeCorrect, PTL DEF Spec

(* reduce_proofs returns Ok only with an output artifact that attests      *)
(* every precompile shard and exactly one proof of every other range,      *)
(* whatever the number of shards, their order and the batch size.          *)
THEOREM OutputCorrect == ShardsApart /\ SeveralShards => (Spec => []OutputComplete)
<1>1. OutputInv => OutputComplete
  BY DEF OutputInv
<1> QED BY <1>1, OutCorrect, PTL
-----------------------------------------------------------------------------
(* When nothing is pending and the range is known, what is left is one     *)
(* entry of the whole range.                                               *)
OneEntry ==
    fullRange # None /\ pendingTasks = 0 =>
        /\ reducing = {}
        /\ \A e, f \in map : e = f
        /\ \A e \in map : e.range = fullRange

(* An entry that does not begin at the initial boundary is adjacent to     *)
(* another one, which cannot be.                                           *)
LEMMA EntryFromStart ==
    ASSUME ShardsApart, ShardsAdjoin, BaseInv, Shape, AllAttested, fullRange # None,
           \A l \in Attested : InTree(l), NEW f \in map
    PROVE  f.range.start = 0
<1>0. TypeOK /\ EntriesAreRuns /\ TreeSound /\ EntriesApart
  BY DEF BaseInv, PendingInv, Shape
<1>1. /\ Reduced(f) \in Proofs /\ Fine(Reduced(f)) /\ Reduced(f).range = f.range
      /\ f.range.start \in Nat /\ f.range.end \in Nat /\ f.range.start <= f.range.end
  BY <1>0, EntryFacts
<1> SUFFICES ASSUME f.range.start # 0 PROVE FALSE
  OBVIOUS
<1>2. PICK l \in Reduced(f).leaves : RangeOf[l].start = f.range.start
  BY <1>1 DEF Fine
<1>3. l \in Tasks
  BY <1>1, ProofFacts
<1>4. PICK u \in Tasks : RangeOf[u].end = f.range.start
  BY <1>2, <1>3 DEF ShardsAdjoin
<1>5. RangeOf[u] # Precompile /\ RangeOf[u].start < RangeOf[u].end
  BY <1>4 DEF ShardsApart, Precompile
<1>6. PICK w \in Attested : RangeOf[w] = RangeOf[u]
  BY <1>5 DEF AllAttested
<1>7. PICK g \in map : w \in Reduced(g).leaves
  BY <1>6 DEF InTree
<1>8. /\ Fine(Reduced(g)) /\ Reduced(g).range = g.range
      /\ g.range.start \in Nat /\ g.range.end \in Nat
  BY <1>0, EntryFacts
<1>9. g.range.start <= RangeOf[u].start /\ f.range.start <= g.range.end
  BY <1>4, <1>6, <1>7, <1>8 DEF Fine
<1>10. RangeOf[u].start \in Nat /\ RangeOf[u].start < f.range.start
  BY <1>4, <1>5, ShardRange
<1>11. g # f
  BY <1>1, <1>9, <1>10
<1>12. g.range.end < f.range.start \/ f.range.end < g.range.start
  BY <1>0, <1>11 DEF EntriesApart
<1> QED BY <1>1, <1>8, <1>9, <1>10, <1>12

(* Such is the tree of an execution whose shards adjoin.                   *)
LEMMA OneEntryFacts ==
    ShardsApart /\ ShardsAdjoin => (BaseInv /\ Shape /\ TakenInv /\ MaxInv => OneEntry)
<1> SUFFICES ASSUME ShardsApart, ShardsAdjoin, BaseInv, Shape, TakenInv, MaxInv,
                    fullRange # None, pendingTasks = 0
             PROVE  /\ reducing = {}
                    /\ \A e, f \in map : e = f
                    /\ \A e \in map : e.range = fullRange
  BY DEF OneEntry
<1>0. TypeOK /\ EntriesAreRuns /\ TreeSound /\ EntriesApart
  BY DEF BaseInv, PendingInv, Shape
<1>1. PendingLine /\ AllAttested /\ AttestedThere
  BY <1>0, PendingFacts, FullFacts, AttestedParts
<1>2. Len(Line) = 0 /\ Cardinality(reducing) = 0 /\ IsFiniteSet(reducing)
  <2>1. ASSUME NEW n \in Nat, NEW c \in Nat, 0 = n + c PROVE n = 0 /\ c = 0
    BY <2>1
  <2> QED BY <1>1, <2>1 DEF PendingLine
<1>3. reducing = {}
  BY <1>2, FS_EmptySet
<1>4. \A l : l \in Attested <=> InTree(l)
  BY <1>1, <1>2, <1>3 DEF AttestedThere, InLine, InReducing
<1>5. \A e \in map : e.range.start = 0
  BY <1>1, <1>4, EntryFromStart
<1>6. \A e \in map : e.range \in Ranges /\ e.range.start \in Nat /\ e.range.end \in Nat
  BY <1>0, EntryFacts
<1>7. \A e, f \in map : e = f
  BY <1>0, <1>5, <1>6 DEF EntriesApart
<1>8. ASSUME NEW e \in map PROVE e.range = fullRange
  <2>1. /\ Reduced(e) \in Proofs /\ Fine(Reduced(e)) /\ Reduced(e).range = e.range
        /\ e.range \in Ranges /\ e.range.end \in Nat
    BY <1>0, EntryFacts
  <2>2. fullRange = maxRange /\ maxRange \in Ranges
    BY <1>0, <1>1 DEF AllAttested, TypeOK
  <2>3. maxRange.start \in Nat /\ maxRange.end \in Nat
    BY <2>2 DEF Ranges
  <2>4. PICK l \in Reduced(e).leaves : RangeOf[l].end = e.range.end
    BY <2>1 DEF Fine
  <2>5. l \in Attested
    BY <1>4, <2>4 DEF InTree
  <2>6. e.range.end <= maxRange.end
    BY <2>4, <2>5 DEF MaxInv
  <2>7. PICK m \in Attested : RangeOf[m].end = maxRange.end
    BY <2>5 DEF MaxInv
  <2>8. m \in Reduced(e).leaves
    BY <1>4, <1>7 DEF InTree
  <2>9. maxRange.end <= e.range.end
    BY <2>1, <2>7, <2>8 DEF Fine
  <2>10. maxRange.end = e.range.end
    BY <2>1, <2>3, <2>6, <2>9
  <2>11. maxRange.start = e.range.start
    BY <1>5 DEF MaxInv
  <2> QED BY <2>1, <2>2, <2>10, <2>11 DEF Ranges
<1> QED BY <1>3, <1>7, <1>8

(* A turn of the loop does not end wedged: the entry that is left would    *)
(* have been reduced.                                                      *)
LEMMA TurnNotWedged ==
    ASSUME ShardsApart, ShardsAdjoin, BaseInv, BaseInv', TreeInv, TreeInv', ReceiveProof,
           Park(Head(proofQueue)) \/ Combine(Head(proofQueue))
    PROVE  result' # "wedged"
<1> SUFFICES ASSUME result' = "wedged" PROVE FALSE
  OBVIOUS
<1>0. TypeOK /\ EntriesAreRuns /\ Shape /\ Pairs /\ result = "running" /\ TypeOK'
  BY DEF BaseInv, PendingInv, TreeInv, ReceiveProof
<1>1. /\ proofQueue # <<>> /\ proofQueue' = Tail(proofQueue)
      /\ lastCoreProof' = lastCoreProof /\ fullRange' = fullRange
  BY DEF ReceiveProof, coreVars
<1>2. pendingTasks' = 0 /\ fullRange # None
  BY DEF Park, Combine, EndOfTurn
<1>3. Departed /\ Line[1] = Head(proofQueue)
  BY <1>0, <1>1, LineReceived
<1>4. PICK N, R : Fits(Line[1], N, R)
  <2>1. Ready(Line[1])
    BY <1>0, <1>3, HeadReady DEF Departed
  <2> QED BY <1>3, <2>1, TreeFits
<1>5. Shape' /\ TakenInv' /\ MaxInv'
  BY DEF TreeInv
<1>6. OneEntry' /\ PendingLine /\ PendingLine'
  BY <1>5, OneEntryFacts, PendingFacts, PTL
<1>7. /\ reducing' = {}
      /\ \A e, f \in map' : e = f
      /\ \A e \in map' : e.range = fullRange
  BY <1>1, <1>2, <1>6 DEF OneEntry
<1>8. reducing = {} /\ R = {} /\ N # {}
  BY <1>4, <1>7 DEF Fits
<1>9. PICK e \in N : TRUE
  BY <1>8
<1>10. e \in map' /\ e.range = fullRange
  BY <1>4, <1>7, <1>9 DEF Fits
<1>11. map \ Siblings(Line[1]) = {}
  <2> SUFFICES ASSUME NEW f \in map \ Siblings(Line[1]) PROVE FALSE
    OBVIOUS
  <2>1. f = e
    BY <1>4, <1>7, <1>10 DEF Fits
  <2>2. Distant(f.range, e.range)
    BY <1>4, <1>9 DEF Fits
  <2>3. f.range.start \in Nat /\ f.range.end \in Nat /\ f.range.start <= f.range.end
    BY <1>0, EntryFacts DEF Shape
  <2> QED BY <2>1, <2>2, <2>3 DEF Distant
<1>12. pendingTasks - 1 = 0
  <2>1. Len(Line') = 0
    <3>1. ASSUME NEW n \in Nat, NEW c \in Nat, 0 = n + c PROVE n = 0
      BY <3>1
    <3> QED BY <1>2, <1>6, <3>1 DEF PendingLine
  <2>2. Len(Line) \in Nat /\ Len(Line) = 1
    BY <1>3, <1>6, <2>1 DEF Departed, PendingLine
  <2> QED BY <1>6, <1>8, <2>2, FS_EmptySet DEF PendingLine
<1>13. IsComplete(e.range, map \ Siblings(Line[1]), pendingTasks - 1)
  BY <1>10, <1>11, <1>12 DEF IsComplete
<1> QED BY <1>4, <1>8, <1>9, <1>13 DEF Fits

(* No step wedges the loop.                                                *)
LEMMA NotWedgedNext ==
    ASSUME ShardsApart, ShardsAdjoin, BaseInv, BaseInv', TreeInv, TreeInv', NeverWedged,
           [Next]_vars
    PROVE  NeverWedged'
<1>1. CASE ReceiveProof
  <2>1. CASE Finish(Head(proofQueue))
    BY <2>1 DEF Finish, NeverWedged
  <2>2. CASE Park(Head(proofQueue)) \/ Combine(Head(proofQueue))
    BY <1>1, <2>2, TurnNotWedged DEF NeverWedged
  <2> QED BY <1>1, <2>1, <2>2 DEF ReceiveProof
<1>2. CASE ~ReceiveProof
  <2>1. result' = result \/ result' = "failed"
    <3>1. ASSUME NEW t \in Tasks, ShardEnds(t) PROVE result' = result
      BY <3>1 DEF ShardEnds, treeVars
    <3>2. CASE (\E t \in Tasks : IntakeReceive(t)) \/ IntakeInsert \/ IntakeClosed
      BY <3>2 DEF IntakeReceive, IntakeInsert, IntakeClosed, treeVars
    <3>3. CASE ReceiveNumCoreProofs
      BY <3>3 DEF ReceiveNumCoreProofs
    <3>4. ASSUME NEW t \in Tasks, ReceiveCoreEvent(t) PROVE result' = result \/ result' = "failed"
      BY <3>4 DEF ReceiveCoreEvent, LoopFails, ShardProofReady, ShardProofUnknown, treeVars
    <3>5. CASE ReduceRefused
      BY <3>5 DEF ReduceRefused, LoopFails
    <3>6. ASSUME NEW r \in reducing, ReceiveReduceEvent(r) PROVE result' = result \/ result' = "failed"
      BY <3>6 DEF ReceiveReduceEvent, LoopFails
    <3>7. CASE Returned \/ UNCHANGED vars
      BY <3>7 DEF Returned, vars, treeVars
    <3> QED BY <1>2, <3>1, <3>2, <3>3, <3>4, <3>5, <3>6, <3>7 DEF Next
  <2> QED BY <2>1 DEF NeverWedged
<1> QED BY <1>1, <1>2

(* The fail-fast check at the end of a turn never fires for the shards of  *)
(* an execution: when the last pending proof has entered the tree and the  *)
(* range is known, either everything was merged into one proof of the      *)
(* range, and it was submitted, or something is still pending.             *)
THEOREM WedgeCorrect == ShardsApart /\ ShardsAdjoin => (Spec => []NeverWedged)
<1>1. /\ ShardsApart /\ ShardsAdjoin /\ BaseInv /\ BaseInv' /\ TreeInv /\ TreeInv' /\ NeverWedged
      /\ [Next]_vars
      => NeverWedged'
  BY NotWedgedNext
<1>2. Init => NeverWedged
  BY DEF Init, NeverWedged
<1> SUFFICES ASSUME ShardsApart, ShardsAdjoin PROVE Spec => []NeverWedged
  OBVIOUS
<1> QED BY <1>1, <1>2, BaseCorrect, TreeCorrect, PTL DEF Spec
-----------------------------------------------------------------------------
(* The refinement: what the abstract specification calls accepted,         *)
(* published and the outcome.                                              *)
Published == IF output = None THEN None ELSE output.leaves
Outcome == IF result = "wedged" THEN "failed" ELSE result

(* A step that changes none of them is no step of the abstract one.        *)
LEMMA AggStutter ==
    ASSUME Accepted' = Accepted, Published' = Published, Outcome' = Outcome
    PROVE  UNCHANGED Aggregation!aggVars
  BY DEF Aggregation!aggVars, Published, Outcome

(* Until reduce_proofs returns, the accepted shards are the ones taken on. *)
LEMMA AcceptedTaken ==
    /\ result # "ok" => Accepted = Taken
    /\ result' # "ok" => Accepted' = Taken'
    /\ result' = "ok" => Accepted' = output'.leaves
  BY DEF Accepted, Taken, Waiting

(* A shard is accepted.                                                    *)
LEMMA AggAccept ==
    ASSUME NEW t \in Tasks, Outcome = "running", Published = None, t \notin Accepted,
           RangeOf[t] = Precompile \/ \A u \in Accepted : RangeOf[u] # RangeOf[t],
           Accepted' = Accepted \cup {t}, Published' = Published, Outcome' = Outcome
    PROVE  Aggregation!AggNext
<1>1. Aggregation!Accept(t)
  BY DEF Aggregation!Accept, Aggregation!SharedRange, Published, Outcome, Precompile
<1> QED BY <1>1 DEF Aggregation!AggNext

(* The accepted proofs are published.                                      *)
LEMMA AggPublish ==
    ASSUME Outcome = "running", Published = None,
           \A t \in Tasks : IF RangeOf[t] = Precompile
                            THEN t \in Accepted
                            ELSE \E u \in Accepted : RangeOf[u] = RangeOf[t],
           Published' = Accepted, Accepted' = Accepted, Outcome' = Outcome
    PROVE  Aggregation!AggNext
<1>1. Aggregation!Covered
  BY DEF Aggregation!Covered, Aggregation!SharedRange, Precompile
<1>2. Aggregation!Publish
  BY <1>1 DEF Aggregation!Publish, Published, Outcome
<1> QED BY <1>2 DEF Aggregation!AggNext

(* The reduction returns.                                                  *)
LEMMA AggReturn ==
    ASSUME Outcome = "running", Published # None, Outcome' = "ok",
           Accepted' = Accepted, Published' = Published
    PROVE  Aggregation!AggNext
<1>1. Aggregation!Return
  BY DEF Aggregation!Return, Published, Outcome
<1> QED BY <1>1 DEF Aggregation!AggNext

(* It fails.                                                               *)
LEMMA AggFail ==
    ASSUME Outcome = "running", Outcome' = "failed", Accepted' = Accepted, Published' = Published
    PROVE  Aggregation!AggNext
<1>1. Aggregation!Fail
  BY DEF Aggregation!Fail, Published, Outcome
<1> QED BY <1>1 DEF Aggregation!AggNext

(* A step of the intake: a message is received, recorded, or the last one. *)
LEMMA AggIntake ==
    ASSUME ShardsApart, BaseInv, BaseInv', TreeInv, OutputInv,
           \/ \E t \in Tasks : IntakeReceive(t)
           \/ IntakeInsert
           \/ IntakeClosed
    PROVE  Aggregation!AggNext \/ UNCHANGED Aggregation!aggVars
<1>0. /\ TypeOK /\ TypeOK' /\ result = "running" /\ result' = result
      /\ UNCHANGED <<proofQueue, lastCoreProof, map, reducing, output>>
  BY DEF BaseInv, PendingInv, IntakeReceive, IntakeInsert, IntakeClosed, treeVars, coreVars
<1>1. Line' = Line
  BY <1>0 DEF Line, Send
<1>2. Attested' = Attested
  BY <1>0, <1>1, UnitsSame
<1>3. TakenInv /\ OutInv
  BY <1>0 DEF TreeInv, OutputInv
<1>4. Accepted = Taken /\ Accepted' = Taken'
  BY <1>0, AcceptedTaken
<1>5. Published' = Published /\ Outcome' = Outcome /\ Outcome = "running"
  BY <1>0 DEF Published, Outcome
<1>6. CASE Waiting' = Waiting
  <2>1. Taken' = Taken
    BY <1>2, <1>6 DEF Taken
  <2> QED BY <1>4, <1>5, <2>1, AggStutter
<1>7. CASE IntakeInsert
  BY <1>6, <1>7 DEF IntakeInsert, Waiting
<1>8. CASE IntakeClosed
  BY <1>6, <1>8 DEF IntakeClosed, sharedVars, Waiting
<1>9. ASSUME NEW t \in Tasks, IntakeReceive(t) PROVE Aggregation!AggNext \/ UNCHANGED Aggregation!aggVars
  <2>1. coreProofMap' = coreProofMap /\ handling = None /\ numChannel = "empty"
    BY <1>9 DEF IntakeReceive
  <2>2. CASE Seen(t)
    <3>1. handling' = handling
      BY <1>9, <2>2 DEF IntakeReceive
    <3> QED BY <1>6, <2>1, <3>1 DEF Waiting
  <2>3. CASE ~Seen(t)
    <3>1. handling' = t /\ t # None
      BY <1>9, <2>3, NoneAssumption DEF IntakeReceive
    <3>2. Waiting' = Waiting \cup {t}
      BY <2>1, <3>1 DEF Waiting
    <3>3. Taken' = Taken \cup {t}
      BY <1>2, <3>2 DEF Taken
    <3>4. t \notin Taken
      BY <1>3, <2>3 DEF Seen, TakenInv
    <3>5. RangeOf[t] = Precompile \/ \A u \in Taken : RangeOf[u] # RangeOf[t]
      BY <1>3, <2>3 DEF Seen, TakenInv
    <3>6. output = None
      <4>1. AllAttested
        BY <1>3, FullFacts
      <4>2. fullRange = None
        BY <2>1, <4>1 DEF AllAttested
      <4> QED BY <1>3, <4>2, OutNone
    <3>7. Published = None
      BY <3>6 DEF Published
    <3> QED BY <1>4, <1>5, <3>3, <3>4, <3>5, <3>7, AggAccept
  <2> QED BY <2>2, <2>3
<1> QED BY <1>7, <1>8, <1>9

(* A shard proof is ready, or the number of proofs is received.            *)
LEMMA AggShard ==
    ASSUME ShardsApart, BaseInv, TypeOK', TreeInv, result = "running",
           (\E t \in Tasks : ShardProofReady(t)) \/ ReceiveNumCoreProofs
    PROVE  UNCHANGED Aggregation!aggVars
<1>1. Taken' = Taken /\ result' = result /\ output' = output
  <2>1. ASSUME NEW t \in Tasks, ShardProofReady(t)
        PROVE  Taken' = Taken /\ result' = result /\ output' = output
    <3>1. /\ t \in coreProofMap /\ coreProofMap' = coreProofMap \ {t} /\ handling' = handling
          /\ result' = result /\ output' = output
      BY <2>1 DEF ShardProofReady, intakeVars
    <3>2. Attested' = Attested \cup {t}
      BY <2>1, TreeShard
    <3> QED BY <3>1, <3>2 DEF Taken, Waiting
  <2>2. CASE ReceiveNumCoreProofs
    <3>1. coreProofMap' = coreProofMap /\ handling' = handling /\ result' = result /\ output' = output
      BY <2>2 DEF ReceiveNumCoreProofs, sharedVars
    <3>2. Attested' = Attested
      BY <2>2, TreeNumber
    <3> QED BY <3>1, <3>2 DEF Taken, Waiting
  <2> QED BY <2>1, <2>2
<1>2. Accepted = Taken /\ Accepted' = Taken'
  BY <1>1, AcceptedTaken
<1> QED BY <1>1, <1>2, AggStutter DEF Published, Outcome

(* A proof is received: parked, combined, or the last one.                 *)
LEMMA AggTree ==
    ASSUME ShardsApart, BaseInv, BaseInv', TreeInv, OutputInv, ReceiveProof
    PROVE  Aggregation!AggNext \/ UNCHANGED Aggregation!aggVars
<1>0. /\ TypeOK /\ TypeOK' /\ result = "running" /\ output' = output
      /\ coreProofMap' = coreProofMap /\ handling' = handling
  BY DEF BaseInv, PendingInv, ReceiveProof, sharedVars, intakeVars
<1>1. Accepted = Taken /\ Outcome = "running" /\ Published' = Published
  BY <1>0, AcceptedTaken DEF Outcome, Published
<1>2. CASE Finish(Head(proofQueue))
  <2>1. fullRange # None /\ output = Head(proofQueue) /\ output.leaves = Attested /\ result' = "ok"
    BY <1>2, OutFinish
  <2>2. TakenInv
    BY <1>0 DEF TreeInv
  <2>3. Waiting = {}
    BY <2>1, <2>2, FullFacts DEF AllAttested
  <2>4. Accepted' = Accepted
    <3>1. Accepted' = output'.leaves
      BY <2>1, AcceptedTaken
    <3> QED BY <1>0, <1>1, <2>1, <2>3, <3>1 DEF Taken
  <2>5. Published # None
    <3>1. output \in Proofs
      <4>1. proofQueue # <<>> /\ proofQueue \in Seq(Proofs)
        BY <1>0 DEF ReceiveProof, TypeOK
      <4> QED BY <2>1, <4>1
    <3>2. output.leaves \in SUBSET Tasks /\ output # None
      BY <3>1, ProofFacts, NoneAssumption
    <3> QED BY <3>2, NoneAssumption DEF Published
  <2>6. Outcome' = "ok"
    BY <2>1 DEF Outcome
  <2> QED BY <1>1, <2>4, <2>5, <2>6, AggReturn
<1>3. CASE Park(Head(proofQueue)) \/ Combine(Head(proofQueue))
  <2>1. result' \in {"running", "wedged"}
    BY <1>3 DEF Park, Combine, EndOfTurn
  <2>2. Attested' = Attested
    BY <1>0, <2>1, TreeReceived
  <2>3. Taken' = Taken
    BY <1>0, <2>2 DEF Taken, Waiting
  <2>4. Accepted' = Accepted
    <3>1. result' # "ok"
      BY <2>1
    <3>2. Accepted' = Taken'
      BY <3>1, AcceptedTaken
    <3> QED BY <1>1, <2>3, <3>2
  <2>5. CASE result' = "running"
    <3>1. Outcome' = Outcome
      BY <1>0, <2>5 DEF Outcome
    <3> QED BY <1>1, <2>4, <3>1, AggStutter
  <2>6. CASE result' = "wedged"
    <3>1. Outcome' = "failed"
      BY <2>6 DEF Outcome
    <3> QED BY <1>1, <2>4, <3>1, AggFail
  <2> QED BY <2>1, <2>5, <2>6
<1> QED BY <1>2, <1>3 DEF ReceiveProof

(* A reduce task has ended: the complete one publishes what was accepted.  *)
LEMMA AggReduced ==
    ASSUME ShardsApart, BaseInv, BaseInv', TreeInv, OutputInv, result = "running",
           NEW r \in reducing, reducing' = reducing \ {r}, proofQueue' = Append(proofQueue, r.proof),
           output' = IF r.isComplete THEN r.proof ELSE output,
           UNCHANGED <<intakeVars, coreProofMap, coreVars, map, result>>
    PROVE  Aggregation!AggNext \/ UNCHANGED Aggregation!aggVars
<1>0. /\ TypeOK /\ TypeOK' /\ handling' = handling /\ OutInv /\ TakenInv /\ Shape /\ Pairs
  BY DEF BaseInv, PendingInv, TreeInv, OutputInv, intakeVars
<1>1. Attested' = Attested
  BY <1>0, TreeReduced
<1>2. Taken' = Taken
  BY <1>0, <1>1 DEF Taken, Waiting
<1>3. Accepted = Taken /\ Accepted' = Taken'
  BY AcceptedTaken
<1>4. Outcome = "running" /\ Outcome' = Outcome
  BY DEF Outcome
<1>5. CASE ~r.isComplete
  <2>1. Published' = Published
    BY <1>5 DEF Published
  <2> QED BY <1>2, <1>3, <1>4, <2>1, AggStutter
<1>6. CASE r.isComplete
  <2>1. fullRange # None /\ r.proof.leaves = Attested
    BY <1>0, <1>6 DEF OutInv, Whole
  <2>2. AllAttested /\ Alone
    BY <1>0, FullFacts, AloneFacts
  <2>3. output = None
    BY <1>0, <2>1, <2>2 DEF OutInv, Alone
  <2>4. Taken = Attested
    BY <2>1, <2>2 DEF AllAttested, Taken
  <2>5. \A t \in Tasks : IF RangeOf[t] = Precompile
                         THEN t \in Accepted
                         ELSE \E u \in Accepted : RangeOf[u] = RangeOf[t]
    BY <1>3, <2>1, <2>2, <2>4 DEF AllAttested
  <2>6. r.proof # None
    BY <1>0, NoneAssumption DEF TypeOK
  <2>7. Published = None /\ Published' = Accepted
    BY <1>3, <1>6, <2>1, <2>3, <2>4, <2>6 DEF Published
  <2> QED BY <1>2, <1>3, <1>4, <2>5, <2>7, AggPublish
<1> QED BY <1>5, <1>6

(* The loop fails.                                                         *)
LEMMA AggFails ==
    ASSUME TypeOK, TypeOK', result = "running", LoopFails
    PROVE  Aggregation!AggNext
<1>1. /\ result' = "failed" /\ output' = output /\ handling' = handling /\ coreProofMap' = coreProofMap
      /\ UNCHANGED <<proofQueue, lastCoreProof, map, reducing>>
  BY DEF LoopFails, intakeVars, sharedVars, coreVars
<1>2. Line' = Line
  BY <1>1 DEF Line, Send
<1>3. Taken' = Taken
  BY <1>1, <1>2, UnitsSame DEF Taken, Waiting
<1>4. Accepted = Taken /\ Accepted' = Taken'
  BY <1>1, AcceptedTaken
<1> QED BY <1>1, <1>3, <1>4, AggFail DEF Published, Outcome

(* A step that leaves the intake and the loop alone.                       *)
LEMMA AggQuiet ==
    ASSUME TypeOK, TypeOK', handling' = handling, coreProofMap' = coreProofMap,
           lastCoreProof' = lastCoreProof, UNCHANGED treeVars
    PROVE  UNCHANGED Aggregation!aggVars
<1>1. /\ proofQueue' = proofQueue /\ map' = map /\ reducing' = reducing
      /\ result' = result /\ output' = output
  BY DEF treeVars
<1>2. Line' = Line
  BY <1>1 DEF Line, Send
<1>3. Attested' = Attested
  BY <1>1, <1>2, UnitsSame
<1> QED BY <1>1, <1>3, AggStutter DEF Accepted, Published, Outcome

(* Every step is a step of the abstract specification or none.             *)
LEMMA AggNextStep ==
    ASSUME ShardsApart, BaseInv, BaseInv', TreeInv, OutputInv, [Next]_vars
    PROVE  Aggregation!AggNext \/ UNCHANGED Aggregation!aggVars
<1>0. TypeOK /\ TypeOK'
  BY DEF BaseInv, PendingInv
<1>1. ASSUME NEW t \in Tasks, ShardEnds(t) PROVE UNCHANGED Aggregation!aggVars
  BY <1>0, <1>1, AggQuiet DEF ShardEnds, intakeVars, sharedVars, coreVars
<1>2. CASE (\E t \in Tasks : IntakeReceive(t)) \/ IntakeInsert \/ IntakeClosed
  BY <1>2, AggIntake
<1>3. CASE ReceiveNumCoreProofs
  BY <1>0, <1>3, AggShard DEF ReceiveNumCoreProofs
<1>4. ASSUME NEW t \in Tasks, ReceiveCoreEvent(t)
      PROVE  Aggregation!AggNext \/ UNCHANGED Aggregation!aggVars
  <2>1. result = "running"
    BY <1>4 DEF ReceiveCoreEvent
  <2>2. CASE LoopFails
    BY <1>0, <2>1, <2>2, AggFails
  <2>3. CASE ShardProofReady(t)
    BY <1>0, <2>1, <2>3, AggShard
  <2>4. CASE ShardProofUnknown(t)
    BY <1>0, <2>4, AggQuiet DEF ShardProofUnknown, intakeVars, coreVars
  <2> QED BY <1>4, <2>2, <2>3, <2>4 DEF ReceiveCoreEvent
<1>5. CASE ReceiveProof
  BY <1>5, AggTree
<1>6. CASE ReduceRefused
  BY <1>0, <1>6, AggFails DEF ReduceRefused
<1>7. ASSUME NEW r \in reducing, ReceiveReduceEvent(r)
      PROVE  Aggregation!AggNext \/ UNCHANGED Aggregation!aggVars
  <2>1. result = "running"
    BY <1>7 DEF ReceiveReduceEvent
  <2>2. CASE LoopFails
    BY <1>0, <2>1, <2>2, AggFails
  <2>3. CASE ~LoopFails
    <3>1. /\ reducing' = reducing \ {r} /\ proofQueue' = Append(proofQueue, r.proof)
          /\ output' = IF r.isComplete THEN r.proof ELSE output
          /\ UNCHANGED <<intakeVars, coreProofMap, coreVars, map, result>>
      BY <1>7, <2>3 DEF ReceiveReduceEvent, sharedVars
    <3> QED BY <2>1, <3>1, AggReduced
  <2> QED BY <2>2, <2>3
<1>8. CASE Returned \/ UNCHANGED vars
  BY <1>0, <1>8, AggQuiet DEF Returned, vars, intakeVars, sharedVars, coreVars
<1> QED BY <1>1, <1>2, <1>3, <1>4, <1>5, <1>6, <1>7, <1>8 DEF Next

(* Nothing is accepted at the beginning.                                   *)
LEMMA AggInitial == Init => Aggregation!AggInit
<1> SUFFICES ASSUME Init PROVE Aggregation!AggInit
  OBVIOUS
<1>1. /\ proofQueue = <<>> /\ lastCoreProof = None /\ map = {} /\ reducing = {}
      /\ handling = None /\ coreProofMap = {} /\ output = None /\ result = "running"
  BY DEF Init
<1>2. Line = <<>> /\ TypeOK
  BY <1>1, PendingInit DEF Line, Send, PendingInv
<1>3. Attested = {}
  <2>1. \A l : ~InLine(l) /\ ~InTree(l) /\ ~InReducing(l)
    BY <1>1, <1>2 DEF InLine, InTree, InReducing
  <2> QED BY <1>2, <2>1, AttestedParts DEF AttestedThere
<1>4. Accepted = {}
  BY <1>1, <1>3 DEF Accepted
<1> QED BY <1>1, <1>4 DEF Aggregation!AggInit

(* The reduction implements the aggregation of shard proofs: at most one   *)
(* proof of every range is accepted, the output is published once and      *)
(* attests exactly the accepted ones, every range among them, and only     *)
(* then reduce_proofs returns Ok.                                          *)
THEOREM RefinementCorrect == ShardsApart /\ SeveralShards => (Spec => ImplementsAggregation)
<1>1. ShardsApart /\ BaseInv /\ BaseInv' /\ TreeInv /\ OutputInv /\ [Next]_vars
        => [Aggregation!AggNext]_(Aggregation!aggVars)
  BY AggNextStep
<1> SUFFICES ASSUME ShardsApart, SeveralShards PROVE Spec => Aggregation!AggSpec
  BY DEF ImplementsAggregation
<1> QED BY <1>1, AggInitial, BaseCorrect, TreeCorrect, OutCorrect, PTL DEF Spec, Aggregation!AggSpec

=============================================================================
