----------------------- MODULE DeferredRecordsProofs -----------------------
(***************************************************************************)
(* The invariants of DeferredRecords that its theorems rest on, in three   *)
(* layers.                                                                 *)
(*                                                                         *)
(* EmitInv is about the emitter alone: its slices are not empty and lie in *)
(* their chunks, no two of them overlap, and all slices of a core shard    *)
(* come from one attempt.  So there are no more shards than events.        *)
(* WorkerInv is about the attempts: where one is says which artifacts it   *)
(* has produced.  GateInv ties the records to the permits held, which      *)
(* holds as long as the cluster delivers no task twice.                    *)
(***************************************************************************)
EXTENDS DeferredRecords, FiniteSetTheorems, SequenceTheorems, WellFoundedInduction, TLAPS

(* A nonempty set of natural numbers has a least element, and Min is it.   *)
LEMMA MinFacts ==
    ASSUME NEW S, S \subseteq Nat, S # {}
    PROVE  Min(S) \in S /\ \A x \in S : Min(S) <= x
<1>1. PICK x \in S : \A y \in S : ~(<<y, x>> \in OpToRel(<, Nat))
  BY NatLessThanWellFounded, WFMin
<1>2. ASSUME NEW y \in S PROVE x <= y
  <2> SUFFICES ASSUME y < x PROVE FALSE
    OBVIOUS
  <2>1. <<y, x>> \in Nat \X Nat
    OBVIOUS
  <2>2. <<y, x>> \in OpToRel(<, Nat)
    BY <2>1 DEF OpToRel
  <2> QED BY <1>1, <2>2
<1> QED BY <1>2 DEF Min

(* The events of a core shard are cut into chunks that are not empty.      *)
LEMMA ChunkFacts ==
    ASSUME NEW s \in Shards
    PROVE  /\ NumChunks(s) \in Nat
           /\ \A i \in 1..NumChunks(s) : ChunkLen(s, i) \in 1..Threshold
<1> DEFINE E == NumEvents[s]
           T == Threshold
           n == (E + T - 1) \div T
<1>1. E \in Nat /\ T \in Nat /\ T > 0
  BY ShardsAssumption, BoundsAssumption
<1> HIDE DEF E, T
<1>2. n \in Nat /\ n * T <= E + T - 1 /\ E + T - 1 < n * T + T
  BY <1>1
<1> HIDE DEF n
<1>3. ASSUME NEW i \in 1..n
      PROVE  (IF i * T <= E THEN T ELSE E - (i - 1) * T) \in 1..T
  <2>1. i \in Nat /\ i * T \in Nat /\ (i - 1) * T = i * T - T /\ i * T <= n * T
    BY <1>1, <1>2
  <2>2. CASE i * T <= E
    BY <1>1, <2>2
  <2>3. CASE ~(i * T <= E)
    <3>1. E - (i * T - T) \in 1..T
      BY <1>1, <1>2, <2>1, <2>3
    <3> QED BY <2>1, <2>3, <3>1
  <2> QED BY <2>2, <2>3
<1> QED BY <1>2, <1>3 DEF NumChunks, ChunkLen, E, T, n

(* The number of events of a sequence of slices, and of one slice more.    *)
LEMMA CountFinite ==
    ASSUME NEW q \in Seq(Slice)
    PROVE  IsFiniteSet(Events(q)) /\ Count(q) \in Nat
<1>1. Len(q) \in Nat /\ Threshold \in Nat
  BY BoundsAssumption
<1>2. IsFiniteSet(1..Len(q)) /\ IsFiniteSet(0..Threshold)
  BY <1>1, FS_Interval
<1>3. IsFiniteSet((1..Len(q)) \X (0..Threshold))
  BY <1>2, FS_Product
<1>4. Events(q) \in SUBSET ((1..Len(q)) \X (0..Threshold))
  BY DEF Events
<1>5. IsFiniteSet(Events(q))
  BY <1>3, <1>4, FS_Subset
<1> QED BY <1>5, FS_CardinalityType DEF Count

(* One slice more adds its length to the count.                            *)
LEMMA CountNext ==
    ASSUME NEW q \in Seq(Slice), NEW r \in Seq(Slice), Len(r) = Len(q) + 1,
           \A i \in 1..Len(q) : r[i] = q[i],
           r[Len(r)].start <= r[Len(r)].end
    PROVE  Count(r) = Count(q) + (r[Len(r)].end - r[Len(r)].start)
<1> DEFINE n == Len(r)
           a == r[Len(r)].start
           b == r[Len(r)].end
           new == {n} \X (a..(b - 1))
<1>1. Len(q) \in Nat /\ n \in Nat /\ n = Len(q) + 1 /\ n \in 1..n /\ Threshold \in Nat
  BY BoundsAssumption
<1>2. a \in 0..Threshold /\ b \in 0..Threshold /\ a <= b
  <2>1. r[n] \in Slice
    BY <1>1
  <2> QED BY <2>1 DEF Slice
<1>3. IsFiniteSet(new) /\ Cardinality(new) = b - a
  <2>1. IsFiniteSet({n}) /\ Cardinality({n}) = 1
    BY FS_Singleton
  <2>2. a \in Int /\ b - 1 \in Int
    BY <1>1, <1>2
  <2>3. IsFiniteSet(a..(b - 1)) /\ Cardinality(a..(b - 1)) = IF a > b - 1 THEN 0 ELSE (b - 1) - a + 1
    BY <2>2, FS_Interval
  <2>4. Cardinality(a..(b - 1)) = b - a
    BY <1>1, <1>2, <2>3
  <2>5. IsFiniteSet(new) /\ Cardinality(new) = Cardinality({n}) * Cardinality(a..(b - 1))
    BY <2>1, <2>3, FS_Product
  <2> QED BY <1>1, <1>2, <2>1, <2>4, <2>5
<1>4. \A e : e \in Events(r) <=> e \in Events(q) \/ e \in new
  <2>1. ASSUME NEW e \in Events(r) PROVE e \in Events(q) \/ e \in new
    <3>1. e \in (1..n) \X (0..Threshold) /\ r[e[1]].start <= e[2] /\ e[2] < r[e[1]].end
      BY DEF Events
    <3>2. PICK i \in 1..n, k \in 0..Threshold : e = <<i, k>>
      BY <3>1
    <3>3. CASE i = n
      <4>1. k \in a..(b - 1)
        BY <1>1, <1>2, <3>1, <3>2, <3>3
      <4> QED BY <3>2, <3>3, <4>1
    <3>4. CASE i # n
      <4>1. i \in 1..Len(q)
        BY <1>1, <3>4
      <4> QED BY <3>1, <3>2, <4>1 DEF Events
    <3> QED BY <3>3, <3>4
  <2>2. ASSUME NEW e \in Events(q) PROVE e \in Events(r)
    <3>1. e \in (1..Len(q)) \X (0..Threshold) /\ q[e[1]].start <= e[2] /\ e[2] < q[e[1]].end
      BY DEF Events
    <3>2. PICK i \in 1..Len(q), k \in 0..Threshold : e = <<i, k>>
      BY <3>1
    <3>3. i \in 1..n /\ r[i] = q[i]
      BY <1>1
    <3> QED BY <3>1, <3>2, <3>3 DEF Events
  <2>3. ASSUME NEW e \in new PROVE e \in Events(r)
    <3>1. PICK k \in a..(b - 1) : e = <<n, k>>
      OBVIOUS
    <3>2. k \in 0..Threshold /\ a <= k /\ k < b
      BY <1>1, <1>2
    <3> QED BY <1>1, <3>1, <3>2 DEF Events
  <2> QED BY <2>1, <2>2, <2>3
<1>5. Events(q) \cap new = {}
  <2> SUFFICES ASSUME NEW e \in Events(q), e \in new PROVE FALSE
    OBVIOUS
  <2>1. e[1] \in 1..Len(q) /\ e[1] = n
    BY DEF Events
  <2> QED BY <1>1, <2>1
<1>6. Events(r) = Events(q) \cup new
  BY <1>4
<1>7. IsFiniteSet(Events(q)) /\ Count(q) \in Nat
  BY CountFinite
<1> HIDE DEF new
<1>8. Cardinality(Events(r)) = Cardinality(Events(q)) + Cardinality(new) - Cardinality({})
  <2>1. Cardinality(Events(q) \cup new) =
            Cardinality(Events(q)) + Cardinality(new) - Cardinality(Events(q) \cap new)
    BY <1>3, <1>7, FS_Union
  <2> QED BY <1>5, <1>6, <2>1
<1>9. Cardinality({}) = 0
  BY FS_EmptySet
<1> QED BY <1>2, <1>3, <1>7, <1>8, <1>9 DEF Count

(* No events without slices.                                               *)
LEMMA CountEmpty == Count(<<>>) = 0
<1>1. Events(<<>>) = {}
  BY DEF Events
<1> QED BY <1>1, FS_EmptySet DEF Count

-----------------------------------------------------------------------------
(* The slices: what the emitter has cut, is cutting and has not yet cut.   *)

(* The shards that were cut, submitted or not.                             *)
Cuts == submitted \o cut

(* Where the emitter is at a slice of the shard that it is cutting, and    *)
(* where it holds a message whose events are not yet accumulated.          *)
Placed == {"referencing", "unreferencing"}
Fetching == {"downloading", "appending"}

(* The types of what the emitter uses.                                     *)
EmitTypes ==
    /\ accumulator \in Seq(Slice) /\ cutting \in Seq(Slice)
    /\ cut \in Seq(Seq(Slice)) /\ submitted \in Seq(Seq(Slice))
    /\ position \in Nat /\ remainder \in BOOLEAN
    /\ emitter \in {"waiting", "downloading", "appending", "splitting",
                    "referencing", "unreferencing", "done", "failed"}
    /\ current \in Shards \cup {None}
    /\ wrapper \in 0..MaxAttempts
    /\ wrappers \in [Shards -> 0..MaxAttempts]
    /\ unsent \subseteq Shards /\ messages \subseteq Shards
    /\ dataMap \subseteq Shards /\ subscribed \subseteq Shards
    /\ ended \in BOOLEAN

(* A slice holds events of its chunk, and a shard holds slices.            *)
Whole(sl) ==
    sl.start < sl.end /\ sl.end <= ChunkLen(sl.artifact[1], sl.artifact[3])
SlicesWhole ==
    /\ \A i \in 1..Len(accumulator) : Whole(accumulator[i])
    /\ \A i \in 1..Len(cutting) : Whole(cutting[i])
    /\ \A k \in 1..Len(Cuts) :
          Cuts[k] # <<>> /\ \A i \in 1..Len(Cuts[k]) : Whole(Cuts[k][i])

(* The four things a step does to the slices: nothing, ...                 *)
SlicesKept ==
    /\ UNCHANGED <<accumulator, cutting, remainder>>
    /\ Cuts' = Cuts

(* ... the slices of a core shard come in, ...                             *)
SlicesAdded ==
    LET slices == IF wrapper = 0 THEN <<>> ELSE DeferRecord(current, wrapper)
    IN /\ AppendEvents
       /\ emitter = "appending"
       /\ accumulator' = accumulator \o slices
       /\ UNCHANGED <<cutting, remainder>>
       /\ Cuts' = Cuts

(* ... a shard is cut off, at place m of slice number `index`, ...         *)
SlicesCut(index, m) ==
    LET last == accumulator[index]
    IN /\ emitter = "splitting"
       /\ last.start < m /\ m <= last.end
       /\ remainder' = (m < last.end)
       /\ cutting' \in Seq(Slice)
       /\ Len(cutting') = index
       /\ \A i \in 1..index :
             /\ cutting'[i].artifact = accumulator[i].artifact
             /\ cutting'[i].start = accumulator[i].start
             /\ cutting'[i].end = IF i = index THEN m ELSE accumulator[i].end
       /\ accumulator' \in Seq(Slice)
       /\ m < last.end =>
             /\ Len(accumulator') = Len(accumulator) - index + 1
             /\ accumulator'[1].artifact = last.artifact
             /\ accumulator'[1].start = m
             /\ accumulator'[1].end = last.end
             /\ \A j \in 2..Len(accumulator') :
                   accumulator'[j] = accumulator[index + j - 1]
       /\ m = last.end =>
             /\ Len(accumulator') = Len(accumulator) - index
             /\ \A j \in 1..Len(accumulator') :
                   accumulator'[j] = accumulator[index + j]
       /\ \/ Count(cutting') = Threshold
          \/ LastSplit /\ accumulator' = <<>> /\ Count(cutting') \in 1..Threshold
       /\ Cuts' = Cuts

(* ... or the shard is complete.                                           *)
SlicesReady ==
    /\ emitter \in Placed
    /\ position = Len(cutting)
    /\ cutting' = <<>>
    /\ Cuts' = Append(Cuts, cutting)
    /\ UNCHANGED <<accumulator, remainder>>

(* The shards cut, as a sequence, and what submitting one or cutting one   *)
(* more makes of it.                                                       *)
LEMMA CutsMoved ==
    ASSUME NEW S, NEW p \in Seq(S), NEW q \in Seq(S), q # <<>>
    PROVE  /\ Append(p, Head(q)) \in Seq(S)
           /\ Tail(q) \in Seq(S)
           /\ Append(p, Head(q)) \o Tail(q) = p \o q
<1>1. Head(q) \in S /\ Tail(q) \in Seq(S) /\ Len(q) \in Nat /\ Len(Tail(q)) = Len(q) - 1
  BY HeadTailProperties
<1>2. Append(p, Head(q)) \in Seq(S) /\ Len(Append(p, Head(q))) = Len(p) + 1
  BY <1>1, AppendProperties
<1> DEFINE l == Append(p, Head(q)) \o Tail(q)
           r == p \o q
<1>3. l \in Seq(S) /\ r \in Seq(S) /\ Len(l) = Len(r) /\ Len(r) = Len(p) + Len(q)
  BY <1>1, <1>2, ConcatProperties
<1>4. ASSUME NEW i \in 1..Len(l) PROVE l[i] = r[i]
  <2>1. Len(p) \in Nat /\ Len(q) \in Nat /\ Len(q) > 0
    BY EmptySeq
  <2>2. l[i] = IF i <= Len(p) + 1 THEN Append(p, Head(q))[i] ELSE Tail(q)[i - (Len(p) + 1)]
    BY <1>1, <1>2, <1>3, ConcatProperties
  <2>3. r[i] = IF i <= Len(p) THEN p[i] ELSE q[i - Len(p)]
    BY <1>3, ConcatProperties
  <2>4. CASE i <= Len(p)
    BY <1>1, <2>1, <2>2, <2>3, <2>4, AppendProperties
  <2>5. CASE i = Len(p) + 1
    BY <1>1, <2>1, <2>2, <2>3, <2>5, AppendProperties
  <2>6. CASE i > Len(p) + 1
    <3>1. i - (Len(p) + 1) \in 1..Len(Tail(q)) /\ i - (Len(p) + 1) + 1 = i - Len(p)
      BY <1>1, <1>3, <2>1, <2>6
    <3> QED BY <2>1, <2>2, <2>3, <2>6, <3>1, HeadTailProperties
  <2> QED BY <1>3, <2>1, <2>4, <2>5, <2>6
<1>5. l = r
  BY <1>3, <1>4, SeqEqual
<1> QED BY <1>1, <1>2, <1>5

(* A shard is appended to those cut.                                       *)
LEMMA CutsGrown ==
    ASSUME NEW S, NEW p \in Seq(S), NEW q \in Seq(S), NEW x \in S
    PROVE  /\ Append(q, x) \in Seq(S)
           /\ p \o Append(q, x) = Append(p \o q, x)
<1>1. <<x>> \in Seq(S) /\ Append(q, x) \in Seq(S) /\ p \o q \in Seq(S)
  BY AppendProperties, ConcatProperties
<1>2. Append(q, x) = q \o <<x>> /\ Append(p \o q, x) = (p \o q) \o <<x>>
  BY <1>1, AppendIsConcat
<1>3. (p \o q) \o <<x>> = p \o (q \o <<x>>)
  BY <1>1, ConcatAssociative
<1> QED BY <1>1, <1>2, <1>3

(* The shards cut are a sequence that the submitted ones start.            *)
LEMMA CutsFacts ==
    ASSUME EmitTypes
    PROVE  /\ Cuts \in Seq(Seq(Slice))
           /\ Len(submitted) \in Nat /\ Len(cut) \in Nat
           /\ Len(Cuts) = Len(submitted) + Len(cut)
           /\ \A k \in 1..Len(submitted) : Cuts[k] = submitted[k]
           /\ \A k \in 1..Len(cut) : Cuts[Len(submitted) + k] = cut[k]
<1>1. submitted \in Seq(Seq(Slice)) /\ cut \in Seq(Seq(Slice))
  BY DEF EmitTypes
<1>2. Len(submitted) \in Nat /\ Len(cut) \in Nat
  BY <1>1, LenProperties
<1>3. /\ Cuts \in Seq(Seq(Slice)) /\ Len(Cuts) = Len(submitted) + Len(cut)
      /\ \A k \in 1..(Len(submitted) + Len(cut)) :
            Cuts[k] = IF k <= Len(submitted) THEN submitted[k] ELSE cut[k - Len(submitted)]
  BY <1>1, ConcatProperties DEF Cuts
<1>4. ASSUME NEW k \in 1..Len(cut) PROVE Cuts[Len(submitted) + k] = cut[k]
  <2>1. Len(submitted) + k \in 1..(Len(submitted) + Len(cut)) /\ ~(Len(submitted) + k <= Len(submitted))
        /\ Len(submitted) + k - Len(submitted) = k
    BY <1>2
  <2> QED BY <1>3, <2>1
<1> QED BY <1>2, <1>3, <1>4

(* The first i slices of a sequence.                                       *)
LEMMA PrefixFacts ==
    ASSUME NEW q \in Seq(Slice), NEW i \in 0..Len(q)
    PROVE  /\ SubSeq(q, 1, i) \in Seq(Slice)
           /\ Len(SubSeq(q, 1, i)) = i
           /\ \A j \in 1..i : SubSeq(q, 1, i)[j] = q[j]
<1>1. Len(q) \in Nat
  BY LenProperties
<1>2. i \in Int /\ \A j \in 1..i : q[j] \in Slice
  BY <1>1, ElementOfSeq
<1>3. /\ SubSeq(q, 1, i) \in Seq(Slice)
      /\ Len(SubSeq(q, 1, i)) = IF 1 <= i THEN i - 1 + 1 ELSE 0
      /\ \A j \in 1..(i - 1 + 1) : SubSeq(q, 1, i)[j] = q[1 + j - 1]
  BY <1>2, SubSeqProperties
<1> QED BY <1>1, <1>3

(* The slices after the first i.                                           *)
LEMMA SuffixFacts ==
    ASSUME NEW q \in Seq(Slice), NEW i \in 0..Len(q)
    PROVE  /\ SubSeq(q, i + 1, Len(q)) \in Seq(Slice)
           /\ Len(SubSeq(q, i + 1, Len(q))) = Len(q) - i
           /\ \A j \in 1..(Len(q) - i) : SubSeq(q, i + 1, Len(q))[j] = q[i + j]
<1>1. Len(q) \in Nat /\ i \in Nat /\ i <= Len(q)
  BY LenProperties
<1>2. i + 1 \in Int /\ Len(q) \in Int /\ \A j \in (i + 1)..Len(q) : q[j] \in Slice
  BY <1>1, ElementOfSeq
<1>3. /\ SubSeq(q, i + 1, Len(q)) \in Seq(Slice)
      /\ Len(SubSeq(q, i + 1, Len(q))) = IF i + 1 <= Len(q) THEN Len(q) - (i + 1) + 1 ELSE 0
      /\ \A j \in 1..(Len(q) - (i + 1) + 1) : SubSeq(q, i + 1, Len(q))[j] = q[i + 1 + j - 1]
  BY <1>2, SubSeqProperties
<1>4. Len(q) - (i + 1) + 1 = Len(q) - i /\ (~(i + 1 <= Len(q)) => Len(q) - i = 0)
  BY <1>1
<1>5. ASSUME NEW j \in 1..(Len(q) - i)
      PROVE  SubSeq(q, i + 1, Len(q))[j] = q[i + j]
  <2>1. i + 1 + j - 1 = i + j
    BY <1>1
  <2> QED BY <1>3, <1>4, <2>1
<1>6. Len(SubSeq(q, i + 1, Len(q))) = Len(q) - i
  BY <1>3, <1>4
<1> QED BY <1>3, <1>5, <1>6

(* CutShard: the first slice that fills the shard is cut where it is full. *)
LEMMA CutFacts ==
    ASSUME EmitTypes, SlicesWhole, CutShard
    PROVE  \E index \in 1..Len(accumulator), m \in Nat : SlicesCut(index, m)
<1> DEFINE index == Min(SplitPoints)
           slices == SubSeq(accumulator, 1, index)
           before == SubSeq(accumulator, 1, index - 1)
           rest == SubSeq(accumulator, index + 1, Len(accumulator))
           over == Count(slices) - Threshold
           last == accumulator[index]
           middle == slices[index].end - over
<1>1. accumulator \in Seq(Slice) /\ Len(accumulator) \in Nat
      /\ Threshold \in Nat /\ Threshold > 0
  BY LenProperties, BoundsAssumption DEF EmitTypes
<1>2. SplitPoints \subseteq Nat /\ SplitPoints \subseteq 1..Len(accumulator) /\ SplitPoints # {}
  BY <1>1 DEF SplitPoints, CutShard
<1>3. index \in SplitPoints /\ \A i \in SplitPoints : index <= i
  BY <1>2, MinFacts
<1>4. index \in 1..Len(accumulator)
  BY <1>2, <1>3
<1>5. /\ emitter = "splitting"
      /\ over > 0 =>
            /\ cutting' = [slices EXCEPT ![index].end = middle]
            /\ accumulator' = <<[slices[index] EXCEPT !.start = middle]>> \o rest
      /\ ~(over > 0) => cutting' = slices /\ accumulator' = rest
      /\ remainder' = (over > 0)
      /\ cut' = cut /\ submitted' = submitted
  BY DEF CutShard
<1>6. \/ Count(slices) >= Threshold
      \/ LastSplit /\ index = Len(accumulator)
  BY <1>3 DEF SplitPoints
<1>7. index - 1 \in SplitPoints => FALSE
  BY <1>1, <1>3, <1>4
<1> HIDE DEF index
<1>8. /\ slices \in Seq(Slice) /\ Len(slices) = index
      /\ \A i \in 1..index : slices[i] = accumulator[i]
  BY <1>1, <1>4, PrefixFacts
<1>9. /\ before \in Seq(Slice) /\ Len(before) = index - 1
      /\ \A i \in 1..(index - 1) : before[i] = accumulator[i]
  <2>1. index - 1 \in 0..Len(accumulator)
    BY <1>1, <1>4
  <2> QED BY <1>1, <2>1, PrefixFacts
<1>10. /\ rest \in Seq(Slice) /\ Len(rest) = Len(accumulator) - index
       /\ \A j \in 1..(Len(accumulator) - index) : rest[j] = accumulator[index + j]
  <2>1. index \in 0..Len(accumulator)
    BY <1>1, <1>4
  <2> QED BY <1>1, <2>1, SuffixFacts
<1>11. Count(before) \in Nat /\ Count(before) < Threshold
  <2>1. Count(before) \in Nat
    BY <1>9, CountFinite
  <2>2. CASE index = 1
    <3>1. before = <<>>
      BY <1>9, <2>2, EmptySeq
    <3> QED BY <1>1, <2>1, <3>1, CountEmpty
  <2>3. CASE index # 1
    <3>1. index - 1 \in 1..Len(accumulator)
      BY <1>1, <1>4, <2>3
    <3>2. ~(Count(before) >= Threshold)
      BY <1>7, <3>1 DEF SplitPoints
    <3> QED BY <1>1, <2>1, <3>2
  <2> QED BY <2>2, <2>3
<1>12. last \in Slice /\ last.start \in 0..Threshold /\ last.end \in 0..Threshold /\ last.start < last.end
  <2>1. last \in Slice
    BY <1>1, <1>4, ElementOfSeq
  <2>2. Whole(last)
    BY <1>4 DEF SlicesWhole
  <2> QED BY <2>1, <2>2 DEF Slice, Whole
<1> HIDE DEF slices, before, rest, last
<1>13. slices[index] = last /\ index \in 1..index /\ index \in Nat
  BY <1>4, <1>8 DEF last
<1>14. Count(slices) = Count(before) + (last.end - last.start)
  <2>1. Len(slices) = Len(before) + 1 /\ slices[Len(slices)] = last
    BY <1>1, <1>4, <1>8, <1>9, <1>13
  <2>2. \A i \in 1..Len(before) : slices[i] = before[i]
    BY <1>1, <1>4, <1>8, <1>9
  <2>3. slices[Len(slices)].start <= slices[Len(slices)].end
    BY <1>12, <2>1
  <2> QED BY <1>8, <1>9, <2>1, <2>2, <2>3, CountNext
<1>15. Cuts' = Cuts
  BY <1>5 DEF Cuts
<1>16. CASE over > 0
  <2>1. middle = last.end - over /\ over \in Nat
    BY <1>11, <1>12, <1>13, <1>14, <1>16, <1>1
  <2> HIDE DEF over
  <2>2. middle \in 0..Threshold /\ last.start < middle /\ middle < last.end
        /\ Count(before) + (middle - last.start) = Threshold
    BY <1>1, <1>11, <1>12, <1>14, <1>16, <2>1 DEF over
  <2> HIDE DEF middle
  <2> DEFINE head == [last EXCEPT !.end = middle]
             left == [last EXCEPT !.start = middle]
  <2>3. head \in Slice /\ left \in Slice
    BY <1>12, <2>2 DEF Slice
  <2>4. /\ head.artifact = last.artifact /\ head.start = last.start /\ head.end = middle
        /\ left.artifact = last.artifact /\ left.start = middle /\ left.end = last.end
    BY <1>12, <2>2 DEF Slice
  <2>5. cutting' = [slices EXCEPT ![index] = head] /\ accumulator' = <<left>> \o rest
    BY <1>5, <1>16, <1>13
  <2> HIDE DEF head, left
  <2>6. /\ cutting' \in Seq(Slice) /\ Len(cutting') = index
        /\ \A i \in 1..index : cutting'[i] = IF i = index THEN head ELSE slices[i]
    BY <1>8, <1>13, <2>3, <2>5, ExceptSeq
  <2>7. <<left>> \in Seq(Slice) /\ Len(<<left>>) = 1 /\ <<left>>[1] = left
    BY <2>3
  <2>8. /\ accumulator' \in Seq(Slice) /\ Len(accumulator') = 1 + Len(rest)
        /\ \A j \in 1..(1 + Len(rest)) : accumulator'[j] = IF j <= 1 THEN <<left>>[j] ELSE rest[j - 1]
    BY <1>10, <2>5, <2>7, ConcatProperties
  <2>9. /\ Len(accumulator') = Len(accumulator) - index + 1
        /\ accumulator'[1] = left
        /\ \A j \in 2..Len(accumulator') : accumulator'[j] = accumulator[index + j - 1]
    <3>1. Len(rest) \in Nat /\ Len(accumulator') = Len(accumulator) - index + 1
      BY <1>1, <1>4, <1>10, <2>8
    <3>2. accumulator'[1] = left
      BY <2>7, <2>8, <3>1
    <3>3. ASSUME NEW j \in 2..Len(accumulator') PROVE accumulator'[j] = accumulator[index + j - 1]
      <4>1. j \in 1..(1 + Len(rest)) /\ ~(j <= 1) /\ j - 1 \in 1..(Len(accumulator) - index)
            /\ index + (j - 1) = index + j - 1
        BY <1>1, <1>4, <1>10, <2>8, <3>1
      <4> QED BY <1>10, <2>8, <4>1
    <3> QED BY <3>1, <3>2, <3>3
  <2>10. Count(cutting') = Threshold
    <3>1. Len(cutting') = Len(before) + 1 /\ cutting'[Len(cutting')] = head
      BY <1>4, <1>9, <1>13, <2>6
    <3>2. \A i \in 1..Len(before) : cutting'[i] = before[i]
      BY <1>1, <1>4, <1>8, <1>9, <2>6
    <3>3. cutting'[Len(cutting')].start <= cutting'[Len(cutting')].end
      BY <1>12, <2>2, <2>4, <3>1
    <3>4. Count(cutting') = Count(before) + (cutting'[Len(cutting')].end - cutting'[Len(cutting')].start)
      BY <1>9, <2>6, <3>1, <3>2, <3>3, CountNext
    <3> QED BY <2>2, <2>4, <3>1, <3>4
  <2>11. remainder' = (middle < last.end) /\ ~(middle = last.end)
    BY <1>1, <1>5, <1>12, <1>16, <2>2
  <2>12. \A i \in 1..index :
             /\ cutting'[i].artifact = accumulator[i].artifact
             /\ cutting'[i].start = accumulator[i].start
             /\ cutting'[i].end = IF i = index THEN middle ELSE accumulator[i].end
    BY <1>8, <1>13, <2>4, <2>6
  <2>13. last.start < middle /\ middle <= last.end
    BY <1>1, <1>12, <2>2
  <2>14. SlicesCut(index, middle)
    BY <1>5, <1>15, <2>4, <2>6, <2>8, <2>9, <2>10, <2>11, <2>12, <2>13 DEF SlicesCut, last
  <2> QED BY <1>4, <2>2, <2>14
<1>17. CASE ~(over > 0)
  <2>1. cutting' = slices /\ accumulator' = rest /\ Count(slices) \in Nat /\ Count(slices) <= Threshold
        /\ 1 <= Count(slices)
    BY <1>1, <1>5, <1>8, <1>11, <1>12, <1>14, <1>17, CountFinite
  <2>2. remainder' = (last.end < last.end)
    BY <1>1, <1>5, <1>12, <1>17
  <2>3. \/ Count(cutting') = Threshold
        \/ LastSplit /\ accumulator' = <<>> /\ Count(cutting') \in 1..Threshold
    <3>1. CASE Count(slices) >= Threshold
      BY <1>1, <2>1, <3>1
    <3>2. CASE LastSplit /\ index = Len(accumulator)
      <4>1. Len(rest) = 0
        BY <1>1, <1>10, <3>2
      <4>2. rest = <<>>
        BY <1>10, <4>1, EmptySeq
      <4> QED BY <1>1, <2>1, <3>2, <4>2
    <3> QED BY <1>6, <3>1, <3>2 DEF slices
  <2>4. last.end \in Nat /\ last.start < last.end /\ last.end <= last.end /\ ~(last.end < last.end)
    BY <1>1, <1>12
  <2>5. \A i \in 1..index :
             /\ cutting'[i].artifact = accumulator[i].artifact
             /\ cutting'[i].start = accumulator[i].start
             /\ cutting'[i].end = IF i = index THEN last.end ELSE accumulator[i].end
    BY <1>8, <2>1 DEF last
  <2>6. SlicesCut(index, last.end)
    BY <1>5, <1>8, <1>10, <1>15, <2>1, <2>2, <2>3, <2>4, <2>5 DEF SlicesCut, last
  <2> QED BY <1>4, <2>4, <2>6
<1> QED BY <1>16, <1>17

(* Where the emitter is, and what it holds there: a shard is being cut     *)
(* only while its slices are referenced, and a message is in one place.    *)
EmitPlaces ==
    /\ emitter \in Fetching => current \in Shards
    /\ emitter = "waiting" => current = None
    /\ emitter \in Placed => position \in 1..Len(cutting)
    /\ emitter \notin Placed \cup {"failed"} => cutting = <<>>
    /\ emitter = "failed" => ended
    /\ emitter = "unreferencing" => ~(position = Len(cutting) /\ remainder)
    /\ dataMap = subscribed
    /\ unsent \cap messages = {}
    /\ (unsent \cup messages) \cap dataMap = {}
    /\ emitter \in Fetching => current \notin unsent \cup messages \cup dataMap

(* The state that the invariants of the slices speak of.                   *)
EmitView == <<wrappers, executorVars, listenVars, emitVars>>

(* The steps that change it.                                               *)
LEMMA EmitFrame ==
    ASSUME [Next]_vars
    PROVE  \/ UNCHANGED EmitView
           \/ \E s \in Shards : SubmitCoreShard(s)
           \/ \E s \in Shards, n \in 1..MaxAttempts : UploadDeferred(s, n)
           \/ Emitter
           \/ ProofEnds
<1> USE DEF EmitView, storeVars, workerVars, executorVars, listenVars, emitVars
<1>1. CASE UNCHANGED vars
  BY <1>1 DEF vars
<1>2. ASSUME NEW t \in Tasks, ReleasePermit(t) PROVE UNCHANGED EmitView
  BY <1>2 DEF ReleasePermit
<1>3. CASE DropGate
  BY <1>3 DEF DropGate
<1>4. ASSUME NEW t \in Tasks, NEW n \in 1..MaxAttempts, Worker(t, n)
      PROVE  UNCHANGED EmitView
  BY <1>4 DEF Worker, Start, TraceFails, DownloadEvents, Prove, DropSliceRef, FreeSlice,
              Finish, JoinFails, Fail
<1>5. ASSUME NEW s \in Shards, NEW n \in 1..MaxAttempts,
             CompleteMarker(s, n) \/ UploadFails(s, n)
      PROVE  UNCHANGED EmitView
  BY <1>5 DEF CompleteMarker, UploadFails
<1>6. ASSUME NEW t \in Tasks, Redeliver(t) PROVE UNCHANGED EmitView
  BY <1>6 DEF Redeliver
<1> QED BY <1>1, <1>2, <1>3, <1>4, <1>5, <1>6
        DEF Next, Progress, DeferredUpload, RequestFails

(* The slices of an upload: the chunks of its events, all of each.         *)
LEMMA DeferFacts ==
    ASSUME NEW s \in Shards, NEW n \in 1..MaxAttempts
    PROVE  /\ DeferRecord(s, n) \in Seq(Slice)
           /\ Len(DeferRecord(s, n)) = NumChunks(s)
           /\ \A i \in 1..NumChunks(s) :
                 /\ <<s, n, i>> \in ArtifactIds
                 /\ DeferRecord(s, n)[i].artifact = <<s, n, i>>
                 /\ DeferRecord(s, n)[i].start = 0
                 /\ DeferRecord(s, n)[i].end = ChunkLen(s, i)
                 /\ Whole(DeferRecord(s, n)[i])
<1>1. /\ NumChunks(s) \in Nat
      /\ \A i \in 1..NumChunks(s) : ChunkLen(s, i) \in 1..Threshold
  BY ChunkFacts
<1>2. Threshold \in Nat
  BY BoundsAssumption
<1>3. \A i \in 1..NumChunks(s) : <<s, n, i>> \in ArtifactIds
  <2>1. \A i \in 1..NumChunks(s) : <<s, n, i>> \in EventArtifacts(s, n)
    BY DEF EventArtifacts
  <2>2. \A a : a \in EventArtifacts(s, n) => a \in ArtifactIds
    BY DEF ArtifactIds
  <2> QED BY <2>1, <2>2
<1>4. \A i \in 1..NumChunks(s) :
          [artifact |-> <<s, n, i>>, start |-> 0, end |-> ChunkLen(s, i)] \in Slice
  BY <1>1, <1>2, <1>3 DEF Slice
<1>5. DeferRecord(s, n) \in Seq(Slice) /\ Len(DeferRecord(s, n)) = NumChunks(s)
  BY <1>1, <1>4 DEF DeferRecord
<1>6. \A i \in 1..NumChunks(s) : DeferRecord(s, n)[i] =
          [artifact |-> <<s, n, i>>, start |-> 0, end |-> ChunkLen(s, i)]
  BY DEF DeferRecord
<1>7. ASSUME NEW i \in 1..NumChunks(s) PROVE Whole(DeferRecord(s, n)[i])
  <2> DEFINE sl == DeferRecord(s, n)[i]
  <2>0. sl = [artifact |-> <<s, n, i>>, start |-> 0, end |-> ChunkLen(s, i)]
    BY <1>6
  <2> HIDE DEF sl
  <2>1. sl.artifact = <<s, n, i>> /\ sl.start = 0 /\ sl.end = ChunkLen(s, i)
    BY <2>0
  <2>2. <<s, n, i>>[1] = s /\ <<s, n, i>>[3] = i
    OBVIOUS
  <2>3. Whole(sl)
    BY <1>1, <1>2, <2>1, <2>2 DEF Whole
  <2> QED BY <2>3 DEF sl
<1> QED BY <1>3, <1>5, <1>6, <1>7

(* The number of attempts of a task is bounded.                            *)
LEMMA AttemptsFacts == MaxAttempts \in Nat \ {0}
  BY BoundsAssumption DEF MaxAttempts

(* What a step does to the slices.                                         *)
LEMMA SlicesMove ==
    ASSUME EmitTypes, EmitPlaces, SlicesWhole, [Next]_vars
    PROVE  \/ SlicesKept
           \/ SlicesAdded
           \/ \E index \in 1..Len(accumulator), m \in Nat : SlicesCut(index, m)
           \/ SlicesReady
<1>1. CASE UNCHANGED EmitView
  BY <1>1 DEF EmitView, emitVars, SlicesKept, Cuts
<1>2. ASSUME NEW s \in Shards, SubmitCoreShard(s) PROVE SlicesKept
  BY <1>2 DEF SubmitCoreShard, emitVars, SlicesKept, Cuts
<1>3. ASSUME NEW s \in Shards, NEW n \in 1..MaxAttempts, UploadDeferred(s, n)
      PROVE  SlicesKept
  BY <1>3 DEF UploadDeferred, emitVars, SlicesKept, Cuts
<1>4. ASSUME NEW s \in Shards, ListenerReceive(s) \/ ReceiveMarker(s) PROVE SlicesKept
  BY <1>4 DEF ListenerReceive, ReceiveMarker, emitVars, SlicesKept, Cuts
<1>5. CASE DownloadWrapper \/ EndOfStream \/ AllSubmitted \/ EmitterFails \/ ProofEnds
  BY <1>5 DEF DownloadWrapper, EndOfStream, AllSubmitted, EmitterFails, ProofEnds,
              emitVars, SlicesKept, Cuts
<1>6. CASE AppendEvents
  BY <1>6 DEF AppendEvents, SlicesAdded, Cuts
<1>7. CASE CutShard
  BY <1>7, CutFacts
<1>8. CASE SubmitPrecompileShard
  <2>1. cut # <<>> /\ submitted' = Append(submitted, Head(cut)) /\ cut' = Tail(cut)
        /\ UNCHANGED <<accumulator, cutting, remainder>>
    BY <1>8 DEF SubmitPrecompileShard
  <2>2. submitted \in Seq(Seq(Slice)) /\ cut \in Seq(Seq(Slice))
    BY DEF EmitTypes
  <2>3. Append(submitted, Head(cut)) \o Tail(cut) = submitted \o cut
    BY <2>1, <2>2, CutsMoved
  <2>4. Cuts' = Cuts
    BY <2>1, <2>3 DEF Cuts
  <2> QED BY <2>1, <2>4 DEF SlicesKept
<1>9. ASSUME NextPosition, UNCHANGED <<accumulator, remainder, submitted>>, emitter \in Placed
      PROVE  SlicesKept \/ SlicesReady
  <2>1. CASE position < Len(cutting)
    BY <1>9, <2>1 DEF NextPosition, SlicesKept, Cuts
  <2>2. CASE ~(position < Len(cutting))
    <3>1. position = Len(cutting)
      BY <1>9, <2>2 DEF EmitPlaces, EmitTypes
    <3>2. cutting' = <<>> /\ cut' = Append(cut, cutting)
      BY <1>9, <2>2 DEF NextPosition
    <3>3. submitted \in Seq(Seq(Slice)) /\ cut \in Seq(Seq(Slice)) /\ cutting \in Seq(Slice)
      BY DEF EmitTypes
    <3>4. Cuts' = Append(Cuts, cutting)
      BY <1>9, <3>2, <3>3, CutsGrown DEF Cuts
    <3> QED BY <1>9, <3>1, <3>2, <3>4 DEF SlicesReady
  <2> QED BY <2>1, <2>2
<1>10. CASE AddSliceRef
  <2>1. emitter \in Placed /\ UNCHANGED <<accumulator, remainder, submitted>>
    BY <1>10 DEF AddSliceRef, Placed
  <2>2. CASE NextPosition
    BY <1>9, <2>1, <2>2
  <2>3. CASE UNCHANGED <<position, cutting, cut>>
    BY <2>1, <2>3 DEF SlicesKept, Cuts
  <2> QED BY <1>10, <2>2, <2>3 DEF AddSliceRef
<1>11. CASE DropControllerRef
  <2>1. emitter \in Placed /\ UNCHANGED <<accumulator, remainder, submitted>> /\ NextPosition
    BY <1>11 DEF DropControllerRef, Placed
  <2> QED BY <1>9, <2>1
<1> QED BY <1>1, <1>2, <1>3, <1>4, <1>5, <1>6, <1>7, <1>8, <1>10, <1>11, EmitFrame
        DEF Emitter, ReceiveFailedMarker, SubmitRefused

(* An event artifact names its core shard, the attempt and the chunk.      *)
LEMMA ArtifactFacts ==
    ASSUME NEW a \in ArtifactIds
    PROVE  /\ a = <<a[1], a[2], a[3]>>
           /\ a[1] \in Shards /\ a[2] \in 1..MaxAttempts
           /\ a[3] \in 1..NumChunks(a[1])
<1>1. PICK s \in Shards : a \in UNION {EventArtifacts(s, n) : n \in 1..MaxAttempts}
  BY DEF ArtifactIds
<1>2. PICK n \in 1..MaxAttempts : a \in EventArtifacts(s, n)
  BY <1>1
<1>3. PICK i \in 1..NumChunks(s) : a = <<s, n, i>>
  BY <1>2 DEF EventArtifacts
<1> QED BY <1>3

(* The slices of the emitter's next list.                                  *)
LEMMA AddedFacts ==
    ASSUME EmitTypes, EmitPlaces, emitter = "appending",
           NEW slices, slices = IF wrapper = 0 THEN <<>> ELSE DeferRecord(current, wrapper)
    PROVE  /\ slices \in Seq(Slice) /\ Len(slices) \in Nat
           /\ current \in Shards
           /\ \A i \in 1..Len(slices) :
                 /\ wrapper \in 1..MaxAttempts
                 /\ slices[i].artifact = <<current, wrapper, i>>
                 /\ slices[i].artifact \in EventArtifacts(current, wrapper)
                 /\ Whole(slices[i])
           /\ wrapper # 0 => Len(slices) = NumChunks(current)
                             /\ slices = DeferRecord(current, wrapper)
<1>1. current \in Shards /\ wrapper \in 0..MaxAttempts
  BY DEF EmitTypes, EmitPlaces, Fetching
<1>2. CASE wrapper = 0
  <2>1. slices = <<>> /\ slices \in Seq(Slice) /\ Len(slices) = 0
    BY <1>2, EmptySeq
  <2> QED BY <1>1, <1>2, <2>1
<1>3. CASE wrapper # 0
  <2>1. wrapper \in 1..MaxAttempts /\ slices = DeferRecord(current, wrapper)
    BY <1>1, <1>3, AttemptsFacts
  <2>2. NumChunks(current) \in Nat
    BY <1>1, ChunkFacts
  <2>3. \A i \in 1..NumChunks(current) : <<current, wrapper, i>> \in EventArtifacts(current, wrapper)
    BY DEF EventArtifacts
  <2>4. /\ slices \in Seq(Slice) /\ Len(slices) = NumChunks(current)
        /\ \A i \in 1..NumChunks(current) :
              slices[i].artifact = <<current, wrapper, i>> /\ Whole(slices[i])
    BY <1>1, <2>1, DeferFacts
  <2> QED BY <1>1, <2>1, <2>2, <2>3, <2>4
<1> QED BY <1>2, <1>3

(* The types of the slices are kept.                                       *)
LEMMA SliceTypesStep ==
    ASSUME EmitTypes, EmitPlaces, SlicesWhole, [Next]_vars
    PROVE  /\ accumulator' \in Seq(Slice) /\ cutting' \in Seq(Slice)
           /\ cut' \in Seq(Seq(Slice)) /\ submitted' \in Seq(Seq(Slice))
           /\ remainder' \in BOOLEAN
<1> USE DEF EmitTypes
<1>1. accumulator' \in Seq(Slice) /\ cutting' \in Seq(Slice) /\ remainder' \in BOOLEAN
  <2>1. CASE SlicesKept
    BY <2>1 DEF SlicesKept
  <2>2. CASE SlicesAdded
    <3>1. PICK slices : /\ slices = IF wrapper = 0 THEN <<>> ELSE DeferRecord(current, wrapper)
                        /\ accumulator' = accumulator \o slices
      BY <2>2 DEF SlicesAdded
    <3>2. slices \in Seq(Slice) /\ emitter = "appending"
      BY <2>2, <3>1, AddedFacts DEF SlicesAdded
    <3> QED BY <2>2, <3>1, <3>2, ConcatProperties DEF SlicesAdded
  <2>3. ASSUME NEW index \in 1..Len(accumulator), NEW m \in Nat, SlicesCut(index, m)
        PROVE  accumulator' \in Seq(Slice) /\ cutting' \in Seq(Slice) /\ remainder' \in BOOLEAN
    BY <2>3 DEF SlicesCut
  <2>4. CASE SlicesReady
    BY <2>4, EmptySeq DEF SlicesReady
  <2> QED BY <2>1, <2>2, <2>3, <2>4, SlicesMove
<1>2. cut' \in Seq(Seq(Slice)) /\ submitted' \in Seq(Seq(Slice))
  <2>1. cut \in Seq(Seq(Slice)) /\ submitted \in Seq(Seq(Slice)) /\ cutting \in Seq(Slice)
    OBVIOUS
  <2>2. CASE SubmitPrecompileShard
    <3>1. cut # <<>> /\ submitted' = Append(submitted, Head(cut)) /\ cut' = Tail(cut)
      BY <2>2 DEF SubmitPrecompileShard
    <3> QED BY <2>1, <3>1, CutsMoved
  <2>3. CASE NextPosition /\ UNCHANGED submitted
    <3>1. cut' = cut \/ cut' = Append(cut, cutting)
      BY <2>3 DEF NextPosition
    <3>2. Append(cut, cutting) \in Seq(Seq(Slice))
      BY <2>1, AppendProperties
    <3> QED BY <2>1, <2>3, <3>1, <3>2
  <2>4. CASE UNCHANGED <<cut, submitted>>
    BY <2>1, <2>4
  <2>5. \/ SubmitPrecompileShard
        \/ NextPosition /\ UNCHANGED submitted
        \/ UNCHANGED <<cut, submitted>>
    <3>1. CASE UNCHANGED EmitView
      BY <3>1 DEF EmitView, emitVars
    <3>2. ASSUME NEW s \in Shards, SubmitCoreShard(s) PROVE UNCHANGED <<cut, submitted>>
      BY <3>2 DEF SubmitCoreShard, emitVars
    <3>3. ASSUME NEW s \in Shards, NEW n \in 1..MaxAttempts, UploadDeferred(s, n)
          PROVE  UNCHANGED <<cut, submitted>>
      BY <3>3 DEF UploadDeferred, emitVars
    <3>4. ASSUME NEW s \in Shards, ListenerReceive(s) \/ ReceiveMarker(s)
          PROVE  UNCHANGED <<cut, submitted>>
      BY <3>4 DEF ListenerReceive, ReceiveMarker, emitVars
    <3>5. CASE DownloadWrapper \/ EndOfStream \/ AllSubmitted \/ AppendEvents \/ CutShard
      BY <3>5 DEF DownloadWrapper, EndOfStream, AllSubmitted, AppendEvents, CutShard
    <3>6. CASE AddSliceRef \/ DropControllerRef
      BY <3>6 DEF AddSliceRef, DropControllerRef
    <3>7. CASE EmitterFails \/ ProofEnds
      BY <3>7 DEF EmitterFails, ProofEnds, emitVars
    <3> QED BY <3>1, <3>2, <3>3, <3>4, <3>5, <3>6, <3>7, EmitFrame
            DEF Emitter, ReceiveFailedMarker, SubmitRefused
  <2> QED BY <2>2, <2>3, <2>4, <2>5
<1> QED BY <1>1, <1>2

(* So are the others.                                                      *)
LEMMA EmitTypesStep ==
    ASSUME EmitTypes, EmitPlaces, SlicesWhole, [Next]_vars
    PROVE  EmitTypes'
<1> DEFINE Rest ==
    /\ position' \in Nat
    /\ emitter' \in {"waiting", "downloading", "appending", "splitting",
                    "referencing", "unreferencing", "done", "failed"}
    /\ current' \in Shards \cup {None}
    /\ wrapper' \in 0..MaxAttempts
    /\ wrappers' \in [Shards -> 0..MaxAttempts]
    /\ unsent' \subseteq Shards /\ messages' \subseteq Shards
    /\ dataMap' \subseteq Shards /\ subscribed' \subseteq Shards
    /\ ended' \in BOOLEAN
<1>0. MaxAttempts \in Nat \ {0} /\ Len(cutting) \in Nat
  BY AttemptsFacts, LenProperties DEF EmitTypes
<1>1. ASSUME UNCHANGED EmitView PROVE Rest
  BY <1>1 DEF EmitTypes, EmitView, executorVars, listenVars, emitVars
<1>2. ASSUME NEW s \in Shards, SubmitCoreShard(s) PROVE Rest
  BY <1>2 DEF SubmitCoreShard, EmitTypes, listenVars, emitVars
<1>3. ASSUME NEW s \in Shards, NEW n \in 1..MaxAttempts, UploadDeferred(s, n)
      PROVE  Rest
  BY <1>0, <1>3 DEF UploadDeferred, EmitTypes, executorVars, listenVars, emitVars
<1>4. ASSUME NEW s \in Shards, ListenerReceive(s) PROVE Rest
  BY <1>4 DEF ListenerReceive, EmitTypes, storeVars, emitVars
<1>5. ASSUME NEW s \in Shards, ReceiveMarker(s) PROVE Rest
  BY <1>5 DEF ReceiveMarker, EmitTypes, storeVars, executorVars
<1>6. ASSUME DownloadWrapper PROVE Rest
  <2>1. current \in Shards
    BY <1>6 DEF DownloadWrapper, EmitPlaces, Fetching
  <2> QED BY <1>6, <2>1 DEF DownloadWrapper, EmitTypes, storeVars, executorVars, listenVars
<1>7. ASSUME AppendEvents PROVE Rest
  <2>1. wrappers' \in [Shards -> 0..MaxAttempts]
    <3>1. wrappers' = [wrappers EXCEPT ![current] = 0]
      BY <1>7 DEF AppendEvents
    <3>2. wrappers \in [Shards -> 0..MaxAttempts] /\ 0 \in 0..MaxAttempts
      BY <1>0 DEF EmitTypes
    <3> QED BY <3>1, <3>2
  <2> QED BY <1>7, <2>1 DEF AppendEvents, EmitTypes, executorVars, listenVars
<1>8. ASSUME EndOfStream \/ AllSubmitted PROVE Rest
  BY <1>8 DEF EndOfStream, AllSubmitted, EmitTypes, storeVars, executorVars, listenVars
<1>9. ASSUME CutShard PROVE Rest
  BY <1>9 DEF CutShard, EmitTypes, storeVars, executorVars, listenVars
<1>10. ASSUME SubmitPrecompileShard PROVE Rest
  BY <1>10 DEF SubmitPrecompileShard, EmitTypes, executorVars, listenVars
<1>11. ASSUME NextPosition PROVE position' \in Nat /\ emitter' \in {"referencing", "splitting"}
  BY <1>0, <1>11 DEF NextPosition, EmitTypes
<1>12. ASSUME AddSliceRef PROVE Rest
  <2>1. CASE NextPosition
    BY <1>11, <1>12, <2>1 DEF AddSliceRef, EmitTypes, executorVars, listenVars
  <2>2. CASE emitter' = "unreferencing" /\ UNCHANGED <<position, cutting, cut>>
    BY <1>12, <2>2 DEF AddSliceRef, EmitTypes, executorVars, listenVars
  <2> QED BY <1>12, <2>1, <2>2 DEF AddSliceRef
<1>13. ASSUME DropControllerRef PROVE Rest
  <2>1. NextPosition
    BY <1>13 DEF DropControllerRef
  <2> QED BY <1>11, <1>13, <2>1 DEF DropControllerRef, EmitTypes, executorVars, listenVars
<1>14. ASSUME EmitterFails PROVE Rest
  BY <1>14 DEF EmitterFails, EmitTypes, storeVars, executorVars, listenVars
<1>15. ASSUME ProofEnds PROVE Rest
  <2>1. wrappers' \in [Shards -> 0..MaxAttempts]
    BY <1>0, <1>15 DEF ProofEnds
  <2> QED BY <1>15, <2>1 DEF ProofEnds, EmitTypes, listenVars, emitVars
<1>16. Rest
  BY <1>1, <1>2, <1>3, <1>4, <1>5, <1>6, <1>7, <1>8, <1>9, <1>10, <1>12, <1>13, <1>14,
     <1>15, EmitFrame DEF Emitter, ReceiveFailedMarker, SubmitRefused
<1> HIDE DEF Rest
<1> QED BY <1>16, SliceTypesStep DEF EmitTypes, Rest

(* The emitter's places are kept.                                          *)
LEMMA EmitPlacesStep ==
    ASSUME EmitTypes, EmitPlaces, SlicesWhole, [Next]_vars
    PROVE  EmitPlaces'
<1> USE DEF Placed, Fetching
<1>0. Len(cutting) \in Nat /\ None \notin Shards
  BY LenProperties, ShardsAssumption DEF EmitTypes
<1>1. CASE UNCHANGED EmitView
  BY <1>1 DEF EmitPlaces, EmitView, executorVars, listenVars, emitVars
<1>2. ASSUME NEW s \in Shards, SubmitCoreShard(s) PROVE EmitPlaces'
  BY <1>2 DEF SubmitCoreShard, EmitPlaces, listenVars, emitVars
<1>3. ASSUME NEW s \in Shards, NEW n \in 1..MaxAttempts, UploadDeferred(s, n)
      PROVE  EmitPlaces'
  BY <1>3 DEF UploadDeferred, EmitPlaces, executorVars, listenVars, emitVars
<1>4. ASSUME NEW s \in Shards, ListenerReceive(s) PROVE EmitPlaces'
  BY <1>4 DEF ListenerReceive, EmitPlaces, emitVars
<1>5. ASSUME NEW s \in Shards, ReceiveMarker(s) PROVE EmitPlaces'
  BY <1>5 DEF ReceiveMarker, EmitPlaces, executorVars
<1>6. CASE DownloadWrapper
  BY <1>6 DEF DownloadWrapper, EmitPlaces, executorVars, listenVars
<1>7. CASE AppendEvents
  <2>1. UNCHANGED <<executorVars, listenVars, current, cutting, position, remainder>>
        /\ emitter = "appending" /\ emitter' = "splitting"
    BY <1>7 DEF AppendEvents
  <2> QED BY <2>1 DEF EmitPlaces, executorVars, listenVars
<1>8. CASE EndOfStream
  BY <1>8 DEF EndOfStream, EmitPlaces, executorVars, listenVars
<1>9. CASE AllSubmitted
  BY <1>9 DEF AllSubmitted, EmitPlaces, executorVars, listenVars
<1>10. CASE CutShard
  <2>1. UNCHANGED <<executorVars, listenVars, current>> /\ position' = 1
        /\ emitter = "splitting" /\ emitter' = "referencing"
    BY <1>10 DEF CutShard
  <2>2. PICK index \in 1..Len(accumulator), m \in Nat : SlicesCut(index, m)
    BY <1>10, CutFacts
  <2>3. Len(accumulator) \in Nat /\ Len(cutting') = index
    BY <2>2, LenProperties DEF SlicesCut, EmitTypes
  <2>4. 1 \in 1..Len(cutting')
    BY <2>2, <2>3
  <2> QED BY <2>1, <2>4 DEF EmitPlaces, executorVars, listenVars
<1>11. CASE SubmitPrecompileShard
  BY <1>11 DEF SubmitPrecompileShard, EmitPlaces, executorVars, listenVars
<1>12. ASSUME NextPosition, emitter \in Placed,
              UNCHANGED <<executorVars, listenVars, current, remainder>>
       PROVE  EmitPlaces'
  <2>1. CASE position < Len(cutting)
    <3>1. position' = position + 1 /\ emitter' = "referencing" /\ cutting' = cutting
      BY <1>12, <2>1 DEF NextPosition
    <3>2. position' \in 1..Len(cutting')
      BY <1>0, <2>1, <3>1 DEF EmitTypes
    <3> QED BY <1>12, <3>1, <3>2 DEF EmitPlaces, executorVars, listenVars
  <2>2. CASE ~(position < Len(cutting))
    <3>1. emitter' = "splitting" /\ cutting' = <<>>
      BY <1>12, <2>2 DEF NextPosition
    <3> QED BY <1>12, <3>1 DEF EmitPlaces, executorVars, listenVars
  <2> QED BY <2>1, <2>2
<1>13. CASE AddSliceRef
  <2>1. emitter = "referencing" /\ UNCHANGED <<executorVars, listenVars, current, remainder>>
    BY <1>13 DEF AddSliceRef
  <2>2. CASE position = Len(cutting) /\ remainder
    BY <1>12, <1>13, <2>1, <2>2 DEF AddSliceRef
  <2>3. CASE ~(position = Len(cutting) /\ remainder)
    <3>1. emitter' = "unreferencing" /\ UNCHANGED <<position, cutting>>
      BY <1>13, <2>3 DEF AddSliceRef
    <3> QED BY <2>1, <2>3, <3>1 DEF EmitPlaces, executorVars, listenVars
  <2> QED BY <2>2, <2>3
<1>14. CASE DropControllerRef
  <2>1. emitter = "unreferencing" /\ UNCHANGED <<executorVars, listenVars, current, remainder>>
        /\ NextPosition
    BY <1>14 DEF DropControllerRef
  <2> QED BY <1>12, <2>1
<1>15. ASSUME EmitterFails, ended PROVE EmitPlaces'
  BY <1>15 DEF EmitterFails, EmitPlaces, executorVars, listenVars
<1>16. CASE ProofEnds
  BY <1>16 DEF ProofEnds, EmitPlaces, listenVars, emitVars
<1> QED BY <1>1, <1>2, <1>3, <1>4, <1>5, <1>6, <1>7, <1>8, <1>9, <1>10, <1>11,
           <1>13, <1>14, <1>15, <1>16, EmitFrame
        DEF Emitter, ReceiveFailedMarker, SubmitRefused, TaskRefused

(* What a slice is made of.                                                *)
LEMMA SliceNumbers ==
    ASSUME NEW sl \in Slice
    PROVE  /\ sl.artifact \in ArtifactIds /\ sl.start \in Nat /\ sl.end \in Nat
           /\ sl.end <= Threshold
           /\ ChunkLen(sl.artifact[1], sl.artifact[3]) \in Nat
<1>1. /\ sl.artifact \in ArtifactIds /\ sl.start \in 0..Threshold
      /\ sl.end \in 0..Threshold /\ Threshold \in Nat
  BY BoundsAssumption DEF Slice
<1>2. sl.artifact[1] \in Shards /\ sl.artifact[3] \in 1..NumChunks(sl.artifact[1])
  BY <1>1, ArtifactFacts
<1>3. ChunkLen(sl.artifact[1], sl.artifact[3]) \in 1..Threshold
  BY <1>2, ChunkFacts
<1> QED BY <1>1, <1>3

(* The slices that are kept have these types.                              *)
LEMMA SliceFacts ==
    ASSUME EmitTypes
    PROVE  /\ Len(accumulator) \in Nat
           /\ \A i \in 1..Len(accumulator) : accumulator[i] \in Slice
           /\ Len(cutting) \in Nat
           /\ \A i \in 1..Len(cutting) : cutting[i] \in Slice
           /\ Len(Cuts) \in Nat
           /\ \A k \in 1..Len(Cuts) :
                 /\ Cuts[k] \in Seq(Slice) /\ Len(Cuts[k]) \in Nat
                 /\ \A i \in 1..Len(Cuts[k]) : Cuts[k][i] \in Slice
<1>1. accumulator \in Seq(Slice) /\ cutting \in Seq(Slice) /\ Cuts \in Seq(Seq(Slice))
  BY CutsFacts DEF EmitTypes
<1>2. \A k \in 1..Len(Cuts) : Cuts[k] \in Seq(Slice)
  BY <1>1, ElementOfSeq
<1>3. ASSUME NEW k \in 1..Len(Cuts), NEW i \in 1..Len(Cuts[k]) PROVE Cuts[k][i] \in Slice
  BY <1>2, ElementOfSeq
<1>4. \A k \in 1..Len(Cuts) : Len(Cuts[k]) \in Nat
  BY <1>2, LenProperties
<1> QED BY <1>1, <1>2, <1>3, <1>4, LenProperties, ElementOfSeq

(* The slices after a step, one list at a time.                            *)
LEMMA AddedSlices ==
    ASSUME EmitTypes, EmitPlaces, SlicesAdded
    PROVE  /\ UNCHANGED <<cutting, remainder, Cuts>>
           /\ Len(accumulator') \in Nat
           /\ Len(accumulator) <= Len(accumulator')
           /\ \A i \in 1..Len(accumulator) : accumulator'[i] = accumulator[i]
           /\ current \in Shards
           /\ \A i \in 1..Len(accumulator') : i > Len(accumulator) =>
                 /\ wrapper \in 1..MaxAttempts
                 /\ accumulator'[i].artifact = <<current, wrapper, i - Len(accumulator)>>
                 /\ Whole(accumulator'[i])
<1>1. PICK slices : /\ slices = IF wrapper = 0 THEN <<>> ELSE DeferRecord(current, wrapper)
                    /\ accumulator' = accumulator \o slices
  BY DEF SlicesAdded
<1>2. emitter = "appending" /\ UNCHANGED <<cutting, remainder, Cuts>>
  BY DEF SlicesAdded
<1>3. /\ slices \in Seq(Slice) /\ Len(slices) \in Nat
      /\ current \in Shards
      /\ \A i \in 1..Len(slices) :
            /\ wrapper \in 1..MaxAttempts
            /\ slices[i].artifact = <<current, wrapper, i>>
            /\ Whole(slices[i])
  BY <1>1, <1>2, AddedFacts
<1>4. accumulator \in Seq(Slice) /\ Len(accumulator) \in Nat
  BY LenProperties DEF EmitTypes
<1>5. /\ Len(accumulator') = Len(accumulator) + Len(slices)
      /\ \A i \in 1..(Len(accumulator) + Len(slices)) : accumulator'[i] =
            IF i <= Len(accumulator) THEN accumulator[i] ELSE slices[i - Len(accumulator)]
  BY <1>1, <1>3, <1>4, ConcatProperties
<1>6. \A i \in 1..Len(accumulator) : accumulator'[i] = accumulator[i]
  BY <1>3, <1>4, <1>5
<1>7. ASSUME NEW i \in 1..Len(accumulator'), i > Len(accumulator)
      PROVE  /\ wrapper \in 1..MaxAttempts
             /\ accumulator'[i].artifact = <<current, wrapper, i - Len(accumulator)>>
             /\ Whole(accumulator'[i])
  <2>1. i - Len(accumulator) \in 1..Len(slices) /\ accumulator'[i] = slices[i - Len(accumulator)]
    BY <1>3, <1>4, <1>5, <1>7
  <2> QED BY <1>3, <2>1
<1> QED BY <1>2, <1>3, <1>4, <1>5, <1>6, <1>7

(* What is left after a cut: slice j of it is of the old slice i.          *)
LeftOver(index, m, i, j) ==
    /\ i = IF remainder' THEN index + j - 1 ELSE index + j
    /\ accumulator'[j].artifact = accumulator[i].artifact
    /\ accumulator[i].start <= accumulator'[j].start
    /\ accumulator'[j].end = accumulator[i].end
    /\ i = index => accumulator'[j].start = m /\ cutting'[index].end = m
    /\ Whole(accumulator'[j])

(* Every slice after a cut is one that was accumulated, or a part of it.   *)
LEMMA CutSlices ==
    ASSUME EmitTypes, EmitPlaces, SlicesWhole,
           NEW index \in 1..Len(accumulator), NEW m \in Nat, SlicesCut(index, m)
    PROVE  /\ Len(cutting') = index /\ Len(accumulator') \in Nat
           /\ \A i \in 1..index :
                 /\ cutting'[i].artifact = accumulator[i].artifact
                 /\ cutting'[i].start = accumulator[i].start
                 /\ cutting'[i].end <= accumulator[i].end
                 /\ Whole(cutting'[i])
           /\ \A j \in 1..Len(accumulator') :
                 \E i \in index..Len(accumulator) : LeftOver(index, m, i, j)
<1>1. /\ Len(accumulator) \in Nat
      /\ \A i \in 1..Len(accumulator) : accumulator[i] \in Slice /\ Whole(accumulator[i])
  BY SliceFacts DEF SlicesWhole
<1>2. \A i \in 1..Len(accumulator) :
         /\ accumulator[i].start \in Nat /\ accumulator[i].end \in Nat
         /\ ChunkLen(accumulator[i].artifact[1], accumulator[i].artifact[3]) \in Nat
         /\ accumulator[i].start < accumulator[i].end
         /\ accumulator[i].end <= ChunkLen(accumulator[i].artifact[1], accumulator[i].artifact[3])
  BY <1>1, SliceNumbers DEF Whole
<1>3. /\ accumulator[index].start < m /\ m <= accumulator[index].end
      /\ remainder' = (m < accumulator[index].end)
      /\ Len(cutting') = index /\ accumulator' \in Seq(Slice)
      /\ \A i \in 1..index :
            /\ cutting'[i].artifact = accumulator[i].artifact
            /\ cutting'[i].start = accumulator[i].start
            /\ cutting'[i].end = IF i = index THEN m ELSE accumulator[i].end
      /\ m < accumulator[index].end =>
             /\ Len(accumulator') = Len(accumulator) - index + 1
             /\ accumulator'[1].artifact = accumulator[index].artifact
             /\ accumulator'[1].start = m
             /\ accumulator'[1].end = accumulator[index].end
             /\ \A j \in 2..Len(accumulator') :
                   accumulator'[j] = accumulator[index + j - 1]
      /\ m = accumulator[index].end =>
             /\ Len(accumulator') = Len(accumulator) - index
             /\ \A j \in 1..Len(accumulator') :
                   accumulator'[j] = accumulator[index + j]
  BY DEF SlicesCut
<1>4. ASSUME NEW i \in 1..index
      PROVE  /\ cutting'[i].artifact = accumulator[i].artifact
             /\ cutting'[i].start = accumulator[i].start
             /\ cutting'[i].end <= accumulator[i].end
             /\ Whole(cutting'[i])
  <2>1. i \in 1..Len(accumulator)
    BY <1>1
  <2>2. CASE i = index
    <3>1. /\ cutting'[i].artifact = accumulator[index].artifact
          /\ cutting'[i].start = accumulator[index].start
          /\ cutting'[i].end = m
      BY <1>3, <2>2
    <3>2. /\ accumulator[index].start < m /\ m <= accumulator[index].end
          /\ m <= ChunkLen(accumulator[index].artifact[1], accumulator[index].artifact[3])
      BY <1>2, <1>3
    <3> QED BY <2>2, <3>1, <3>2 DEF Whole
  <2>3. CASE i # index
    <3>1. /\ cutting'[i].artifact = accumulator[i].artifact
          /\ cutting'[i].start = accumulator[i].start
          /\ cutting'[i].end = accumulator[i].end
      BY <1>3, <2>3
    <3> QED BY <1>2, <2>1, <3>1 DEF Whole
  <2> QED BY <2>2, <2>3
<1>5. Len(accumulator') \in Nat
  BY <1>3, LenProperties
<1>6. ASSUME NEW j \in 1..Len(accumulator')
      PROVE  \E i \in index..Len(accumulator) : LeftOver(index, m, i, j)
  <2> USE DEF LeftOver
  <2>0. cutting'[index].end = m
    BY <1>3
  <2>1. CASE m < accumulator[index].end /\ j = 1
    <3>0. remainder'
      BY <1>3, <2>1
    <3>1. index \in index..Len(accumulator) /\ index = index + j - 1
      BY <1>1, <2>1
    <3>2. /\ accumulator'[j].artifact = accumulator[index].artifact
          /\ accumulator[index].start <= accumulator'[j].start
          /\ accumulator'[j].end = accumulator[index].end
          /\ accumulator'[j].start = m
          /\ Whole(accumulator'[j])
      BY <1>2, <1>3, <2>1 DEF Whole
    <3> QED BY <2>0, <3>0, <3>1, <3>2
  <2>2. CASE m < accumulator[index].end /\ j # 1
    <3> DEFINE i == index + j - 1
    <3>0. remainder' /\ Len(accumulator') = Len(accumulator) - index + 1
      BY <1>3, <2>2
    <3>1. i \in index..Len(accumulator) /\ i # index /\ j \in 2..Len(accumulator')
          /\ i \in 1..Len(accumulator)
      BY <1>1, <1>5, <2>2, <3>0
    <3>2. accumulator'[j] = accumulator[i]
      BY <1>3, <2>2, <3>1
    <3> HIDE DEF i
    <3>3. i = IF remainder' THEN index + j - 1 ELSE index + j
      BY <3>0 DEF i
    <3>4. /\ Whole(accumulator'[j])
          /\ accumulator[i].start <= accumulator'[j].start
      BY <1>1, <1>2, <3>1, <3>2
    <3> QED BY <3>1, <3>2, <3>3, <3>4
  <2>3. CASE m = accumulator[index].end
    <3> DEFINE i == index + j
    <3>0. ~remainder' /\ Len(accumulator') = Len(accumulator) - index
      <4>1. accumulator[index].end \in Nat
        BY <1>2
      <4>2. ~(m < accumulator[index].end)
        BY <2>3, <4>1
      <4> QED BY <1>3, <2>3, <4>2
    <3>1. i \in index..Len(accumulator) /\ i # index /\ i \in 1..Len(accumulator)
      BY <1>1, <1>5, <2>3, <3>0
    <3>2. accumulator'[j] = accumulator[i]
      BY <1>3, <2>3, <3>1
    <3> HIDE DEF i
    <3>3. i = IF remainder' THEN index + j - 1 ELSE index + j
      BY <3>0 DEF i
    <3>4. /\ Whole(accumulator'[j])
          /\ accumulator[i].start <= accumulator'[j].start
      BY <1>1, <1>2, <3>1, <3>2
    <3> QED BY <3>1, <3>2, <3>3, <3>4
  <2> QED BY <1>2, <1>3, <2>1, <2>2, <2>3
<1> QED BY <1>3, <1>4, <1>5, <1>6

(* The shards cut after one more.                                          *)
LEMMA ReadySlices ==
    ASSUME EmitTypes, EmitPlaces, SlicesReady
    PROVE  /\ Len(cutting') = 0 /\ cutting # <<>>
           /\ UNCHANGED <<accumulator, remainder>>
           /\ Len(Cuts) \in Nat /\ Len(Cuts') = Len(Cuts) + 1
           /\ \A k \in 1..Len(Cuts) : Cuts'[k] = Cuts[k]
           /\ Cuts'[Len(Cuts) + 1] = cutting
<1>1. Cuts \in Seq(Seq(Slice)) /\ cutting \in Seq(Slice) /\ Len(Cuts) \in Nat
  BY CutsFacts, LenProperties DEF EmitTypes
<1>2. Cuts' = Append(Cuts, cutting) /\ cutting' = <<>> /\ UNCHANGED <<accumulator, remainder>>
  BY DEF SlicesReady
<1>3. cutting # <<>>
  <2>1. position \in 1..Len(cutting)
    BY DEF SlicesReady, EmitPlaces
  <2>2. Len(<<>>) = 0
    OBVIOUS
  <2> QED BY <2>1, <2>2
<1> QED BY <1>1, <1>2, <1>3, AppendProperties

(* Every step keeps SlicesWhole.                                           *)
LEMMA SlicesWholeStep ==
    ASSUME EmitTypes, EmitPlaces, SlicesWhole, [Next]_vars
    PROVE  SlicesWhole'
<1>1. CASE SlicesKept
  BY <1>1 DEF SlicesKept, SlicesWhole
<1>2. CASE SlicesAdded
  <2>1. \A i \in 1..Len(accumulator') : Whole(accumulator'[i])
    <3> SUFFICES ASSUME NEW i \in 1..Len(accumulator') PROVE Whole(accumulator'[i])
      OBVIOUS
    <3>1. CASE i <= Len(accumulator)
      <4>1. i \in 1..Len(accumulator)
        BY <3>1, SliceFacts
      <4> QED BY <1>2, <4>1, AddedSlices DEF SlicesWhole
    <3>2. CASE i > Len(accumulator)
      BY <1>2, <3>2, AddedSlices
    <3> QED BY <3>1, <3>2, SliceFacts
  <2> QED BY <1>2, <2>1, AddedSlices DEF SlicesWhole
<1>3. ASSUME NEW index \in 1..Len(accumulator), NEW m \in Nat, SlicesCut(index, m)
      PROVE  SlicesWhole'
  <2>1. Cuts' = Cuts
    BY <1>3 DEF SlicesCut
  <2>2. \A i \in 1..Len(accumulator') : Whole(accumulator'[i])
    BY <1>3, CutSlices DEF LeftOver
  <2>3. \A i \in 1..Len(cutting') : Whole(cutting'[i])
    BY <1>3, CutSlices
  <2> QED BY <2>1, <2>2, <2>3 DEF SlicesWhole
<1>4. CASE SlicesReady
  <2>1. \A k \in 1..Len(Cuts') : k \in 1..Len(Cuts) \/ k = Len(Cuts) + 1
    BY <1>4, ReadySlices
  <2>2. \A i \in 1..Len(cutting') : Whole(cutting'[i])
    BY <1>4, ReadySlices
  <2>3. \A k \in 1..Len(Cuts') :
          Cuts'[k] # <<>> /\ \A i \in 1..Len(Cuts'[k]) : Whole(Cuts'[k][i])
    BY <1>4, <2>1, ReadySlices DEF SlicesWhole
  <2> QED BY <1>4, <2>2, <2>3, ReadySlices DEF SlicesWhole
<1> QED BY <1>1, <1>2, <1>3, <1>4, SlicesMove

(* Slices do not overlap.  Slices that are accumulated or cut together are *)
(* of different artifacts; only the last slice of the shard that is being  *)
(* cut can share its artifact, with the first of what is left.             *)
Disjoint(x, y) ==
    x.artifact = y.artifact => x.end <= y.start \/ y.end <= x.start
AccumulatorApart ==
    \A i, j \in 1..Len(accumulator) :
        i # j => accumulator[i].artifact # accumulator[j].artifact
CuttingApart ==
    \A i, j \in 1..Len(cutting) : i # j => cutting[i].artifact # cutting[j].artifact
RemainderApart ==
    \A i \in 1..Len(cutting), j \in 1..Len(accumulator) :
        cutting[i].artifact = accumulator[j].artifact =>
            i = Len(cutting) /\ remainder /\ cutting[i].end <= accumulator[j].start
RestApart ==
    \A k \in 1..Len(Cuts) : \A i \in 1..Len(Cuts[k]) :
        /\ \A j \in 1..Len(accumulator) : Disjoint(Cuts[k][i], accumulator[j])
        /\ \A j \in 1..Len(cutting) : Disjoint(Cuts[k][i], cutting[j])
CutsApart ==
    \A k, l \in 1..Len(Cuts) : \A i \in 1..Len(Cuts[k]), j \in 1..Len(Cuts[l]) :
        <<k, i>> # <<l, j>> => Disjoint(Cuts[k][i], Cuts[l][j])
SlicesApart ==
    AccumulatorApart /\ CuttingApart /\ RemainderApart /\ RestApart /\ CutsApart

(* The artifacts that slices are of; of every core shard those of one      *)
(* attempt, and none of a core shard whose events are still to come.       *)
Used(a) ==
    \/ \E i \in 1..Len(accumulator) : accumulator[i].artifact = a
    \/ \E i \in 1..Len(cutting) : cutting[i].artifact = a
    \/ \E k \in 1..Len(Cuts) : \E i \in 1..Len(Cuts[k]) : Cuts[k][i].artifact = a
Fresh(s) ==
    \/ s \in unsent \cup messages \cup dataMap
    \/ s = current /\ emitter \in Fetching
OneAttempt ==
    /\ \A a, b \in ArtifactIds : Used(a) /\ Used(b) /\ a[1] = b[1] => a[2] = b[2]
    /\ \A s \in Shards, a \in ArtifactIds : Fresh(s) /\ Used(a) => a[1] # s

EmitInv == EmitTypes /\ EmitPlaces /\ SlicesWhole /\ SlicesApart /\ OneAttempt

(* A step uses artifacts that were used, and with AppendEvents those of    *)
(* the current core shard.                                                 *)
LEMMA UsedStep ==
    ASSUME EmitTypes, EmitPlaces, SlicesWhole, [Next]_vars, NEW a, Used(a)'
    PROVE  \/ Used(a)
           \/ /\ SlicesAdded /\ wrapper \in 1..MaxAttempts
              /\ \E i \in Nat : a = <<current, wrapper, i>>
<1>1. CASE SlicesKept
  BY <1>1 DEF SlicesKept, Used
<1>2. CASE SlicesAdded
  <2>1. CASE \E i \in 1..Len(accumulator') : accumulator'[i].artifact = a
    <3>1. PICK i \in 1..Len(accumulator') : accumulator'[i].artifact = a
      BY <2>1
    <3>2. CASE i <= Len(accumulator)
      <4>1. i \in 1..Len(accumulator) /\ accumulator'[i] = accumulator[i]
        BY <1>2, <3>2, SliceFacts, AddedSlices
      <4> QED BY <3>1, <4>1 DEF Used
    <3>3. CASE i > Len(accumulator)
      <4>1. i - Len(accumulator) \in Nat
        BY <1>2, <3>3, SliceFacts, AddedSlices
      <4> QED BY <1>2, <3>1, <3>3, <4>1, AddedSlices
    <3> QED BY <3>2, <3>3, SliceFacts
  <2>2. CASE ~\E i \in 1..Len(accumulator') : accumulator'[i].artifact = a
    BY <1>2, <2>2, AddedSlices DEF Used
  <2> QED BY <2>1, <2>2
<1>3. ASSUME NEW index \in 1..Len(accumulator), NEW m \in Nat, SlicesCut(index, m)
      PROVE  Used(a)
  <2>1. CASE \E j \in 1..Len(accumulator') : accumulator'[j].artifact = a
    <3>1. PICK j \in 1..Len(accumulator') : accumulator'[j].artifact = a
      BY <2>1
    <3>2. PICK i \in index..Len(accumulator) : LeftOver(index, m, i, j)
      BY <1>3, CutSlices
    <3>3. i \in 1..Len(accumulator)
      BY SliceFacts
    <3> QED BY <3>1, <3>2, <3>3 DEF Used, LeftOver
  <2>2. CASE \E j \in 1..Len(cutting') : cutting'[j].artifact = a
    <3>1. PICK j \in 1..Len(cutting') : cutting'[j].artifact = a
      BY <2>2
    <3>2. j \in 1..index /\ j \in 1..Len(accumulator)
      BY <1>3, CutSlices, SliceFacts
    <3> QED BY <1>3, <3>1, <3>2, CutSlices DEF Used
  <2>3. Cuts' = Cuts
    BY <1>3 DEF SlicesCut
  <2> QED BY <2>1, <2>2, <2>3 DEF Used
<1>4. CASE SlicesReady
  <2>1. \A k \in 1..Len(Cuts') : k \in 1..Len(Cuts) \/ k = Len(Cuts) + 1
    BY <1>4, ReadySlices
  <2>2. CASE \E k \in 1..Len(Cuts') : \E i \in 1..Len(Cuts'[k]) : Cuts'[k][i].artifact = a
    <3>1. PICK k \in 1..Len(Cuts') : \E i \in 1..Len(Cuts'[k]) : Cuts'[k][i].artifact = a
      BY <2>2
    <3> QED BY <1>4, <2>1, <3>1, ReadySlices DEF Used
  <2>3. CASE \E i \in 1..Len(accumulator') : accumulator'[i].artifact = a
    BY <1>4, <2>3, ReadySlices DEF Used
  <2>4. ~\E i \in 1..Len(cutting') : cutting'[i].artifact = a
    BY <1>4, ReadySlices
  <2> QED BY <2>2, <2>3, <2>4 DEF Used
<1> QED BY <1>1, <1>2, <1>3, <1>4, SlicesMove

(* A core shard that is waited for was waited for, and AppendEvents ends   *)
(* the wait for the current one.                                           *)
LEMMA FreshStep ==
    ASSUME EmitTypes, EmitPlaces, [Next]_vars, NEW s \in Shards, Fresh(s)'
    PROVE  Fresh(s) /\ (AppendEvents => s # current)
<1> USE DEF Fresh, Placed, Fetching, EmitPlaces
<1>1. CASE UNCHANGED EmitView /\ ~AppendEvents
  BY <1>1 DEF EmitView, executorVars, listenVars, emitVars
<1>2. ASSUME NEW u \in Shards, SubmitCoreShard(u) PROVE Fresh(s) /\ ~AppendEvents
  <2>1. ~AppendEvents
    BY <1>2 DEF SubmitCoreShard, AppendEvents, emitVars
  <2> QED BY <1>2, <2>1 DEF SubmitCoreShard, listenVars, emitVars
<1>3. ASSUME NEW u \in Shards, NEW n \in 1..MaxAttempts, UploadDeferred(u, n)
      PROVE  Fresh(s) /\ ~AppendEvents
  <2>1. ~AppendEvents
    BY <1>3 DEF UploadDeferred, AppendEvents, emitVars
  <2> QED BY <1>3, <2>1 DEF UploadDeferred, executorVars, listenVars, emitVars
<1>4. ASSUME NEW u \in Shards, ListenerReceive(u) PROVE Fresh(s) /\ ~AppendEvents
  <2>1. ~AppendEvents
    BY <1>4 DEF ListenerReceive, AppendEvents, emitVars
  <2> QED BY <1>4, <2>1 DEF ListenerReceive, emitVars
<1>5. ASSUME NEW u \in Shards, ReceiveMarker(u) PROVE Fresh(s) /\ ~AppendEvents
  <2>1. ~AppendEvents
    BY <1>5 DEF ReceiveMarker, AppendEvents
  <2> QED BY <1>5, <2>1 DEF ReceiveMarker, executorVars
<1>6. CASE DownloadWrapper
  <2>1. ~AppendEvents
    BY <1>6 DEF DownloadWrapper, AppendEvents
  <2> QED BY <1>6, <2>1 DEF DownloadWrapper, executorVars, listenVars
<1>7. CASE AppendEvents
  <2>1. UNCHANGED <<executorVars, listenVars, current>>
        /\ emitter = "appending" /\ emitter' = "splitting"
    BY <1>7 DEF AppendEvents
  <2> QED BY <2>1 DEF executorVars, listenVars
<1>8. CASE EndOfStream \/ AllSubmitted
  <2>1. ~AppendEvents
    BY <1>8 DEF EndOfStream, AllSubmitted, AppendEvents
  <2> QED BY <1>8, <2>1 DEF EndOfStream, AllSubmitted, executorVars, listenVars
<1>9. CASE CutShard
  <2>1. UNCHANGED <<executorVars, listenVars, current>>
        /\ emitter = "splitting" /\ emitter' = "referencing"
    BY <1>9 DEF CutShard
  <2>2. ~AppendEvents
    BY <2>1 DEF AppendEvents
  <2> QED BY <2>1, <2>2 DEF executorVars, listenVars
<1>10. CASE SubmitPrecompileShard
  <2>1. ~AppendEvents
    BY <1>10 DEF SubmitPrecompileShard, AppendEvents
  <2> QED BY <1>10, <2>1 DEF SubmitPrecompileShard, executorVars, listenVars
<1>11. CASE AddSliceRef \/ DropControllerRef
  <2>1. UNCHANGED <<executorVars, listenVars, current>> /\ emitter \in Placed
        /\ emitter' \in {"referencing", "unreferencing", "splitting"}
    BY <1>11 DEF AddSliceRef, DropControllerRef, NextPosition
  <2>2. ~AppendEvents
    BY <2>1 DEF AppendEvents
  <2> QED BY <2>1, <2>2 DEF executorVars, listenVars
<1>12. CASE EmitterFails
  <2>1. ~AppendEvents
    BY <1>12 DEF EmitterFails, AppendEvents
  <2> QED BY <1>12, <2>1 DEF EmitterFails, executorVars, listenVars
<1>13. CASE ProofEnds
  <2>1. ~AppendEvents
    BY <1>13 DEF ProofEnds, AppendEvents, emitVars
  <2> QED BY <1>13, <2>1 DEF ProofEnds, listenVars, emitVars
<1> QED BY <1>1, <1>2, <1>3, <1>4, <1>5, <1>6, <1>7, <1>8, <1>9, <1>10, <1>11, <1>12,
           <1>13, EmitFrame DEF Emitter, ReceiveFailedMarker, SubmitRefused

(* Every step keeps OneAttempt.                                            *)
LEMMA OneAttemptStep ==
    ASSUME EmitTypes, EmitPlaces, SlicesWhole, OneAttempt, [Next]_vars
    PROVE  OneAttempt'
<1>1. ASSUME SlicesAdded PROVE AppendEvents /\ current \in Shards /\ Fresh(current)
  BY <1>1, AddedSlices DEF SlicesAdded, Fresh, Fetching
<1>2. ASSUME NEW a \in ArtifactIds, NEW b \in ArtifactIds,
             Used(a)', Used(b)', a[1] = b[1]
      PROVE  a[2] = b[2]
  <2>1. CASE Used(a) /\ Used(b)
    BY <1>2, <2>1 DEF OneAttempt
  <2>2. CASE ~Used(a) /\ ~Used(b)
    BY <1>2, <2>2, UsedStep
  <2>3. CASE ~Used(a) /\ Used(b)
    <3>1. SlicesAdded /\ a[1] = current
      BY <1>2, <2>3, UsedStep
    <3> QED BY <1>1, <1>2, <2>3, <3>1 DEF OneAttempt
  <2>4. CASE Used(a) /\ ~Used(b)
    <3>1. SlicesAdded /\ b[1] = current
      BY <1>2, <2>4, UsedStep
    <3> QED BY <1>1, <1>2, <2>4, <3>1 DEF OneAttempt
  <2> QED BY <2>1, <2>2, <2>3, <2>4
<1>3. ASSUME NEW s \in Shards, NEW a \in ArtifactIds, Fresh(s)', Used(a)'
      PROVE  a[1] # s
  <2>1. Fresh(s) /\ (AppendEvents => s # current)
    BY <1>3, FreshStep
  <2>2. CASE Used(a)
    BY <2>1, <2>2 DEF OneAttempt
  <2>3. CASE ~Used(a)
    <3>1. SlicesAdded /\ a[1] = current
      BY <1>3, <2>3, UsedStep
    <3> QED BY <1>1, <2>1, <3>1
  <2> QED BY <2>2, <2>3
<1> QED BY <1>2, <1>3 DEF OneAttempt

(* A part of a slice is apart from what the slice is apart from.           *)
LEMMA PartApart ==
    ASSUME NEW x, NEW y, NEW z, Disjoint(x, y), z.artifact = y.artifact,
           x.start \in Nat, x.end \in Nat, y.start \in Nat, y.end \in Nat,
           z.start \in Nat, z.end \in Nat, y.start <= z.start, z.end <= y.end
    PROVE  Disjoint(x, z)
  BY DEF Disjoint

(* Slices stay apart when nothing moves, ...                               *)
LEMMA ApartKept == SlicesApart /\ SlicesKept => SlicesApart'
  BY DEF SlicesKept, SlicesApart, AccumulatorApart, CuttingApart, RemainderApart,
         RestApart, CutsApart

(* ... when the slices of a core shard come in: no slice is of it, ...     *)
LEMMA ApartAdded ==
    ASSUME EmitInv, SlicesAdded
    PROVE  SlicesApart'
<1>0. EmitTypes /\ EmitPlaces /\ SlicesWhole /\ SlicesApart /\ OneAttempt
  BY DEF EmitInv
<1> DEFINE n == Len(accumulator)
<1>1. /\ n \in Nat /\ Len(accumulator') \in Nat /\ n <= Len(accumulator')
      /\ UNCHANGED <<cutting, remainder, Cuts>>
      /\ \A i \in 1..n : accumulator'[i] = accumulator[i]
  BY <1>0, SliceFacts, AddedSlices
<1>2. ASSUME NEW i \in 1..Len(accumulator'), i > n
      PROVE  /\ accumulator'[i].artifact = <<current, wrapper, i - n>>
             /\ ~Used(accumulator'[i].artifact)
  <2>1. /\ accumulator'[i].artifact = <<current, wrapper, i - n>>
        /\ current \in Shards
    BY <1>0, <1>2, AddedSlices
  <2>2. SUFFICES ASSUME Used(accumulator'[i].artifact) PROVE FALSE
    BY <2>1
  <2>3. PICK a : a = accumulator'[i].artifact
    OBVIOUS
  <2>4. a \in ArtifactIds
    BY <1>0, <2>2, <2>3, SliceFacts, SliceNumbers DEF Used
  <2>5. Fresh(current)
    BY DEF SlicesAdded, Fresh, Fetching
  <2>6. a[1] = current
    BY <2>1, <2>3
  <2> QED BY <1>0, <2>1, <2>2, <2>3, <2>4, <2>5, <2>6 DEF OneAttempt
<1>3. \A i \in 1..Len(accumulator') : i \in 1..n \/ i > n
  BY <1>1
<1>4. AccumulatorApart'
  <2> SUFFICES ASSUME NEW i \in 1..Len(accumulator'), NEW j \in 1..Len(accumulator'), i # j
               PROVE  accumulator'[i].artifact # accumulator'[j].artifact
    BY DEF AccumulatorApart
  <2>1. CASE i \in 1..n /\ j \in 1..n
    BY <1>0, <1>1, <2>1 DEF SlicesApart, AccumulatorApart
  <2>2. CASE i \in 1..n /\ j > n
    BY <1>1, <1>2, <2>2 DEF Used
  <2>3. CASE i > n /\ j \in 1..n
    BY <1>1, <1>2, <2>3 DEF Used
  <2>4. CASE i > n /\ j > n
    <3>1. i - n # j - n
      BY <1>1
    <3>2. <<current, wrapper, i - n>> # <<current, wrapper, j - n>>
      BY <3>1
    <3> QED BY <1>2, <2>4, <3>2
  <2> QED BY <1>3, <2>1, <2>2, <2>3, <2>4
<1> HIDE DEF n
<1>5. CuttingApart' /\ CutsApart'
  BY <1>0, <1>1 DEF SlicesApart, CuttingApart, CutsApart
<1>6. RemainderApart'
  <2> SUFFICES ASSUME NEW i \in 1..Len(cutting), NEW j \in 1..Len(accumulator'),
                      cutting[i].artifact = accumulator'[j].artifact
               PROVE  i = Len(cutting) /\ remainder /\ cutting[i].end <= accumulator'[j].start
    BY <1>1 DEF RemainderApart
  <2>1. j \in 1..n
    BY <1>2, <1>3 DEF Used
  <2>2. accumulator'[j] = accumulator[j] /\ j \in 1..Len(accumulator)
    BY <1>1, <2>1 DEF n
  <2> QED BY <1>0, <2>2 DEF SlicesApart, RemainderApart
<1>7. RestApart'
  <2>1. ASSUME NEW k \in 1..Len(Cuts), NEW i \in 1..Len(Cuts[k]), NEW j \in 1..Len(accumulator')
        PROVE  Disjoint(Cuts[k][i], accumulator'[j])
    <3>1. CASE j \in 1..n
      <4>1. accumulator'[j] = accumulator[j] /\ j \in 1..Len(accumulator)
        BY <1>1, <3>1 DEF n
      <4> QED BY <1>0, <4>1 DEF SlicesApart, RestApart
    <3>2. CASE j > n
      BY <1>2, <3>2 DEF Used, Disjoint
    <3> QED BY <1>3, <3>1, <3>2
  <2> QED BY <1>0, <1>1, <2>1 DEF SlicesApart, RestApart
<1> QED BY <1>4, <1>5, <1>6, <1>7 DEF SlicesApart

(* ... when a shard is cut off: what was together is of different          *)
(* artifacts, and the two halves of one slice meet at m, ...               *)
LEMMA ApartCut ==
    ASSUME EmitInv, NEW index \in 1..Len(accumulator), NEW m \in Nat, SlicesCut(index, m)
    PROVE  SlicesApart'
<1>0. EmitTypes /\ EmitPlaces /\ SlicesWhole /\ SlicesApart /\ OneAttempt
  BY DEF EmitInv
<1>1. /\ Len(accumulator) \in Nat /\ Len(cutting') = index
      /\ Cuts' = Cuts
      /\ cutting' \in Seq(Slice) /\ accumulator' \in Seq(Slice)
  BY <1>0, SliceFacts DEF SlicesCut
<1>2. /\ \A i \in 1..Len(cutting') : cutting'[i].start \in Nat /\ cutting'[i].end \in Nat
      /\ \A j \in 1..Len(accumulator') : accumulator'[j].start \in Nat /\ accumulator'[j].end \in Nat
  BY <1>1, ElementOfSeq, SliceNumbers
<1>3. \A i \in 1..Len(accumulator) : accumulator[i].start \in Nat /\ accumulator[i].end \in Nat
  BY <1>0, SliceFacts, SliceNumbers
<1>4. /\ \A i \in 1..index :
            /\ i \in 1..Len(accumulator)
            /\ cutting'[i].artifact = accumulator[i].artifact
            /\ cutting'[i].start = accumulator[i].start
            /\ cutting'[i].end <= accumulator[i].end
      /\ \A j \in 1..Len(accumulator') :
            \E i \in index..Len(accumulator) : LeftOver(index, m, i, j)
      /\ Len(accumulator') \in Nat
  BY <1>0, <1>1, CutSlices
<1>5. AccumulatorApart'
  <2> SUFFICES ASSUME NEW i \in 1..Len(accumulator'), NEW j \in 1..Len(accumulator'), i # j
               PROVE  accumulator'[i].artifact # accumulator'[j].artifact
    BY DEF AccumulatorApart
  <2>1. PICK x \in index..Len(accumulator) : LeftOver(index, m, x, i)
    BY <1>4
  <2>2. PICK y \in index..Len(accumulator) : LeftOver(index, m, y, j)
    BY <1>4
  <2>3. /\ x = IF remainder' THEN index + i - 1 ELSE index + i
        /\ y = IF remainder' THEN index + j - 1 ELSE index + j
        /\ accumulator'[i].artifact = accumulator[x].artifact
        /\ accumulator'[j].artifact = accumulator[y].artifact
    BY <2>1, <2>2 DEF LeftOver
  <2>4. x # y
    BY <2>3
  <2>5. x \in 1..Len(accumulator) /\ y \in 1..Len(accumulator)
    BY <1>1
  <2> QED BY <1>0, <2>3, <2>4, <2>5 DEF SlicesApart, AccumulatorApart
<1>6. CuttingApart'
  BY <1>0, <1>1, <1>4 DEF SlicesApart, AccumulatorApart, CuttingApart
<1>7. RemainderApart'
  <2> SUFFICES ASSUME NEW i \in 1..Len(cutting'), NEW j \in 1..Len(accumulator'),
                      cutting'[i].artifact = accumulator'[j].artifact
               PROVE  i = Len(cutting') /\ remainder' /\ cutting'[i].end <= accumulator'[j].start
    BY DEF RemainderApart
  <2>1. PICK x \in index..Len(accumulator) : LeftOver(index, m, x, j)
    BY <1>4
  <2>2. /\ x = IF remainder' THEN index + j - 1 ELSE index + j
        /\ accumulator'[j].artifact = accumulator[x].artifact
        /\ x = index => accumulator'[j].start = m /\ cutting'[index].end = m
    BY <2>1 DEF LeftOver
  <2>3. i \in 1..Len(accumulator) /\ x \in 1..Len(accumulator) /\ cutting'[i].artifact = accumulator[i].artifact
    <3>1. i \in 1..index /\ index \in 1..Len(accumulator) /\ Len(accumulator) \in Nat
      BY <1>1
    <3>2. i \in 1..Len(accumulator) /\ x \in 1..Len(accumulator)
      BY <3>1
    <3>3. cutting'[i].artifact = accumulator[i].artifact
      BY <1>4, <3>1
    <3> QED BY <3>2, <3>3
  <2>4. i = x
    BY <1>0, <2>2, <2>3 DEF SlicesApart, AccumulatorApart
  <2>5. i = index
    BY <1>1, <2>4
  <2>6. remainder'
    BY <1>1, <2>2, <2>4, <2>5
  <2>7. cutting'[i].end <= accumulator'[j].start
    BY <1>2, <2>2, <2>4, <2>5
  <2> QED BY <1>1, <2>5, <2>6, <2>7
<1>8. RestApart'
  <2> SUFFICES ASSUME NEW k \in 1..Len(Cuts), NEW i \in 1..Len(Cuts[k])
               PROVE  /\ \A j \in 1..Len(accumulator') : Disjoint(Cuts[k][i], accumulator'[j])
                      /\ \A j \in 1..Len(cutting') : Disjoint(Cuts[k][i], cutting'[j])
    BY <1>1 DEF RestApart
  <2>1. Cuts[k][i].start \in Nat /\ Cuts[k][i].end \in Nat
    BY <1>0, SliceFacts, SliceNumbers
  <2>2. \A x \in 1..Len(accumulator) : Disjoint(Cuts[k][i], accumulator[x])
    BY <1>0 DEF SlicesApart, RestApart
  <2>3. ASSUME NEW j \in 1..Len(accumulator') PROVE Disjoint(Cuts[k][i], accumulator'[j])
    <3>1. PICK x \in index..Len(accumulator) : LeftOver(index, m, x, j)
      BY <1>4
    <3>2. /\ accumulator'[j].artifact = accumulator[x].artifact
          /\ accumulator[x].start <= accumulator'[j].start
          /\ accumulator'[j].end = accumulator[x].end
      BY <3>1 DEF LeftOver
    <3>3. x \in 1..Len(accumulator)
      BY <1>1
    <3>4. accumulator'[j].end <= accumulator[x].end
      BY <1>3, <3>2, <3>3
    <3> QED BY <1>2, <1>3, <2>1, <2>2, <3>2, <3>3, <3>4, PartApart
  <2>4. ASSUME NEW j \in 1..Len(cutting') PROVE Disjoint(Cuts[k][i], cutting'[j])
    <3>1. /\ j \in 1..Len(accumulator)
          /\ cutting'[j].artifact = accumulator[j].artifact
          /\ cutting'[j].start = accumulator[j].start
          /\ cutting'[j].end <= accumulator[j].end
      BY <1>1, <1>4
    <3>2. accumulator[j].start <= cutting'[j].start
      BY <1>3, <3>1
    <3> QED BY <1>2, <1>3, <2>1, <2>2, <3>1, <3>2, PartApart
  <2> QED BY <2>3, <2>4
<1>9. CutsApart'
  BY <1>0, <1>1 DEF SlicesApart, CutsApart
<1> QED BY <1>5, <1>6, <1>7, <1>8, <1>9 DEF SlicesApart

(* ... and when the shard is complete.                                     *)
LEMMA ApartReady ==
    ASSUME EmitInv, SlicesReady
    PROVE  SlicesApart'
<1>0. EmitTypes /\ EmitPlaces /\ SlicesWhole /\ SlicesApart /\ OneAttempt
  BY DEF EmitInv
<1> DEFINE n == Len(Cuts)
<1>1. /\ Len(cutting') = 0
      /\ UNCHANGED <<accumulator, remainder>>
      /\ n \in Nat /\ Len(Cuts') = n + 1
      /\ \A k \in 1..n : Cuts'[k] = Cuts[k]
      /\ Cuts'[n + 1] = cutting
  BY <1>0, ReadySlices
<1>2. \A k \in 1..Len(Cuts') : k \in 1..n \/ k = n + 1
  BY <1>1
<1>3. AccumulatorApart' /\ CuttingApart' /\ RemainderApart'
  BY <1>0, <1>1 DEF SlicesApart, AccumulatorApart, CuttingApart, RemainderApart
<1>4. ASSUME NEW i \in 1..Len(cutting), NEW j \in 1..Len(accumulator)
      PROVE  Disjoint(cutting[i], accumulator[j])
  BY <1>0 DEF SlicesApart, RemainderApart, Disjoint
<1>5. RestApart'
  <2> SUFFICES ASSUME NEW k \in 1..Len(Cuts'), NEW i \in 1..Len(Cuts'[k]),
                      NEW j \in 1..Len(accumulator)
               PROVE  Disjoint(Cuts'[k][i], accumulator[j])
    BY <1>1 DEF RestApart
  <2>1. CASE k \in 1..n
    BY <1>0, <1>1, <2>1 DEF SlicesApart, RestApart
  <2>2. CASE k = n + 1
    BY <1>1, <1>4, <2>2
  <2> QED BY <1>2, <2>1, <2>2
<1>6. CutsApart'
  <2> SUFFICES ASSUME NEW k \in 1..Len(Cuts'), NEW l \in 1..Len(Cuts'),
                      NEW i \in 1..Len(Cuts'[k]), NEW j \in 1..Len(Cuts'[l]), <<k, i>> # <<l, j>>
               PROVE  Disjoint(Cuts'[k][i], Cuts'[l][j])
    BY DEF CutsApart
  <2>1. CASE k \in 1..n /\ l \in 1..n
    BY <1>0, <1>1, <2>1 DEF SlicesApart, CutsApart
  <2>2. CASE k \in 1..n /\ l = n + 1
    BY <1>0, <1>1, <2>2 DEF SlicesApart, RestApart
  <2>3. CASE k = n + 1 /\ l \in 1..n
    <3>1. Disjoint(Cuts[l][j], cutting[i]) /\ Cuts'[k][i] = cutting[i] /\ Cuts'[l][j] = Cuts[l][j]
      BY <1>0, <1>1, <2>3 DEF SlicesApart, RestApart
    <3> QED BY <3>1 DEF Disjoint
  <2>4. CASE k = n + 1 /\ l = n + 1
    <3>1. i # j /\ Cuts'[k][i] = cutting[i] /\ Cuts'[l][j] = cutting[j]
          /\ i \in 1..Len(cutting) /\ j \in 1..Len(cutting)
      BY <1>1, <2>4
    <3>2. cutting[i].artifact # cutting[j].artifact
      BY <1>0, <3>1 DEF SlicesApart, CuttingApart
    <3> QED BY <3>1, <3>2 DEF Disjoint
  <2> QED BY <1>2, <2>1, <2>2, <2>3, <2>4
<1> QED BY <1>3, <1>5, <1>6 DEF SlicesApart

(* EmitInv holds at the start.                                             *)
LEMMA EmitInitial == Init => EmitInv
<1> SUFFICES ASSUME Init PROVE EmitInv
  OBVIOUS
<1>0. MaxAttempts \in Nat \ {0} /\ None \notin Shards
  BY AttemptsFacts, ShardsAssumption
<1>1. accumulator = <<>> /\ cutting = <<>> /\ cut = <<>> /\ submitted = <<>>
      /\ position = 0 /\ remainder = FALSE /\ emitter = "waiting" /\ current = None
      /\ wrapper = 0 /\ wrappers = [s \in Shards |-> 0]
      /\ unsent = Shards /\ messages = {} /\ dataMap = {} /\ subscribed = {}
      /\ ended = FALSE
  BY DEF Init
<1>2. <<>> \in Seq(Slice) /\ <<>> \in Seq(Seq(Slice)) /\ Len(<<>>) = 0
  BY EmptySeq
<1>3. EmitTypes
  <2>1. 0 \in 0..MaxAttempts
    BY <1>0
  <2>2. wrapper \in 0..MaxAttempts /\ wrappers \in [Shards -> 0..MaxAttempts]
    BY <1>1, <2>1
  <2>3. position \in Nat /\ remainder \in BOOLEAN
    BY <1>1
  <2> QED BY <1>1, <1>2, <2>2, <2>3 DEF EmitTypes
<1>4. Len(Cuts) = 0
  BY <1>1, <1>2, <1>3, CutsFacts
<1>5. EmitPlaces
  BY <1>0, <1>1 DEF EmitPlaces, Placed, Fetching
<1>6. SlicesWhole
  BY <1>1, <1>2, <1>4 DEF SlicesWhole
<1>7. SlicesApart
  BY <1>1, <1>2, <1>4 DEF SlicesApart, AccumulatorApart, CuttingApart, RemainderApart,
                          RestApart, CutsApart
<1>8. \A a : ~Used(a)
  BY <1>1, <1>2, <1>4 DEF Used
<1>9. OneAttempt
  BY <1>8 DEF OneAttempt
<1> QED BY <1>3, <1>5, <1>6, <1>7, <1>9 DEF EmitInv

(* Every step keeps EmitInv.                                               *)
LEMMA EmitStep ==
    ASSUME EmitInv, [Next]_vars
    PROVE  EmitInv'
<1>0. EmitTypes /\ EmitPlaces /\ SlicesWhole /\ SlicesApart /\ OneAttempt
  BY DEF EmitInv
<1>1. EmitTypes' /\ EmitPlaces' /\ SlicesWhole' /\ OneAttempt'
  BY <1>0, EmitTypesStep, EmitPlacesStep, SlicesWholeStep, OneAttemptStep
<1>2. SlicesApart'
  BY <1>0, SlicesMove, ApartKept, ApartAdded, ApartCut, ApartReady
<1> QED BY <1>1, <1>2 DEF EmitInv

(* EmitInv is an invariant.                                                *)
LEMMA EmitAlways == Spec => []EmitInv
<1>1. EmitInv /\ [Next]_vars => EmitInv'
  BY EmitStep
<1> QED BY <1>1, EmitInitial, PTL DEF Spec

-----------------------------------------------------------------------------
(* The workers.                                                            *)

Places == {"none", "queued", "downloading", "proving", "dropping", "freeing",
           "finishing", "retryable", "fatal", "ended"}
Late == {"dropping", "freeing", "finishing"}
Early == {"queued", "downloading", "proving", "retryable", "fatal"}

WorkerTypes ==
    /\ attempt \in [Attempts -> [pc : Places, slice : Nat]]
    /\ upload \in [Shards \X (1..MaxAttempts) -> {"none", "events", "marker", "done", "failed"}]
    /\ status \in [Tasks -> {"unsubmitted", "pending"} \cup Terminal]
    /\ delivered \in [Tasks -> Nat]
    /\ outputs \subseteq Tasks

(* An attempt was delivered; past Prove its proof is stored until the      *)
(* proof's end, and while it drops references it is at a slice of its      *)
(* shard.                                                                  *)
AttemptsPlaced ==
    \A t \in Tasks, n \in 1..MaxAttempts :
        /\ attempt[<<t, n>>].pc # "none" => n <= delivered[t]
        /\ attempt[<<t, n>>].pc \in Late => t \in outputs \/ ended
        /\ attempt[<<t, n>>].pc \in {"dropping", "freeing"} =>
              /\ t \in 1..Len(submitted)
              /\ attempt[<<t, n>>].slice \in 1..Len(submitted[t])

(* Only a task that was submitted is delivered, and only one that was      *)
(* delivered has a proof.                                                  *)
DeliveredOnly ==
    /\ \A t \in Tasks : delivered[t] > 0 => status[t] # "unsubmitted"
    /\ \A s \in unsent : delivered[s] = 0
    /\ \A p \in Precompiles : p > Len(submitted) => delivered[p] = 0
    /\ \A t \in outputs : delivered[t] > 0

(* An upload that is done has completed the marker.  There is none before  *)
(* the record is traced.                                                   *)
UploadMarked ==
    \A s \in Shards, n \in 1..MaxAttempts : upload[<<s, n>>] = "done" => s \in markers
UploadLater ==
    \A s \in Shards, n \in 1..MaxAttempts :
        attempt[<<s, n>>].pc \in {"none", "queued"} => upload[<<s, n>>] = "none"

WorkerInv ==
    /\ WorkerTypes /\ AttemptsPlaced /\ DeliveredOnly /\ UploadMarked /\ UploadLater
    /\ RecordGoesLast

(* The state of the workers' invariant, and the steps that change it.      *)
WorkerView == <<records, outputs, status, delivered, attempt, upload, markers,
                unsent, submitted, ended>>

(* A step that leaves what the workers see keeps WorkerInv.                *)
LEMMA WorkerFrame ==
    ASSUME [Next]_vars
    PROVE  \/ UNCHANGED WorkerView
           \/ \E s \in Shards : SubmitCoreShard(s)
           \/ \E t \in Tasks, n \in 1..MaxAttempts : Worker(t, n)
           \/ \E s \in Shards, n \in 1..MaxAttempts : DeferredUpload(s, n)
           \/ SubmitPrecompileShard
           \/ \E t \in Tasks : Redeliver(t)
           \/ ProofEnds
<1> USE DEF WorkerView, storeVars, workerVars, executorVars, listenVars, emitVars
<1>1. CASE UNCHANGED vars
  BY <1>1 DEF vars
<1>2. ASSUME NEW t \in Tasks, ReleasePermit(t) PROVE UNCHANGED WorkerView
  BY <1>2 DEF ReleasePermit
<1>3. CASE DropGate
  BY <1>3 DEF DropGate
<1>4. ASSUME NEW s \in Shards, ListenerReceive(s) \/ ReceiveMarker(s)
      PROVE  UNCHANGED WorkerView
  BY <1>4 DEF ListenerReceive, ReceiveMarker
<1>5. CASE DownloadWrapper \/ EndOfStream \/ AllSubmitted \/ EmitterFails
  BY <1>5 DEF DownloadWrapper, EndOfStream, AllSubmitted, EmitterFails
<1>6. CASE AppendEvents
  BY <1>6 DEF AppendEvents
<1>7. CASE CutShard
  BY <1>7 DEF CutShard
<1>8. CASE AddSliceRef
  BY <1>8 DEF AddSliceRef
<1>9. CASE DropControllerRef
  BY <1>9 DEF DropControllerRef
<1> QED BY <1>1, <1>2, <1>3, <1>4, <1>5, <1>6, <1>7, <1>8, <1>9
        DEF Next, Progress, Emitter, ReceiveFailedMarker, SubmitRefused, RequestFails

(* The tasks: core shards are no numbers.                                  *)
LEMMA TaskFacts ==
    /\ Shards \subseteq Tasks /\ Precompiles \subseteq Tasks
    /\ Precompiles \subseteq Nat \ {0}
    /\ Shards \cap Nat = {} /\ Shards \cap Precompiles = {}
    /\ \A t \in Tasks : t \in Shards \/ t \in Precompiles
<1>1. Shards \cap Nat = {}
  BY ShardsAssumption
<1>2. \A t \in Precompiles : t \in Nat \ {0}
  BY DEF Precompiles
<1> QED BY <1>1, <1>2 DEF Tasks

(* One attempt moves.                                                      *)
LEMMA MovePlaced ==
    ASSUME WorkerTypes, AttemptsPlaced,
           NEW t \in Tasks, NEW n \in 1..MaxAttempts,
           NEW v \in [pc : Places, slice : Nat],
           attempt[<<t, n>>].pc # "none",
           attempt' = [attempt EXCEPT ![<<t, n>>] = v],
           UNCHANGED <<delivered, submitted, ended>>,
           outputs \subseteq outputs',
           v.pc \in Late => t \in outputs' \/ ended,
           v.pc \in {"dropping", "freeing"} =>
               t \in 1..Len(submitted) /\ v.slice \in 1..Len(submitted[t])
    PROVE  AttemptsPlaced' /\ attempt' \in [Attempts -> [pc : Places, slice : Nat]]
<1>1. attempt' \in [Attempts -> [pc : Places, slice : Nat]]
  BY DEF WorkerTypes
<1>2. ASSUME NEW u \in Tasks, NEW k \in 1..MaxAttempts
      PROVE  attempt'[<<u, k>>] = IF u = t /\ k = n THEN v ELSE attempt[<<u, k>>]
  <2>1. <<u, k>> \in Attempts
    BY DEF Attempts
  <2> QED BY <2>1 DEF WorkerTypes
<1>3. ASSUME NEW u \in Tasks, NEW k \in 1..MaxAttempts
      PROVE  /\ attempt'[<<u, k>>].pc # "none" => k <= delivered[u]
             /\ attempt'[<<u, k>>].pc \in Late => u \in outputs' \/ ended
             /\ attempt'[<<u, k>>].pc \in {"dropping", "freeing"} =>
                   /\ u \in 1..Len(submitted)
                   /\ attempt'[<<u, k>>].slice \in 1..Len(submitted[u])
  <2>1. CASE u = t /\ k = n
    BY <1>2, <2>1 DEF AttemptsPlaced
  <2>2. CASE ~(u = t /\ k = n)
    <3>1. attempt'[<<u, k>>] = attempt[<<u, k>>]
      BY <1>2, <2>2
    <3> QED BY <3>1 DEF AttemptsPlaced
  <2> QED BY <2>1, <2>2
<1> QED BY <1>1, <1>3 DEF AttemptsPlaced

(* A place of an attempt, and no slice.                                    *)
LEMMA AtFacts ==
    ASSUME NEW x \in Places
    PROVE  At(x) \in [pc : Places, slice : Nat] /\ At(x).pc = x /\ At(x).slice = 0
  BY DEF At

(* An attempt that is there was delivered.                                 *)
LEMMA AttemptDelivered ==
    ASSUME WorkerInv, EmitInv, NEW t \in Tasks, NEW n \in 1..MaxAttempts,
           attempt[<<t, n>>].pc # "none"
    PROVE  /\ attempt[<<t, n>>] \in [pc : Places, slice : Nat]
           /\ delivered[t] > 0 /\ status[t] # "unsubmitted"
           /\ t \in Precompiles =>
                 t \in 1..Len(submitted) /\ Len(submitted[t]) \in Nat \ {0}
<1>0. WorkerTypes /\ AttemptsPlaced /\ DeliveredOnly
  BY DEF WorkerInv
<1>1. attempt[<<t, n>>] \in [pc : Places, slice : Nat] /\ delivered[t] \in Nat
  BY <1>0 DEF WorkerTypes, Attempts
<1>2. n <= delivered[t] /\ delivered[t] > 0
  BY <1>0, <1>1, AttemptsFacts DEF AttemptsPlaced
<1>3. status[t] # "unsubmitted"
  BY <1>0, <1>2 DEF DeliveredOnly
<1>4. ASSUME t \in Precompiles
      PROVE  t \in 1..Len(submitted) /\ Len(submitted[t]) \in Nat \ {0}
  <2>1. EmitTypes /\ SlicesWhole
    BY DEF EmitInv
  <2>2. t \in Nat \ {0} /\ Len(submitted) \in Nat /\ Len(Cuts) = Len(submitted) + Len(cut) /\ Len(cut) \in Nat
    BY <1>4, <2>1, TaskFacts, CutsFacts
  <2>3. t \in 1..Len(submitted)
    BY <1>0, <1>2, <1>4, <2>2 DEF DeliveredOnly
  <2>4. submitted[t] = Cuts[t] /\ t \in 1..Len(Cuts) /\ submitted[t] \in Seq(Slice)
    BY <2>1, <2>2, <2>3, CutsFacts, SliceFacts
  <2>5. submitted[t] # <<>>
    BY <2>1, <2>4 DEF SlicesWhole
  <2> QED BY <2>3, <2>4, <2>5, EmptySeq
<1> QED BY <1>1, <1>2, <1>3, <1>4

(* A worker's step that leaves the status alone.                           *)
LEMMA WorkerQuiet ==
    ASSUME WorkerInv, EmitInv, NEW t \in Tasks, NEW n \in 1..MaxAttempts,
           Start(t, n) \/ TraceFails(t, n) \/ DownloadEvents(t, n) \/ Prove(t, n)
             \/ DropSliceRef(t, n) \/ FreeSlice(t, n) \/ JoinFails(t, n)
    PROVE  WorkerInv'
<1>0. /\ WorkerTypes /\ AttemptsPlaced /\ DeliveredOnly /\ UploadMarked /\ UploadLater
      /\ RecordGoesLast
  BY DEF WorkerInv
<1>1. attempt[<<t, n>>].pc # "none"
  BY DEF Start, TraceFails, DownloadEvents, Prove, DropSliceRef, FreeSlice, JoinFails
<1>2. /\ attempt[<<t, n>>] \in [pc : Places, slice : Nat]
      /\ delivered[t] > 0 /\ status[t] # "unsubmitted"
      /\ t \in Precompiles =>
            t \in 1..Len(submitted) /\ Len(submitted[t]) \in Nat \ {0}
  BY <1>1, AttemptDelivered
<1>3. UNCHANGED <<records, status, delivered, markers, unsent, submitted, ended>>
  BY DEF Start, TraceFails, DownloadEvents, Prove, DropSliceRef, FreeSlice, JoinFails,
         storeVars, executorVars, emitVars
<1>4. outputs \subseteq outputs' /\ outputs' \subseteq outputs \cup {t}
  BY DEF Start, TraceFails, DownloadEvents, Prove, DropSliceRef, FreeSlice, JoinFails,
         storeVars
<1>5. /\ upload' \in [Shards \X (1..MaxAttempts) -> {"none", "events", "marker", "done", "failed"}]
      /\ UploadMarked'
  <2>1. UNCHANGED upload \/ upload' = [upload EXCEPT ![<<t, n>>] = "events"]
    BY DEF Start, StartCore, StartPrecompile, TraceFails, DownloadEvents, Prove,
           DropSliceRef, FreeSlice, JoinFails
  <2>2. CASE UNCHANGED upload
    BY <1>0, <1>3, <2>2 DEF WorkerTypes, UploadMarked
  <2>3. CASE upload' = [upload EXCEPT ![<<t, n>>] = "events"]
    <3>1. upload' \in [Shards \X (1..MaxAttempts) -> {"none", "events", "marker", "done", "failed"}]
      BY <1>0, <2>3 DEF WorkerTypes
    <3>2. ASSUME NEW s \in Shards, NEW k \in 1..MaxAttempts, upload'[<<s, k>>] = "done"
          PROVE  s \in markers
      BY <1>0, <2>3, <3>2 DEF WorkerTypes, UploadMarked
    <3> QED BY <1>3, <3>1, <3>2 DEF UploadMarked
  <2> QED BY <2>1, <2>2, <2>3
<1>6. DeliveredOnly'
  BY <1>0, <1>2, <1>3, <1>4 DEF DeliveredOnly
<1>7. RecordGoesLast'
  BY <1>0, <1>3, <1>4 DEF RecordGoesLast
<1>8. /\ AttemptsPlaced' /\ UploadLater'
      /\ attempt' \in [Attempts -> [pc : Places, slice : Nat]]
  <2> DEFINE Good(v) ==
         /\ v \in [pc : Places, slice : Nat]
         /\ v.pc \in Late => t \in outputs' \/ ended
         /\ v.pc \in {"dropping", "freeing"} =>
               t \in 1..Len(submitted) /\ v.slice \in 1..Len(submitted[t])
         /\ v.pc # "queued" /\ v.pc # "none"
  <2>1. SUFFICES \E v : Good(v) /\ attempt' = [attempt EXCEPT ![<<t, n>>] = v]
    <3> SUFFICES ASSUME NEW v, Good(v), attempt' = [attempt EXCEPT ![<<t, n>>] = v]
                 PROVE  /\ AttemptsPlaced' /\ UploadLater'
                        /\ attempt' \in [Attempts -> [pc : Places, slice : Nat]]
      OBVIOUS
    <3>1. AttemptsPlaced' /\ attempt' \in [Attempts -> [pc : Places, slice : Nat]]
      BY <1>0, <1>1, <1>3, <1>4, MovePlaced
    <3>2. ASSUME NEW s \in Shards, NEW k \in 1..MaxAttempts,
                 attempt'[<<s, k>>].pc \in {"none", "queued"}
          PROVE  upload'[<<s, k>>] = "none"
      <4>1. <<s, k>> \in Attempts
        BY TaskFacts DEF Attempts
      <4>2. <<s, k>> # <<t, n>> /\ attempt'[<<s, k>>] = attempt[<<s, k>>]
        BY <1>0, <3>2, <4>1 DEF WorkerTypes
      <4>3. upload'[<<s, k>>] = upload[<<s, k>>]
        BY <1>0, <4>2 DEF Start, StartCore, StartPrecompile, TraceFails, DownloadEvents,
                Prove, DropSliceRef, FreeSlice, JoinFails, WorkerTypes
      <4> QED BY <1>0, <3>2, <4>2, <4>3 DEF UploadLater
    <3> QED BY <3>1, <3>2 DEF UploadLater
  <2>2. ASSUME NEW x \in Places \ Late, x # "queued", x # "none" PROVE Good(At(x))
    BY <2>2, AtFacts DEF Late
  <2>3. \A x \in {"proving", "downloading", "fatal", "retryable"} :
           x \in Places \ Late /\ x # "queued" /\ x # "none"
    BY DEF Places, Late
  <2>4. t \in outputs' \/ ended => Good(At("finishing"))
    BY AtFacts DEF Places
  <2>5. ASSUME t \in 1..Len(submitted), t \in outputs \/ ended,
               attempt[<<t, n>>].slice \in 1..Len(submitted[t]), NextSlice(t, n)
        PROVE  \E v : Good(v) /\ attempt' = [attempt EXCEPT ![<<t, n>>] = v]
    <3> DEFINE i == attempt[<<t, n>>].slice
               w == [pc |-> "dropping", slice |-> i + 1]
    <3>1. CASE i < Len(submitted[t])
      <4>0. attempt' = [attempt EXCEPT ![<<t, n>>] = w]
        BY <1>0, <2>5, <3>1 DEF NextSlice, SlicesOf, WorkerTypes, Attempts
      <4>1. w \in [pc : Places, slice : Nat] /\ w.pc = "dropping" /\ w.slice = i + 1
        BY <1>2 DEF Places
      <4>2. i + 1 \in 1..Len(submitted[t])
        BY <1>2, <2>5, <3>1, TaskFacts
      <4>3. Good(w)
        BY <1>4, <2>5, <4>1, <4>2
      <4> QED BY <4>0, <4>3
    <3>2. CASE ~(i < Len(submitted[t]))
      <4>0. attempt' = [attempt EXCEPT ![<<t, n>>] = At("finishing")]
        BY <1>0, <2>5, <3>2 DEF NextSlice, SlicesOf, WorkerTypes, Attempts
      <4> QED BY <1>4, <2>4, <2>5, <4>0
    <3> QED BY <3>1, <3>2
  <2>6. CASE Start(t, n)
    BY <2>2, <2>3, <2>6 DEF Start, StartCore, StartPrecompile, Goto
  <2>7. CASE DownloadEvents(t, n) \/ TraceFails(t, n) \/ JoinFails(t, n)
    BY <2>2, <2>3, <2>7 DEF DownloadEvents, TraceFails, JoinFails, Goto
  <2>8. CASE Prove(t, n)
    <3>1. CASE Goto(t, n, "retryable") \/ Goto(t, n, "fatal")
      BY <2>2, <2>3, <3>1 DEF Goto
    <3>2. CASE /\ outputs' = outputs \cup {t}
               /\ attempt' = [attempt EXCEPT ![<<t, n>>] = IF t \in Precompiles
                                   THEN [pc |-> "dropping", slice |-> 1]
                                   ELSE At("finishing")]
      <4>1. CASE t \in Precompiles
        <5> DEFINE w == [pc |-> "dropping", slice |-> 1]
        <5>1. w \in [pc : Places, slice : Nat] /\ w.pc = "dropping" /\ w.slice = 1
          BY DEF Places
        <5>2. 1 \in 1..Len(submitted[t])
          BY <1>2, <4>1
        <5>3. Good(w)
          BY <1>2, <3>2, <4>1, <5>1, <5>2
        <5> QED BY <3>2, <4>1, <5>3
      <4>2. CASE t \notin Precompiles
        BY <2>4, <3>2, <4>2
      <4> QED BY <4>1, <4>2
    <3> QED BY <2>8, <3>1, <3>2 DEF Prove
  <2>9. CASE DropSliceRef(t, n)
    <3>1. attempt[<<t, n>>].pc = "dropping"
      BY <2>9 DEF DropSliceRef
    <3>2. /\ t \in 1..Len(submitted) /\ (t \in outputs \/ ended)
          /\ attempt[<<t, n>>].slice \in 1..Len(submitted[t])
      BY <1>0, <3>1 DEF AttemptsPlaced, Late
    <3>3. CASE NextSlice(t, n)
      BY <2>5, <3>2, <3>3
    <3>4. CASE attempt' = [attempt EXCEPT ![<<t, n>>].pc = "freeing"]
      <4> DEFINE w == [attempt[<<t, n>>] EXCEPT !.pc = "freeing"]
      <4>1. attempt' = [attempt EXCEPT ![<<t, n>>] = w]
        BY <3>4
      <4>2. w \in [pc : Places, slice : Nat] /\ w.pc = "freeing" /\ w.slice = attempt[<<t, n>>].slice
        BY <1>2 DEF Places
      <4>3. Good(w)
        BY <1>4, <3>2, <4>2
      <4> QED BY <4>1, <4>3
    <3> QED BY <2>9, <3>3, <3>4 DEF DropSliceRef
  <2>10. CASE FreeSlice(t, n)
    <3>1. attempt[<<t, n>>].pc = "freeing" /\ NextSlice(t, n)
      BY <2>10 DEF FreeSlice
    <3>2. /\ t \in 1..Len(submitted) /\ (t \in outputs \/ ended)
          /\ attempt[<<t, n>>].slice \in 1..Len(submitted[t])
      BY <1>0, <3>1 DEF AttemptsPlaced, Late
    <3> QED BY <2>5, <3>1, <3>2
  <2> QED BY <2>6, <2>7, <2>8, <2>9, <2>10
<1>9. WorkerTypes'
  BY <1>0, <1>3, <1>4, <1>5, <1>8 DEF WorkerTypes
<1> QED BY <1>5, <1>6, <1>7, <1>8, <1>9 DEF WorkerInv

(* The end of an attempt, without a resubmission.                          *)
LEMMA WorkerPost ==
    ASSUME WorkerInv, EmitInv, NEW t \in Tasks, NEW n \in 1..MaxAttempts,
           attempt[<<t, n>>].pc \notin {"none", "queued"},
           (\E st \in Terminal : Post(t, n, st)) \/ NotResubmitted(t, n),
           records' = records \/ (records' = records \ {t} /\ (t \in outputs \/ ended)
                                  /\ (t \in Shards => t \in markers)),
           UNCHANGED <<outputs, upload, markers, unsent, submitted, ended>>
    PROVE  WorkerInv'
<1>0. /\ WorkerTypes /\ AttemptsPlaced /\ DeliveredOnly /\ UploadMarked /\ UploadLater
      /\ RecordGoesLast
  BY DEF WorkerInv
<1>1. delivered[t] > 0 /\ status[t] # "unsubmitted"
  BY AttemptDelivered
<1>2. /\ \/ \E st \in Terminal : status' = [status EXCEPT ![t] = st]
         \/ status' = status
      /\ delivered' = delivered
      /\ attempt' = [attempt EXCEPT ![<<t, n>>] = At("ended")]
  BY DEF Post, NotResubmitted, Goto
<1>3. status' \in [Tasks -> {"unsubmitted", "pending"} \cup Terminal]
      /\ \A u \in Tasks : status'[u] = "unsubmitted" <=> status[u] = "unsubmitted"
  BY <1>0, <1>1, <1>2 DEF WorkerTypes, Terminal
<1>4. AttemptsPlaced' /\ attempt' \in [Attempts -> [pc : Places, slice : Nat]]
  <2>1. /\ At("ended") \in [pc : Places, slice : Nat]
        /\ At("ended").pc \notin Late /\ At("ended").pc \notin {"dropping", "freeing"}
    BY AtFacts DEF Places, Late
  <2>2. outputs \subseteq outputs' /\ attempt[<<t, n>>].pc # "none"
    OBVIOUS
  <2> HIDE DEF Late
  <2> QED BY <1>0, <1>2, <2>1, <2>2, MovePlaced
<1>9. UploadLater'
  <2> SUFFICES ASSUME NEW s \in Shards, NEW k \in 1..MaxAttempts,
                      attempt'[<<s, k>>].pc \in {"none", "queued"}
               PROVE  upload'[<<s, k>>] = "none"
    BY DEF UploadLater
  <2>1. <<s, k>> \in Attempts /\ At("ended").pc = "ended"
    BY TaskFacts, AtFacts DEF Attempts, Places
  <2>2. attempt'[<<s, k>>] = attempt[<<s, k>>]
    BY <1>0, <1>2, <2>1 DEF WorkerTypes
  <2> QED BY <1>0, <2>2 DEF UploadLater
<1>5. DeliveredOnly'
  BY <1>0, <1>2, <1>3 DEF DeliveredOnly
<1>6. RecordGoesLast'
  BY <1>0, <1>3 DEF RecordGoesLast
<1>7. UploadMarked'
  BY <1>0 DEF UploadMarked
<1>8. WorkerTypes'
  BY <1>0, <1>2, <1>3, <1>4 DEF WorkerTypes
<1> QED BY <1>4, <1>5, <1>6, <1>7, <1>8, <1>9 DEF WorkerInv

(* A task is delivered once more: at first, by a retry or by the cluster.  *)
LEMMA WorkerDeliver ==
    ASSUME WorkerInv, EmitInv, NEW t \in Tasks,
           \/ delivered[t] > 0 /\ UNCHANGED <<status, records>>
           \/ delivered[t] = 0 /\ status' = [status EXCEPT ![t] = "pending"]
              /\ records' = records \cup {t},
           delivered' = [delivered EXCEPT ![t] = @ + 1],
           attempt' \in [Attempts -> [pc : Places, slice : Nat]],
           \A u \in Tasks, k \in 1..MaxAttempts :
               \/ attempt'[<<u, k>>] = attempt[<<u, k>>]
               \/ u = t /\ k = delivered[t] + 1 /\ attempt'[<<u, k>>].pc = "queued"
               \/ u = t /\ k <= delivered[t] /\ attempt'[<<u, k>>].pc = "ended",
           unsent' \subseteq unsent \ {t},
           submitted' \in Seq(Seq(Slice)), Len(submitted) <= Len(submitted'),
           \A p \in 1..Len(submitted) : submitted'[p] = submitted[p],
           t \in Precompiles => t <= Len(submitted'),
           UNCHANGED <<outputs, upload, markers, ended>>
    PROVE  WorkerInv'
<1>0. /\ WorkerTypes /\ AttemptsPlaced /\ DeliveredOnly /\ UploadMarked /\ UploadLater
      /\ RecordGoesLast
  BY DEF WorkerInv
<1>1. Len(submitted) \in Nat /\ Len(submitted') \in Nat
  BY CutsFacts, LenProperties DEF EmitInv
<1>2. \A u \in Tasks : delivered[u] \in Nat
      /\ delivered'[u] = IF u = t THEN delivered[t] + 1 ELSE delivered[u]
  BY <1>0 DEF WorkerTypes
<1>3. AttemptsPlaced'
  <2> SUFFICES ASSUME NEW u \in Tasks, NEW k \in 1..MaxAttempts
               PROVE  /\ attempt'[<<u, k>>].pc # "none" => k <= delivered'[u]
                      /\ attempt'[<<u, k>>].pc \in Late => u \in outputs' \/ ended'
                      /\ attempt'[<<u, k>>].pc \in {"dropping", "freeing"} =>
                            /\ u \in 1..Len(submitted')
                            /\ attempt'[<<u, k>>].slice \in 1..Len(submitted'[u])
    BY DEF AttemptsPlaced
  <2>1. CASE attempt'[<<u, k>>] = attempt[<<u, k>>]
    <3>1. attempt[<<u, k>>].pc # "none" => k <= delivered'[u]
      BY <1>0, <1>2 DEF AttemptsPlaced
    <3>2. ASSUME attempt[<<u, k>>].pc \in {"dropping", "freeing"}
          PROVE  /\ u \in 1..Len(submitted')
                 /\ attempt[<<u, k>>].slice \in 1..Len(submitted'[u])
      <4>1. u \in 1..Len(submitted) /\ attempt[<<u, k>>].slice \in 1..Len(submitted[u])
        BY <1>0, <3>2 DEF AttemptsPlaced
      <4>2. submitted'[u] = submitted[u] /\ u \in 1..Len(submitted')
        BY <1>1, <4>1
      <4> QED BY <4>1, <4>2
    <3> QED BY <1>0, <2>1, <3>1, <3>2 DEF AttemptsPlaced
  <2>2. CASE u = t /\ k <= delivered[t] + 1 /\ attempt'[<<u, k>>].pc \in {"queued", "ended"}
    BY <1>2, <2>2 DEF Late
  <2>3. k <= delivered[t] => k <= delivered[t] + 1
    BY <1>2
  <2>4. delivered[t] + 1 <= delivered[t] + 1
    BY <1>2
  <2> QED BY <2>1, <2>2, <2>3, <2>4
<1>4. status' \in [Tasks -> {"unsubmitted", "pending"} \cup Terminal]
      /\ status'[t] # "unsubmitted"
      /\ \A u \in Tasks : u # t => status'[u] = status[u]
  BY <1>0 DEF WorkerTypes, DeliveredOnly
<1>5. DeliveredOnly'
  <2>1. \A u \in Tasks : delivered'[u] > 0 => status'[u] # "unsubmitted"
    BY <1>0, <1>2, <1>4 DEF DeliveredOnly
  <2>2. \A s \in unsent' : delivered'[s] = 0
    <3>1. unsent \subseteq Tasks
      BY TaskFacts DEF EmitInv, EmitTypes
    <3> QED BY <1>0, <1>2, <3>1 DEF DeliveredOnly
  <2>3. \A p \in Precompiles : p > Len(submitted') => delivered'[p] = 0
    <3> SUFFICES ASSUME NEW p \in Precompiles, p > Len(submitted') PROVE delivered'[p] = 0
      OBVIOUS
    <3>1. p \in Tasks /\ p \in Nat
      BY TaskFacts
    <3>2. p > Len(submitted)
      BY <1>1, <3>1
    <3>3. p # t
      BY <1>1, <3>1
    <3> QED BY <1>0, <1>2, <3>1, <3>2, <3>3 DEF DeliveredOnly
  <2>4. \A u \in outputs' : delivered'[u] > 0
    BY <1>0, <1>2 DEF DeliveredOnly, WorkerTypes
  <2> QED BY <2>1, <2>2, <2>3, <2>4 DEF DeliveredOnly
<1>6. RecordGoesLast'
  <2>1. \A u \in Tasks : u \notin records' => u \notin records
    OBVIOUS
  <2>2. CASE delivered[t] > 0 /\ UNCHANGED <<status, records>>
    BY <1>0, <2>2 DEF RecordGoesLast
  <2>3. CASE t \in records'
    BY <1>0, <1>4, <2>1, <2>3 DEF RecordGoesLast
  <2> QED BY <2>2, <2>3
<1>7. UploadMarked' /\ UploadLater'
  <2>1. UploadMarked'
    BY <1>0 DEF UploadMarked
  <2>2. ASSUME NEW s \in Shards, NEW k \in 1..MaxAttempts,
               attempt'[<<s, k>>].pc \in {"none", "queued"}
        PROVE  upload[<<s, k>>] = "none"
    <3>1. CASE attempt'[<<s, k>>] = attempt[<<s, k>>]
      BY <1>0, <2>2, <3>1 DEF UploadLater
    <3>2. CASE s = t /\ k = delivered[t] + 1
      <4>1. ~(k <= delivered[s])
        BY <1>2, <3>2
      <4>2. attempt[<<s, k>>].pc = "none"
        BY <1>0, <4>1, TaskFacts DEF AttemptsPlaced
      <4> QED BY <1>0, <4>2 DEF UploadLater
    <3> QED BY <2>2, <3>1, <3>2, TaskFacts
  <2> QED BY <2>1, <2>2 DEF UploadLater
<1>8. WorkerTypes'
  <2>1. delivered' \in [Tasks -> Nat]
    BY <1>0 DEF WorkerTypes
  <2> QED BY <1>0, <1>4, <2>1 DEF WorkerTypes
<1> QED BY <1>3, <1>5, <1>6, <1>7, <1>8 DEF WorkerInv

(* The shape of a delivery.                                                *)
LEMMA DeliverFacts ==
    ASSUME WorkerInv, NEW t \in Tasks,
           attempt' = [attempt EXCEPT ![<<t, delivered[t] + 1>>] = At("queued")]
    PROVE  /\ attempt' \in [Attempts -> [pc : Places, slice : Nat]]
           /\ \A u \in Tasks, k \in 1..MaxAttempts :
               \/ attempt'[<<u, k>>] = attempt[<<u, k>>]
               \/ u = t /\ k = delivered[t] + 1 /\ attempt'[<<u, k>>].pc = "queued"
               \/ u = t /\ k <= delivered[t] /\ attempt'[<<u, k>>].pc = "ended"
<1>1. At("queued") \in [pc : Places, slice : Nat] /\ At("queued").pc = "queued"
  BY AtFacts DEF Places
<1>2. attempt \in [Attempts -> [pc : Places, slice : Nat]]
  BY DEF WorkerInv, WorkerTypes
<1>3. attempt' \in [Attempts -> [pc : Places, slice : Nat]]
  BY <1>1, <1>2
<1>4. ASSUME NEW u \in Tasks, NEW k \in 1..MaxAttempts
      PROVE  \/ attempt'[<<u, k>>] = attempt[<<u, k>>]
             \/ u = t /\ k = delivered[t] + 1 /\ attempt'[<<u, k>>].pc = "queued"
  <2>1. <<u, k>> \in Attempts
    BY DEF Attempts
  <2> QED BY <1>1, <1>2, <2>1
<1> QED BY <1>3, <1>4

-----------------------------------------------------------------------------
(* There are no more shards, and no more slices in one, than events.       *)

(* The first event of a slice: its core shard, and its number in it.       *)
FirstEvent(sl) ==
    <<sl.artifact[1], (sl.artifact[3] - 1) * Threshold + sl.start + 1>>
ShardEvents == UNION {{s} \X (1..NumEvents[s]) : s \in Shards}

(* There are finitely many deferred events.                                *)
LEMMA ShardEventsFinite == IsFiniteSet(ShardEvents) /\ TotalEvents \in Nat
<1> DEFINE f == [s \in Shards |-> {s} \X (1..NumEvents[s])]
           T == {{s} \X (1..NumEvents[s]) : s \in Shards}
<1>1. f \in Surjection(Shards, T)
  BY DEF Surjection
<1>2. IsFiniteSet(Shards)
  BY ShardsAssumption
<1> HIDE DEF f
<1>3. IsFiniteSet(T)
  BY <1>1, <1>2, FS_Surjection
<1>4. ASSUME NEW s \in Shards PROVE IsFiniteSet({s} \X (1..NumEvents[s]))
  <2>1. NumEvents[s] \in Int /\ 1 \in Int
    BY ShardsAssumption
  <2>2. IsFiniteSet(1..NumEvents[s]) /\ IsFiniteSet({s})
    BY <2>1, FS_Interval, FS_Singleton
  <2> QED BY <2>2, FS_Product
<1>5. \A x \in T : IsFiniteSet(x)
  BY <1>4
<1>6. IsFiniteSet(ShardEvents)
  BY <1>3, <1>5, FS_UNION DEF ShardEvents
<1> QED BY <1>6, FS_CardinalityType DEF TotalEvents, ShardEvents

(* The first event of a slice is one of its core shard.                    *)
LEMMA FirstEventFacts ==
    ASSUME NEW sl \in Slice, Whole(sl)
    PROVE  FirstEvent(sl) \in ShardEvents /\ sl.start < Threshold
<1> DEFINE s == sl.artifact[1]
           i == sl.artifact[3]
           E == NumEvents[s]
           T == Threshold
           b == sl.start
<1>1. /\ sl.artifact \in ArtifactIds /\ b \in Nat /\ sl.end \in Nat /\ sl.end <= T
      /\ T \in Nat /\ T > 0
  BY SliceNumbers, BoundsAssumption
<1>2. s \in Shards /\ i \in 1..NumChunks(s) /\ NumChunks(s) \in Nat /\ E \in Nat
  BY <1>1, ArtifactFacts, ChunkFacts, ShardsAssumption
<1>3. b < sl.end /\ sl.end <= ChunkLen(s, i) /\ ChunkLen(s, i) \in Nat
  BY SliceNumbers DEF Whole
<1> HIDE DEF s, i, E, T, b
<1>4. i \in Nat /\ i * T \in Nat /\ (i - 1) * T = i * T - T /\ (i - 1) * T \in Nat /\ 0 < i
  BY <1>1, <1>2
<1>5. ChunkLen(s, i) = IF i * T <= E THEN T ELSE E - (i - 1) * T
  BY DEF ChunkLen, s, i, E, T
<1>6. (i - 1) * T + b + 1 \in 1..E
  <2>1. CASE i * T <= E
    BY <1>1, <1>2, <1>3, <1>4, <1>5, <2>1
  <2>2. CASE ~(i * T <= E)
    BY <1>1, <1>2, <1>3, <1>4, <1>5, <2>2
  <2> QED BY <2>1, <2>2
<1>7. FirstEvent(sl) = <<s, (i - 1) * T + b + 1>>
  BY DEF FirstEvent, s, i, T, b
<1>8. FirstEvent(sl) \in {s} \X (1..NumEvents[s])
  BY <1>6, <1>7 DEF E
<1>9. b < T
  BY <1>1, <1>3
<1> QED BY <1>2, <1>8, <1>9 DEF ShardEvents, b, T

(* Two slices with the same first event overlap.                           *)
LEMMA FirstEventApart ==
    ASSUME NEW x \in Slice, NEW y \in Slice, Whole(x), Whole(y),
           x.artifact[1] = y.artifact[1] => x.artifact[2] = y.artifact[2],
           Disjoint(x, y)
    PROVE  FirstEvent(x) # FirstEvent(y)
<1> SUFFICES ASSUME FirstEvent(x) = FirstEvent(y) PROVE FALSE
  OBVIOUS
<1> DEFINE T == Threshold
           i == x.artifact[3]
           j == y.artifact[3]
           a == x.start
           b == y.start
<1>1. /\ x.artifact \in ArtifactIds /\ y.artifact \in ArtifactIds
      /\ a \in Nat /\ b \in Nat /\ a < T /\ b < T /\ T \in Nat
      /\ x.end \in Nat /\ y.end \in Nat
      /\ a < x.end /\ b < y.end
  BY SliceNumbers, FirstEventFacts, BoundsAssumption DEF Whole
<1>2. x.artifact[1] = y.artifact[1] /\ (i - 1) * T + a + 1 = (j - 1) * T + b + 1
  BY DEF FirstEvent
<1>3. /\ i \in Nat /\ j \in Nat
      /\ x.artifact = <<x.artifact[1], x.artifact[2], i>>
      /\ y.artifact = <<y.artifact[1], y.artifact[2], j>>
  BY <1>1, ArtifactFacts, ChunkFacts
<1>4. i = j /\ a = b
  <2> HIDE DEF T, i, j, a, b
  <2>1. (i - 1) * T = i * T - T /\ (j - 1) * T = j * T - T /\ i * T \in Nat /\ j * T \in Nat
    BY <1>1, <1>3
  <2>2. i * T + a = j * T + b
    BY <1>1, <1>2, <2>1
  <2>3. ~(i < j)
    <3> SUFFICES ASSUME i < j PROVE FALSE
      OBVIOUS
    <3>1. (i + 1) * T <= j * T /\ (i + 1) * T = i * T + T
      BY <1>1, <1>3
    <3> QED BY <1>1, <2>1, <2>2, <3>1
  <2>4. ~(j < i)
    <3> SUFFICES ASSUME j < i PROVE FALSE
      OBVIOUS
    <3>1. (j + 1) * T <= i * T /\ (j + 1) * T = j * T + T
      BY <1>1, <1>3
    <3> QED BY <1>1, <2>1, <2>2, <3>1
  <2>5. i = j
    BY <1>3, <2>3, <2>4
  <2> QED BY <1>1, <2>1, <2>2, <2>5
<1>5. x.artifact = y.artifact
  BY <1>2, <1>3, <1>4
<1> QED BY <1>1, <1>4, <1>5 DEF Disjoint

(* No more shards are cut, and no more slices are in one, than there are   *)
(* events: each has a first event of its own.                              *)
LEMMA CutsBounded ==
    ASSUME EmitInv
    PROVE  /\ Len(Cuts) <= TotalEvents
           /\ \A k \in 1..Len(Cuts) : Len(Cuts[k]) <= TotalEvents
<1>0. EmitTypes /\ SlicesWhole /\ SlicesApart /\ OneAttempt
  BY DEF EmitInv
<1>1. /\ Len(Cuts) \in Nat
      /\ \A k \in 1..Len(Cuts) :
            /\ Cuts[k] \in Seq(Slice) /\ Len(Cuts[k]) \in Nat /\ Len(Cuts[k]) > 0
            /\ \A i \in 1..Len(Cuts[k]) : Cuts[k][i] \in Slice /\ Whole(Cuts[k][i])
  BY <1>0, SliceFacts, EmptySeq DEF SlicesWhole
<1>2. IsFiniteSet(ShardEvents) /\ TotalEvents \in Nat /\ TotalEvents = Cardinality(ShardEvents)
  BY ShardEventsFinite DEF TotalEvents, ShardEvents
<1>3. ASSUME NEW k \in 1..Len(Cuts), NEW l \in 1..Len(Cuts),
             NEW i \in 1..Len(Cuts[k]), NEW j \in 1..Len(Cuts[l]), <<k, i>> # <<l, j>>
      PROVE  FirstEvent(Cuts[k][i]) # FirstEvent(Cuts[l][j])
  <2> DEFINE x == Cuts[k][i]
             y == Cuts[l][j]
  <2>1. x \in Slice /\ y \in Slice /\ Whole(x) /\ Whole(y)
    BY <1>1
  <2>2. Disjoint(x, y)
    BY <1>0, <1>3 DEF SlicesApart, CutsApart
  <2>3. Used(x.artifact) /\ Used(y.artifact) /\ x.artifact \in ArtifactIds /\ y.artifact \in ArtifactIds
    BY <2>1, SliceNumbers DEF Used
  <2>4. x.artifact[1] = y.artifact[1] => x.artifact[2] = y.artifact[2]
    BY <1>0, <2>3 DEF OneAttempt
  <2> HIDE DEF x, y
  <2>5. FirstEvent(x) # FirstEvent(y)
    BY <2>1, <2>2, <2>4, FirstEventApart
  <2> QED BY <2>5 DEF x, y
<1>4. Len(Cuts) <= TotalEvents
  <2> DEFINE f == [k \in 1..Len(Cuts) |-> FirstEvent(Cuts[k][1])]
  <2>1. \A k \in 1..Len(Cuts) : 1 \in 1..Len(Cuts[k])
    BY <1>1
  <2>2. \A k \in 1..Len(Cuts) : FirstEvent(Cuts[k][1]) \in ShardEvents
    BY <1>1, <2>1, FirstEventFacts
  <2>3. \A k, l \in 1..Len(Cuts) : k # l => FirstEvent(Cuts[k][1]) # FirstEvent(Cuts[l][1])
    BY <1>3, <2>1
  <2>4. f \in Injection(1..Len(Cuts), ShardEvents)
    BY <2>2, <2>3 DEF Injection, IsInjective
  <2> HIDE DEF f
  <2>5. Cardinality(1..Len(Cuts)) <= Cardinality(ShardEvents)
    BY <1>2, <2>4, FS_Injection
  <2>6. 1 \in Int /\ Len(Cuts) \in Int
    BY <1>1
  <2>7. Cardinality(1..Len(Cuts)) = IF 1 > Len(Cuts) THEN 0 ELSE Len(Cuts) - 1 + 1
    BY <2>6, FS_Interval
  <2> QED BY <1>1, <1>2, <2>5, <2>7
<1>5. ASSUME NEW k \in 1..Len(Cuts) PROVE Len(Cuts[k]) <= TotalEvents
  <2> DEFINE f == [i \in 1..Len(Cuts[k]) |-> FirstEvent(Cuts[k][i])]
  <2>1. \A i \in 1..Len(Cuts[k]) : FirstEvent(Cuts[k][i]) \in ShardEvents
    BY <1>1, FirstEventFacts
  <2>2. \A i, j \in 1..Len(Cuts[k]) : i # j => FirstEvent(Cuts[k][i]) # FirstEvent(Cuts[k][j])
    BY <1>3
  <2>3. f \in Injection(1..Len(Cuts[k]), ShardEvents)
    BY <2>1, <2>2 DEF Injection, IsInjective
  <2> HIDE DEF f
  <2>4. Cardinality(1..Len(Cuts[k])) <= Cardinality(ShardEvents)
    BY <1>2, <2>3, FS_Injection
  <2>5. 1 \in Int /\ Len(Cuts[k]) \in Int /\ Len(Cuts[k]) > 0
    BY <1>1
  <2>6. Cardinality(1..Len(Cuts[k])) = IF 1 > Len(Cuts[k]) THEN 0 ELSE Len(Cuts[k]) - 1 + 1
    BY <2>5, FS_Interval
  <2> QED BY <1>2, <2>4, <2>5, <2>6
<1> QED BY <1>4, <1>5

(* The next precompile shard to submit has a task.                         *)
LEMMA NextTask ==
    ASSUME EmitInv, cut # <<>>
    PROVE  Len(submitted) + 1 \in Precompiles
<1>1. /\ Len(submitted) \in Nat /\ Len(cut) \in Nat
      /\ Len(Cuts) = Len(submitted) + Len(cut) /\ cut \in Seq(Seq(Slice))
  BY CutsFacts DEF EmitInv, EmitTypes
<1>2. Len(cut) > 0
  BY <1>1, EmptySeq
<1>3. Len(Cuts) <= TotalEvents /\ TotalEvents \in Nat
  BY CutsBounded, ShardEventsFinite
<1> QED BY <1>1, <1>2, <1>3 DEF Precompiles

-----------------------------------------------------------------------------
(* The end of the workers' invariant.                                      *)

(* WorkerInv holds at the start.                                           *)
LEMMA WorkerInitial == Init => WorkerInv
<1> SUFFICES ASSUME Init PROVE WorkerInv
  OBVIOUS
<1>1. /\ outputs = {} /\ records = {} /\ markers = {} /\ submitted = <<>>
      /\ status = [t \in Tasks |-> "unsubmitted"]
      /\ delivered = [t \in Tasks |-> 0]
      /\ attempt = [a \in Attempts |-> Idle]
      /\ upload = [a \in Shards \X (1..MaxAttempts) |-> "none"]
      /\ unsent = Shards
  BY DEF Init
<1>2. Idle \in [pc : Places, slice : Nat] /\ Idle.pc = "none"
  BY DEF Idle, Places
<1>3. WorkerTypes
  BY <1>1, <1>2 DEF WorkerTypes
<1>4. AttemptsPlaced
  BY <1>1, <1>2 DEF AttemptsPlaced, Attempts, Late
<1>5. DeliveredOnly
  BY <1>1, TaskFacts DEF DeliveredOnly
<1>6. UploadMarked /\ UploadLater
  BY <1>1 DEF UploadMarked, UploadLater
<1>7. RecordGoesLast
  BY <1>1 DEF RecordGoesLast
<1> QED BY <1>3, <1>4, <1>5, <1>6, <1>7 DEF WorkerInv

(* Every step keeps WorkerInv.                                             *)
LEMMA WorkerStep ==
    ASSUME WorkerInv, EmitInv, [Next]_vars
    PROVE  WorkerInv'
<1>0. /\ WorkerTypes /\ AttemptsPlaced /\ DeliveredOnly /\ UploadMarked /\ UploadLater
      /\ RecordGoesLast
  BY DEF WorkerInv
<1>1. CASE UNCHANGED WorkerView
  BY <1>0, <1>1 DEF WorkerView, WorkerInv, WorkerTypes, AttemptsPlaced, DeliveredOnly,
                    UploadMarked, UploadLater, RecordGoesLast
<1>2. submitted \in Seq(Seq(Slice)) /\ Len(submitted) \in Nat
      /\ cut \in Seq(Seq(Slice)) /\ unsent \subseteq Shards
  BY CutsFacts DEF EmitInv, EmitTypes
<1>3. ASSUME NEW t \in Tasks, CreateCoreProvingTask(t), delivered[t] = 0
      PROVE  /\ attempt' = [attempt EXCEPT ![<<t, delivered[t] + 1>>] = At("queued")]
             /\ delivered' = [delivered EXCEPT ![t] = @ + 1]
             /\ status' = [status EXCEPT ![t] = "pending"]
             /\ records' = records \cup {t}
  BY <1>0, <1>3 DEF CreateCoreProvingTask, WorkerTypes
<1>4. ASSUME NEW s \in Shards, SubmitCoreShard(s) PROVE WorkerInv'
  <2>1. /\ s \in unsent /\ s \in Tasks /\ s \notin Precompiles
        /\ CreateCoreProvingTask(s)
        /\ unsent' = unsent \ {s}
        /\ UNCHANGED <<outputs, upload, markers, submitted, ended>>
    BY <1>4, TaskFacts DEF SubmitCoreShard, emitVars
  <2>2. delivered[s] = 0
    BY <1>0, <2>1 DEF DeliveredOnly
  <2>3. /\ Len(submitted) <= Len(submitted') /\ submitted' \in Seq(Seq(Slice))
        /\ \A p \in 1..Len(submitted) : submitted'[p] = submitted[p]
    BY <1>2, <2>1
  <2>4. /\ attempt' = [attempt EXCEPT ![<<s, delivered[s] + 1>>] = At("queued")]
        /\ delivered' = [delivered EXCEPT ![s] = @ + 1]
        /\ status' = [status EXCEPT ![s] = "pending"]
        /\ records' = records \cup {s}
    BY <1>3, <2>1, <2>2
  <2>5. /\ attempt' \in [Attempts -> [pc : Places, slice : Nat]]
        /\ \A u \in Tasks, k \in 1..MaxAttempts :
               \/ attempt'[<<u, k>>] = attempt[<<u, k>>]
               \/ u = s /\ k = delivered[s] + 1 /\ attempt'[<<u, k>>].pc = "queued"
               \/ u = s /\ k <= delivered[s] /\ attempt'[<<u, k>>].pc = "ended"
    BY <2>1, <2>4, DeliverFacts
  <2> QED BY <2>1, <2>2, <2>3, <2>4, <2>5, WorkerDeliver
<1>5. CASE SubmitPrecompileShard
  <2> DEFINE t == Len(submitted) + 1
  <2>1. /\ cut # <<>> /\ CreateCoreProvingTask(t)
        /\ submitted' = Append(submitted, Head(cut))
        /\ UNCHANGED <<outputs, upload, markers, unsent, ended>>
    BY <1>5 DEF SubmitPrecompileShard, executorVars
  <2>2. t \in Precompiles /\ t \in Tasks /\ t \notin Shards
    BY <2>1, NextTask, TaskFacts
  <2>3. delivered[t] = 0
    BY <1>0, <1>2, <2>2 DEF DeliveredOnly
  <2>4. Head(cut) \in Seq(Slice)
    BY <1>2, <2>1, HeadTailProperties
  <2>5. /\ submitted' \in Seq(Seq(Slice)) /\ Len(submitted') = t
        /\ \A p \in 1..Len(submitted) : submitted'[p] = submitted[p]
    BY <1>2, <2>1, <2>4, AppendProperties
  <2>6. Len(submitted) <= Len(submitted') /\ t <= Len(submitted')
    BY <1>2, <2>5
  <2>7. unsent' \subseteq unsent \ {t}
    BY <1>2, <2>1, <2>2
  <2> HIDE DEF t
  <2>8. /\ attempt' = [attempt EXCEPT ![<<t, delivered[t] + 1>>] = At("queued")]
        /\ delivered' = [delivered EXCEPT ![t] = @ + 1]
        /\ status' = [status EXCEPT ![t] = "pending"]
        /\ records' = records \cup {t}
    BY <1>3, <2>1, <2>2, <2>3
  <2>9. /\ attempt' \in [Attempts -> [pc : Places, slice : Nat]]
        /\ \A u \in Tasks, k \in 1..MaxAttempts :
               \/ attempt'[<<u, k>>] = attempt[<<u, k>>]
               \/ u = t /\ k = delivered[t] + 1 /\ attempt'[<<u, k>>].pc = "queued"
               \/ u = t /\ k <= delivered[t] /\ attempt'[<<u, k>>].pc = "ended"
    BY <2>2, <2>8, DeliverFacts
  <2> QED BY <2>1, <2>2, <2>3, <2>5, <2>6, <2>7, <2>8, <2>9, WorkerDeliver
<1>6. ASSUME NEW t \in Tasks, delivered[t] > 0
      PROVE  /\ t \notin unsent
             /\ t \in Precompiles => t <= Len(submitted)
  <2>1. t \notin unsent
    BY <1>0, <1>6 DEF DeliveredOnly
  <2>2. ASSUME t \in Precompiles PROVE t <= Len(submitted)
    BY <1>0, <1>2, <1>6, <2>2, TaskFacts DEF DeliveredOnly
  <2> QED BY <2>1, <2>2
<1>7. ASSUME NEW t \in Tasks, Redeliver(t) PROVE WorkerInv'
  <2>1. /\ delivered[t] > 0
        /\ delivered' = [delivered EXCEPT ![t] = @ + 1]
        /\ attempt' = [attempt EXCEPT ![<<t, delivered[t] + 1>>] = At("queued")]
        /\ UNCHANGED <<outputs, upload, markers, unsent, submitted, status, records, ended>>
    BY <1>7 DEF Redeliver, Goto, storeVars, executorVars, emitVars
  <2>2. /\ Len(submitted) <= Len(submitted') /\ submitted' \in Seq(Seq(Slice))
        /\ \A p \in 1..Len(submitted) : submitted'[p] = submitted[p]
        /\ unsent' \subseteq unsent \ {t}
        /\ t \in Precompiles => t <= Len(submitted')
    BY <1>2, <1>6, <2>1
  <2>3. /\ attempt' \in [Attempts -> [pc : Places, slice : Nat]]
        /\ \A u \in Tasks, k \in 1..MaxAttempts :
               \/ attempt'[<<u, k>>] = attempt[<<u, k>>]
               \/ u = t /\ k = delivered[t] + 1 /\ attempt'[<<u, k>>].pc = "queued"
               \/ u = t /\ k <= delivered[t] /\ attempt'[<<u, k>>].pc = "ended"
    BY <2>1, DeliverFacts
  <2> QED BY <2>1, <2>2, <2>3, WorkerDeliver
<1>8. ASSUME NEW s \in Shards, NEW n \in 1..MaxAttempts, DeferredUpload(s, n) PROVE WorkerInv'
  <2>1. /\ UNCHANGED <<records, outputs, status, delivered, attempt, unsent, submitted, ended>>
        /\ upload[<<s, n>>] # "none"
        /\ \/ upload' = [upload EXCEPT ![<<s, n>>] = "marker"] /\ markers' = markers
           \/ upload' = [upload EXCEPT ![<<s, n>>] = "failed"] /\ markers' = markers
           \/ upload' = [upload EXCEPT ![<<s, n>>] = "done"] /\ markers' = markers \cup {s}
    BY <1>8 DEF DeferredUpload, UploadDeferred, CompleteMarker, UploadFails, storeVars,
                executorVars, emitVars
  <2>2. upload' \in [Shards \X (1..MaxAttempts) -> {"none", "events", "marker", "done", "failed"}]
    BY <1>0, <2>1 DEF WorkerTypes
  <2>3. UploadMarked'
    <3> SUFFICES ASSUME NEW u \in Shards, NEW k \in 1..MaxAttempts, upload'[<<u, k>>] = "done"
                 PROVE  u \in markers'
      BY DEF UploadMarked
    <3>1. CASE u = s /\ k = n
      BY <1>0, <2>1, <3>1 DEF WorkerTypes
    <3>2. CASE ~(u = s /\ k = n)
      <4>1. <<u, k>> # <<s, n>> /\ <<u, k>> \in Shards \X (1..MaxAttempts)
        BY <3>2
      <4>2. upload'[<<u, k>>] = upload[<<u, k>>]
        BY <1>0, <2>1, <4>1 DEF WorkerTypes
      <4> QED BY <1>0, <2>1, <4>2 DEF UploadMarked
    <3> QED BY <3>1, <3>2
  <2>4. RecordGoesLast'
    BY <1>0, <2>1 DEF RecordGoesLast
  <2>5. WorkerTypes' /\ AttemptsPlaced' /\ DeliveredOnly'
    BY <1>0, <2>1, <2>2 DEF WorkerTypes, AttemptsPlaced, DeliveredOnly
  <2>6. UploadLater'
    <3> SUFFICES ASSUME NEW u \in Shards, NEW k \in 1..MaxAttempts,
                        attempt[<<u, k>>].pc \in {"none", "queued"}
                 PROVE  upload'[<<u, k>>] = "none"
      BY <2>1 DEF UploadLater
    <3>1. upload[<<u, k>>] = "none"
      BY <1>0 DEF UploadLater
    <3> QED BY <1>0, <2>1, <3>1 DEF WorkerTypes
  <2> QED BY <2>3, <2>4, <2>5, <2>6 DEF WorkerInv
<1>9. ASSUME NEW t \in Tasks, NEW n \in 1..MaxAttempts, Finish(t, n) PROVE WorkerInv'
  <2>1. /\ attempt[<<t, n>>].pc = "finishing"
        /\ t \in Shards => upload[<<t, n>>] = "done"
        /\ records' = records \ {t}
        /\ Post(t, n, "succeeded")
        /\ UNCHANGED <<outputs, upload, markers, unsent, submitted, ended>>
    BY <1>9 DEF Finish, executorVars, emitVars
  <2>2. t \in outputs \/ ended
    BY <1>0, <2>1 DEF AttemptsPlaced, Late
  <2>3. t \in Shards => t \in markers
    BY <1>0, <2>1 DEF UploadMarked
  <2>4. attempt[<<t, n>>].pc \notin {"none", "queued"} /\ \E st \in Terminal : Post(t, n, st)
    BY <2>1 DEF Terminal
  <2> QED BY <2>1, <2>2, <2>3, <2>4, WorkerPost
<1>10. ASSUME NEW t \in Tasks, NEW n \in 1..MaxAttempts, Fail(t, n) PROVE WorkerInv'
  <2>1. /\ attempt[<<t, n>>].pc \in {"retryable", "fatal"}
        /\ \/ \E st \in Terminal : Post(t, n, st)
           \/ NotResubmitted(t, n)
           \/ Resubmit(t, n) /\ ~(retries[t] >= MaxRetries)
        /\ UNCHANGED <<records, outputs, upload, markers, unsent, submitted, ended>>
    BY <1>10 DEF Fail, Resubmit, Terminal, storeVars, executorVars, emitVars
  <2>2. CASE (\E st \in Terminal : Post(t, n, st)) \/ NotResubmitted(t, n)
    <3>1. attempt[<<t, n>>].pc \notin {"none", "queued"}
      BY <2>1
    <3> QED BY <2>1, <2>2, <3>1, WorkerPost
  <2>3. CASE Resubmit(t, n) /\ ~(retries[t] >= MaxRetries)
    <3>1. /\ delivered' = [delivered EXCEPT ![t] = @ + 1]
          /\ attempt' = [attempt EXCEPT ![<<t, n>>] = At("ended"),
                                        ![<<t, delivered[t] + 1>>] = At("queued")]
          /\ UNCHANGED status
      BY <2>3 DEF Resubmit
    <3>2. delivered[t] > 0 /\ n <= delivered[t] /\ delivered[t] \in Nat
      BY <1>0, <2>1, AttemptDelivered DEF AttemptsPlaced, WorkerTypes
    <3>3. /\ At("queued") \in [pc : Places, slice : Nat] /\ At("queued").pc = "queued"
          /\ At("ended") \in [pc : Places, slice : Nat] /\ At("ended").pc = "ended"
      BY AtFacts DEF Places
    <3>4. attempt' \in [Attempts -> [pc : Places, slice : Nat]]
      BY <1>0, <3>1, <3>3 DEF WorkerTypes
    <3>5. \A u \in Tasks, k \in 1..MaxAttempts :
             \/ attempt'[<<u, k>>] = attempt[<<u, k>>]
             \/ u = t /\ k = delivered[t] + 1 /\ attempt'[<<u, k>>].pc = "queued"
             \/ u = t /\ k <= delivered[t] /\ attempt'[<<u, k>>].pc = "ended"
      <4> SUFFICES ASSUME NEW u \in Tasks, NEW k \in 1..MaxAttempts
                   PROVE  \/ attempt'[<<u, k>>] = attempt[<<u, k>>]
                          \/ u = t /\ k = delivered[t] + 1 /\ attempt'[<<u, k>>].pc = "queued"
                          \/ u = t /\ k <= delivered[t] /\ attempt'[<<u, k>>].pc = "ended"
        OBVIOUS
      <4>1. <<u, k>> \in Attempts
        BY DEF Attempts
      <4> QED BY <1>0, <3>1, <3>2, <3>3, <4>1 DEF WorkerTypes
    <3>6. /\ Len(submitted) <= Len(submitted') /\ submitted' \in Seq(Seq(Slice))
          /\ \A p \in 1..Len(submitted) : submitted'[p] = submitted[p]
          /\ unsent' \subseteq unsent \ {t}
          /\ t \in Precompiles => t <= Len(submitted')
      BY <1>2, <1>6, <2>1, <3>2
    <3> QED BY <2>1, <3>1, <3>2, <3>4, <3>5, <3>6, WorkerDeliver
  <2> QED BY <2>1, <2>2, <2>3
<1>11. ASSUME NEW t \in Tasks, NEW n \in 1..MaxAttempts, Worker(t, n) PROVE WorkerInv'
  BY <1>9, <1>10, <1>11, WorkerQuiet DEF Worker
<1>12. CASE ProofEnds
  <2>1. /\ UNCHANGED <<status, delivered, attempt, upload, markers, unsent, submitted>>
        /\ ended' /\ outputs' = {}
    BY <1>12 DEF ProofEnds, workerVars, emitVars
  <2>2. WorkerTypes' /\ AttemptsPlaced' /\ DeliveredOnly'
    BY <1>0, <2>1 DEF WorkerTypes, AttemptsPlaced, DeliveredOnly
  <2>3. UploadMarked' /\ UploadLater' /\ RecordGoesLast'
    BY <1>0, <2>1 DEF UploadMarked, UploadLater, RecordGoesLast
  <2> QED BY <2>2, <2>3 DEF WorkerInv
<1> QED BY <1>1, <1>4, <1>5, <1>7, <1>8, <1>11, <1>12, WorkerFrame

(* A record is removed only when its task's proof is stored and, for a     *)
(* core shard, its deferred events and their marker are out: remove_ref    *)
(* and delete in CoreWorker::call come after the join of the upload.       *)
THEOREM RecordCorrect == Spec => []RecordGoesLast
<1>1. EmitInv /\ WorkerInv /\ [Next]_vars => WorkerInv'
  BY WorkerStep
<1>2. WorkerInv => RecordGoesLast
  BY DEF WorkerInv
<1> QED BY <1>1, <1>2, WorkerInitial, EmitAlways, PTL DEF Spec

-----------------------------------------------------------------------------
(* The gate: records and permits.                                          *)

(* While no task was delivered twice, no upload has failed and the proof   *)
(* goes on, a task has one attempt that runs, the last one, and it has no  *)
(* proof before that one has made it.                                      *)
Orderly ==
    /\ redeliveries = {} /\ ~ended
    /\ \A s \in Shards, n \in 1..MaxAttempts : upload[<<s, n>>] # "failed"
OneRunning ==
    \A t \in Tasks, n \in 1..MaxAttempts :
        /\ attempt[<<t, n>>].pc \in Early \cup Late =>
              n = delivered[t] /\ status[t] = "pending"
        /\ attempt[<<t, n>>].pc \in Early => t \notin outputs
RecordsHeld ==
    /\ \A t \in Tasks : status[t] = "succeeded" => t \notin records
    /\ emitter # "done" =>
          \A t \in records : t \in held \/ (t \in Tasks /\ status[t] = "failed")
PermitsHeld == IsFiniteSet(held) /\ Cardinality(held) <= Permits
GateInv == PermitsHeld /\ (Orderly => OneRunning /\ RecordsHeld)

(* What a worker's step that leaves the status alone does to its attempt.  *)
LEMMA QuietMove ==
    ASSUME WorkerInv, NEW t \in Tasks, NEW n \in 1..MaxAttempts,
           Start(t, n) \/ TraceFails(t, n) \/ DownloadEvents(t, n) \/ Prove(t, n)
             \/ DropSliceRef(t, n) \/ FreeSlice(t, n)
    PROVE  /\ attempt[<<t, n>>].pc \in Early \cup Late
           /\ \E v : /\ attempt' = [attempt EXCEPT ![<<t, n>>] = v]
                     /\ v.pc \in Early \cup Late
                     /\ v.pc \in Early => attempt[<<t, n>>].pc \in Early /\ outputs' = outputs
<1>1. attempt[<<t, n>>].pc \in Early \cup Late
  BY DEF Start, TraceFails, DownloadEvents, Prove, DropSliceRef, FreeSlice, Early, Late
<1> DEFINE Good(v) ==
      /\ attempt' = [attempt EXCEPT ![<<t, n>>] = v]
      /\ v.pc \in Early \cup Late
      /\ v.pc \in Early => attempt[<<t, n>>].pc \in Early /\ outputs' = outputs
<1> SUFFICES \E v : Good(v)
  BY <1>1
<1>2. ASSUME NextSlice(t, n) PROVE \E v : Good(v)
  <2> DEFINE w == IF attempt[<<t, n>>].slice < Len(SlicesOf(t))
                  THEN [pc |-> "dropping", slice |-> attempt[<<t, n>>].slice + 1]
                  ELSE At("finishing")
  <2>1. attempt' = [attempt EXCEPT ![<<t, n>>] = w]
    BY <1>2 DEF NextSlice
  <2>2. w.pc \in {"dropping", "finishing"}
    BY AtFacts DEF Places
  <2> HIDE DEF w
  <2>3. Good(w)
    BY <2>1, <2>2 DEF Early, Late
  <2> QED BY <2>3
<1>3. ASSUME NEW x \in Early, Goto(t, n, x), attempt[<<t, n>>].pc \in Early, outputs' = outputs
      PROVE  \E v : Good(v)
  <2>1. At(x).pc = x
    BY AtFacts DEF Early, Places
  <2>2. Good(At(x))
    BY <1>3, <2>1 DEF Goto
  <2> QED BY <2>2
<1>4. CASE Start(t, n)
  BY <1>3, <1>4 DEF Start, StartCore, StartPrecompile, storeVars, Early
<1>5. CASE DownloadEvents(t, n) \/ TraceFails(t, n)
  BY <1>3, <1>5 DEF DownloadEvents, TraceFails, storeVars, Early
<1>6. CASE Prove(t, n)
  <2>1. CASE (Goto(t, n, "retryable") \/ Goto(t, n, "fatal")) /\ UNCHANGED outputs
    BY <1>3, <1>6, <2>1 DEF Prove, Early
  <2>2. CASE attempt' = [attempt EXCEPT ![<<t, n>>] = IF t \in Precompiles
                                   THEN [pc |-> "dropping", slice |-> 1]
                                   ELSE At("finishing")]
    <3> DEFINE w == IF t \in Precompiles THEN [pc |-> "dropping", slice |-> 1]
                                         ELSE At("finishing")
    <3>1. w.pc \in {"dropping", "finishing"}
      BY AtFacts DEF Places
    <3>2. attempt' = [attempt EXCEPT ![<<t, n>>] = w]
      BY <2>2
    <3> HIDE DEF w
    <3>3. Good(w)
      BY <3>1, <3>2 DEF Early, Late
    <3> QED BY <3>3
  <2> QED BY <1>6, <2>1, <2>2 DEF Prove
<1>7. CASE DropSliceRef(t, n)
  <2>1. CASE attempt' = [attempt EXCEPT ![<<t, n>>].pc = "freeing"]
    <3> DEFINE w == [attempt[<<t, n>>] EXCEPT !.pc = "freeing"]
    <3>1. attempt[<<t, n>>] \in [pc : Places, slice : Nat]
      BY DEF WorkerInv, WorkerTypes, Attempts
    <3>2. w.pc = "freeing"
      BY <3>1
    <3>3. attempt' = [attempt EXCEPT ![<<t, n>>] = w]
      BY <2>1
    <3> HIDE DEF w
    <3>4. Good(w)
      BY <3>2, <3>3 DEF Early, Late
    <3> QED BY <3>4
  <2> QED BY <1>2, <1>7, <2>1 DEF DropSliceRef
<1>8. CASE FreeSlice(t, n)
  BY <1>2, <1>8 DEF FreeSlice
<1> QED BY <1>4, <1>5, <1>6, <1>7, <1>8

(* One attempt of a task changes, and the others do not run.               *)
LEMMA GateMoved ==
    ASSUME WorkerInv, OneRunning, NEW t \in Tasks, NEW n \in 1..MaxAttempts, NEW v,
           attempt[<<t, n>>].pc \in Early \cup Late,
           attempt' = [attempt EXCEPT ![<<t, n>>] = v],
           UNCHANGED delivered,
           outputs' = outputs \/ outputs' = outputs \cup {t},
           \A u \in Tasks : u # t => status'[u] = status[u],
           v.pc \in Early \cup Late => status'[t] = "pending",
           v.pc \in Early => t \notin outputs'
    PROVE  OneRunning'
<1> SUFFICES ASSUME NEW u \in Tasks, NEW k \in 1..MaxAttempts
             PROVE  /\ attempt'[<<u, k>>].pc \in Early \cup Late =>
                          k = delivered[u] /\ status'[u] = "pending"
                    /\ attempt'[<<u, k>>].pc \in Early => u \notin outputs'
  BY DEF OneRunning
<1>1. <<u, k>> \in Attempts /\ attempt \in [Attempts -> [pc : Places, slice : Nat]]
  BY DEF Attempts, WorkerInv, WorkerTypes
<1>2. CASE u = t /\ k = n
  <2>1. attempt'[<<u, k>>] = v
    BY <1>1, <1>2
  <2> QED BY <1>2, <2>1 DEF OneRunning
<1>3. CASE u = t /\ k # n
  <2>1. attempt'[<<u, k>>] = attempt[<<u, k>>]
    BY <1>1, <1>3
  <2>2. ~(attempt[<<u, k>>].pc \in Early \cup Late)
    BY <1>3 DEF OneRunning
  <2> QED BY <2>1, <2>2
<1>4. CASE u # t
  <2>1. attempt'[<<u, k>>] = attempt[<<u, k>>]
    BY <1>1, <1>4
  <2> QED BY <1>4, <2>1 DEF OneRunning
<1> QED BY <1>2, <1>3, <1>4

(* A delivery of a task that does not run.                                 *)
LEMMA GateDelivered ==
    ASSUME WorkerInv, OneRunning, NEW t \in Tasks,
           delivered' = [delivered EXCEPT ![t] = @ + 1],
           attempt' \in [Attempts -> [pc : Places, slice : Nat]],
           \A u \in Tasks, k \in 1..MaxAttempts :
               IF u = t THEN \/ attempt'[<<u, k>>].pc \in {"none", "ended"}
                             \/ k = delivered[t] + 1 /\ attempt'[<<u, k>>].pc = "queued"
                        ELSE attempt'[<<u, k>>] = attempt[<<u, k>>],
           status'[t] = "pending",
           \A u \in Tasks : u # t => status'[u] = status[u],
           t \notin outputs, UNCHANGED outputs
    PROVE  OneRunning'
<1> SUFFICES ASSUME NEW u \in Tasks, NEW k \in 1..MaxAttempts
             PROVE  /\ attempt'[<<u, k>>].pc \in Early \cup Late =>
                          k = delivered'[u] /\ status'[u] = "pending"
                    /\ attempt'[<<u, k>>].pc \in Early => u \notin outputs'
  BY DEF OneRunning
<1>1. delivered'[u] = IF u = t THEN delivered[t] + 1 ELSE delivered[u]
  BY DEF WorkerInv, WorkerTypes
<1>2. CASE u = t
  BY <1>1, <1>2 DEF Early, Late
<1>3. CASE u # t
  BY <1>1, <1>3 DEF OneRunning
<1> QED BY <1>2, <1>3

(* The permits: a task takes one when there is one.                        *)
LEMMA PermitsStep ==
    ASSUME PermitsHeld, [Next]_vars
    PROVE  PermitsHeld'
<1>0. IsFiniteSet(held) /\ Cardinality(held) \in Nat /\ Cardinality(held) <= Permits
      /\ Permits \in Nat
  BY FS_CardinalityType, BoundsAssumption DEF PermitsHeld
<1>1. ASSUME NEW t, CreateCoreProvingTask(t) PROVE PermitsHeld'
  <2>1. Cardinality(held) < Permits /\ held' = held \cup {t}
    BY <1>1 DEF CreateCoreProvingTask
  <2>2. /\ IsFiniteSet(held \cup {t})
        /\ Cardinality(held \cup {t}) = IF t \in held THEN Cardinality(held) ELSE Cardinality(held) + 1
    BY <1>0, FS_AddElement
  <2> QED BY <1>0, <2>1, <2>2 DEF PermitsHeld
<1>2. ASSUME NEW t \in Tasks, ReleasePermit(t) PROVE PermitsHeld'
  <2>1. held' = held \ {t}
    BY <1>2 DEF ReleasePermit
  <2>2. /\ IsFiniteSet(held \ {t})
        /\ Cardinality(held \ {t}) = IF t \in held THEN Cardinality(held) - 1 ELSE Cardinality(held)
    BY <1>0, FS_RemoveElement
  <2> QED BY <1>0, <2>1, <2>2 DEF PermitsHeld
<1>3. CASE DropGate
  <2>1. held' = {}
    BY <1>3 DEF DropGate
  <2> QED BY <1>0, <2>1, FS_EmptySet DEF PermitsHeld
<1>4. CASE UNCHANGED held
  BY <1>4 DEF PermitsHeld
<1>5. ASSUME NEW t \in Tasks, NEW n \in 1..MaxAttempts, Worker(t, n) PROVE UNCHANGED held
  BY <1>5 DEF Worker, Start, TraceFails, DownloadEvents, Prove, DropSliceRef, FreeSlice,
              Finish, JoinFails, Fail
<1>6. ASSUME NEW s \in Shards, NEW n \in 1..MaxAttempts, DeferredUpload(s, n) PROVE UNCHANGED held
  BY <1>6 DEF DeferredUpload, UploadDeferred, CompleteMarker, UploadFails
<1>7. ASSUME NEW s \in Shards, SubmitCoreShard(s) PROVE PermitsHeld'
  BY <1>1, <1>7 DEF SubmitCoreShard
<1>8. CASE SubmitPrecompileShard
  BY <1>1, <1>8 DEF SubmitPrecompileShard
<1>9. ASSUME Emitter, ~SubmitPrecompileShard PROVE UNCHANGED held
  BY <1>9 DEF Emitter, ListenerReceive, ReceiveMarker, DownloadWrapper, AppendEvents,
              EndOfStream, CutShard, AddSliceRef, DropControllerRef, AllSubmitted,
              ReceiveFailedMarker, SubmitRefused, EmitterFails
<1>10. ASSUME NEW t \in Tasks, Redeliver(t) PROVE UNCHANGED held
  BY <1>10 DEF Redeliver
<1>11. CASE UNCHANGED vars
  BY <1>4, <1>11 DEF vars
<1>12. CASE ProofEnds
  BY <1>4, <1>12 DEF ProofEnds
<1> QED BY <1>2, <1>3, <1>4, <1>5, <1>6, <1>7, <1>8, <1>9, <1>10, <1>11, <1>12
        DEF Next, Progress, RequestFails

(* Once the emitter has returned it does nothing, and what is not orderly  *)
(* stays so: the tasks delivered again only grow in number, a failed       *)
(* upload stays failed, and the proof's end is for ever.                   *)
LEMMA GateFrame ==
    ASSUME [Next]_vars, EmitInv, WorkerInv
    PROVE  /\ emitter = "done" => emitter' = "done"
           /\ Orderly' => Orderly
<1>0. WorkerTypes /\ UploadLater /\ EmitTypes
  BY DEF WorkerInv, EmitInv
<1> USE DEF storeVars, workerVars, executorVars, listenVars, emitVars
<1>1. CASE UNCHANGED <<emitter, redeliveries, upload, ended>>
  BY <1>1 DEF Orderly
<1>2. ASSUME NEW s \in Shards, SubmitCoreShard(s)
      PROVE  UNCHANGED <<emitter, redeliveries, upload, ended>>
  BY <1>2 DEF SubmitCoreShard
<1>3. ASSUME NEW t \in Tasks, ReleasePermit(t)
      PROVE  UNCHANGED <<emitter, redeliveries, upload, ended>>
  BY <1>3 DEF ReleasePermit
<1>4. ASSUME NEW t \in Tasks, NEW n \in 1..MaxAttempts, Worker(t, n)
      PROVE  UNCHANGED emitter /\ (Orderly' => Orderly)
  <2>1. UNCHANGED <<emitter, redeliveries, ended>>
    BY <1>4 DEF Worker, Start, TraceFails, DownloadEvents, Prove, DropSliceRef, FreeSlice,
                Finish, JoinFails, Fail
  <2>2. \/ UNCHANGED upload
        \/ /\ upload' = [upload EXCEPT ![<<t, n>>] = "events"]
           /\ t \in Shards /\ attempt[<<t, n>>].pc = "queued"
    BY <1>4 DEF Worker, Start, StartCore, StartPrecompile, TraceFails, DownloadEvents,
                Prove, DropSliceRef, FreeSlice, Finish, JoinFails, Fail
  <2>3. ASSUME NEW s \in Shards, NEW k \in 1..MaxAttempts, upload[<<s, k>>] = "failed"
        PROVE  upload'[<<s, k>>] = "failed"
    <3>1. CASE UNCHANGED upload
      BY <2>3, <3>1
    <3>2. CASE ~UNCHANGED upload
      <4>1. upload[<<t, n>>] = "none"
        BY <1>0, <2>2, <3>2 DEF UploadLater
      <4> QED BY <1>0, <2>2, <2>3, <3>2, <4>1 DEF WorkerTypes
    <3> QED BY <3>1, <3>2
  <2> QED BY <2>1, <2>3 DEF Orderly
<1>5. ASSUME NEW s \in Shards, NEW n \in 1..MaxAttempts, DeferredUpload(s, n)
      PROVE  UNCHANGED emitter /\ (Orderly' => Orderly)
  <2>1. /\ UNCHANGED <<emitter, redeliveries, ended>>
        /\ upload[<<s, n>>] # "failed"
        /\ \E x \in {"marker", "done", "failed"} : upload' = [upload EXCEPT ![<<s, n>>] = x]
    BY <1>5 DEF DeferredUpload, UploadDeferred, CompleteMarker, UploadFails
  <2>2. ASSUME NEW u \in Shards, NEW k \in 1..MaxAttempts, upload[<<u, k>>] = "failed"
        PROVE  upload'[<<u, k>>] = "failed"
    BY <1>0, <2>1, <2>2 DEF WorkerTypes
  <2> QED BY <2>1, <2>2 DEF Orderly
<1>6. ASSUME NEW t \in Tasks, Redeliver(t)
      PROVE  UNCHANGED emitter /\ (Orderly' => Orderly)
  BY <1>6 DEF Redeliver, Orderly
<1>7. CASE Emitter
  <2>1. UNCHANGED <<redeliveries, upload, ended>>
    BY <1>7 DEF Emitter, ListenerReceive, ReceiveMarker, DownloadWrapper, AppendEvents,
                EndOfStream, CutShard, AddSliceRef, DropControllerRef, AllSubmitted,
                SubmitPrecompileShard, ReceiveFailedMarker, SubmitRefused, EmitterFails
  <2>2. emitter = "done" => emitter' = "done"
    BY <1>7 DEF Emitter, ListenerReceive, ReceiveMarker, DownloadWrapper, AppendEvents,
                EndOfStream, CutShard, AddSliceRef, DropControllerRef, AllSubmitted,
                SubmitPrecompileShard, ReceiveFailedMarker, SubmitRefused, EmitterFails
  <2> QED BY <2>1, <2>2 DEF Orderly
<1>8. CASE DropGate
  BY <1>1, <1>8 DEF DropGate
<1>9. CASE ProofEnds
  BY <1>9 DEF ProofEnds, Orderly
<1>10. CASE UNCHANGED vars
  BY <1>1, <1>10 DEF vars
<1> QED BY <1>1, <1>2, <1>3, <1>4, <1>5, <1>6, <1>7, <1>8, <1>9, <1>10
        DEF Next, Progress, RequestFails

(* Every step keeps GateInv.                                               *)
LEMMA GateStep ==
    ASSUME GateInv, WorkerInv, EmitInv, [Next]_vars
    PROVE  GateInv'
<1>0. WorkerTypes /\ AttemptsPlaced /\ DeliveredOnly
  BY DEF WorkerInv
<1>1. PermitsHeld'
  BY PermitsStep DEF GateInv
<1>2. /\ emitter = "done" => emitter' = "done"
      /\ Orderly' => Orderly
  BY GateFrame
<1> SUFFICES ASSUME Orderly' PROVE OneRunning' /\ RecordsHeld'
  BY <1>1 DEF GateInv
<1>3. OneRunning /\ RecordsHeld /\ ~ended /\ ~ended' /\ redeliveries' = {}
  BY <1>2 DEF GateInv, Orderly
<1>4. ASSUME UNCHANGED WorkerView, held' = held PROVE OneRunning' /\ RecordsHeld'
  BY <1>2, <1>3, <1>4 DEF WorkerView, OneRunning, RecordsHeld
<1>5. ASSUME NEW t \in Tasks, CreateCoreProvingTask(t), delivered[t] = 0, UNCHANGED outputs
      PROVE  OneRunning' /\ RecordsHeld'
  <2>1. /\ records' = records \cup {t} /\ held' = held \cup {t}
        /\ status' = [status EXCEPT ![t] = "pending"]
        /\ delivered' = [delivered EXCEPT ![t] = 1]
        /\ attempt' = [attempt EXCEPT ![<<t, 1>>] = At("queued")]
    BY <1>5 DEF CreateCoreProvingTask
  <2>2. status'[t] = "pending" /\ \A u \in Tasks : u # t => status'[u] = status[u]
    BY <1>0, <2>1 DEF WorkerTypes
  <2>3. delivered' = [delivered EXCEPT ![t] = @ + 1]
    BY <1>0, <1>5, <2>1 DEF WorkerTypes
  <2>4. t \notin outputs
    BY <1>0, <1>5 DEF DeliveredOnly
  <2>5. At("queued") \in [pc : Places, slice : Nat] /\ At("queued").pc = "queued"
    BY AtFacts DEF Places
  <2>6. attempt' \in [Attempts -> [pc : Places, slice : Nat]]
    BY <1>0, <2>1, <2>5 DEF WorkerTypes
  <2>7. \A u \in Tasks, k \in 1..MaxAttempts :
               IF u = t THEN \/ attempt'[<<u, k>>].pc \in {"none", "ended"}
                             \/ k = delivered[t] + 1 /\ attempt'[<<u, k>>].pc = "queued"
                        ELSE attempt'[<<u, k>>] = attempt[<<u, k>>]
    <3> SUFFICES ASSUME NEW u \in Tasks, NEW k \in 1..MaxAttempts
                 PROVE  IF u = t THEN \/ attempt'[<<u, k>>].pc \in {"none", "ended"}
                                      \/ k = delivered[t] + 1 /\ attempt'[<<u, k>>].pc = "queued"
                                 ELSE attempt'[<<u, k>>] = attempt[<<u, k>>]
      OBVIOUS
    <3>1. <<u, k>> \in Attempts
      BY DEF Attempts
    <3>2. CASE u # t
      BY <1>0, <2>1, <3>1, <3>2 DEF WorkerTypes
    <3>3. CASE u = t /\ k = 1
      BY <1>0, <1>5, <2>1, <2>5, <3>1, <3>3 DEF WorkerTypes
    <3>4. CASE u = t /\ k # 1
      <4>1. attempt'[<<u, k>>] = attempt[<<u, k>>]
        BY <1>0, <2>1, <3>1, <3>4 DEF WorkerTypes
      <4>2. ~(k <= delivered[u])
        BY <1>5, <3>4
      <4>3. attempt[<<u, k>>].pc = "none"
        BY <1>0, <4>2 DEF AttemptsPlaced
      <4> QED BY <3>4, <4>1, <4>3
    <3> QED BY <3>2, <3>3, <3>4
  <2>8. OneRunning'
    BY <1>3, <1>5, <2>2, <2>3, <2>4, <2>6, <2>7, GateDelivered
  <2>9. RecordsHeld'
    BY <1>2, <1>3, <2>1, <2>2 DEF RecordsHeld
  <2> QED BY <2>8, <2>9
<1>6. ASSUME NEW s \in Shards, SubmitCoreShard(s) PROVE OneRunning' /\ RecordsHeld'
  <2>1. s \in unsent /\ CreateCoreProvingTask(s) /\ UNCHANGED outputs
    BY <1>6 DEF SubmitCoreShard
  <2>2. delivered[s] = 0 /\ s \in Tasks
    BY <1>0, <2>1, TaskFacts DEF DeliveredOnly
  <2> QED BY <1>5, <2>1, <2>2
<1>7. CASE SubmitPrecompileShard
  <2> DEFINE t == Len(submitted) + 1
  <2>1. cut # <<>> /\ CreateCoreProvingTask(t) /\ UNCHANGED outputs
    BY <1>7 DEF SubmitPrecompileShard
  <2>2. t \in Precompiles /\ t \in Tasks /\ Len(submitted) \in Nat
    BY <2>1, NextTask, TaskFacts, CutsFacts DEF EmitInv
  <2>3. delivered[t] = 0
    BY <1>0, <2>2 DEF DeliveredOnly
  <2> HIDE DEF t
  <2> QED BY <1>5, <2>1, <2>2, <2>3
<1>8. ASSUME NEW t \in Tasks, ReleasePermit(t) PROVE OneRunning' /\ RecordsHeld'
  <2>1. status[t] \in Terminal /\ held' = held \ {t} /\ UNCHANGED <<storeVars, workerVars, emitVars>>
    BY <1>3, <1>8 DEF ReleasePermit
  <2>2. status[t] = "succeeded" => t \notin records
    BY <1>3 DEF RecordsHeld
  <2>3. OneRunning'
    BY <1>3, <2>1 DEF OneRunning, storeVars, workerVars
  <2>4. RecordsHeld'
    BY <1>2, <1>3, <2>1, <2>2 DEF RecordsHeld, storeVars, workerVars, emitVars, Terminal
  <2> QED BY <2>3, <2>4
<1>9. CASE DropGate
  <2>1. emitter = "done" /\ UNCHANGED <<storeVars, workerVars, emitVars>>
    BY <1>3, <1>9 DEF DropGate, EmitInv, EmitPlaces
  <2> QED BY <1>3, <2>1 DEF OneRunning, RecordsHeld, storeVars, workerVars, emitVars
<1>10. ASSUME NEW t \in Tasks, NEW n \in 1..MaxAttempts,
              Start(t, n) \/ TraceFails(t, n) \/ DownloadEvents(t, n) \/ Prove(t, n)
                \/ DropSliceRef(t, n) \/ FreeSlice(t, n)
       PROVE  OneRunning' /\ RecordsHeld'
  <2>1. UNCHANGED <<records, status, delivered, held, emitter>>
        /\ (outputs' = outputs \/ outputs' = outputs \cup {t})
    BY <1>10 DEF Start, TraceFails, DownloadEvents, Prove, DropSliceRef, FreeSlice,
           storeVars, executorVars, emitVars
  <2>2. attempt[<<t, n>>].pc \in Early \cup Late
    BY <1>10, QuietMove
  <2>3. PICK v : /\ attempt' = [attempt EXCEPT ![<<t, n>>] = v]
                 /\ v.pc \in Early => attempt[<<t, n>>].pc \in Early /\ outputs' = outputs
    BY <1>10, QuietMove
  <2>4. status'[t] = "pending" /\ \A u \in Tasks : u # t => status'[u] = status[u]
    BY <1>3, <2>1, <2>2 DEF OneRunning
  <2>5. v.pc \in Early => t \notin outputs'
    BY <1>3, <2>3 DEF OneRunning
  <2>6. OneRunning'
    BY <1>3, <2>1, <2>2, <2>3, <2>4, <2>5, GateMoved
  <2>7. RecordsHeld'
    BY <1>3, <2>1 DEF RecordsHeld
  <2> QED BY <2>6, <2>7
<1>11. ASSUME NEW t \in Tasks, NEW n \in 1..MaxAttempts, NEW st \in Terminal,
              attempt[<<t, n>>].pc \in Early \cup Late, Post(t, n, st), UNCHANGED outputs
       PROVE  /\ OneRunning'
              /\ status'[t] = st /\ \A u \in Tasks : u # t => status'[u] = status[u]
  <2>1. /\ status' = [status EXCEPT ![t] = st] /\ UNCHANGED delivered
        /\ attempt' = [attempt EXCEPT ![<<t, n>>] = At("ended")]
    BY <1>11 DEF Post, Goto
  <2>2. status'[t] = st /\ \A u \in Tasks : u # t => status'[u] = status[u]
    BY <1>0, <2>1 DEF WorkerTypes
  <2>3. At("ended").pc \notin Early \cup Late
    BY AtFacts DEF Places, Early, Late
  <2>4. OneRunning'
    BY <1>3, <1>11, <2>1, <2>2, <2>3, GateMoved
  <2> QED BY <2>2, <2>4
<1>12. ASSUME NEW t \in Tasks, NEW n \in 1..MaxAttempts, Finish(t, n)
       PROVE  OneRunning' /\ RecordsHeld'
  <2>1. /\ attempt[<<t, n>>].pc \in Early \cup Late /\ records' = records \ {t}
        /\ Post(t, n, "succeeded") /\ UNCHANGED <<outputs, held, emitter>>
        /\ "succeeded" \in Terminal
    BY <1>12 DEF Finish, emitVars, Early, Late, Terminal
  <2>2. OneRunning' /\ status'[t] = "succeeded" /\ \A u \in Tasks : u # t => status'[u] = status[u]
    BY <1>11, <2>1
  <2>3. RecordsHeld'
    BY <1>3, <2>1, <2>2 DEF RecordsHeld
  <2> QED BY <2>2, <2>3
<1>13. ASSUME NEW t \in Tasks, NEW n \in 1..MaxAttempts, Fail(t, n)
       PROVE  OneRunning' /\ RecordsHeld'
  <2>1. /\ attempt[<<t, n>>].pc \in {"retryable", "fatal"}
        /\ UNCHANGED <<records, outputs, held, emitter>>
    BY <1>13 DEF Fail, storeVars, emitVars
  <2>2. attempt[<<t, n>>].pc \in Early /\ t \notin outputs
    BY <1>3, <2>1 DEF OneRunning, Early
  <2>3. n = delivered[t] /\ status[t] = "pending"
    BY <1>3, <2>2 DEF OneRunning
  <2>4. ~OutputsExist(t)
    BY <2>2 DEF OutputsExist
  <2>5. CASE Post(t, n, "failed")
    <3>1. "failed" \in Terminal
      BY DEF Terminal
    <3>2. OneRunning' /\ status'[t] = "failed" /\ \A u \in Tasks : u # t => status'[u] = status[u]
      BY <1>11, <2>1, <2>2, <2>5, <3>1
    <3>3. RecordsHeld'
      BY <1>3, <2>1, <3>2 DEF RecordsHeld
    <3> QED BY <3>2, <3>3
  <2>6. CASE Resubmit(t, n) /\ ~(retries[t] >= MaxRetries)
    <3>1. /\ delivered' = [delivered EXCEPT ![t] = @ + 1]
          /\ attempt' = [attempt EXCEPT ![<<t, n>>] = At("ended"),
                                        ![<<t, delivered[t] + 1>>] = At("queued")]
          /\ UNCHANGED status
      BY <2>6 DEF Resubmit
    <3>2. /\ At("queued") \in [pc : Places, slice : Nat] /\ At("queued").pc = "queued"
          /\ At("ended") \in [pc : Places, slice : Nat] /\ At("ended").pc = "ended"
      BY AtFacts DEF Places
    <3>3. attempt' \in [Attempts -> [pc : Places, slice : Nat]]
      BY <1>0, <3>1, <3>2 DEF WorkerTypes
    <3>4. \A u \in Tasks, k \in 1..MaxAttempts :
               IF u = t THEN \/ attempt'[<<u, k>>].pc \in {"none", "ended"}
                             \/ k = delivered[t] + 1 /\ attempt'[<<u, k>>].pc = "queued"
                        ELSE attempt'[<<u, k>>] = attempt[<<u, k>>]
      <4> SUFFICES ASSUME NEW u \in Tasks, NEW k \in 1..MaxAttempts
                   PROVE  IF u = t THEN \/ attempt'[<<u, k>>].pc \in {"none", "ended"}
                                        \/ k = delivered[t] + 1 /\ attempt'[<<u, k>>].pc = "queued"
                                   ELSE attempt'[<<u, k>>] = attempt[<<u, k>>]
        OBVIOUS
      <4>1. <<u, k>> \in Attempts /\ delivered[t] \in Nat
        BY <1>0 DEF Attempts, WorkerTypes
      <4>2. CASE u # t
        BY <1>0, <3>1, <4>1, <4>2 DEF WorkerTypes
      <4>3. CASE u = t /\ k = delivered[t] + 1
        BY <1>0, <3>1, <3>2, <4>1, <4>3 DEF WorkerTypes
      <4>4. CASE u = t /\ k = n
        BY <1>0, <2>3, <3>1, <3>2, <4>1, <4>4 DEF WorkerTypes
      <4>5. CASE u = t /\ k # n /\ k # delivered[t] + 1
        <5>1. attempt'[<<u, k>>] = attempt[<<u, k>>]
          BY <1>0, <3>1, <4>1, <4>5 DEF WorkerTypes
        <5>2. attempt[<<u, k>>].pc \notin Early \cup Late
          BY <1>3, <2>3, <4>5 DEF OneRunning
        <5>3. attempt[<<u, k>>].pc \in Places
          BY <1>0, <4>1 DEF WorkerTypes
        <5>4. attempt[<<u, k>>].pc \in {"none", "ended"}
          BY <5>2, <5>3 DEF Early, Late, Places
        <5> QED BY <4>5, <5>1, <5>4
      <4> QED BY <4>2, <4>3, <4>4, <4>5
    <3>5. OneRunning'
      BY <1>3, <2>1, <2>2, <2>3, <3>1, <3>3, <3>4, GateDelivered
    <3>6. RecordsHeld'
      BY <1>3, <2>1, <3>1 DEF RecordsHeld
    <3> QED BY <3>5, <3>6
  <2> QED BY <1>3, <1>13, <2>4, <2>5, <2>6 DEF Fail, Resubmit, NotResubmitted
<1>19. ASSUME NEW t \in Tasks, NEW n \in 1..MaxAttempts, JoinFails(t, n) PROVE FALSE
  BY <1>19 DEF JoinFails, Orderly
<1>14. ASSUME NEW t \in Tasks, NEW n \in 1..MaxAttempts, Worker(t, n)
       PROVE  OneRunning' /\ RecordsHeld'
  BY <1>10, <1>12, <1>13, <1>14, <1>19 DEF Worker
<1>15. ASSUME NEW s \in Shards, NEW n \in 1..MaxAttempts, DeferredUpload(s, n)
       PROVE  OneRunning' /\ RecordsHeld'
  <2>1. UNCHANGED <<records, outputs, status, delivered, attempt, held, emitter>>
    BY <1>15 DEF DeferredUpload, UploadDeferred, CompleteMarker, UploadFails, storeVars,
                 emitVars
  <2> QED BY <1>3, <2>1 DEF OneRunning, RecordsHeld
<1>16. ASSUME NEW t \in Tasks, Redeliver(t) PROVE FALSE
  BY <1>3, <1>16 DEF Redeliver
<1>17. ASSUME Emitter, ~SubmitPrecompileShard PROVE OneRunning' /\ RecordsHeld'
  <2>1. UNCHANGED <<records, outputs, status, delivered, attempt, held>>
    BY <1>17 DEF Emitter, ListenerReceive, ReceiveMarker, DownloadWrapper, AppendEvents,
                EndOfStream, CutShard, AddSliceRef, DropControllerRef, AllSubmitted,
                ReceiveFailedMarker, SubmitRefused, EmitterFails, storeVars, workerVars
  <2> QED BY <1>2, <1>3, <2>1 DEF OneRunning, RecordsHeld
<1>18. CASE UNCHANGED vars
  BY <1>4, <1>18 DEF vars, WorkerView, storeVars, workerVars, executorVars, emitVars
<1>20. CASE ProofEnds
  BY <1>3, <1>20 DEF ProofEnds
<1> QED BY <1>6, <1>7, <1>8, <1>9, <1>14, <1>15, <1>16, <1>17, <1>18, <1>20
        DEF Next, Progress, RequestFails

(* GateInv holds at the start.                                             *)
LEMMA GateInitial == Init => GateInv
<1> SUFFICES ASSUME Init PROVE GateInv
  OBVIOUS
<1>1. PermitsHeld
  BY FS_EmptySet, BoundsAssumption DEF Init, PermitsHeld
<1>2. OneRunning
  BY DEF Init, OneRunning, Idle, Early, Late, Attempts
<1>3. RecordsHeld
  BY DEF Init, RecordsHeld
<1> QED BY <1>1, <1>2, <1>3 DEF GateInv

(* The gate bounds memory: while the executor runs, no task or upload has  *)
(* failed and nothing was delivered twice, there are no more records than  *)
(* permits, whatever the number of shards.                                 *)
THEOREM GateCorrect == Spec => []RecordsBounded
<1>1. GateInv /\ WorkerInv /\ EmitInv /\ [Next]_vars => GateInv'
  BY GateStep
<1>2. WorkerInv /\ EmitInv /\ [Next]_vars => WorkerInv'
  BY WorkerStep
<1>3. GateInv /\ WorkerInv => RecordsBounded
  <2> SUFFICES ASSUME GateInv, WorkerInv, emitter # "done", Orderly,
                      \A t \in Tasks : status[t] # "failed"
               PROVE  Cardinality(records) <= Permits
    BY DEF RecordsBounded, Orderly, WorkerInv, WorkerTypes
  <2>1. records \in SUBSET held
    BY DEF GateInv, RecordsHeld
  <2>2. IsFiniteSet(held) /\ Cardinality(held) \in Nat /\ Cardinality(held) <= Permits
    BY FS_CardinalityType DEF GateInv, PermitsHeld
  <2>3. IsFiniteSet(records) /\ Cardinality(records) <= Cardinality(held)
    BY <2>1, <2>2, FS_Subset
  <2>4. Cardinality(records) \in Nat /\ Permits \in Nat
    BY <2>3, FS_CardinalityType, BoundsAssumption
  <2> QED BY <2>2, <2>3, <2>4
<1> QED BY <1>1, <1>2, <1>3, GateInitial, WorkerInitial, EmitAlways, PTL DEF Spec

=============================================================================
