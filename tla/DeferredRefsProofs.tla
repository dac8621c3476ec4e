------------------------- MODULE DeferredRefsProofs -------------------------
(***************************************************************************)
(* The references of event artifacts: nothing that a shard still needs is  *)
(* freed, and in the end everything is.                                    *)
(*                                                                         *)
(* An artifact is stored as long as a slice of it has a reference, its own *)
(* or the emitter's.  A slice always has one of the two until its shard is *)
(* proved: the emitter's until the slice's own was added, and then its     *)
(* own, which only the slice's shard removes, because slices of the same   *)
(* artifact do not overlap and so have different keys.  All of this is     *)
(* claimed until the proof ends, which prunes proofs and lists.            *)
(***************************************************************************)
EXTENDS DeferredEventsProofs

(* The reference of a slice, and the emitter's.                            *)
HasRef(sl) == <<sl.artifact, SliceRef(sl)>> \in refs
Owned(sl) == <<sl.artifact, ControllerRef>> \in refs

(* What is not yet cut is the emitter's; of the shard that is being cut    *)
(* the slices from `position` on are, and those before it have their own   *)
(* reference; a shard without a proof has all of them.                     *)
RestOwned == \A i \in 1..Len(accumulator) : Owned(accumulator[i])
CuttingRefs ==
    \A i \in 1..Len(cutting) :
        /\ i >= position => Owned(cutting[i])
        /\ i < position \/ (i = position /\ emitter = "unreferencing") =>
              HasRef(cutting[i])
CutsRefs ==
    \A k \in 1..Len(Cuts) : k \notin outputs =>
        \A i \in 1..Len(Cuts[k]) : HasRef(Cuts[k][i])

(* A worker that frees an artifact was the last to refer to it.            *)
Freeing(t, n) == attempt[<<t, n>>].pc = "freeing"
FreedUnreferenced ==
    \A t \in Tasks, n \in 1..MaxAttempts : Freeing(t, n) =>
        RefsOf(Cuts[t][attempt[<<t, n>>].slice].artifact) = {}

(* An artifact with a reference is stored, and so are those of a list that *)
(* the emitter has not yet appended.                                       *)
ReferencedStored ==
    \A a \in ArtifactIds : Used(a) /\ RefsOf(a) # {} => a \in events
ListsStored ==
    /\ \A s \in Shards : Fresh(s) /\ wrappers[s] # 0 =>
          EventArtifacts(s, wrappers[s]) \subseteq events
    /\ emitter = "appending" /\ wrapper # 0 =>
          EventArtifacts(current, wrapper) \subseteq events

RefInv ==
    /\ RestOwned /\ CuttingRefs /\ CutsRefs
    /\ FreedUnreferenced
    /\ ReferencedStored
    /\ ListsStored
RefOpen == ended \/ RefInv

(* Slices of one artifact have different keys, and none has the emitter's. *)
LEMMA SliceKeys ==
    /\ \A x \in Slice : SliceRef(x) # ControllerRef
    /\ \A x, y \in Slice :
          Whole(x) /\ Whole(y) /\ Disjoint(x, y) /\ x.artifact = y.artifact =>
              SliceRef(x) # SliceRef(y)
<1>1. ASSUME NEW x \in Slice PROVE SliceRef(x) # ControllerRef
  <2>1. x.start \in Nat
    BY SliceNumbers
  <2>2. x.start # -1
    BY <2>1
  <2> QED BY <2>2 DEF SliceRef, ControllerRef
<1>2. ASSUME NEW x \in Slice, NEW y \in Slice, Whole(x), Whole(y), Disjoint(x, y),
             x.artifact = y.artifact, SliceRef(x) = SliceRef(y)
      PROVE  FALSE
  <2>1. x.start \in Nat /\ x.end \in Nat /\ y.start \in Nat /\ y.end \in Nat
    BY SliceNumbers
  <2>2. x.start = y.start /\ x.end = y.end
    BY <1>2 DEF SliceRef
  <2> QED BY <1>2, <2>1, <2>2 DEF Disjoint, Whole
<1> QED BY <1>1, <1>2

(* The attempts that free an artifact, when another one moves.             *)
FreeingKept ==
    \A u \in Tasks, k \in 1..MaxAttempts : Freeing(u, k)' =>
        Freeing(u, k) /\ attempt'[<<u, k>>] = attempt[<<u, k>>]

(* One attempt moves, and not to free an artifact.                         *)
LEMMA MoveFreeing ==
    ASSUME WorkerTypes, NEW t, NEW n, NEW v,
           attempt' = [attempt EXCEPT ![<<t, n>>] = v], v.pc # "freeing"
    PROVE  FreeingKept
<1> SUFFICES ASSUME NEW u \in Tasks, NEW k \in 1..MaxAttempts, attempt'[<<u, k>>].pc = "freeing"
             PROVE  attempt'[<<u, k>>] = attempt[<<u, k>>]
  BY DEF FreeingKept, Freeing
<1>1. <<u, k>> \in Attempts
  BY DEF Attempts
<1>2. attempt'[<<u, k>>] = IF <<u, k>> = <<t, n>> THEN v ELSE attempt[<<u, k>>]
  BY <1>1 DEF WorkerTypes
<1> QED BY <1>2

(* One attempt goes to a place, and not to free an artifact.               *)
LEMMA GotoFreeing ==
    ASSUME WorkerTypes, NEW t, NEW n, NEW x \in Places, Goto(t, n, x), x # "freeing"
    PROVE  FreeingKept
<1>1. At(x).pc = x
  BY AtFacts
<1> QED BY <1>1, MoveFreeing DEF Goto

(* A worker that frees an artifact does so for a slice of its shard.       *)
LEMMA FreeingSlice ==
    ASSUME EmitInv, WorkerInv, NEW t \in Tasks, NEW n \in 1..MaxAttempts,
           attempt[<<t, n>>].pc \in {"dropping", "freeing"}
    PROVE  LET i == attempt[<<t, n>>].slice
           IN /\ t \in outputs \/ ended
              /\ t \in 1..Len(submitted) /\ t \in 1..Len(Cuts)
              /\ submitted[t] = Cuts[t]
              /\ i \in 1..Len(Cuts[t])
              /\ Cuts[t][i] \in Slice /\ Whole(Cuts[t][i])
              /\ Cuts[t][i].artifact \in ArtifactIds
              /\ Used(Cuts[t][i].artifact)
<1> DEFINE i == attempt[<<t, n>>].slice
<1>1. /\ t \in outputs \/ ended
      /\ t \in 1..Len(submitted) /\ i \in 1..Len(submitted[t])
  BY DEF WorkerInv, AttemptsPlaced, Late
<1>2. EmitTypes /\ SlicesWhole
  BY DEF EmitInv
<1>3. Len(submitted) \in Nat /\ Len(cut) \in Nat /\ Len(Cuts) = Len(submitted) + Len(cut)
      /\ submitted[t] = Cuts[t]
  BY <1>1, <1>2, CutsFacts
<1>4. t \in 1..Len(Cuts)
  BY <1>1, <1>3
<1>5. Cuts[t][i] \in Slice /\ Whole(Cuts[t][i])
  BY <1>1, <1>2, <1>3, <1>4, SliceFacts DEF SlicesWhole
<1>6. Used(Cuts[t][i].artifact)
  BY <1>1, <1>3, <1>4 DEF Used
<1>7. Cuts[t][i].artifact \in ArtifactIds
  BY <1>5, SliceNumbers
<1> QED BY <1>1, <1>3, <1>4, <1>5, <1>6, <1>7

-----------------------------------------------------------------------------
(* References stay when no slice moves.                                    *)
LEMMA RefsQuiet ==
    ASSUME EmitInv, WorkerInv, RefInv,
           UNCHANGED <<refs, accumulator, cutting, position>>, Cuts' = Cuts,
           emitter' = "unreferencing" => emitter = "unreferencing",
           events \subseteq events', outputs \subseteq outputs',
           FreeingKept
    PROVE  (RestOwned /\ CuttingRefs /\ CutsRefs /\ FreedUnreferenced /\ ReferencedStored)'
<1> USE DEF RefInv
<1>1. \A sl : Owned(sl)' = Owned(sl) /\ HasRef(sl)' = HasRef(sl)
  BY DEF Owned, HasRef
<1>2. \A a : RefsOf(a)' = RefsOf(a) /\ Used(a)' = Used(a)
  BY DEF RefsOf, Used
<1>3. RestOwned' /\ CuttingRefs'
  BY DEF RestOwned, CuttingRefs, Owned, HasRef
<1>4. CutsRefs'
  BY DEF CutsRefs, HasRef
<1>5. FreedUnreferenced'
  BY <1>2 DEF FreedUnreferenced, FreeingKept
<1>6. ReferencedStored'
  BY <1>2 DEF ReferencedStored
<1> QED BY <1>3, <1>4, <1>5, <1>6

(* The steps of the workers that move no reference.                        *)
QuietWorker(t, n) ==
    \/ Start(t, n) \/ TraceFails(t, n) \/ DownloadEvents(t, n) \/ Prove(t, n)
    \/ Finish(t, n) \/ JoinFails(t, n) \/ Fail(t, n)

(* A step of a worker that moves no reference frees nothing new.           *)
LEMMA QuietFreeing ==
    ASSUME WorkerInv, NEW t \in Tasks, NEW n \in 1..MaxAttempts, QuietWorker(t, n)
    PROVE  FreeingKept
<1>0. WorkerTypes
  BY DEF WorkerInv
<1>1. CASE Start(t, n)
  BY <1>0, <1>1, GotoFreeing DEF Start, StartCore, StartPrecompile, Places
<1>2. CASE DownloadEvents(t, n)
  BY <1>0, <1>2, GotoFreeing DEF DownloadEvents, Places
<1>3. CASE Prove(t, n)
  <2>1. CASE Goto(t, n, "retryable") \/ Goto(t, n, "fatal")
    BY <1>0, <2>1, GotoFreeing DEF Places
  <2>2. CASE attempt' = [attempt EXCEPT ![<<t, n>>] = IF t \in Precompiles
                                   THEN [pc |-> "dropping", slice |-> 1]
                                   ELSE At("finishing")]
    <3> DEFINE w == IF t \in Precompiles THEN [pc |-> "dropping", slice |-> 1]
                                         ELSE At("finishing")
    <3>1. w.pc # "freeing"
      BY AtFacts DEF Places
    <3>2. attempt' = [attempt EXCEPT ![<<t, n>>] = w]
      BY <2>2
    <3> HIDE DEF w
    <3> QED BY <1>0, <3>1, <3>2, MoveFreeing
  <2> QED BY <1>3, <2>1, <2>2 DEF Prove
<1>4. ASSUME NEW st, Post(t, n, st) PROVE FreeingKept
  BY <1>0, <1>4, GotoFreeing DEF Post, Places
<1>5. CASE Finish(t, n)
  BY <1>4, <1>5 DEF Finish
<1>6. ASSUME attempt' = [attempt EXCEPT ![<<t, n>>] = At("ended"),
                                        ![<<t, delivered[t] + 1>>] = At("queued")]
      PROVE  FreeingKept
  <2> SUFFICES ASSUME NEW u \in Tasks, NEW k \in 1..MaxAttempts,
                      attempt'[<<u, k>>].pc = "freeing"
               PROVE  attempt'[<<u, k>>] = attempt[<<u, k>>]
    BY DEF FreeingKept, Freeing
  <2>1. <<u, k>> \in Attempts /\ At("ended").pc = "ended" /\ At("queued").pc = "queued"
    BY AtFacts DEF Attempts, Places
  <2>2. attempt'[<<u, k>>] \in {attempt[<<u, k>>], At("ended"), At("queued")}
    BY <1>0, <1>6, <2>1 DEF WorkerTypes
  <2> QED BY <2>1, <2>2
<1>7. CASE Goto(t, n, "ended")
  BY <1>0, <1>7, GotoFreeing DEF Places
<1>8. CASE Fail(t, n)
  BY <1>4, <1>6, <1>7, <1>8 DEF Fail, Resubmit, NotResubmitted
<1>9. CASE TraceFails(t, n) \/ JoinFails(t, n)
  BY <1>0, <1>9, GotoFreeing DEF TraceFails, JoinFails, Places
<1> QED BY <1>1, <1>2, <1>3, <1>5, <1>8, <1>9 DEF QuietWorker

(* The next slice is not freed at once.                                    *)
LEMMA NextFreeing ==
    ASSUME WorkerInv, NEW t \in Tasks, NEW n \in 1..MaxAttempts, NextSlice(t, n)
    PROVE  FreeingKept
<1> DEFINE w == IF attempt[<<t, n>>].slice < Len(SlicesOf(t))
                THEN [pc |-> "dropping", slice |-> attempt[<<t, n>>].slice + 1]
                ELSE At("finishing")
<1>1. attempt' = [attempt EXCEPT ![<<t, n>>] = w]
  BY DEF NextSlice
<1>2. w.pc # "freeing"
  BY AtFacts DEF Places
<1> HIDE DEF w
<1> QED BY <1>1, <1>2, MoveFreeing DEF WorkerInv

(* A shard's worker removes the reference of its slice: no other slice has *)
(* that one.                                                               *)
LEMMA RefsDropped ==
    ASSUME EmitInv, WorkerInv, RefInv, ~ended, NEW t \in Tasks, NEW n \in 1..MaxAttempts,
           DropSliceRef(t, n)
    PROVE  (RestOwned /\ CuttingRefs /\ CutsRefs /\ FreedUnreferenced /\ ReferencedStored)'
<1> USE DEF RefInv
<1> DEFINE i == attempt[<<t, n>>].slice
           sl == Cuts[t][i]
           r == <<sl.artifact, SliceRef(sl)>>
<1>1. /\ t \in outputs /\ t \in 1..Len(submitted) /\ t \in 1..Len(Cuts)
      /\ submitted[t] = Cuts[t] /\ i \in 1..Len(Cuts[t])
      /\ sl \in Slice /\ Whole(sl)
  BY FreeingSlice DEF DropSliceRef
<1>2. /\ refs' = refs \ {r}
      /\ UNCHANGED <<events, outputs, emitVars>>
      /\ IF RefsOf(sl.artifact) \ {r} = {}
         THEN attempt' = [attempt EXCEPT ![<<t, n>>].pc = "freeing"]
         ELSE NextSlice(t, n)
  BY <1>1 DEF DropSliceRef, SlicesOf
<1>3. UNCHANGED <<accumulator, cutting, position, emitter, submitted, Cuts>>
  BY <1>2 DEF emitVars, Cuts
<1>4. EmitTypes /\ SlicesWhole /\ SlicesApart
  BY DEF EmitInv
<1>5. \A a : RefsOf(a)' \subseteq RefsOf(a) /\ Used(a)' = Used(a)
  BY <1>2, <1>3 DEF RefsOf, Used
<1>6. SliceRef(sl) # ControllerRef
  BY <1>1, SliceKeys
<1>7. ASSUME NEW x, Owned(x) PROVE Owned(x)'
  BY <1>2, <1>6, <1>7 DEF Owned
<1>8. ASSUME NEW x \in Slice, Whole(x), Disjoint(sl, x), HasRef(x) PROVE HasRef(x)'
  BY <1>1, <1>2, <1>8, SliceKeys DEF HasRef
<1> HIDE DEF sl
<1>9. RestOwned'
  BY <1>3, <1>7 DEF RestOwned, Owned
<1>10. CuttingRefs'
  <2>1. ASSUME NEW j \in 1..Len(cutting)
        PROVE  cutting[j] \in Slice /\ Whole(cutting[j]) /\ Disjoint(sl, cutting[j])
    BY <1>1, <1>4, SliceFacts DEF SlicesWhole, SlicesApart, RestApart, sl
  <2>2. ASSUME NEW j \in 1..Len(cutting)
        PROVE  /\ Owned(cutting[j]) => Owned(cutting[j])'
               /\ HasRef(cutting[j]) => HasRef(cutting[j])'
    <3>1. Owned(cutting[j]) => <<cutting[j].artifact, ControllerRef>> \in refs'
      BY <1>7, <1>3 DEF Owned
    <3>2. HasRef(cutting[j]) => <<cutting[j].artifact, SliceRef(cutting[j])>> \in refs'
      BY <1>8, <2>1 DEF HasRef
    <3> QED BY <1>3, <3>1, <3>2 DEF Owned, HasRef
  <2> QED BY <1>3, <2>2 DEF CuttingRefs
<1>11. CutsRefs'
  <2> SUFFICES ASSUME NEW k \in 1..Len(Cuts), k \notin outputs, NEW j \in 1..Len(Cuts[k])
               PROVE  HasRef(Cuts[k][j])'
    BY <1>2, <1>3 DEF CutsRefs
  <2>1. <<t, i>> # <<k, j>>
    BY <1>1
  <2>2. Cuts[k][j] \in Slice /\ Whole(Cuts[k][j]) /\ Disjoint(sl, Cuts[k][j])
    BY <1>1, <1>4, <2>1, SliceFacts DEF SlicesWhole, SlicesApart, CutsApart, sl
  <2>3. HasRef(Cuts[k][j])
    BY DEF CutsRefs
  <2>4. <<Cuts[k][j].artifact, SliceRef(Cuts[k][j])>> \in refs'
    BY <1>8, <2>2, <2>3 DEF HasRef
  <2> QED BY <1>3, <2>4 DEF HasRef
<1>12. ReferencedStored'
  BY <1>2, <1>5 DEF ReferencedStored
<1>13. FreedUnreferenced'
  <2>1. CASE ~(RefsOf(sl.artifact) \ {r} = {})
    <3>1. FreeingKept
      BY <1>2, <2>1, NextFreeing
    <3> QED BY <1>3, <1>5, <3>1 DEF FreedUnreferenced, FreeingKept
  <2>2. CASE RefsOf(sl.artifact) \ {r} = {}
    <3>1. attempt' = [attempt EXCEPT ![<<t, n>>].pc = "freeing"]
      BY <1>2, <2>2
    <3>2. {x \in refs' : x[1] = sl.artifact} = {}
      BY <1>2, <2>2 DEF RefsOf
    <3> SUFFICES ASSUME NEW u \in Tasks, NEW k \in 1..MaxAttempts, attempt'[<<u, k>>].pc = "freeing"
                 PROVE  {x \in refs' : x[1] = Cuts[u][attempt'[<<u, k>>].slice].artifact} = {}
      BY <1>3 DEF FreedUnreferenced, Freeing, RefsOf
    <3>3. attempt \in [Attempts -> [pc : Places, slice : Nat]] /\ <<u, k>> \in Attempts
      BY DEF WorkerInv, WorkerTypes, Attempts
    <3>4. CASE <<u, k>> = <<t, n>>
      <4>1. attempt'[<<u, k>>].slice = i /\ u = t
        BY <3>1, <3>3, <3>4
      <4> QED BY <3>2, <4>1 DEF sl
    <3>5. CASE <<u, k>> # <<t, n>>
      <4>1. attempt'[<<u, k>>] = attempt[<<u, k>>]
        BY <3>1, <3>3, <3>5
      <4>2. RefsOf(Cuts[u][attempt[<<u, k>>].slice].artifact) = {}
        BY <4>1 DEF FreedUnreferenced, Freeing
      <4> QED BY <1>2, <4>1, <4>2 DEF RefsOf
    <3> QED BY <3>4, <3>5
  <2> QED BY <2>1, <2>2
<1> QED BY <1>9, <1>10, <1>11, <1>12, <1>13

(* The worker that frees an artifact finds no reference to remove.         *)
LEMMA RefsFreed ==
    ASSUME EmitInv, WorkerInv, RefInv, NEW t \in Tasks, NEW n \in 1..MaxAttempts,
           FreeSlice(t, n)
    PROVE  /\ (RestOwned /\ CuttingRefs /\ CutsRefs /\ FreedUnreferenced /\ ReferencedStored)'
           /\ \E a \in ArtifactIds : Used(a) /\ events' = events \ {a}
<1> USE DEF RefInv
<1> DEFINE i == attempt[<<t, n>>].slice
<1>1. PICK a \in ArtifactIds : a = Cuts[t][i].artifact /\ Used(a) /\ submitted[t] = Cuts[t]
  BY FreeingSlice DEF FreeSlice
<1>2. RefsOf(a) = {}
  BY <1>1 DEF FreeSlice, FreedUnreferenced, Freeing
<1>3. /\ refs' = refs /\ events' = events \ {a} /\ NextSlice(t, n)
      /\ UNCHANGED <<outputs, emitVars>>
  BY <1>1, <1>2 DEF FreeSlice, SlicesOf
<1>4. UNCHANGED <<accumulator, cutting, position, emitter, Cuts>>
  BY <1>3 DEF emitVars, Cuts
<1>5. FreeingKept
  BY <1>3, NextFreeing
<1>6. \A b : RefsOf(b)' = RefsOf(b) /\ Used(b)' = Used(b)
  BY <1>3, <1>4 DEF RefsOf, Used
<1>7. RestOwned' /\ CuttingRefs'
  BY <1>3, <1>4 DEF RestOwned, CuttingRefs, Owned, HasRef
<1>8. CutsRefs'
  BY <1>3, <1>4 DEF CutsRefs, HasRef
<1>9. FreedUnreferenced'
  <2> SUFFICES ASSUME NEW u \in Tasks, NEW k \in 1..MaxAttempts, attempt'[<<u, k>>].pc = "freeing"
               PROVE  {x \in refs : x[1] = Cuts[u][attempt'[<<u, k>>].slice].artifact} = {}
    BY <1>3, <1>4 DEF FreedUnreferenced, Freeing, RefsOf
  <2>1. attempt[<<u, k>>].pc = "freeing" /\ attempt'[<<u, k>>] = attempt[<<u, k>>]
    BY <1>5 DEF FreeingKept, Freeing
  <2>2. RefsOf(Cuts[u][attempt[<<u, k>>].slice].artifact) = {}
    BY <2>1 DEF FreedUnreferenced, Freeing
  <2> QED BY <2>1, <2>2 DEF RefsOf
<1>10. ReferencedStored'
  BY <1>2, <1>3, <1>6 DEF ReferencedStored
<1> QED BY <1>1, <1>3, <1>7, <1>8, <1>9, <1>10

(* A worker that frees an artifact frees the one of a shard that is there. *)
LEMMA FreedKept ==
    ASSUME EmitInv, WorkerInv, FreedUnreferenced, UNCHANGED attempt,
           \A k \in 1..Len(Cuts) : Cuts'[k] = Cuts[k],
           \A t \in Tasks, n \in 1..MaxAttempts : Freeing(t, n) =>
              {r \in refs' : r[1] = Cuts[t][attempt[<<t, n>>].slice].artifact} = {}
    PROVE  FreedUnreferenced'
<1> SUFFICES ASSUME NEW t \in Tasks, NEW n \in 1..MaxAttempts, Freeing(t, n)
             PROVE  {r \in refs' : r[1] = Cuts'[t][attempt[<<t, n>>].slice].artifact} = {}
  BY DEF FreedUnreferenced, Freeing, RefsOf
<1>1. t \in 1..Len(Cuts)
  BY FreeingSlice DEF Freeing
<1> QED BY <1>1

(* The slices of a list come in: nobody refers to their artifacts yet.     *)
LEMMA RefsAdded ==
    ASSUME EmitInv, WorkerInv, RefInv, [Next]_vars, AppendEvents
    PROVE  (RestOwned /\ CuttingRefs /\ CutsRefs /\ FreedUnreferenced /\ ReferencedStored)'
<1> USE DEF RefInv
<1> DEFINE slices == IF wrapper = 0 THEN <<>> ELSE DeferRecord(current, wrapper)
           new == {<<slices[i].artifact, ControllerRef>> : i \in DOMAIN slices}
<1>0. EmitTypes /\ EmitPlaces /\ SlicesWhole /\ OneAttempt
  BY DEF EmitInv
<1>1. /\ emitter = "appending" /\ emitter' = "splitting"
      /\ accumulator' = accumulator \o slices
      /\ refs' = refs \cup new
      /\ UNCHANGED <<events, outputs, attempt, cutting, position, submitted, cut>>
  BY DEF AppendEvents, workerVars
<1>2. /\ slices \in Seq(Slice) /\ Len(slices) \in Nat /\ current \in Shards
      /\ \A i \in 1..Len(slices) :
            /\ wrapper \in 1..MaxAttempts
            /\ slices[i].artifact = <<current, wrapper, i>>
            /\ slices[i].artifact \in EventArtifacts(current, wrapper)
  BY <1>0, <1>1, AddedFacts
<1>3. DOMAIN slices = 1..Len(slices)
  BY <1>2, LenProperties
<1>4. Fresh(current) /\ Cuts' = Cuts
  BY <1>1 DEF Fresh, Fetching, Cuts
<1> HIDE DEF slices
<1>5. ASSUME NEW r \in new PROVE r[1] \in events /\ r[1][1] = current
  <2>1. PICK i \in 1..Len(slices) : r = <<slices[i].artifact, ControllerRef>>
    BY <1>3, <1>5
  <2>2. wrapper # 0 /\ r[1] = <<current, wrapper, i>> /\ r[1] \in EventArtifacts(current, wrapper)
    BY <1>2, <2>1, AttemptsFacts
  <2> QED BY <1>1, <2>2 DEF ListsStored
<1>6. ASSUME NEW i \in 1..Len(slices) PROVE <<slices[i].artifact, ControllerRef>> \in new
  BY <1>3
<1> HIDE DEF new
<1>7. ASSUME NEW a \in ArtifactIds, Used(a)
      PROVE  {r \in refs' : r[1] = a} = {r \in refs : r[1] = a}
  <2>1. a[1] # current
    BY <1>2, <1>4, <1>7, <1>0 DEF OneAttempt
  <2> QED BY <1>1, <1>5, <2>1
<1>8. RestOwned'
  <2> SUFFICES ASSUME NEW i \in 1..Len(accumulator')
               PROVE  <<accumulator'[i].artifact, ControllerRef>> \in refs'
    BY DEF RestOwned, Owned
  <2>1. /\ Len(accumulator) \in Nat
        /\ Len(accumulator') = Len(accumulator) + Len(slices)
        /\ accumulator'[i] = IF i <= Len(accumulator) THEN accumulator[i]
                                                     ELSE slices[i - Len(accumulator)]
    <3>1. accumulator \in Seq(Slice) /\ Len(accumulator) \in Nat
      BY <1>0, LenProperties DEF EmitTypes
    <3>2. Len(accumulator') = Len(accumulator) + Len(slices)
      BY <1>1, <1>2, <3>1, ConcatProperties
    <3> QED BY <1>1, <1>2, <3>1, <3>2, ConcatProperties
  <2>2. CASE i <= Len(accumulator)
    <3>1. i \in 1..Len(accumulator) /\ accumulator'[i] = accumulator[i]
      BY <2>1, <2>2
    <3> QED BY <1>1, <3>1 DEF RestOwned, Owned
  <2>3. CASE ~(i <= Len(accumulator))
    <3>1. i - Len(accumulator) \in 1..Len(slices) /\ accumulator'[i] = slices[i - Len(accumulator)]
      BY <1>2, <2>1, <2>3
    <3> QED BY <1>1, <1>6, <3>1
  <2> QED BY <2>2, <2>3
<1>9. CuttingRefs' /\ CutsRefs'
  BY <1>1, <1>4 DEF CuttingRefs, CutsRefs, Owned, HasRef
<1>10. FreedUnreferenced'
  <2>1. ASSUME NEW t \in Tasks, NEW n \in 1..MaxAttempts, Freeing(t, n)
        PROVE  {r \in refs' : r[1] = Cuts[t][attempt[<<t, n>>].slice].artifact} = {}
    <3>1. PICK a \in ArtifactIds : a = Cuts[t][attempt[<<t, n>>].slice].artifact /\ Used(a)
      BY <2>1, FreeingSlice DEF Freeing
    <3>2. {r \in refs : r[1] = a} = {}
      BY <2>1, <3>1 DEF FreedUnreferenced, RefsOf
    <3> QED BY <1>7, <3>1, <3>2
  <2> QED BY <1>1, <1>4, <2>1, FreedKept
<1>11. ReferencedStored'
  <2> SUFFICES ASSUME NEW a \in ArtifactIds, Used(a)', NEW r \in refs', r[1] = a
               PROVE  a \in events
    BY <1>1 DEF ReferencedStored, RefsOf
  <2>1. CASE r \in new
    BY <1>5, <2>1
  <2>2. CASE r \in refs /\ Used(a)
    BY <2>2 DEF ReferencedStored, RefsOf
  <2>3. CASE ~Used(a)
    <3>1. wrapper \in 1..MaxAttempts /\ \E i \in Nat : a = <<current, wrapper, i>>
      BY <1>0, <2>3, UsedStep
    <3>2. a = <<a[1], a[2], a[3]>> /\ a[3] \in 1..NumChunks(a[1])
      BY ArtifactFacts
    <3>3. a = <<current, wrapper, a[3]>> /\ a[3] \in 1..NumChunks(current) /\ wrapper # 0
      BY <3>1, <3>2, AttemptsFacts
    <3>4. a \in EventArtifacts(current, wrapper)
      BY <3>3 DEF EventArtifacts
    <3> QED BY <1>1, <3>3, <3>4 DEF ListsStored
  <2> QED BY <1>1, <2>1, <2>2, <2>3
<1> QED BY <1>8, <1>9, <1>10, <1>11

(* A shard is cut off: the two parts of a slice are of one artifact, which *)
(* is the emitter's.                                                       *)
LEMMA RefsCut ==
    ASSUME EmitInv, WorkerInv, RefInv, [Next]_vars, CutShard
    PROVE  (RestOwned /\ CuttingRefs /\ CutsRefs /\ FreedUnreferenced /\ ReferencedStored)'
<1> USE DEF RefInv
<1>0. EmitTypes /\ EmitPlaces /\ SlicesWhole
  BY DEF EmitInv
<1>1. /\ position' = 1 /\ emitter' = "referencing"
      /\ UNCHANGED <<events, refs, outputs, attempt, submitted, cut>>
  BY DEF CutShard, storeVars, workerVars
<1>2. PICK index \in 1..Len(accumulator), m \in Nat : SlicesCut(index, m)
  BY <1>0, CutFacts
<1>3. /\ Len(cutting') = index /\ Len(accumulator) \in Nat
      /\ \A i \in 1..index : cutting'[i].artifact = accumulator[i].artifact
      /\ \A j \in 1..Len(accumulator') :
            \E i \in index..Len(accumulator) : LeftOver(index, m, i, j)
  BY <1>0, <1>2, CutSlices, SliceFacts
<1>4. Cuts' = Cuts
  BY <1>1 DEF Cuts
<1>5. RestOwned'
  <2> SUFFICES ASSUME NEW j \in 1..Len(accumulator')
               PROVE  <<accumulator'[j].artifact, ControllerRef>> \in refs
    BY <1>1 DEF RestOwned, Owned
  <2>1. PICK i \in index..Len(accumulator) : accumulator'[j].artifact = accumulator[i].artifact
    BY <1>3 DEF LeftOver
  <2>2. i \in 1..Len(accumulator)
    BY <1>3
  <2> QED BY <2>1, <2>2 DEF RestOwned, Owned
<1>6. CuttingRefs'
  <2> SUFFICES ASSUME NEW i \in 1..index
               PROVE  /\ <<cutting'[i].artifact, ControllerRef>> \in refs
                      /\ ~(i < 1)
    BY <1>1, <1>3 DEF CuttingRefs, Owned
  <2>1. i \in 1..Len(accumulator) /\ ~(i < 1)
    BY <1>3
  <2> QED BY <1>3, <2>1 DEF RestOwned, Owned
<1>7. CutsRefs'
  BY <1>1, <1>4 DEF CutsRefs, HasRef
<1>8. FreedUnreferenced'
  BY <1>1, <1>4, FreedKept DEF FreedUnreferenced, RefsOf
<1>9. ReferencedStored'
  <2> SUFFICES ASSUME NEW a \in ArtifactIds, Used(a)', RefsOf(a)' # {} PROVE a \in events
    BY <1>1 DEF ReferencedStored
  <2>1. ~SlicesAdded
    BY <1>1 DEF SlicesAdded, AppendEvents
  <2>2. Used(a) /\ RefsOf(a) # {}
    BY <1>0, <1>1, <2>1, UsedStep DEF RefsOf
  <2> QED BY <2>2 DEF ReferencedStored
<1> QED BY <1>5, <1>6, <1>7, <1>8, <1>9

(* The emitter goes on to the next slice, or the shard is complete.        *)
LEMMA RefsAdvanced ==
    ASSUME EmitInv, emitter \in Placed, NextPosition,
           UNCHANGED <<accumulator, remainder, submitted, outputs>>,
           \A j \in 1..Len(cutting) : j > position =>
               <<cutting[j].artifact, ControllerRef>> \in refs',
           \A j \in 1..Len(cutting) : j <= position =>
               <<cutting[j].artifact, SliceRef(cutting[j])>> \in refs',
           \A k \in 1..Len(Cuts) : k \notin outputs => \A i \in 1..Len(Cuts[k]) :
               <<Cuts[k][i].artifact, SliceRef(Cuts[k][i])>> \in refs'
    PROVE  /\ CuttingRefs' /\ CutsRefs'
           /\ \A k \in 1..Len(Cuts) : Cuts'[k] = Cuts[k]
           /\ \A a : Used(a)' = Used(a)
<1>0. EmitTypes /\ EmitPlaces /\ position \in 1..Len(cutting) /\ Len(cutting) \in Nat
  BY SliceFacts DEF EmitInv, EmitPlaces
<1>1. CASE position < Len(cutting)
  <2>1. position' = position + 1 /\ emitter' = "referencing" /\ UNCHANGED <<cutting, cut>>
    BY <1>1 DEF NextPosition
  <2>2. Cuts' = Cuts
    BY <2>1 DEF Cuts
  <2>3. CuttingRefs'
    <3> SUFFICES ASSUME NEW i \in 1..Len(cutting)
                 PROVE  /\ i >= position + 1 => <<cutting[i].artifact, ControllerRef>> \in refs'
                        /\ i < position + 1 => <<cutting[i].artifact, SliceRef(cutting[i])>> \in refs'
      BY <2>1 DEF CuttingRefs, Owned, HasRef
    <3> QED BY <1>0
  <2>4. CutsRefs'
    BY <2>2 DEF CutsRefs, HasRef
  <2> QED BY <2>1, <2>2, <2>3, <2>4 DEF Used
<1>2. CASE ~(position < Len(cutting))
  <2>1. position = Len(cutting)
    BY <1>0, <1>2
  <2>2. cutting' = <<>> /\ cut' = Append(cut, cutting)
    BY <1>2 DEF NextPosition
  <2>3. SlicesReady
    <3>1. submitted \in Seq(Seq(Slice)) /\ cut \in Seq(Seq(Slice)) /\ cutting \in Seq(Slice)
      BY <1>0 DEF EmitTypes
    <3>2. Cuts' = Append(Cuts, cutting)
      BY <2>2, <3>1, CutsGrown DEF Cuts
    <3> QED BY <2>1, <2>2, <3>2 DEF SlicesReady
  <2>4. /\ Len(cutting') = 0 /\ Len(Cuts) \in Nat /\ Len(Cuts') = Len(Cuts) + 1
        /\ \A k \in 1..Len(Cuts) : Cuts'[k] = Cuts[k]
        /\ Cuts'[Len(Cuts) + 1] = cutting
    BY <1>0, <2>3, ReadySlices
  <2>5. CuttingRefs'
    BY <2>4 DEF CuttingRefs
  <2>6. CutsRefs'
    <3> SUFFICES ASSUME NEW k \in 1..Len(Cuts'), k \notin outputs, NEW i \in 1..Len(Cuts'[k])
                 PROVE  <<Cuts'[k][i].artifact, SliceRef(Cuts'[k][i])>> \in refs'
      BY DEF CutsRefs, HasRef
    <3>1. CASE k \in 1..Len(Cuts)
      BY <2>4, <3>1
    <3>2. CASE k = Len(Cuts) + 1
      <4>1. i \in 1..Len(cutting) /\ i <= position
        BY <2>1, <2>4, <3>2, <1>0
      <4> QED BY <2>4, <3>2, <4>1
    <3> QED BY <2>4, <3>1, <3>2
  <2>7. ASSUME NEW a PROVE Used(a)' = Used(a)
    <3>1. (\E k \in 1..Len(Cuts') : \E i \in 1..Len(Cuts'[k]) : Cuts'[k][i].artifact = a)
            <=> \/ \E k \in 1..Len(Cuts) : \E i \in 1..Len(Cuts[k]) : Cuts[k][i].artifact = a
                \/ \E i \in 1..Len(cutting) : cutting[i].artifact = a
      <4>1. \A k \in 1..Len(Cuts') : k \in 1..Len(Cuts) \/ k = Len(Cuts) + 1
        BY <2>4
      <4>2. Len(Cuts) + 1 \in 1..Len(Cuts') /\ \A k \in 1..Len(Cuts) : k \in 1..Len(Cuts')
        BY <2>4
      <4> QED BY <2>4, <4>1, <4>2
    <3> QED BY <2>4, <3>1 DEF Used
  <2> QED BY <2>4, <2>5, <2>6, <2>7
<1> QED BY <1>1, <1>2

(* The emitter refers to a slice that it still owns.                       *)
LEMMA RefsGiven ==
    ASSUME EmitInv, WorkerInv, RefInv, AddSliceRef
    PROVE  (RestOwned /\ CuttingRefs /\ CutsRefs /\ FreedUnreferenced /\ ReferencedStored)'
<1> USE DEF RefInv
<1> DEFINE sl == cutting[position]
           r == <<sl.artifact, SliceRef(sl)>>
<1>0. EmitTypes /\ EmitPlaces /\ position \in 1..Len(cutting) /\ Len(cutting) \in Nat
  BY SliceFacts DEF EmitInv, EmitPlaces, AddSliceRef, Placed
<1>1. /\ emitter = "referencing" /\ emitter \in Placed
      /\ refs' = refs \cup {r}
      /\ IF position = Len(cutting) /\ remainder
         THEN NextPosition
         ELSE emitter' = "unreferencing" /\ UNCHANGED <<position, cutting, cut>>
      /\ UNCHANGED <<events, outputs, attempt, accumulator, remainder, submitted>>
  BY DEF AddSliceRef, workerVars, Placed
<1>2. sl.artifact \in ArtifactIds /\ Used(sl.artifact)
  BY <1>0, SliceFacts, SliceNumbers DEF Used
<1>3. <<sl.artifact, ControllerRef>> \in refs
  BY <1>0 DEF CuttingRefs, Owned
<1>4. RefsOf(sl.artifact) # {} /\ sl.artifact \in events
  BY <1>2, <1>3 DEF RefsOf, ReferencedStored
<1>5. CuttingRefs' /\ CutsRefs' /\ (\A k \in 1..Len(Cuts) : Cuts'[k] = Cuts[k])
      /\ \A a : Used(a)' = Used(a)
  <2>1. CASE position = Len(cutting) /\ remainder
    <3>1. \A j \in 1..Len(cutting) : j > position =>
               <<cutting[j].artifact, ControllerRef>> \in refs'
      BY <1>0, <2>1
    <3>2. \A j \in 1..Len(cutting) : j <= position =>
               <<cutting[j].artifact, SliceRef(cutting[j])>> \in refs'
      <4> SUFFICES ASSUME NEW j \in 1..Len(cutting), j <= position
                   PROVE  <<cutting[j].artifact, SliceRef(cutting[j])>> \in refs'
        OBVIOUS
      <4>1. j = position \/ j < position
        BY <1>0
      <4> QED BY <1>1, <4>1 DEF CuttingRefs, HasRef
    <3>3. \A k \in 1..Len(Cuts) : k \notin outputs => \A i \in 1..Len(Cuts[k]) :
               <<Cuts[k][i].artifact, SliceRef(Cuts[k][i])>> \in refs'
      BY <1>1 DEF CutsRefs, HasRef
    <3> QED BY <1>1, <2>1, <3>1, <3>2, <3>3, RefsAdvanced
  <2>2. CASE ~(position = Len(cutting) /\ remainder)
    <3>1. emitter' = "unreferencing" /\ UNCHANGED <<position, cutting, cut>>
      BY <1>1, <2>2
    <3>2. Cuts' = Cuts
      BY <1>1, <3>1 DEF Cuts
    <3>3. CuttingRefs'
      <4> SUFFICES ASSUME NEW i \in 1..Len(cutting)
                   PROVE  /\ i >= position => <<cutting[i].artifact, ControllerRef>> \in refs'
                          /\ i < position \/ i = position =>
                                <<cutting[i].artifact, SliceRef(cutting[i])>> \in refs'
        BY <3>1 DEF CuttingRefs, Owned, HasRef
      <4> QED BY <1>1 DEF CuttingRefs, Owned, HasRef
    <3>4. CutsRefs'
      BY <1>1, <3>2 DEF CutsRefs, HasRef
    <3> QED BY <1>1, <3>1, <3>2, <3>3, <3>4 DEF Used
  <2> QED BY <2>1, <2>2
<1> HIDE DEF sl
<1>6. RestOwned'
  BY <1>1 DEF RestOwned, Owned
<1>7. FreedUnreferenced'
  <2>1. ASSUME NEW t \in Tasks, NEW n \in 1..MaxAttempts, Freeing(t, n)
        PROVE  {x \in refs' : x[1] = Cuts[t][attempt[<<t, n>>].slice].artifact} = {}
    <3>1. RefsOf(Cuts[t][attempt[<<t, n>>].slice].artifact) = {}
      BY <2>1 DEF FreedUnreferenced
    <3>2. Cuts[t][attempt[<<t, n>>].slice].artifact # sl.artifact
      BY <1>4, <3>1
    <3> QED BY <1>1, <3>1, <3>2 DEF RefsOf
  <2> QED BY <1>1, <1>5, <2>1, FreedKept
<1>8. ReferencedStored'
  <2> SUFFICES ASSUME NEW a \in ArtifactIds, Used(a), NEW x \in refs', x[1] = a
               PROVE  a \in events
    BY <1>1, <1>5 DEF ReferencedStored, RefsOf
  <2>1. CASE x \in refs
    BY <2>1 DEF ReferencedStored, RefsOf
  <2>2. CASE x = r
    BY <1>4, <2>2
  <2> QED BY <1>1, <2>1, <2>2
<1> QED BY <1>5, <1>6, <1>7, <1>8

(* The emitter drops its reference of a slice that has its own: nothing is *)
(* freed, and no other slice that the emitter still owns is of it.         *)
LEMMA RefsDisowned ==
    ASSUME EmitInv, WorkerInv, RefInv, DropControllerRef
    PROVE  /\ (RestOwned /\ CuttingRefs /\ CutsRefs /\ FreedUnreferenced /\ ReferencedStored)'
           /\ UNCHANGED events
<1> USE DEF RefInv
<1> DEFINE sl == cutting[position]
           r == <<sl.artifact, ControllerRef>>
<1>0. /\ EmitTypes /\ EmitPlaces /\ SlicesApart /\ SlicesWhole
      /\ position \in 1..Len(cutting) /\ Len(cutting) \in Nat
  BY SliceFacts DEF EmitInv, EmitPlaces, DropControllerRef, Placed
<1>1. /\ emitter = "unreferencing" /\ emitter \in Placed
      /\ refs' = refs \ {r}
      /\ events' = IF RefsOf(sl.artifact) \ {r} = {} THEN events \ {sl.artifact} ELSE events
      /\ NextPosition
      /\ UNCHANGED <<outputs, attempt, accumulator, remainder, submitted>>
  BY DEF DropControllerRef, workerVars, Placed
<1>2. sl \in Slice /\ sl.artifact \in ArtifactIds /\ Used(sl.artifact)
  BY <1>0, SliceFacts, SliceNumbers DEF Used
<1>3. <<sl.artifact, SliceRef(sl)>> \in refs
  BY <1>0, <1>1 DEF CuttingRefs, HasRef
<1>4. SliceRef(sl) # ControllerRef
  BY <1>2, SliceKeys
<1>5. UNCHANGED events
  <2>1. <<sl.artifact, SliceRef(sl)>> \in RefsOf(sl.artifact) \ {r}
    BY <1>3, <1>4 DEF RefsOf
  <2> QED BY <1>1, <2>1
<1>6. \A x \in Slice : <<x.artifact, SliceRef(x)>> \in refs => <<x.artifact, SliceRef(x)>> \in refs'
  BY <1>1, SliceKeys
<1>7. \A x \in Slice : <<x.artifact, ControllerRef>> \in refs /\ x.artifact # sl.artifact =>
                           <<x.artifact, ControllerRef>> \in refs'
  BY <1>1
<1>8. CuttingRefs' /\ CutsRefs' /\ (\A k \in 1..Len(Cuts) : Cuts'[k] = Cuts[k])
      /\ \A a : Used(a)' = Used(a)
  <2>1. \A j \in 1..Len(cutting) : j > position =>
             <<cutting[j].artifact, ControllerRef>> \in refs'
    <3> SUFFICES ASSUME NEW j \in 1..Len(cutting), j > position
                 PROVE  <<cutting[j].artifact, ControllerRef>> \in refs'
      OBVIOUS
    <3>1. j # position /\ j >= position
      BY <1>0
    <3>2. cutting[j] \in Slice /\ cutting[j].artifact # sl.artifact
      BY <1>0, <3>1, SliceFacts DEF SlicesApart, CuttingApart
    <3>3. <<cutting[j].artifact, ControllerRef>> \in refs
      BY <3>1 DEF CuttingRefs, Owned
    <3> QED BY <1>7, <3>2, <3>3
  <2>2. \A j \in 1..Len(cutting) : j <= position =>
             <<cutting[j].artifact, SliceRef(cutting[j])>> \in refs'
    <3> SUFFICES ASSUME NEW j \in 1..Len(cutting), j <= position
                 PROVE  <<cutting[j].artifact, SliceRef(cutting[j])>> \in refs'
      OBVIOUS
    <3>1. j = position \/ j < position
      BY <1>0
    <3>2. <<cutting[j].artifact, SliceRef(cutting[j])>> \in refs /\ cutting[j] \in Slice
      BY <1>0, <1>1, <3>1, SliceFacts DEF CuttingRefs, HasRef
    <3> QED BY <1>6, <3>2
  <2>3. \A k \in 1..Len(Cuts) : k \notin outputs => \A i \in 1..Len(Cuts[k]) :
             <<Cuts[k][i].artifact, SliceRef(Cuts[k][i])>> \in refs'
    <3> SUFFICES ASSUME NEW k \in 1..Len(Cuts), k \notin outputs, NEW i \in 1..Len(Cuts[k])
                 PROVE  <<Cuts[k][i].artifact, SliceRef(Cuts[k][i])>> \in refs'
      OBVIOUS
    <3>1. Cuts[k][i] \in Slice /\ <<Cuts[k][i].artifact, SliceRef(Cuts[k][i])>> \in refs
      BY <1>0, SliceFacts DEF CutsRefs, HasRef
    <3> QED BY <1>6, <3>1
  <2> QED BY <1>1, <2>1, <2>2, <2>3, RefsAdvanced
<1>9. RestOwned'
  <2> SUFFICES ASSUME NEW j \in 1..Len(accumulator)
               PROVE  <<accumulator[j].artifact, ControllerRef>> \in refs'
    BY <1>1 DEF RestOwned, Owned
  <2>1. accumulator[j] \in Slice /\ <<accumulator[j].artifact, ControllerRef>> \in refs
    BY <1>0, SliceFacts DEF RestOwned, Owned
  <2>2. ~(position = Len(cutting) /\ remainder)
    BY <1>0, <1>1 DEF EmitPlaces
  <2>3. accumulator[j].artifact # sl.artifact
    BY <1>0, <2>2 DEF SlicesApart, RemainderApart
  <2> QED BY <1>7, <2>1, <2>3
<1>10. FreedUnreferenced'
  <2>1. ASSUME NEW t \in Tasks, NEW n \in 1..MaxAttempts, Freeing(t, n)
        PROVE  {x \in refs' : x[1] = Cuts[t][attempt[<<t, n>>].slice].artifact} = {}
    <3>1. RefsOf(Cuts[t][attempt[<<t, n>>].slice].artifact) = {}
      BY <2>1 DEF FreedUnreferenced
    <3> QED BY <1>1, <3>1 DEF RefsOf
  <2> QED BY <1>1, <1>8, <2>1, FreedKept
<1>11. ReferencedStored'
  BY <1>1, <1>5, <1>8 DEF ReferencedStored, RefsOf
<1> QED BY <1>5, <1>8, <1>9, <1>10, <1>11

(* Lists that are still to come stay stored: the artifacts of a core shard *)
(* that is waited for are not used, and only a used one is freed.          *)
LEMMA ListsKept ==
    ASSUME EmitInv, ListsStored, [Next]_vars,
           UNCHANGED <<wrappers, wrapper, current>>,
           emitter' = "appending" => emitter = "appending",
           events \subseteq events' \/ \E a \in ArtifactIds : Used(a) /\ events' = events \ {a}
    PROVE  ListsStored'
<1>0. EmitTypes /\ EmitPlaces /\ OneAttempt
  BY DEF EmitInv
<1>1. ASSUME NEW s \in Shards, NEW n, Fresh(s), EventArtifacts(s, n) \subseteq events
      PROVE  EventArtifacts(s, n) \subseteq events'
  <2>1. CASE events \subseteq events'
    BY <1>1, <2>1
  <2>2. ASSUME NEW a \in ArtifactIds, Used(a), events' = events \ {a}
        PROVE  EventArtifacts(s, n) \subseteq events'
    <3>1. a[1] # s
      BY <1>0, <1>1, <2>2 DEF OneAttempt
    <3>2. a \notin EventArtifacts(s, n)
      BY <3>1 DEF EventArtifacts
    <3> QED BY <1>1, <2>2, <3>2
  <2> QED BY <2>1, <2>2
<1>2. ASSUME NEW s \in Shards, Fresh(s)', wrappers[s] # 0
      PROVE  EventArtifacts(s, wrappers[s]) \subseteq events'
  <2>1. Fresh(s)
    BY <1>0, <1>2, FreshStep
  <2> QED BY <1>1, <1>2, <2>1 DEF ListsStored
<1>3. ASSUME emitter = "appending", wrapper # 0
      PROVE  EventArtifacts(current, wrapper) \subseteq events'
  <2>1. current \in Shards /\ Fresh(current)
    BY <1>0, <1>3 DEF EmitPlaces, Fresh, Fetching
  <2> QED BY <1>1, <1>3, <2>1 DEF ListsStored
<1> QED BY <1>2, <1>3 DEF ListsStored, EventArtifacts, NumChunks

(* Every step keeps the references.                                        *)
LEMMA RefStep ==
    ASSUME EmitInv, WorkerInv, RefInv, [Next]_vars, ~ended'
    PROVE  RefInv'
<1> DEFINE Slices == RestOwned /\ CuttingRefs /\ CutsRefs /\ FreedUnreferenced /\ ReferencedStored
<1>0. EmitTypes /\ EmitPlaces /\ WorkerTypes /\ ListsStored /\ ~ended
  BY StillOpen DEF EmitInv, WorkerInv, RefInv
<1> SUFFICES Slices' /\ ListsStored'
  BY DEF RefInv
<1>1. ASSUME UNCHANGED <<refs, events, wrappers, emitVars>>, outputs \subseteq outputs', FreeingKept
      PROVE  Slices' /\ ListsStored'
  <2>1. UNCHANGED <<accumulator, cutting, position, emitter, current, wrapper>> /\ Cuts' = Cuts
    BY <1>1 DEF emitVars, Cuts
  <2>2. Slices'
    BY <1>1, <2>1, RefsQuiet
  <2> QED BY <1>0, <1>1, <2>1, <2>2, ListsKept
<1>2. ASSUME UNCHANGED attempt PROVE FreeingKept
  BY <1>2 DEF FreeingKept, Freeing
<1>3. CASE UNCHANGED vars
  BY <1>1, <1>2, <1>3 DEF vars, storeVars, workerVars
<1>4. ASSUME NEW s \in Shards, SubmitCoreShard(s) PROVE Slices' /\ ListsStored'
  <2>1. UNCHANGED <<refs, events, wrappers, emitVars, outputs>>
        /\ attempt' = [attempt EXCEPT ![<<s, 1>>] = At("queued")]
    BY <1>4 DEF SubmitCoreShard, CreateCoreProvingTask
  <2>2. FreeingKept
    BY <1>0, <2>1, AtFacts, MoveFreeing DEF Places
  <2> QED BY <1>1, <2>1, <2>2
<1>5. ASSUME NEW t \in Tasks, ReleasePermit(t) PROVE Slices' /\ ListsStored'
  BY <1>1, <1>2, <1>5 DEF ReleasePermit, storeVars, workerVars
<1>6. CASE DropGate
  BY <1>1, <1>2, <1>6 DEF DropGate, storeVars, workerVars
<1>7. ASSUME NEW t \in Tasks, NEW n \in 1..MaxAttempts, Worker(t, n)
      PROVE  Slices' /\ ListsStored'
  <2>1. CASE QuietWorker(t, n)
    <3>1. UNCHANGED <<refs, events, wrappers, emitVars>> /\ outputs \subseteq outputs'
      BY <2>1 DEF QuietWorker, Start, TraceFails, DownloadEvents, Prove, Finish, JoinFails,
                  Fail, storeVars
    <3> QED BY <1>1, <2>1, <3>1, QuietFreeing
  <2>2. CASE DropSliceRef(t, n)
    <3>1. UNCHANGED <<events, wrappers, emitter, current, wrapper>>
      BY <2>2 DEF DropSliceRef, emitVars
    <3> QED BY <1>0, <2>2, <3>1, RefsDropped, ListsKept
  <2>3. CASE FreeSlice(t, n)
    <3>1. UNCHANGED <<wrappers, emitter, current, wrapper>>
      BY <2>3 DEF FreeSlice, emitVars
    <3> QED BY <1>0, <2>3, <3>1, RefsFreed, ListsKept
  <2> QED BY <1>7, <2>1, <2>2, <2>3 DEF Worker, QuietWorker
<1>8. ASSUME NEW s \in Shards, NEW n \in 1..MaxAttempts, UploadDeferred(s, n)
      PROVE  Slices' /\ ListsStored'
  <2>1. /\ UNCHANGED <<refs, outputs, attempt, emitVars, executorVars, listenVars>>
        /\ events' = events \cup EventArtifacts(s, n)
        /\ wrappers' = [wrappers EXCEPT ![s] = n]
    BY <1>8 DEF UploadDeferred
  <2>2. UNCHANGED <<accumulator, cutting, position, emitter, current, wrapper, unsent,
                    messages, dataMap>> /\ Cuts' = Cuts
    BY <2>1 DEF emitVars, Cuts, executorVars, listenVars
  <2>3. Slices'
    BY <1>2, <2>1, <2>2, RefsQuiet
  <2>4. ASSUME NEW u \in Shards, Fresh(u)', wrappers'[u] # 0
        PROVE  EventArtifacts(u, wrappers'[u]) \subseteq events'
    <3>1. Fresh(u)
      BY <2>2, <2>4 DEF Fresh
    <3>2. wrappers'[u] = IF u = s THEN n ELSE wrappers[u]
      BY <1>0, <2>1 DEF EmitTypes
    <3> QED BY <1>0, <2>1, <2>4, <3>1, <3>2 DEF ListsStored
  <2>5. emitter = "appending" /\ wrapper # 0 => EventArtifacts(current, wrapper) \subseteq events'
    BY <1>0, <2>1 DEF ListsStored
  <2> QED BY <2>2, <2>3, <2>4, <2>5 DEF ListsStored, EventArtifacts, NumChunks
<1>9. ASSUME NEW s \in Shards, NEW n \in 1..MaxAttempts,
             CompleteMarker(s, n) \/ UploadFails(s, n)
      PROVE  Slices' /\ ListsStored'
  BY <1>1, <1>2, <1>9 DEF CompleteMarker, UploadFails, storeVars
<1>10. ASSUME NEW t \in Tasks, Redeliver(t) PROVE Slices' /\ ListsStored'
  <2>1. UNCHANGED <<refs, events, wrappers, emitVars, outputs>>
        /\ Goto(t, delivered[t] + 1, "queued")
    BY <1>10 DEF Redeliver, storeVars
  <2>2. FreeingKept
    BY <1>0, <2>1, GotoFreeing DEF Places
  <2> QED BY <1>1, <2>1, <2>2
<1>11. ASSUME NEW s \in Shards, ListenerReceive(s) PROVE Slices' /\ ListsStored'
  BY <1>1, <1>2, <1>11 DEF ListenerReceive, storeVars, workerVars
<1>12. ASSUME NEW s \in Shards, ReceiveMarker(s) PROVE Slices' /\ ListsStored'
  <2>1. /\ UNCHANGED <<refs, events, wrappers, outputs, attempt, wrapper,
                       accumulator, cutting, position, cut, submitted>>
        /\ emitter = "waiting" /\ emitter' \in {"waiting", "downloading"}
    BY <1>12 DEF ReceiveMarker, storeVars, workerVars
  <2>2. Cuts' = Cuts
    BY <2>1 DEF Cuts
  <2>3. Slices'
    BY <1>2, <2>1, <2>2, RefsQuiet
  <2>4. \A u \in Shards : Fresh(u)' => Fresh(u)
    BY <1>0, FreshStep
  <2> QED BY <1>0, <2>1, <2>3, <2>4 DEF ListsStored, EventArtifacts, NumChunks
<1>13. CASE DownloadWrapper
  <2>1. /\ UNCHANGED <<refs, events, wrappers, outputs, attempt, current,
                       accumulator, cutting, position, cut, submitted>>
        /\ emitter = "downloading" /\ emitter' = "appending" /\ wrapper' = wrappers[current]
    BY <1>13 DEF DownloadWrapper, storeVars, workerVars
  <2>2. Cuts' = Cuts
    BY <2>1 DEF Cuts
  <2>3. Slices'
    BY <1>2, <2>1, <2>2, RefsQuiet
  <2>4. \A u \in Shards : Fresh(u)' => Fresh(u)
    BY <1>0, FreshStep
  <2>5. current \in Shards /\ Fresh(current)
    BY <1>0, <2>1 DEF EmitPlaces, Fetching, Fresh
  <2> QED BY <1>0, <2>1, <2>3, <2>4, <2>5 DEF ListsStored, EventArtifacts, NumChunks
<1>14. CASE AppendEvents
  <2>1. Slices'
    BY <1>14, RefsAdded
  <2>2. /\ emitter' = "splitting" /\ wrappers' = [wrappers EXCEPT ![current] = 0]
        /\ UNCHANGED events
    BY <1>14 DEF AppendEvents
  <2>3. ASSUME NEW u \in Shards, Fresh(u)', wrappers'[u] # 0
        PROVE  EventArtifacts(u, wrappers'[u]) \subseteq events
    <3>1. Fresh(u) /\ u # current
      BY <1>0, <1>14, <2>3, FreshStep
    <3>2. wrappers'[u] = wrappers[u]
      BY <1>0, <2>2, <3>1 DEF EmitTypes
    <3> QED BY <1>0, <2>3, <3>1, <3>2 DEF ListsStored
  <2> QED BY <2>1, <2>2, <2>3 DEF ListsStored, EventArtifacts, NumChunks
<1>15. CASE EndOfStream \/ AllSubmitted
  <2>1. /\ UNCHANGED <<refs, events, wrappers, outputs, attempt, wrapper,
                       accumulator, cutting, position, cut, submitted>>
        /\ emitter' \in {"splitting", "waiting", "done"}
    BY <1>15 DEF EndOfStream, AllSubmitted, storeVars, workerVars
  <2>2. Cuts' = Cuts
    BY <2>1 DEF Cuts
  <2>3. Slices'
    BY <1>2, <2>1, <2>2, RefsQuiet
  <2>4. \A u \in Shards : Fresh(u)' => Fresh(u)
    BY <1>0, FreshStep
  <2> QED BY <1>0, <2>1, <2>3, <2>4 DEF ListsStored, EventArtifacts, NumChunks
<1>16. CASE CutShard
  <2>1. UNCHANGED <<events, wrappers, current, wrapper>> /\ emitter' = "referencing"
    BY <1>16 DEF CutShard, storeVars
  <2> QED BY <1>0, <1>16, <2>1, RefsCut, ListsKept
<1>17. ASSUME AddSliceRef \/ DropControllerRef
       PROVE  UNCHANGED <<wrappers, current, wrapper>> /\ emitter' # "appending"
  BY <1>17 DEF AddSliceRef, DropControllerRef, NextPosition
<1>18. CASE AddSliceRef
  <2>1. UNCHANGED events
    BY <1>18 DEF AddSliceRef
  <2> QED BY <1>0, <1>17, <1>18, <2>1, RefsGiven, ListsKept
<1>19. CASE DropControllerRef
  <2>1. UNCHANGED events /\ Slices'
    BY <1>19, RefsDisowned
  <2> QED BY <1>0, <1>17, <1>19, <2>1, ListsKept
<1>20. CASE SubmitPrecompileShard
  <2>1. /\ UNCHANGED <<refs, events, wrappers, outputs, emitter, current, wrapper,
                       accumulator, cutting, position, remainder>>
        /\ submitted' = Append(submitted, Head(cut)) /\ cut' = Tail(cut) /\ cut # <<>>
        /\ attempt' = [attempt EXCEPT ![<<Len(submitted) + 1, 1>>] = At("queued")]
    BY <1>20 DEF SubmitPrecompileShard, CreateCoreProvingTask
  <2>2. Cuts' = Cuts
    <3>1. submitted \in Seq(Seq(Slice)) /\ cut \in Seq(Seq(Slice))
      BY <1>0 DEF EmitTypes
    <3>2. Append(submitted, Head(cut)) \o Tail(cut) = submitted \o cut
      BY <2>1, <3>1, CutsMoved
    <3> QED BY <2>1, <3>2 DEF Cuts
  <2>3. FreeingKept
    BY <1>0, <2>1, AtFacts, MoveFreeing DEF Places
  <2>4. Slices'
    BY <2>1, <2>2, <2>3, RefsQuiet
  <2> QED BY <1>0, <2>1, <2>4, ListsKept
<1>21. CASE Emitter
  BY <1>11, <1>12, <1>13, <1>14, <1>15, <1>16, <1>18, <1>19, <1>20, <1>21, StillOpen DEF Emitter
<1> QED BY <1>3, <1>4, <1>5, <1>6, <1>7, <1>8, <1>9, <1>10, <1>21, StillOpen
        DEF Next, Progress, DeferredUpload, RequestFails

(* There is no reference at the start.                                     *)
LEMMA RefInitial == Init => RefOpen
<1> SUFFICES ASSUME Init PROVE RefInv
  BY DEF RefOpen
<1>1. /\ accumulator = <<>> /\ cutting = <<>> /\ refs = {}
      /\ attempt = [a \in Attempts |-> Idle] /\ wrappers = [s \in Shards |-> 0]
      /\ submitted = <<>> /\ cut = <<>> /\ emitter = "waiting"
  BY DEF Init
<1>2. Len(Cuts) = 0
  BY <1>1, EmitInitial, CutsFacts DEF EmitInv
<1>3. RestOwned /\ CuttingRefs /\ CutsRefs
  BY <1>1, <1>2 DEF RestOwned, CuttingRefs, CutsRefs
<1>4. FreedUnreferenced /\ ReferencedStored
  BY <1>1 DEF FreedUnreferenced, ReferencedStored, Freeing, Attempts, Idle, RefsOf
<1>5. ListsStored
  BY <1>1 DEF ListsStored
<1> QED BY <1>3, <1>4, <1>5 DEF RefInv

(* What the references are for: all that a shard is to be proved from is   *)
(* stored.                                                                 *)
LEMMA RefsStore ==
    ASSUME EmitInv, WorkerInv, RefOpen
    PROVE  SlicesStored
<1> SUFFICES ASSUME ~ended, RefInv PROVE SlicesStored
  BY DEF RefOpen, SlicesStored
<1>0. EmitTypes /\ SlicesWhole /\ DeliveredOnly /\ RestOwned /\ CuttingRefs /\ CutsRefs
      /\ ReferencedStored
  BY DEF EmitInv, WorkerInv, RefInv
<1>1. ASSUME NEW sl \in Slice, Used(sl.artifact), Owned(sl) \/ HasRef(sl)
      PROVE  sl.artifact \in events
  <2>1. RefsOf(sl.artifact) # {} /\ sl.artifact \in ArtifactIds
    BY <1>1, SliceNumbers DEF Owned, HasRef, RefsOf
  <2> QED BY <1>0, <1>1, <2>1 DEF ReferencedStored
<1>2. ASSUME NEW i \in 1..Len(accumulator) PROVE accumulator[i].artifact \in events
  BY <1>0, <1>1, SliceFacts DEF RestOwned, Used
<1>3. ASSUME NEW i \in 1..Len(cutting) PROVE cutting[i].artifact \in events
  <2>1. i >= position \/ i < position
    BY <1>0 DEF EmitTypes
  <2> QED BY <1>0, <1>1, <2>1, SliceFacts DEF CuttingRefs, Used
<1>4. ASSUME NEW k \in 1..Len(Cuts), k \notin outputs, NEW i \in 1..Len(Cuts[k])
      PROVE  Cuts[k][i].artifact \in events
  BY <1>0, <1>1, <1>4, SliceFacts DEF CutsRefs, Used
<1>5. /\ submitted \in Seq(Seq(Slice)) /\ cut \in Seq(Seq(Slice))
      /\ cutting \in Seq(Slice) /\ accumulator \in Seq(Slice)
      /\ Len(submitted) \in Nat /\ Len(cut) \in Nat
      /\ Len(Cuts) = Len(submitted) + Len(cut)
      /\ \A k \in 1..Len(submitted) : Cuts[k] = submitted[k]
      /\ \A k \in 1..Len(cut) : Cuts[Len(submitted) + k] = cut[k]
  BY <1>0, CutsFacts DEF EmitTypes
<1>6. ASSUME NEW p \in 1..Len(submitted), p \notin outputs, NEW i \in DOMAIN submitted[p]
      PROVE  submitted[p][i].artifact \in events
  <2>1. p \in 1..Len(Cuts) /\ submitted[p] = Cuts[p]
    BY <1>5
  <2>2. i \in 1..Len(Cuts[p])
    BY <1>0, <2>1, SliceFacts, LenProperties
  <2> QED BY <1>4, <1>6, <2>1, <2>2
<1>7. ASSUME NEW k \in 1..Len(cut), NEW i \in DOMAIN cut[k]
      PROVE  cut[k][i].artifact \in events
  <2>1. PICK p : p = Len(submitted) + k
    OBVIOUS
  <2>2. p \in 1..Len(Cuts) /\ Cuts[p] = cut[k] /\ p > Len(submitted)
    BY <1>5, <2>1
  <2>3. p \in Precompiles
    BY <1>5, <2>2, CutsBounded, ShardEventsFinite DEF Precompiles
  <2>4. p \notin outputs
    BY <1>0, <2>2, <2>3 DEF DeliveredOnly
  <2>5. i \in 1..Len(Cuts[p])
    BY <1>0, <2>2, SliceFacts, LenProperties
  <2> QED BY <1>4, <2>2, <2>4, <2>5
<1>8. /\ DOMAIN submitted = 1..Len(submitted) /\ DOMAIN cut = 1..Len(cut)
      /\ DOMAIN cutting = 1..Len(cutting) /\ DOMAIN accumulator = 1..Len(accumulator)
  BY <1>5, LenProperties
<1> QED BY <1>2, <1>3, <1>6, <1>7, <1>8 DEF SlicesStored

(* No event artifact is freed too early: remove_ref deletes it when no     *)
(* reference is left, and as long as a shard that shares it has no proof,  *)
(* or a slice of it is not yet cut, one is, however the workers, their     *)
(* failures and retries and the emitter interleave, until the proof ends.  *)
THEOREM StoredCorrect == Spec => []SlicesStored
<1>1. EmitInv /\ WorkerInv /\ [Next]_vars => WorkerInv'
  BY WorkerStep
<1>2. EmitInv /\ WorkerInv /\ RefOpen /\ [Next]_vars => RefOpen'
  BY RefStep, StillOpen DEF RefOpen
<1>3. EmitInv /\ WorkerInv /\ RefOpen => SlicesStored
  BY RefsStore
<1> QED BY <1>1, <1>2, <1>3, EmitAlways, WorkerInitial, RefInitial, PTL DEF Spec

-----------------------------------------------------------------------------
(* Everything is freed in the end.  Every reference is explained by slices *)
(* that are still to be cut or proved, a shard with a proof has an attempt *)
(* that drops its references one after another, and an artifact without a  *)
(* reference is being freed.                                               *)

(* The reference of a slice belongs to it.                                 *)
RefOf(sl) == <<sl.artifact, SliceRef(sl)>>

(* An upload has written the list of its events that the emitter has read  *)
(* or will read.                                                           *)
Listed(s, n) == upload[<<s, n>>] \in {"marker", "done", "failed"}
UsedListed ==
    /\ \A a \in ArtifactIds : Used(a) => Listed(a[1], a[2])
    /\ \A s \in Shards : wrappers[s] # 0 => Listed(s, wrappers[s])
    /\ emitter = "appending" /\ wrapper # 0 => Listed(current, wrapper)

(* What is stored without a reference is being freed.                      *)
BeingFreed(a) ==
    \E t \in Tasks, n \in 1..MaxAttempts :
        Freeing(t, n) /\ Cuts[t][attempt[<<t, n>>].slice].artifact = a
UnreferencedFreed ==
    \A a \in ArtifactIds : Used(a) /\ a \in events /\ RefsOf(a) = {} => BeingFreed(a)

(* A reference is the emitter's, of what is not yet cut, or that of a      *)
(* slice.                                                                  *)
OwnRef(sl) == <<sl.artifact, ControllerRef>>
RestRef(r) == \E i \in 1..Len(accumulator) : r = OwnRef(accumulator[i])
CuttingRef(r) ==
    \/ \E i \in 1..Len(cutting) : i >= position /\ r = OwnRef(cutting[i])
    \/ \E i \in 1..Len(cutting) : r = RefOf(cutting[i])
CutRef(r) == \E k \in 1..Len(Cuts) : \E i \in 1..Len(Cuts[k]) : r = RefOf(Cuts[k][i])
RefsExplained == \A r \in refs : RestRef(r) \/ CuttingRef(r) \/ CutRef(r)

(* The rest of a slice that was cut in two is the first of what is left.   *)
RestShared ==
    remainder /\ cutting # <<>> =>
        /\ Len(accumulator) > 0
        /\ accumulator[1].artifact = cutting[Len(cutting)].artifact

(* A shard with a proof has an attempt that drops, or has dropped, its     *)
(* references one after another.                                           *)
Past(t, n) ==
    IF attempt[<<t, n>>].pc \in {"dropping", "freeing"}
    THEN attempt[<<t, n>>].slice
    ELSE Len(Cuts[t]) + 1
Drops(p, n) ==
    /\ attempt[<<p, n>>].pc \in Late \cup {"ended"}
    /\ \A i \in 1..Len(Cuts[p]) : i < Past(p, n) => ~HasRef(Cuts[p][i])
ProofDrops ==
    \A p \in 1..Len(Cuts) : p \in outputs => \E n \in 1..MaxAttempts : Drops(p, n)

SuccessStored == \A t \in Tasks : status[t] = "succeeded" => t \in outputs

FreedInv ==
    /\ UsedListed /\ UnreferencedFreed
    /\ RefsExplained /\ RestShared
    /\ ProofDrops /\ SuccessStored
FreedOpen == ended \/ FreedInv

(* When all has ended well, no reference is left, and so no artifact.      *)
LEMMA FreedAtEnd ==
    ASSUME EmitInv, WorkerInv, CoverInv, FreedOpen
    PROVE  EventsFreed
<1> SUFFICES ASSUME EndedEmpty, FreedInv, emitter = "done",
                    \A a \in Attempts : attempt[a].pc \in {"none", "ended"},
                    \A t \in Shards \cup DOMAIN submitted : status[t] = "succeeded",
                    NEW sl \in SlicesIn(submitted), sl.artifact \in events
             PROVE  FALSE
  BY DEF EventsFreed, CoverInv, FreedOpen
<1>0. EmitTypes /\ EmitPlaces
  BY DEF EmitInv
<1>1. /\ cutting = <<>> /\ accumulator = <<>> /\ cut = <<>>
  BY <1>0 DEF EmitPlaces, Placed, EndedEmpty
<1>2. Len(cutting) = 0 /\ Len(accumulator) = 0 /\ Len(cut) = 0
  BY <1>1
<1>3. /\ submitted \in Seq(Seq(Slice)) /\ Len(submitted) \in Nat
      /\ Len(Cuts) = Len(submitted)
      /\ \A k \in 1..Len(submitted) : Cuts[k] = submitted[k]
  BY <1>0, <1>2, CutsFacts DEF EmitTypes
<1>4. DOMAIN submitted = 1..Len(submitted)
  BY <1>3, LenProperties
<1>5. PICK k \in 1..Len(Cuts) : sl \in Range(Cuts[k])
  BY <1>3, <1>4 DEF SlicesIn
<1>6. PICK i \in 1..Len(Cuts[k]) : sl = Cuts[k][i]
  <2>1. Cuts[k] \in Seq(Slice)
    BY <1>0, SliceFacts
  <2>2. DOMAIN Cuts[k] = 1..Len(Cuts[k])
    BY <2>1, LenProperties
  <2> QED BY <1>5, <2>2 DEF Range
<1>7. sl \in Slice /\ sl.artifact \in ArtifactIds /\ Used(sl.artifact)
  BY <1>0, <1>6, SliceFacts, SliceNumbers DEF Used
<1>8. \A t \in Tasks, n \in 1..MaxAttempts : attempt[<<t, n>>].pc \in {"none", "ended"}
  BY DEF Attempts
<1>9. ~BeingFreed(sl.artifact)
  BY <1>8 DEF BeingFreed, Freeing
<1>10. PICK r \in refs : r[1] = sl.artifact
  BY <1>7, <1>9 DEF FreedInv, UnreferencedFreed, RefsOf
<1>11. PICK p \in 1..Len(Cuts) : \E j \in 1..Len(Cuts[p]) : r = RefOf(Cuts[p][j])
  BY <1>2 DEF FreedInv, RefsExplained, RestRef, CuttingRef, CutRef
<1>17. PICK j \in 1..Len(Cuts[p]) : r = RefOf(Cuts[p][j])
  BY <1>11
<1>12. p \in Tasks
  BY <1>0, <1>3, CutsBounded, ShardEventsFinite, TaskFacts DEF Precompiles
<1>13. p \in outputs
  BY <1>3, <1>4, <1>12 DEF FreedInv, SuccessStored
<1>14. PICK n \in 1..MaxAttempts : Drops(p, n)
  BY <1>13 DEF FreedInv, ProofDrops
<1>15. attempt[<<p, n>>].pc = "ended"
  BY <1>8, <1>12, <1>14 DEF Drops, Late
<1>16. j < Past(p, n)
  <2>1. Len(Cuts[p]) \in Nat
    BY <1>0, SliceFacts
  <2> QED BY <1>15, <2>1 DEF Past
<1> QED BY <1>10, <1>17, <1>14, <1>16 DEF Drops, HasRef, RefOf

-----------------------------------------------------------------------------
(* What a step does to an attempt: nothing, it is delivered, it moves on   *)
(* before its proof is stored or fails, it drops a reference or frees an   *)
(* artifact, or it ends or fails to join its upload.                       *)
Moved(u, k) ==
    \/ attempt'[<<u, k>>] = attempt[<<u, k>>]
    \/ attempt[<<u, k>>].pc = "none" /\ attempt'[<<u, k>>].pc = "queued"
    \/ attempt[<<u, k>>].pc \in Early
       /\ attempt'[<<u, k>>].pc \notin {"none", "queued", "freeing"}
    \/ DropSliceRef(u, k)
    \/ FreeSlice(u, k)
    \/ attempt[<<u, k>>].pc = "finishing" /\ attempt'[<<u, k>>].pc = "ended"
    \/ attempt[<<u, k>>].pc = "finishing" /\ attempt'[<<u, k>>].pc = "fatal" /\ u \in Shards

(* One attempt moves, and the others stay.                                 *)
LEMMA MoveOne ==
    ASSUME WorkerTypes, NEW t, NEW n, NEW v, attempt' = [attempt EXCEPT ![<<t, n>>] = v],
           NEW u \in Tasks, NEW k \in 1..MaxAttempts
    PROVE  attempt'[<<u, k>>] = IF u = t /\ k = n THEN v ELSE attempt[<<u, k>>]
<1>1. <<u, k>> \in Attempts
  BY DEF Attempts
<1>2. <<u, k>> = <<t, n>> <=> u = t /\ k = n
  OBVIOUS
<1> QED BY <1>1, <1>2 DEF WorkerTypes

(* The attempt after the ones delivered is not there yet.                  *)
LEMMA NotDelivered ==
    ASSUME WorkerInv, NEW t \in Tasks, NEW n \in 1..MaxAttempts, n = delivered[t] + 1
    PROVE  attempt[<<t, n>>].pc = "none"
<1>1. delivered[t] \in Nat /\ AttemptsPlaced
  BY DEF WorkerInv, WorkerTypes
<1> QED BY <1>1 DEF AttemptsPlaced

(* Every step moves attempts in this way.                                  *)
LEMMA AttemptMoves ==
    ASSUME EmitInv, WorkerInv, [Next]_vars, NEW u \in Tasks, NEW k \in 1..MaxAttempts
    PROVE  Moved(u, k)
<1>0. WorkerTypes /\ DeliveredOnly
  BY DEF WorkerInv
<1>1. CASE UNCHANGED WorkerView
  BY <1>1 DEF WorkerView, Moved
<1>2. ASSUME NEW t \in Tasks, NEW n, n = delivered[t] + 1,
             attempt' = [attempt EXCEPT ![<<t, n>>] = At("queued")]
      PROVE  Moved(u, k)
  <2>1. At("queued").pc = "queued"
    BY AtFacts DEF Places
  <2>2. CASE u = t /\ k = n
    BY <1>0, <1>2, <2>1, <2>2, MoveOne, NotDelivered DEF Moved
  <2>3. CASE ~(u = t /\ k = n)
    BY <1>0, <1>2, <2>3, MoveOne DEF Moved
  <2> QED BY <2>2, <2>3
<1>3. ASSUME NEW s \in Shards, SubmitCoreShard(s) PROVE Moved(u, k)
  <2>1. s \in Tasks /\ delivered[s] = 0
    BY <1>0, <1>3, TaskFacts DEF SubmitCoreShard, DeliveredOnly
  <2>2. attempt' = [attempt EXCEPT ![<<s, 1>>] = At("queued")] /\ 1 = delivered[s] + 1
    BY <1>3, <2>1 DEF SubmitCoreShard, CreateCoreProvingTask
  <2> QED BY <1>2, <2>1, <2>2
<1>4. CASE SubmitPrecompileShard
  <2> DEFINE t == Len(submitted) + 1
  <2>1. cut # <<>> /\ attempt' = [attempt EXCEPT ![<<t, 1>>] = At("queued")]
    BY <1>4 DEF SubmitPrecompileShard, CreateCoreProvingTask
  <2>2. t \in Precompiles /\ t \in Tasks /\ Len(submitted) \in Nat
    BY <2>1, NextTask, TaskFacts, CutsFacts DEF EmitInv
  <2>3. delivered[t] = 0
    BY <1>0, <2>2 DEF DeliveredOnly
  <2> HIDE DEF t
  <2>4. 1 = delivered[t] + 1
    BY <2>3
  <2> QED BY <1>2, <2>1, <2>2, <2>4
<1>5. ASSUME NEW t \in Tasks, Redeliver(t) PROVE Moved(u, k)
  BY <1>2, <1>5 DEF Redeliver, Goto
<1>6. ASSUME NEW s \in Shards, NEW n \in 1..MaxAttempts, DeferredUpload(s, n) PROVE Moved(u, k)
  BY <1>6 DEF DeferredUpload, UploadDeferred, CompleteMarker, UploadFails, Moved
<1>7. ASSUME NEW t \in Tasks, NEW n \in 1..MaxAttempts, Worker(t, n) PROVE Moved(u, k)
  <2>1. ASSUME NEW v, attempt' = [attempt EXCEPT ![<<t, n>>] = v],
               \/ attempt[<<t, n>>].pc \in Early /\ v.pc \notin {"none", "queued", "freeing"}
               \/ attempt[<<t, n>>].pc = "finishing" /\ v.pc = "ended"
               \/ attempt[<<t, n>>].pc = "finishing" /\ v.pc = "fatal" /\ t \in Shards
        PROVE  Moved(u, k)
    <3>1. CASE u = t /\ k = n
      BY <1>0, <2>1, <3>1, MoveOne DEF Moved
    <3>2. CASE ~(u = t /\ k = n)
      BY <1>0, <2>1, <3>2, MoveOne DEF Moved
    <3> QED BY <3>1, <3>2
  <2>2. ASSUME NEW x \in Places \ {"none", "queued", "freeing"}, Goto(t, n, x),
               \/ attempt[<<t, n>>].pc \in Early
               \/ attempt[<<t, n>>].pc = "finishing" /\ x = "ended"
               \/ attempt[<<t, n>>].pc = "finishing" /\ x = "fatal" /\ t \in Shards
        PROVE  Moved(u, k)
    BY <2>1, <2>2, AtFacts DEF Goto
  <2>3. CASE Start(t, n)
    BY <2>2, <2>3 DEF Start, StartCore, StartPrecompile, Places, Early
  <2>4. CASE DownloadEvents(t, n)
    BY <2>2, <2>4 DEF DownloadEvents, Places, Early
  <2>5. CASE Prove(t, n)
    <3>1. attempt[<<t, n>>].pc \in Early
      BY <2>5 DEF Prove, Early
    <3>2. CASE Goto(t, n, "retryable") \/ Goto(t, n, "fatal")
      BY <2>2, <3>1, <3>2 DEF Places
    <3>3. CASE attempt' = [attempt EXCEPT ![<<t, n>>] = IF t \in Precompiles
                                     THEN [pc |-> "dropping", slice |-> 1]
                                     ELSE At("finishing")]
      <4> DEFINE w == IF t \in Precompiles THEN [pc |-> "dropping", slice |-> 1]
                                           ELSE At("finishing")
      <4>1. w.pc \notin {"none", "queued", "freeing"}
        BY AtFacts DEF Places
      <4>2. attempt' = [attempt EXCEPT ![<<t, n>>] = w]
        BY <3>3
      <4> HIDE DEF w
      <4> QED BY <2>1, <3>1, <4>1, <4>2
    <3> QED BY <2>5, <3>2, <3>3 DEF Prove
  <2>6. CASE DropSliceRef(t, n) \/ FreeSlice(t, n)
    <3>1. CASE u = t /\ k = n
      BY <2>6, <3>1 DEF Moved
    <3>2. CASE ~(u = t /\ k = n)
      <4>1. PICK v : attempt' = [attempt EXCEPT ![<<t, n>>] = v]
        BY <2>6 DEF DropSliceRef, FreeSlice, NextSlice
      <4> QED BY <1>0, <3>2, <4>1, MoveOne DEF Moved
    <3> QED BY <3>1, <3>2
  <2>7. CASE Finish(t, n)
    BY <2>2, <2>7 DEF Finish, Post, Places
  <2>8. CASE Fail(t, n)
    <3>1. attempt[<<t, n>>].pc \in Early
      BY <2>8 DEF Fail, Early
    <3>2. ASSUME NEW st, Post(t, n, st) PROVE Moved(u, k)
      BY <2>2, <3>1, <3>2 DEF Post, Places
    <3>3. CASE attempt' = [attempt EXCEPT ![<<t, n>>] = At("ended"),
                                          ![<<t, delivered[t] + 1>>] = At("queued")]
      <4>1. At("queued").pc = "queued" /\ At("ended").pc = "ended"
        BY AtFacts DEF Places
      <4>2. <<u, k>> \in Attempts
        BY DEF Attempts
      <4>3. attempt[<<t, n>>].pc # "none" /\ attempt[<<t, n>>].pc # "queued"
        BY <2>8 DEF Fail
      <4>4. attempt'[<<u, k>>] = IF u = t /\ k = delivered[t] + 1 THEN At("queued")
                                 ELSE IF u = t /\ k = n THEN At("ended")
                                 ELSE attempt[<<u, k>>]
        BY <1>0, <3>3, <4>2 DEF WorkerTypes
      <4>5. u = t /\ k = delivered[t] + 1 => attempt[<<u, k>>].pc = "none"
        BY NotDelivered
      <4> QED BY <3>1, <4>1, <4>4, <4>5 DEF Moved
    <3>4. CASE Goto(t, n, "ended")
      BY <2>2, <3>1, <3>4 DEF Places
    <3> QED BY <2>8, <3>2, <3>3, <3>4 DEF Fail, Resubmit, NotResubmitted
  <2>9. CASE TraceFails(t, n) \/ JoinFails(t, n)
    BY <2>2, <2>9 DEF TraceFails, JoinFails, Places, Early
  <2> QED BY <1>7, <2>3, <2>4, <2>5, <2>6, <2>7, <2>8, <2>9 DEF Worker
<1>8. CASE ProofEnds
  BY <1>8 DEF ProofEnds, workerVars, Moved
<1> QED BY <1>1, <1>3, <1>4, <1>5, <1>6, <1>7, <1>8, WorkerFrame

(* The next slice of a shard, or its end.                                  *)
LEMMA NextMove ==
    ASSUME EmitInv, WorkerInv, NEW t \in Tasks, NEW n \in 1..MaxAttempts,
           attempt[<<t, n>>].pc \in {"dropping", "freeing"}, NextSlice(t, n)
    PROVE  \/ /\ attempt'[<<t, n>>].pc = "dropping"
              /\ attempt'[<<t, n>>].slice = attempt[<<t, n>>].slice + 1
           \/ /\ attempt'[<<t, n>>].pc = "finishing"
              /\ attempt[<<t, n>>].slice = Len(Cuts[t])
<1> DEFINE i == attempt[<<t, n>>].slice
           w == IF i < Len(SlicesOf(t)) THEN [pc |-> "dropping", slice |-> i + 1]
                                        ELSE At("finishing")
<1>1. WorkerTypes /\ submitted[t] = Cuts[t] /\ t \in 1..Len(Cuts) /\ i \in 1..Len(Cuts[t])
  BY FreeingSlice DEF WorkerInv
<1>2. Len(Cuts[t]) \in Nat
  BY <1>1, SliceFacts DEF EmitInv
<1>3. attempt' = [attempt EXCEPT ![<<t, n>>] = w]
  BY DEF NextSlice
<1>4. \/ w.pc = "dropping" /\ w.slice = i + 1
      \/ w.pc = "finishing" /\ i = Len(Cuts[t])
  <2>1. CASE i < Len(SlicesOf(t))
    BY <2>1
  <2>2. CASE ~(i < Len(SlicesOf(t)))
    <3>1. w = At("finishing") /\ At("finishing").pc = "finishing"
      BY <2>2, AtFacts DEF Places
    <3>2. i = Len(Cuts[t])
      BY <1>1, <1>2, <2>2 DEF SlicesOf
    <3> QED BY <3>1, <3>2
  <2> QED BY <2>1, <2>2
<1> HIDE DEF w
<1>5. attempt'[<<t, n>>] = w
  <2>1. <<t, n>> \in Attempts
    BY DEF Attempts
  <2> QED BY <1>1, <1>3, <2>1 DEF WorkerTypes
<1> QED BY <1>4, <1>5

(* The references of an artifact after a step.                             *)
Left(a) == {r \in refs' : r[1] = a}

(* Dropping the last reference of an artifact leads to freeing it, another *)
(* one to the next slice.                                                  *)
LEMMA DropMove ==
    ASSUME EmitInv, WorkerInv, NEW t \in Tasks, NEW n \in 1..MaxAttempts, DropSliceRef(t, n)
    PROVE  LET sl == Cuts[t][attempt[<<t, n>>].slice]
           IN /\ refs' = refs \ {RefOf(sl)}
              /\ \/ /\ Left(sl.artifact) = {}
                    /\ attempt'[<<t, n>>].pc = "freeing"
                    /\ attempt'[<<t, n>>].slice = attempt[<<t, n>>].slice
                 \/ /\ Left(sl.artifact) # {}
                    /\ NextSlice(t, n)
<1> DEFINE sl == Cuts[t][attempt[<<t, n>>].slice]
<1>1. attempt[<<t, n>>].pc = "dropping"
  BY DEF DropSliceRef
<1>2. WorkerTypes /\ submitted[t] = Cuts[t]
  BY <1>1, FreeingSlice DEF WorkerInv
<1>3. /\ refs' = refs \ {RefOf(sl)}
      /\ IF RefsOf(sl.artifact) \ {RefOf(sl)} = {}
         THEN attempt' = [attempt EXCEPT ![<<t, n>>].pc = "freeing"]
         ELSE NextSlice(t, n)
  BY <1>2 DEF DropSliceRef, SlicesOf, RefOf
<1>5. Left(sl.artifact) = RefsOf(sl.artifact) \ {RefOf(sl)}
  BY <1>3 DEF RefsOf, Left
<1>6. ASSUME attempt' = [attempt EXCEPT ![<<t, n>>].pc = "freeing"]
      PROVE  attempt'[<<t, n>>].pc = "freeing" /\ attempt'[<<t, n>>].slice = attempt[<<t, n>>].slice
  <2>1. <<t, n>> \in Attempts
    BY DEF Attempts
  <2> QED BY <1>2, <1>6, <2>1 DEF WorkerTypes
<1> QED BY <1>3, <1>5, <1>6

(* What a step does to an upload.                                          *)
UploadMoved(s, n) ==
    \/ upload'[<<s, n>>] = upload[<<s, n>>]
    \/ attempt[<<s, n>>].pc = "queued" /\ attempt'[<<s, n>>].pc = "proving"
    \/ upload[<<s, n>>] = "events" /\ upload'[<<s, n>>] = "marker"
    \/ upload[<<s, n>>] = "marker" /\ upload'[<<s, n>>] = "done"
    \/ upload[<<s, n>>] # "none" /\ upload'[<<s, n>>] = "failed"

(* Every step moves uploads in this way.                                   *)
LEMMA UploadMoves ==
    ASSUME EmitInv, WorkerInv, [Next]_vars, NEW s \in Shards, NEW n \in 1..MaxAttempts
    PROVE  UploadMoved(s, n)
<1>0. WorkerTypes /\ <<s, n>> \in Shards \X (1..MaxAttempts) /\ s \in Tasks
  BY TaskFacts DEF WorkerInv
<1>1. ASSUME NEW u, NEW k, NEW v, upload' = [upload EXCEPT ![<<u, k>>] = v]
      PROVE  upload'[<<s, n>>] = IF s = u /\ n = k THEN v ELSE upload[<<s, n>>]
  <2>1. <<s, n>> = <<u, k>> <=> s = u /\ n = k
    OBVIOUS
  <2> QED BY <1>0, <1>1, <2>1 DEF WorkerTypes
<1>2. CASE UNCHANGED upload
  BY <1>2 DEF UploadMoved
<1>3. ASSUME NEW u \in Shards, NEW k \in 1..MaxAttempts, DeferredUpload(u, k)
      PROVE  UploadMoved(s, n)
  BY <1>1, <1>3 DEF DeferredUpload, UploadDeferred, CompleteMarker, UploadFails, UploadMoved
<1>4. ASSUME NEW t \in Tasks, NEW k \in 1..MaxAttempts, Worker(t, k)
      PROVE  UploadMoved(s, n)
  <2>1. UNCHANGED upload \/ Start(t, k)
    BY <1>4 DEF Worker, TraceFails, DownloadEvents, Prove, DropSliceRef, FreeSlice, Finish,
                JoinFails, Fail
  <2>2. CASE Start(t, k) /\ StartCore(t, k)
    <3>1. upload' = [upload EXCEPT ![<<t, k>>] = "events"]
      BY <2>2 DEF StartCore
    <3>2. CASE s = t /\ n = k
      <4>1. attempt[<<s, n>>].pc = "queued"
        BY <2>2, <3>2 DEF Start
      <4>2. attempt' = [attempt EXCEPT ![<<s, n>>] = At("proving")] /\ At("proving").pc = "proving"
        BY <2>2, <3>2, AtFacts DEF StartCore, Goto, Places
      <4>3. attempt'[<<s, n>>] = At("proving")
        BY <1>0, <4>2 DEF WorkerTypes, Attempts
      <4> QED BY <4>1, <4>2, <4>3 DEF UploadMoved
    <3>3. CASE ~(s = t /\ n = k)
      BY <1>1, <3>1, <3>3 DEF UploadMoved
    <3> QED BY <3>2, <3>3
  <2>3. CASE Start(t, k) /\ ~StartCore(t, k)
    BY <1>2, <2>3 DEF Start, StartPrecompile
  <2> QED BY <1>2, <2>1, <2>2, <2>3
<1>5. ASSUME SubmitPrecompileShard \/ (\E t \in Tasks : Redeliver(t)) \/ UNCHANGED WorkerView
             \/ (\E u \in Shards : SubmitCoreShard(u)) \/ ProofEnds
      PROVE  UNCHANGED upload
  BY <1>5 DEF SubmitPrecompileShard, Redeliver, WorkerView, SubmitCoreShard, ProofEnds, workerVars
<1> QED BY <1>2, <1>3, <1>4, <1>5, WorkerFrame

(* An upload that has listed its events stays so.                          *)
LEMMA ListedStep ==
    ASSUME EmitInv, WorkerInv, [Next]_vars, NEW s \in Shards,
           NEW n \in 1..MaxAttempts, Listed(s, n)
    PROVE  Listed(s, n)'
<1>1. UploadMoved(s, n)
  BY UploadMoves
<1>2. attempt[<<s, n>>].pc # "queued"
  BY DEF WorkerInv, UploadLater, Listed
<1> QED BY <1>1, <1>2 DEF UploadMoved, Listed

(* The emitter uses listed events only.                                    *)
LEMMA UsedListedStep ==
    ASSUME EmitInv, WorkerInv, UsedListed, [Next]_vars, ~ended'
    PROVE  UsedListed'
<1>0. EmitTypes /\ EmitPlaces /\ SlicesWhole /\ WorkerTypes
  BY DEF EmitInv, WorkerInv
<1>1. ASSUME NEW a \in ArtifactIds, Used(a)' PROVE Listed(a[1], a[2])'
  <2>1. a[1] \in Shards /\ a[2] \in 1..MaxAttempts
    BY ArtifactFacts
  <2>2. CASE Used(a)
    <3>1. Listed(a[1], a[2])
      BY <2>2 DEF UsedListed
    <3> QED BY <2>1, <3>1, ListedStep
  <2>3. CASE ~Used(a)
    <3>1. SlicesAdded /\ wrapper \in 1..MaxAttempts /\ \E i \in Nat : a = <<current, wrapper, i>>
      BY <1>0, <1>1, <2>3, UsedStep
    <3>2. a[1] = current /\ a[2] = wrapper /\ wrapper # 0 /\ emitter = "appending"
      BY <3>1, AttemptsFacts DEF SlicesAdded
    <3>3. Listed(current, wrapper)
      BY <3>2 DEF UsedListed
    <3>4. Listed(a[1], a[2])
      BY <3>2, <3>3
    <3> QED BY <2>1, <3>4, ListedStep
  <2> QED BY <2>2, <2>3
<1>2. ASSUME NEW s \in Shards, wrappers[s] # 0
      PROVE  wrappers[s] \in 1..MaxAttempts /\ upload'[<<s, wrappers[s]>>] \in {"marker", "done", "failed"}
  <2>1. wrappers[s] \in 1..MaxAttempts
    BY <1>0, <1>2, AttemptsFacts DEF EmitTypes
  <2>2. Listed(s, wrappers[s])
    BY <1>2 DEF UsedListed
  <2> DEFINE n == wrappers[s]
  <2>3. n \in 1..MaxAttempts /\ Listed(s, n)
    BY <2>1, <2>2
  <2> HIDE DEF n
  <2>4. upload'[<<s, n>>] \in {"marker", "done", "failed"}
    BY <2>3, ListedStep DEF Listed
  <2> QED BY <2>1, <2>4 DEF n
<1>3. ASSUME emitter = "appending", wrapper # 0
      PROVE  upload'[<<current, wrapper>>] \in {"marker", "done", "failed"}
  <2>1. current \in Shards /\ wrapper \in 1..MaxAttempts
    BY <1>0, <1>3, AttemptsFacts DEF EmitTypes, EmitPlaces, Fetching
  <2>2. Listed(current, wrapper)
    BY <1>3 DEF UsedListed
  <2> QED BY <2>1, <2>2, ListedStep DEF Listed
<1>4. ASSUME UNCHANGED <<wrappers>>, emitter' # "appending"
             \/ (emitter = "appending" /\ UNCHANGED <<current, wrapper>>)
      PROVE  UsedListed'
  BY <1>1, <1>2, <1>3, <1>4 DEF UsedListed, Listed
<1>5. CASE UNCHANGED EmitView
  BY <1>4, <1>5 DEF EmitView, emitVars
<1>6. ASSUME NEW s \in Shards, SubmitCoreShard(s) PROVE UsedListed'
  BY <1>4, <1>6 DEF SubmitCoreShard, emitVars
<1>7. ASSUME NEW s \in Shards, NEW n \in 1..MaxAttempts, UploadDeferred(s, n) PROVE UsedListed'
  <2>1. /\ wrappers' = [wrappers EXCEPT ![s] = n] /\ UNCHANGED <<emitter, current, wrapper>>
        /\ upload' = [upload EXCEPT ![<<s, n>>] = "marker"]
    BY <1>7 DEF UploadDeferred, emitVars
  <2>2. upload'[<<s, n>>] = "marker"
    BY <1>0, <2>1 DEF WorkerTypes
  <2>3. ASSUME NEW u \in Shards, wrappers'[u] # 0
        PROVE  upload'[<<u, wrappers'[u]>>] \in {"marker", "done", "failed"}
    <3>1. wrappers'[u] = IF u = s THEN n ELSE wrappers[u]
      BY <1>0, <2>1 DEF EmitTypes
    <3> QED BY <1>2, <2>2, <2>3, <3>1
  <2> QED BY <1>1, <1>3, <2>1, <2>3 DEF UsedListed, Listed
<1>8. ASSUME NEW s \in Shards, ListenerReceive(s) \/ ReceiveMarker(s) PROVE UsedListed'
  BY <1>4, <1>8 DEF ListenerReceive, ReceiveMarker, storeVars, emitVars
<1>9. CASE DownloadWrapper
  <2>1. UNCHANGED <<wrappers, current>> /\ wrapper' = wrappers[current] /\ current \in Shards
    BY <1>0, <1>9 DEF DownloadWrapper, storeVars, EmitPlaces, Fetching
  <2> QED BY <1>1, <1>2, <2>1 DEF UsedListed, Listed
<1>10. CASE AppendEvents
  <2>1. wrappers' = [wrappers EXCEPT ![current] = 0] /\ emitter' = "splitting"
    BY <1>10 DEF AppendEvents
  <2>2. \A u \in Shards : wrappers'[u] # 0 => wrappers'[u] = wrappers[u]
    BY <1>0, <2>1 DEF EmitTypes
  <2> QED BY <1>1, <1>2, <2>1, <2>2 DEF UsedListed, Listed
<1>11. CASE EndOfStream \/ CutShard \/ AddSliceRef \/ DropControllerRef \/ SubmitPrecompileShard
            \/ AllSubmitted
  BY <1>4, <1>11 DEF EndOfStream, CutShard, AddSliceRef, DropControllerRef, NextPosition,
                     SubmitPrecompileShard, AllSubmitted, storeVars
<1> QED BY <1>5, <1>6, <1>7, <1>8, <1>9, <1>10, <1>11, EmitFrame, StillOpen
        DEF Emitter

(* The rest of a slice stays in front while its shard is being cut.        *)
LEMMA RestSharedStep ==
    ASSUME EmitInv, RestShared, [Next]_vars
    PROVE  RestShared'
<1>0. EmitTypes /\ EmitPlaces /\ SlicesWhole
  BY DEF EmitInv
<1>1. CASE SlicesKept
  BY <1>1 DEF SlicesKept, RestShared
<1>2. CASE SlicesAdded
  <2>1. cutting' = <<>>
    BY <1>0, <1>2 DEF SlicesAdded, EmitPlaces, Placed
  <2> QED BY <2>1 DEF RestShared
<1>3. ASSUME NEW index \in 1..Len(accumulator), NEW m \in Nat, SlicesCut(index, m)
      PROVE  RestShared'
  <2> SUFFICES ASSUME remainder'
               PROVE  /\ Len(accumulator') > 0
                      /\ accumulator'[1].artifact = cutting'[Len(cutting')].artifact
    BY DEF RestShared
  <2>1. /\ Len(accumulator') = Len(accumulator) - index + 1
        /\ accumulator'[1].artifact = accumulator[index].artifact
        /\ Len(cutting') = index
    BY <1>3 DEF SlicesCut
  <2>2. Len(accumulator) \in Nat
    BY <1>0, SliceFacts
  <2>3. index \in 1..index
    OBVIOUS
  <2>4. cutting'[index].artifact = accumulator[index].artifact
    BY <1>0, <1>3, <2>3, CutSlices
  <2> QED BY <2>1, <2>2, <2>4
<1>4. CASE SlicesReady
  BY <1>4 DEF SlicesReady, RestShared
<1> QED BY <1>0, <1>1, <1>2, <1>3, <1>4, SlicesMove

(* A task succeeds when its proof is stored.                               *)
LEMMA SuccessStep ==
    ASSUME EmitInv, WorkerInv, SuccessStored, [Next]_vars, ~ended'
    PROVE  SuccessStored'
<1>0. WorkerTypes /\ ~ended
  BY StillOpen DEF WorkerInv
<1>1. ASSUME NEW t, NEW st, status' = [status EXCEPT ![t] = st], st = "succeeded" => t \in outputs,
             outputs \subseteq outputs'
      PROVE  SuccessStored'
  <2> SUFFICES ASSUME NEW u \in Tasks, status'[u] = "succeeded" PROVE u \in outputs
    BY <1>1 DEF SuccessStored
  <2>1. status'[u] = IF u = t THEN st ELSE status[u]
    BY <1>0, <1>1 DEF WorkerTypes
  <2> QED BY <1>1, <2>1 DEF SuccessStored
<1>2. ASSUME UNCHANGED status, outputs \subseteq outputs' PROVE SuccessStored'
  BY <1>2 DEF SuccessStored
<1>3. CASE UNCHANGED WorkerView
  BY <1>2, <1>3 DEF WorkerView
<1>4. ASSUME NEW s \in Shards, SubmitCoreShard(s) PROVE SuccessStored'
  BY <1>1, <1>4 DEF SubmitCoreShard, CreateCoreProvingTask
<1>5. CASE SubmitPrecompileShard
  BY <1>1, <1>5 DEF SubmitPrecompileShard, CreateCoreProvingTask
<1>6. ASSUME NEW t \in Tasks, Redeliver(t) PROVE SuccessStored'
  BY <1>2, <1>6 DEF Redeliver, storeVars
<1>7. ASSUME NEW s \in Shards, NEW n \in 1..MaxAttempts, DeferredUpload(s, n) PROVE SuccessStored'
  BY <1>2, <1>7 DEF DeferredUpload, UploadDeferred, CompleteMarker, UploadFails, storeVars
<1>8. ASSUME NEW t \in Tasks, NEW n \in 1..MaxAttempts, Worker(t, n) PROVE SuccessStored'
  <2>1. CASE \/ Start(t, n) \/ TraceFails(t, n) \/ DownloadEvents(t, n) \/ Prove(t, n)
             \/ DropSliceRef(t, n) \/ FreeSlice(t, n) \/ JoinFails(t, n)
    BY <1>2, <2>1 DEF Start, TraceFails, DownloadEvents, Prove, DropSliceRef, FreeSlice,
                      JoinFails, storeVars
  <2>2. CASE Finish(t, n)
    <3>1. t \in outputs
      BY <1>0, <2>2 DEF WorkerInv, AttemptsPlaced, Late, Finish
    <3> QED BY <1>1, <2>2, <3>1 DEF Finish, Post
  <2>3. CASE Fail(t, n)
    <3>1. UNCHANGED outputs
      BY <2>3 DEF Fail, storeVars
    <3>2. CASE OutputsExist(t) /\ Post(t, n, "succeeded")
      BY <1>1, <3>1, <3>2 DEF OutputsExist, Post
    <3>3. CASE Post(t, n, "failed")
      BY <1>1, <3>1, <3>3 DEF Post
    <3>4. CASE UNCHANGED status
      BY <1>2, <3>1, <3>4
    <3> QED BY <2>3, <3>2, <3>3, <3>4 DEF Fail, Resubmit, NotResubmitted
  <2> QED BY <1>8, <2>1, <2>2, <2>3 DEF Worker
<1> QED BY <1>3, <1>4, <1>5, <1>6, <1>7, <1>8, WorkerFrame, StillOpen

(* The steps that change references or stored artifacts.                   *)
LEMMA RefFrame ==
    ASSUME [Next]_vars
    PROVE  \/ UNCHANGED <<refs, events>>
           \/ \E s \in Shards, n \in 1..MaxAttempts : UploadDeferred(s, n)
           \/ AppendEvents \/ AddSliceRef \/ DropControllerRef
           \/ \E t \in Tasks, n \in 1..MaxAttempts : DropSliceRef(t, n) \/ FreeSlice(t, n)
<1> USE DEF storeVars
<1>1. CASE UNCHANGED vars
  BY <1>1 DEF vars
<1>2. ASSUME NEW s \in Shards, SubmitCoreShard(s) PROVE UNCHANGED <<refs, events>>
  BY <1>2 DEF SubmitCoreShard
<1>3. ASSUME NEW t \in Tasks, ReleasePermit(t) PROVE UNCHANGED <<refs, events>>
  BY <1>3 DEF ReleasePermit
<1>4. CASE DropGate
  BY <1>4 DEF DropGate
<1>5. ASSUME NEW t \in Tasks, NEW n \in 1..MaxAttempts,
             QuietWorker(t, n)
      PROVE  UNCHANGED <<refs, events>>
  BY <1>5 DEF QuietWorker, Start, TraceFails, DownloadEvents, Prove, Finish, JoinFails, Fail
<1>6. ASSUME NEW s \in Shards, NEW n \in 1..MaxAttempts,
             CompleteMarker(s, n) \/ UploadFails(s, n)
      PROVE  UNCHANGED <<refs, events>>
  BY <1>6 DEF CompleteMarker, UploadFails
<1>7. ASSUME NEW t \in Tasks, Redeliver(t) PROVE UNCHANGED <<refs, events>>
  BY <1>7 DEF Redeliver
<1>8. ASSUME NEW s \in Shards, ListenerReceive(s) \/ ReceiveMarker(s)
      PROVE  UNCHANGED <<refs, events>>
  BY <1>8 DEF ListenerReceive, ReceiveMarker
<1>9. CASE DownloadWrapper \/ EndOfStream \/ CutShard \/ SubmitPrecompileShard \/ AllSubmitted
  BY <1>9 DEF DownloadWrapper, EndOfStream, CutShard, SubmitPrecompileShard, AllSubmitted
<1>10. CASE EmitterFails \/ ProofEnds
  BY <1>10 DEF EmitterFails, ProofEnds
<1> QED BY <1>1, <1>2, <1>3, <1>4, <1>5, <1>6, <1>7, <1>8, <1>9, <1>10
        DEF Next, Progress, Worker, QuietWorker, DeferredUpload, Emitter, ReceiveFailedMarker,
            SubmitRefused, RequestFails

(* A shard that was cut stays as it is.                                    *)
LEMMA CutsStay ==
    ASSUME EmitInv, [Next]_vars, NEW k \in 1..Len(Cuts)
    PROVE  k \in 1..Len(Cuts') /\ Cuts'[k] = Cuts[k]
<1>0. EmitTypes /\ EmitPlaces /\ SlicesWhole
  BY DEF EmitInv
<1>1. CASE Cuts' = Cuts
  BY <1>1
<1>2. CASE SlicesReady
  BY <1>0, <1>2, ReadySlices
<1> QED BY <1>0, <1>1, <1>2, SlicesMove DEF SlicesKept, SlicesAdded, SlicesCut

(* What a worker frees is freed.                                           *)
LEMMA BeingFreedStays ==
    ASSUME EmitInv, WorkerInv, [Next]_vars, NEW a, BeingFreed(a)
    PROVE  BeingFreed(a)' \/ a \notin events'
<1>1. PICK t \in Tasks, n \in 1..MaxAttempts :
          Freeing(t, n) /\ Cuts[t][attempt[<<t, n>>].slice].artifact = a
  BY DEF BeingFreed
<1>2. attempt[<<t, n>>].pc = "freeing" /\ Moved(t, n)
  BY <1>1, AttemptMoves DEF Freeing
<1>3. t \in 1..Len(Cuts) /\ submitted[t] = Cuts[t]
  BY <1>2, FreeingSlice
<1>4. Cuts'[t] = Cuts[t]
  BY <1>3, CutsStay
<1>5. CASE attempt'[<<t, n>>] = attempt[<<t, n>>]
  BY <1>1, <1>4, <1>5 DEF BeingFreed, Freeing
<1>6. CASE FreeSlice(t, n)
  BY <1>1, <1>3, <1>6 DEF FreeSlice, SlicesOf
<1> QED BY <1>2, <1>5, <1>6 DEF Moved, Early, DropSliceRef

(* Every step keeps UnreferencedFreed.                                     *)
LEMMA UnreferencedStep ==
    ASSUME EmitInv, WorkerInv, RefInv, RefInv', UsedListed, UnreferencedFreed, [Next]_vars
    PROVE  UnreferencedFreed'
<1> SUFFICES ASSUME NEW a \in ArtifactIds, Used(a)', a \in events', Left(a) = {}
             PROVE  BeingFreed(a)'
  BY DEF UnreferencedFreed, RefsOf, Left
<1>0. EmitTypes /\ EmitPlaces /\ SlicesWhole
  BY DEF EmitInv
<1>1. Used(a)
  <2> SUFFICES ASSUME ~Used(a) PROVE FALSE
    OBVIOUS
  <2>1. SlicesAdded
    BY <1>0, UsedStep
  <2>2. UNCHANGED <<cutting, Cuts>>
    BY <1>0, <2>1, AddedSlices
  <2>3. PICK i \in 1..Len(accumulator') : accumulator'[i].artifact = a
    BY <2>2 DEF Used
  <2>4. <<a, ControllerRef>> \in refs'
    BY <2>3 DEF RefInv, RestOwned, Owned
  <2> QED BY <2>4 DEF Left
<1>2. CASE UNCHANGED <<refs, events>> \/ AppendEvents \/ AddSliceRef
  <2>1. refs \subseteq refs' /\ UNCHANGED events
    BY <1>2 DEF AppendEvents, AddSliceRef
  <2>2. RefsOf(a) = {}
    BY <2>1 DEF RefsOf, Left
  <2> QED BY <1>1, <2>1, <2>2, BeingFreedStays DEF UnreferencedFreed
<1>3. ASSUME NEW s \in Shards, NEW n \in 1..MaxAttempts, UploadDeferred(s, n)
      PROVE  BeingFreed(a)'
  <2>1. upload[<<s, n>>] = "events" /\ events' = events \cup EventArtifacts(s, n) /\ UNCHANGED refs
    BY <1>3 DEF UploadDeferred
  <2>2. a \notin EventArtifacts(s, n)
    BY <1>1, <2>1 DEF UsedListed, Listed, EventArtifacts
  <2>3. a \in events /\ RefsOf(a) = {}
    BY <2>1, <2>2 DEF RefsOf, Left
  <2> QED BY <1>1, <2>3, BeingFreedStays DEF UnreferencedFreed
<1>4. CASE DropControllerRef
  <2> DEFINE b == cutting[position].artifact
  <2>1. /\ refs' = refs \ {<<b, ControllerRef>>}
        /\ events' = IF RefsOf(b) \ {<<b, ControllerRef>>} = {} THEN events \ {b} ELSE events
    BY <1>4 DEF DropControllerRef
  <2> HIDE DEF b
  <2>2. a # b
    BY <2>1 DEF RefsOf, Left
  <2>3. a \in events /\ RefsOf(a) = {}
    BY <2>1, <2>2 DEF RefsOf, Left
  <2> QED BY <1>1, <2>3, BeingFreedStays DEF UnreferencedFreed
<1>5. ASSUME NEW t \in Tasks, NEW n \in 1..MaxAttempts, DropSliceRef(t, n)
      PROVE  BeingFreed(a)'
  <2> DEFINE sl == Cuts[t][attempt[<<t, n>>].slice]
  <2>1. /\ refs' = refs \ {RefOf(sl)}
        /\ \/ /\ attempt'[<<t, n>>].pc = "freeing"
              /\ attempt'[<<t, n>>].slice = attempt[<<t, n>>].slice
           \/ Left(sl.artifact) # {}
    BY <1>5, DropMove
  <2>2. UNCHANGED events /\ t \in 1..Len(Cuts)
    BY <1>5, FreeingSlice DEF DropSliceRef
  <2>3. Cuts'[t] = Cuts[t]
    BY <2>2, CutsStay
  <2>4. CASE sl.artifact = a
    BY <2>1, <2>3, <2>4 DEF BeingFreed, Freeing
  <2>5. CASE sl.artifact # a
    <3>1. RefOf(sl)[1] # a
      BY <2>5 DEF RefOf
    <3>2. RefsOf(a) = {}
      BY <2>1, <3>1 DEF RefsOf, Left
    <3> QED BY <1>1, <2>2, <3>2, BeingFreedStays DEF UnreferencedFreed
  <2> QED BY <2>4, <2>5
<1>6. ASSUME NEW t \in Tasks, NEW n \in 1..MaxAttempts, FreeSlice(t, n)
      PROVE  BeingFreed(a)'
  <2> DEFINE b == SlicesOf(t)[attempt[<<t, n>>].slice].artifact
  <2>1. refs' = refs \ RefsOf(b) /\ events' = events \ {b}
    BY <1>6 DEF FreeSlice
  <2> HIDE DEF b
  <2>2. a \in events /\ RefsOf(a) = {}
    BY <2>1 DEF RefsOf, Left
  <2> QED BY <1>1, <2>2, BeingFreedStays DEF UnreferencedFreed
<1> QED BY <1>2, <1>3, <1>4, <1>5, <1>6, RefFrame

(* The emitter goes on to the next slice, or the shard joins the others.   *)
LEMMA PositionMoves ==
    ASSUME EmitInv, emitter \in Placed, NextPosition, UNCHANGED submitted
    PROVE  /\ position \in 1..Len(cutting) /\ Len(cutting) \in Nat
           /\ \/ position' = position + 1 /\ UNCHANGED <<cutting, Cuts>>
              \/ /\ position = Len(cutting)
                 /\ Len(Cuts) + 1 \in 1..Len(Cuts') /\ Cuts'[Len(Cuts) + 1] = cutting
<1>0. EmitTypes /\ EmitPlaces /\ position \in 1..Len(cutting) /\ Len(cutting) \in Nat
  BY SliceFacts DEF EmitInv, EmitPlaces
<1>1. CASE position < Len(cutting)
  BY <1>0, <1>1 DEF NextPosition, Cuts
<1>2. CASE ~(position < Len(cutting))
  <2>1. position = Len(cutting) /\ cut' = Append(cut, cutting)
    BY <1>0, <1>2 DEF NextPosition
  <2>2. submitted \in Seq(Seq(Slice)) /\ cut \in Seq(Seq(Slice)) /\ cutting \in Seq(Slice)
    BY <1>0 DEF EmitTypes
  <2>3. Cuts' = Append(Cuts, cutting)
    BY <2>1, <2>2, CutsGrown DEF Cuts
  <2>4. Cuts \in Seq(Seq(Slice)) /\ Len(Cuts) \in Nat
    BY <1>0, CutsFacts, SliceFacts
  <2>5. Len(Cuts') = Len(Cuts) + 1 /\ Cuts'[Len(Cuts) + 1] = cutting
    BY <2>2, <2>3, <2>4, AppendProperties
  <2> QED BY <1>0, <2>1, <2>4, <2>5
<1> QED BY <1>1, <1>2

(* The slices of a cut shard explain what they did while it was cut.       *)
LEMMA CutRefStays ==
    ASSUME EmitInv, [Next]_vars, NEW r, CutRef(r)
    PROVE  CutRef(r)'
<1>1. PICK k \in 1..Len(Cuts) : \E i \in 1..Len(Cuts[k]) : r = RefOf(Cuts[k][i])
  BY DEF CutRef
<1>2. k \in 1..Len(Cuts') /\ Cuts'[k] = Cuts[k]
  BY CutsStay
<1> QED BY <1>1, <1>2 DEF CutRef, RefOf, SliceRef

(* Every reference is still explained after a shard is cut off, ...        *)
LEMMA ExplainedCut ==
    ASSUME EmitInv, RefsExplained, [Next]_vars, CutShard
    PROVE  RefsExplained'
<1>0. EmitTypes /\ EmitPlaces /\ SlicesWhole
  BY DEF EmitInv
<1>1. UNCHANGED refs /\ position' = 1 /\ emitter = "splitting"
  BY DEF CutShard, storeVars
<1>2. Len(cutting) = 0
  BY <1>0, <1>1 DEF EmitPlaces, Placed
<1>3. PICK index \in 1..Len(accumulator), m \in Nat : SlicesCut(index, m)
  BY <1>0, CutFacts
<1>4. /\ Len(accumulator) \in Nat /\ accumulator[index] \in Slice
      /\ accumulator[index].end \in Nat
  BY <1>0, SliceFacts, SliceNumbers
<1> SUFFICES ASSUME NEW r \in refs PROVE (RestRef(r) \/ CuttingRef(r) \/ CutRef(r))'
  BY <1>1 DEF RefsExplained
<1>5. CASE CutRef(r)
  BY <1>5, CutRefStays
<1>6. CASE RestRef(r)
  <2>1. PICK i \in 1..Len(accumulator) : r = OwnRef(accumulator[i])
    BY <1>6 DEF RestRef
  <2>2. CASE i <= index
    <3>1. i \in 1..index /\ Len(cutting') = index
      BY <1>3, <2>2 DEF SlicesCut
    <3>2. i \in 1..Len(cutting') /\ i >= position' /\ cutting'[i].artifact = accumulator[i].artifact
      BY <1>1, <1>3, <3>1 DEF SlicesCut
    <3> QED BY <2>1, <3>2 DEF CuttingRef, OwnRef
  <2>3. CASE ~(i <= index)
    <3>1. PICK j \in 1..Len(accumulator') : accumulator'[j] = accumulator[i]
      <4>1. CASE m < accumulator[index].end
        <5>1. /\ Len(accumulator') = Len(accumulator) - index + 1
              /\ \A j \in 2..Len(accumulator') : accumulator'[j] = accumulator[index + j - 1]
          BY <1>3, <4>1 DEF SlicesCut
        <5>2. PICK j : j = i - index + 1
          OBVIOUS
        <5>3. j \in 2..Len(accumulator') /\ j \in 1..Len(accumulator') /\ index + j - 1 = i
          BY <1>4, <2>3, <5>1, <5>2
        <5> QED BY <5>1, <5>3
      <4>2. CASE m = accumulator[index].end
        <5>1. /\ Len(accumulator') = Len(accumulator) - index
              /\ \A j \in 1..Len(accumulator') : accumulator'[j] = accumulator[index + j]
          BY <1>3, <4>2 DEF SlicesCut
        <5>2. PICK j : j = i - index
          OBVIOUS
        <5>3. j \in 1..Len(accumulator') /\ index + j = i
          BY <1>4, <2>3, <5>1, <5>2
        <5> QED BY <5>1, <5>3
      <4>3. m <= accumulator[index].end
        BY <1>3 DEF SlicesCut
      <4> QED BY <1>4, <4>1, <4>2, <4>3
    <3> QED BY <2>1, <3>1 DEF RestRef, OwnRef
  <2> QED BY <2>2, <2>3
<1> QED BY <1>2, <1>5, <1>6 DEF RefsExplained, CuttingRef

(* ... after a list of events came in, ...                                 *)
LEMMA ExplainedAdded ==
    ASSUME EmitInv, RefsExplained, [Next]_vars, AppendEvents
    PROVE  RefsExplained'
<1> DEFINE slices == IF wrapper = 0 THEN <<>> ELSE DeferRecord(current, wrapper)
<1>0. EmitTypes /\ EmitPlaces
  BY DEF EmitInv
<1>1. /\ emitter = "appending" /\ accumulator' = accumulator \o slices
      /\ refs' = refs \cup {<<slices[i].artifact, ControllerRef>> : i \in DOMAIN slices}
      /\ UNCHANGED <<cutting, position>>
  BY DEF AppendEvents
<1>2. slices \in Seq(Slice) /\ Len(slices) \in Nat
  BY <1>0, <1>1, AddedFacts
<1> HIDE DEF slices
<1>3. accumulator \in Seq(Slice) /\ Len(accumulator) \in Nat /\ DOMAIN slices = 1..Len(slices)
  BY <1>0, <1>2, LenProperties DEF EmitTypes
<1>4. /\ Len(accumulator') = Len(accumulator) + Len(slices)
      /\ \A i \in 1..(Len(accumulator) + Len(slices)) : accumulator'[i] =
            IF i <= Len(accumulator) THEN accumulator[i] ELSE slices[i - Len(accumulator)]
  BY <1>1, <1>2, <1>3, ConcatProperties
<1> SUFFICES ASSUME NEW r \in refs' PROVE (RestRef(r) \/ CuttingRef(r) \/ CutRef(r))'
  BY DEF RefsExplained
<1>5. CASE CutRef(r)
  BY <1>5, CutRefStays
<1>6. CASE CuttingRef(r)
  BY <1>1, <1>6 DEF CuttingRef, OwnRef, RefOf, SliceRef
<1>7. CASE RestRef(r)
  <2>1. PICK i \in 1..Len(accumulator) : r = OwnRef(accumulator[i])
    BY <1>7 DEF RestRef
  <2>2. i \in 1..Len(accumulator') /\ accumulator'[i] = accumulator[i]
    BY <1>2, <1>3, <1>4
  <2> QED BY <2>1, <2>2 DEF RestRef, OwnRef
<1>8. ASSUME NEW i \in 1..Len(slices), r = <<slices[i].artifact, ControllerRef>>
      PROVE  RestRef(r)'
  <2>1. PICK j : j = Len(accumulator) + i
    OBVIOUS
  <2>2. j \in 1..(Len(accumulator) + Len(slices)) /\ ~(j <= Len(accumulator))
        /\ j - Len(accumulator) = i
    BY <1>2, <1>3, <2>1
  <2>3. j \in 1..Len(accumulator') /\ accumulator'[j] = slices[i]
    BY <1>4, <2>2
  <2> QED BY <1>8, <2>3 DEF RestRef, OwnRef
<1> QED BY <1>1, <1>3, <1>5, <1>6, <1>7, <1>8 DEF RefsExplained

(* ... and after the emitter added a slice's reference or dropped its own. *)
LEMMA ExplainedMoved ==
    ASSUME EmitInv, RestShared, RefsExplained, [Next]_vars, AddSliceRef \/ DropControllerRef
    PROVE  RefsExplained'
<1> SUFFICES ASSUME NEW r \in refs' PROVE (RestRef(r) \/ CuttingRef(r) \/ CutRef(r))'
  BY DEF RefsExplained
<1>0. /\ emitter \in Placed /\ UNCHANGED <<accumulator, submitted>>
      /\ position \in 1..Len(cutting) /\ Len(cutting) \in Nat
  BY SliceFacts DEF AddSliceRef, DropControllerRef, Placed, EmitInv, EmitPlaces
<1>1. CASE CutRef(r)
  BY <1>1, CutRefStays
<1>2. CASE RestRef(r)
  BY <1>0, <1>2 DEF RestRef, OwnRef
<1>3. ASSUME NEW i \in 1..Len(cutting), r = RefOf(cutting[i])
      PROVE  (CuttingRef(r) \/ CutRef(r))'
  <2>1. CASE UNCHANGED cutting
    BY <1>3, <2>1 DEF CuttingRef, RefOf, SliceRef
  <2>2. CASE Len(Cuts) + 1 \in 1..Len(Cuts') /\ Cuts'[Len(Cuts) + 1] = cutting
    BY <1>3, <2>2 DEF CutRef, RefOf, SliceRef
  <2> QED BY <1>0, <2>1, <2>2, PositionMoves DEF AddSliceRef, DropControllerRef
<1>4. ASSUME NEW i \in 1..Len(cutting), i >= position, r = OwnRef(cutting[i])
      PROVE  (RestRef(r) \/ CuttingRef(r))'
  <2>1. CASE AddSliceRef /\ position = Len(cutting) /\ remainder
    <3>1. i = Len(cutting) /\ cutting # <<>>
      BY <1>0, <1>4, <2>1
    <3>2. 1 \in 1..Len(accumulator) /\ accumulator[1].artifact = cutting[i].artifact
      BY <2>1, <3>1, SliceFacts DEF RestShared, EmitInv
    <3> QED BY <1>0, <1>4, <3>2 DEF RestRef, OwnRef
  <2>2. CASE AddSliceRef /\ ~(position = Len(cutting) /\ remainder)
    <3>1. UNCHANGED <<cutting, position>>
      BY <2>2 DEF AddSliceRef
    <3> QED BY <1>4, <3>1 DEF CuttingRef, OwnRef
  <2>3. CASE DropControllerRef
    <3>1. NextPosition /\ r # OwnRef(cutting[position])
      BY <2>3 DEF DropControllerRef, OwnRef
    <3>2. i >= position + 1 /\ position # Len(cutting)
      BY <1>0, <1>4, <3>1
    <3>3. position' = position + 1 /\ UNCHANGED cutting
      BY <1>0, <3>1, <3>2, PositionMoves
    <3> QED BY <1>4, <3>2, <3>3 DEF CuttingRef, OwnRef
  <2> QED BY <2>1, <2>2, <2>3
<1>5. r \in refs \/ r = RefOf(cutting[position])
  BY DEF AddSliceRef, DropControllerRef, RefOf
<1> QED BY <1>0, <1>1, <1>2, <1>3, <1>4, <1>5 DEF RefsExplained, CuttingRef

(* Every step keeps RefsExplained.                                         *)
LEMMA RefsExplainedStep ==
    ASSUME EmitInv, WorkerInv, RestShared, RefsExplained, [Next]_vars
    PROVE  RefsExplained'
<1>1. ASSUME refs' \subseteq refs, UNCHANGED <<accumulator, cutting, position>>
      PROVE  RefsExplained'
  <2> SUFFICES ASSUME NEW r \in refs PROVE (RestRef(r) \/ CuttingRef(r) \/ CutRef(r))'
    BY <1>1 DEF RefsExplained
  <2>1. CutRef(r) => CutRef(r)'
    BY CutRefStays
  <2>2. RestRef(r) => RestRef(r)'
    BY <1>1 DEF RestRef, OwnRef
  <2>3. CuttingRef(r) => CuttingRef(r)'
    BY <1>1 DEF CuttingRef, OwnRef, RefOf, SliceRef
  <2> QED BY <2>1, <2>2, <2>3 DEF RefsExplained
<1>2. ASSUME ~AppendEvents, ~AddSliceRef
      PROVE  refs' \subseteq refs
  BY <1>2, RefFrame DEF UploadDeferred, DropControllerRef, DropSliceRef, FreeSlice
<1>3. ASSUME ~AppendEvents, ~AddSliceRef, ~DropControllerRef, ~CutShard
      PROVE  UNCHANGED <<accumulator, cutting, position>>
  <2>1. CASE UNCHANGED EmitView
    BY <2>1 DEF EmitView, emitVars
  <2>2. ASSUME NEW s \in Shards, SubmitCoreShard(s)
        PROVE  UNCHANGED <<accumulator, cutting, position>>
    BY <2>2 DEF SubmitCoreShard, emitVars
  <2>3. ASSUME NEW s \in Shards, NEW n \in 1..MaxAttempts, UploadDeferred(s, n)
        PROVE  UNCHANGED <<accumulator, cutting, position>>
    BY <2>3 DEF UploadDeferred, emitVars
  <2>4. CASE Emitter
    BY <1>3, <2>4 DEF Emitter, ListenerReceive, ReceiveMarker, DownloadWrapper, EndOfStream,
                      SubmitPrecompileShard, AllSubmitted, ReceiveFailedMarker, SubmitRefused,
                      EmitterFails, emitVars
  <2>5. CASE ProofEnds
    BY <2>5 DEF ProofEnds, emitVars
  <2> QED BY <2>1, <2>2, <2>3, <2>4, <2>5, EmitFrame
<1> QED BY <1>1, <1>2, <1>3, ExplainedCut, ExplainedAdded, ExplainedMoved

(* No step gives a slice of a cut shard a reference.                       *)
LEMMA RefStaysGone ==
    ASSUME EmitInv, WorkerInv, [Next]_vars,
           NEW k \in 1..Len(Cuts), NEW i \in 1..Len(Cuts[k]), RefOf(Cuts[k][i]) \notin refs
    PROVE  RefOf(Cuts[k][i]) \notin refs'
<1> DEFINE x == Cuts[k][i]
<1>0. EmitTypes /\ EmitPlaces /\ SlicesWhole /\ SlicesApart
  BY DEF EmitInv
<1>1. x \in Slice /\ Whole(x)
  BY <1>0, SliceFacts DEF SlicesWhole
<1>2. CASE refs' \subseteq refs
  BY <1>2
<1>3. CASE AppendEvents
  <2>1. \A r \in refs' : r \in refs \/ r[2] = ControllerRef
    BY <1>3 DEF AppendEvents
  <2>2. RefOf(x)[2] # ControllerRef
    BY <1>1, SliceKeys DEF RefOf
  <2> QED BY <2>1, <2>2
<1>4. CASE AddSliceRef
  <2> DEFINE y == cutting[position]
  <2>1. position \in 1..Len(cutting) /\ refs' = refs \cup {RefOf(y)}
    BY <1>0, <1>4 DEF AddSliceRef, EmitPlaces, Placed, RefOf
  <2>2. y \in Slice /\ Whole(y) /\ Disjoint(x, y)
    BY <1>0, <2>1, SliceFacts DEF SlicesWhole, SlicesApart, RestApart
  <2>3. RefOf(x) # RefOf(y)
    BY <1>1, <2>2, SliceKeys DEF RefOf
  <2> QED BY <2>1, <2>3
<1> QED BY <1>2, <1>3, <1>4, RefFrame
        DEF UploadDeferred, DropControllerRef, DropSliceRef, FreeSlice

(* A shard with a proof was submitted.                                     *)
LEMMA ProvedSubmitted ==
    ASSUME EmitInv, WorkerInv, NEW p \in Nat, p \in outputs
    PROVE  p \in Tasks /\ p \in 1..Len(Cuts)
<1>1. WorkerTypes /\ DeliveredOnly /\ EmitTypes
  BY DEF WorkerInv, EmitInv
<1>2. p \in Tasks /\ p \in Precompiles /\ p \in Nat \ {0} /\ delivered[p] > 0
  BY <1>1, TaskFacts DEF WorkerTypes, DeliveredOnly
<1>3. ~(p > Len(submitted))
  BY <1>1, <1>2 DEF DeliveredOnly
<1> QED BY <1>1, <1>2, <1>3, CutsFacts

(* An attempt that drops references goes on doing so.                      *)
LEMMA DropsStay ==
    ASSUME EmitInv, WorkerInv, RefInv, [Next]_vars,
           NEW p \in 1..Len(Cuts), p \in Tasks, NEW n \in 1..MaxAttempts, Drops(p, n)
    PROVE  Drops(p, n)'
<1> DEFINE e == attempt[<<p, n>>]
<1>0. /\ EmitTypes /\ WorkerTypes /\ Moved(p, n) /\ Cuts'[p] = Cuts[p]
      /\ Len(Cuts[p]) \in Nat
  BY AttemptMoves, CutsStay, SliceFacts DEF EmitInv, WorkerInv
<1>1. /\ e.pc \in Late \cup {"ended"}
      /\ \A i \in 1..Len(Cuts[p]) : i < Past(p, n) => RefOf(Cuts[p][i]) \notin refs
  BY DEF Drops, HasRef, RefOf
<1>2. \A i \in 1..Len(Cuts[p]) : RefOf(Cuts[p][i]) \notin refs => RefOf(Cuts[p][i]) \notin refs'
  BY RefStaysGone
<1>3. ASSUME attempt'[<<p, n>>].pc \in Late \cup {"ended"},
             \A i \in 1..Len(Cuts[p]) : i < Past(p, n)' => RefOf(Cuts[p][i]) \notin refs'
      PROVE  Drops(p, n)'
  BY <1>0, <1>3 DEF Drops, HasRef, RefOf, SliceRef
<1>4. CASE attempt'[<<p, n>>] = e
  <2>1. Past(p, n)' = Past(p, n)
    BY <1>0, <1>4 DEF Past
  <2> QED BY <1>1, <1>2, <1>3, <1>4, <2>1
<1>5. ASSUME e.pc \in {"dropping", "freeing"}, NextSlice(p, n),
             RefOf(Cuts[p][e.slice]) \notin refs'
      PROVE  Drops(p, n)'
  <2>1. e.slice \in 1..Len(Cuts[p])
    BY <1>5, FreeingSlice
  <2>2. Past(p, n) = e.slice
    BY <1>5 DEF Past
  <2>3. \/ attempt'[<<p, n>>].pc = "dropping" /\ attempt'[<<p, n>>].slice = e.slice + 1
        \/ attempt'[<<p, n>>].pc = "finishing" /\ e.slice = Len(Cuts[p])
    BY <1>5, NextMove
  <2>4. Past(p, n)' = e.slice + 1
    BY <1>0, <2>3 DEF Past
  <2>5. ASSUME NEW i \in 1..Len(Cuts[p]), i < e.slice + 1
        PROVE  RefOf(Cuts[p][i]) \notin refs'
    <3>1. i = e.slice \/ i < e.slice
      BY <2>1, <2>5
    <3> QED BY <1>1, <1>2, <1>5, <2>2, <3>1
  <2> QED BY <1>3, <2>3, <2>4, <2>5 DEF Late
<1>6. CASE DropSliceRef(p, n)
  <2>1. e.pc = "dropping" /\ RefOf(Cuts[p][e.slice]) \notin refs'
    BY <1>6, DropMove DEF DropSliceRef
  <2>2. CASE NextSlice(p, n)
    BY <1>5, <2>1, <2>2
  <2>3. CASE attempt'[<<p, n>>].pc = "freeing" /\ attempt'[<<p, n>>].slice = e.slice
    <3>1. Past(p, n)' = Past(p, n)
      BY <2>1, <2>3 DEF Past
    <3> QED BY <1>1, <1>2, <1>3, <2>3, <3>1 DEF Late
  <2> QED BY <1>6, <2>2, <2>3, DropMove
<1>7. CASE FreeSlice(p, n)
  <2>1. e.pc = "freeing" /\ NextSlice(p, n) /\ e.slice \in 1..Len(Cuts[p])
    BY <1>7, FreeingSlice DEF FreeSlice
  <2>2. RefsOf(Cuts[p][e.slice].artifact) = {}
    BY <2>1 DEF RefInv, FreedUnreferenced, Freeing
  <2>3. RefOf(Cuts[p][e.slice]) \notin refs
    BY <2>2 DEF RefsOf, RefOf
  <2> QED BY <1>2, <1>5, <2>1, <2>3
<1>8. CASE e.pc = "finishing" /\ attempt'[<<p, n>>].pc = "ended"
  <2>1. Past(p, n)' = Past(p, n)
    BY <1>0, <1>8 DEF Past
  <2> QED BY <1>1, <1>2, <1>3, <1>8, <2>1
<1>9. p \notin Shards
  <2>1. p \in Nat
    BY <1>0, CutsFacts
  <2> QED BY <2>1, ShardsAssumption
<1> QED BY <1>0, <1>1, <1>4, <1>6, <1>7, <1>8, <1>9 DEF Moved, Late, Early

(* Every step keeps ProofDrops.                                            *)
LEMMA ProofDropsStep ==
    ASSUME EmitInv, WorkerInv, RefInv, ProofDrops, [Next]_vars, ~ended'
    PROVE  ProofDrops'
<1> SUFFICES ASSUME NEW p \in 1..Len(Cuts'), p \in outputs'
             PROVE  \E n \in 1..MaxAttempts : Drops(p, n)'
  BY DEF ProofDrops
<1>1. CASE p \in outputs
  <2>1. p \in Tasks /\ p \in 1..Len(Cuts)
    BY <1>1, ProvedSubmitted
  <2>2. PICK n \in 1..MaxAttempts : Drops(p, n)
    BY <1>1, <2>1 DEF ProofDrops
  <2> QED BY <2>1, <2>2, DropsStay
<1>2. CASE p \notin outputs
  <2>1. PICK n \in 1..MaxAttempts : p \in Tasks /\ Prove(p, n)
    <3>1. ASSUME UNCHANGED WorkerView \/ SubmitPrecompileShard \/ (\E t \in Tasks : Redeliver(t))
                 \/ (\E s \in Shards : SubmitCoreShard(s))
                 \/ \E s \in Shards, n \in 1..MaxAttempts : DeferredUpload(s, n)
          PROVE  UNCHANGED outputs
      BY <3>1 DEF WorkerView, SubmitPrecompileShard, Redeliver, SubmitCoreShard, DeferredUpload,
                  UploadDeferred, CompleteMarker, UploadFails, storeVars
    <3>2. PICK t \in Tasks, n \in 1..MaxAttempts : Worker(t, n)
      BY <1>2, <3>1, WorkerFrame, StillOpen
    <3>3. Prove(t, n) \/ UNCHANGED outputs
      BY <3>2 DEF Worker, Start, TraceFails, DownloadEvents, DropSliceRef, FreeSlice, Finish,
                  JoinFails, Fail, storeVars
    <3>4. Prove(t, n) /\ p = t
      BY <1>2, <3>3 DEF Prove
    <3> QED BY <3>4
  <2>2. p \in Precompiles
    BY <2>1, TaskFacts
  <2>3. attempt' = [attempt EXCEPT ![<<p, n>>] = [pc |-> "dropping", slice |-> 1]]
    BY <1>2, <2>1, <2>2 DEF Prove
  <2>4. attempt'[<<p, n>>].pc = "dropping" /\ attempt'[<<p, n>>].slice = 1
    <3>1. <<p, n>> \in Attempts /\ WorkerTypes
      BY <2>1 DEF Attempts, WorkerInv
    <3>2. attempt'[<<p, n>>] = [pc |-> "dropping", slice |-> 1]
      BY <2>3, <3>1 DEF WorkerTypes
    <3> QED BY <3>2
  <2>5. Past(p, n)' = 1
    BY <2>4 DEF Past
  <2> QED BY <2>4, <2>5 DEF Drops, Late
<1> QED BY <1>1, <1>2

(* Nothing is stored at the start.                                         *)
LEMMA FreedInitial == Init => FreedOpen
<1> SUFFICES ASSUME Init PROVE FreedInv
  BY DEF FreedOpen
<1>1. /\ events = {} /\ refs = {} /\ outputs = {} /\ remainder = FALSE
      /\ submitted = <<>> /\ cut = <<>> /\ cutting = <<>> /\ accumulator = <<>>
      /\ wrappers = [s \in Shards |-> 0] /\ emitter = "waiting"
      /\ upload = [a \in Shards \X (1..MaxAttempts) |-> "none"]
      /\ status = [t \in Tasks |-> "unsubmitted"]
  BY DEF Init
<1>2. Len(Cuts) = 0
  BY <1>1, EmitInitial, CutsFacts DEF EmitInv
<1>4. \A a : ~Used(a)
  BY <1>1, <1>2 DEF Used
<1>5. UsedListed
  BY <1>1, <1>4 DEF UsedListed
<1>6. UnreferencedFreed /\ RefsExplained /\ RestShared
  BY <1>1 DEF UnreferencedFreed, RefsExplained, RestShared
<1>7. ProofDrops /\ SuccessStored
  BY <1>1 DEF ProofDrops, SuccessStored
<1> QED BY <1>5, <1>6, <1>7 DEF FreedInv

(* Every step keeps FreedInv.                                              *)
LEMMA FreedStep ==
    ASSUME EmitInv, WorkerInv, RefInv, FreedInv, [Next]_vars, ~ended'
    PROVE  FreedInv'
<1> USE DEF FreedInv
<1>1. UsedListed'
  BY UsedListedStep
<1>2. UnreferencedFreed'
  BY RefStep, UnreferencedStep
<1>3. RefsExplained' /\ RestShared'
  BY RefsExplainedStep, RestSharedStep
<1>4. ProofDrops' /\ SuccessStored'
  BY ProofDropsStep, SuccessStep
<1> QED BY <1>1, <1>2, <1>3, <1>4

(* The reference counts free what they guard: once emit_precompile_shards  *)
(* has returned, every task has succeeded and no worker runs, no event     *)
(* artifact of a submitted shard is stored, whatever was retried,          *)
(* delivered twice or dropped by two workers at once, unless the proof has *)
(* ended.                                                                  *)
THEOREM FreedCorrect == Spec => []EventsFreed
<1>1. EmitInv /\ WorkerInv /\ [Next]_vars => WorkerInv'
  BY WorkerStep
<1>2. EmitInv /\ WorkerInv /\ CoverInv /\ [Next]_vars => CoverInv'
  BY CoverStep
<1>3. EmitInv /\ WorkerInv /\ RefOpen /\ [Next]_vars => RefOpen'
  BY RefStep, StillOpen DEF RefOpen
<1>4. EmitInv /\ WorkerInv /\ RefOpen /\ FreedOpen /\ [Next]_vars => FreedOpen'
  BY FreedStep, StillOpen DEF RefOpen, FreedOpen
<1>5. EmitInv /\ WorkerInv /\ CoverInv /\ FreedOpen => EventsFreed
  BY FreedAtEnd
<1> QED BY <1>1, <1>2, <1>3, <1>4, <1>5, EmitAlways, WorkerInitial, CoverInitial, RefInitial,
           FreedInitial, PTL DEF Spec

=============================================================================
