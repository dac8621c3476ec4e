------------------------- MODULE CompressTreeProofs -------------------------
(***************************************************************************)
(* Theorems about CompressTree, for every set of tasks, every assignment   *)
(* of ranges and every batch size of at least 2.                           *)
(***************************************************************************)
EXTENDS CompressTree, FiniteSetTheorems, SequenceTheorems, TLAPS

USE TasksAssumption, RangeAssumption, BatchSizeAssumption, FailingAssumption,
    NoneAssumption

-----------------------------------------------------------------------------
(* The operators of the tree keep the shape of their arguments.            *)

(* A sequence with elements is not the empty one.                          *)
LEMMA NotEmpty ==
    ASSUME NEW q, Len(q) > 0
    PROVE  q # <<>>
OBVIOUS

(* A shard task's proof is a proof.                                        *)
LEMMA ToProofType ==
    ASSUME NEW t \in Tasks
    PROVE  ToProof(t) \in Proofs
BY DEF ToProof, Proofs

(* Widening a range gives a range.                                         *)
LEMMA WidenType ==
    ASSUME NEW r \in Ranges, NEW s \in Ranges
    PROVE  Widen(r, s) \in Ranges
BY DEF Widen, Ranges

(* The RangeProofs that spans a non-empty sequence of proofs.              *)
LEMMA SpanningType ==
    ASSUME NEW q \in Seq(Proofs), q # <<>>
    PROVE  Spanning(q) \in RangeProofs
<1>1. Len(q) \in Nat /\ 1 \in 1..Len(q) /\ Len(q) \in 1..Len(q)
  OBVIOUS
<1>2. q[1] \in Proofs /\ q[Len(q)] \in Proofs
  BY <1>1
<1>3. QED
  BY <1>2 DEF Spanning, RangeProofs, Proofs, Ranges

(* The siblings of a proof are entries of the tree.                        *)
LEMMA SiblingsInMap ==
    ASSUME NEW x
    PROVE  /\ LeftSibling(x) \subseteq map
           /\ RightSibling(x) \subseteq map
           /\ LeftSibling(x) # {} => The(LeftSibling(x)) \in LeftSibling(x)
           /\ RightSibling(x) # {} => The(RightSibling(x)) \in RightSibling(x)
BY DEF LeftSibling, RightSibling, The

(* Merging a proof with its siblings gives a non-empty RangeProofs.        *)
LEMMA MergedType ==
    ASSUME map \subseteq RangeProofs, NEW x \in Proofs
    PROVE  Merged(x) \in RangeProofs /\ Merged(x).proofs # <<>>
<1> DEFINE l == LeftSibling(x)
           r == RightSibling(x)
           lp == IF l = {} THEN <<>> ELSE The(l).proofs
           rp == IF r = {} THEN <<>> ELSE The(r).proofs
           s == IF l = {} THEN x.range.start ELSE The(l).range.start
           e == IF r = {} THEN x.range.end ELSE The(r).range.end
<1>1. l # {} => The(l) \in RangeProofs
  BY SiblingsInMap
<1>2. r # {} => The(r) \in RangeProofs
  BY SiblingsInMap
<1>3. lp \in Seq(Proofs) /\ rp \in Seq(Proofs)
  BY <1>1, <1>2 DEF RangeProofs
<1>4. s \in Nat /\ e \in Nat
  BY <1>1, <1>2 DEF RangeProofs, Ranges, Proofs
<1>5. Merged(x) = [range |-> [start |-> s, end |-> e], proofs |-> lp \o <<x>> \o rp]
  BY DEF Merged
<1> HIDE DEF l, r, lp, rp, s, e
<1>6. <<x>> \in Seq(Proofs) /\ Len(<<x>>) = 1
  OBVIOUS
<1>7. /\ lp \o <<x>> \o rp \in Seq(Proofs)
      /\ Len(lp \o <<x>> \o rp) = Len(lp) + 1 + Len(rp)
  BY <1>3, <1>6
<1>8. lp \o <<x>> \o rp # <<>>
  BY <1>3, <1>7
<1>9. QED
  BY <1>4, <1>5, <1>7, <1>8 DEF RangeProofs, Ranges

(* split_off keeps a RangeProofs and puts a RangeProofs back.              *)
LEMMA SplitType ==
    ASSUME NEW tree, tree \subseteq RangeProofs,
           NEW rp \in RangeProofs, rp.proofs # <<>>
    PROVE  /\ Kept(rp) \in RangeProofs
           /\ Kept(rp).proofs # <<>>
           /\ PutBack(tree, rp) \subseteq RangeProofs
<1> DEFINE q == rp.proofs
           n == Len(q)
<1>1. q \in Seq(Proofs) /\ n \in Nat
  BY DEF RangeProofs
<1>2. CASE n > BatchSize
  <2>1. /\ SubSeq(q, 1, BatchSize) \in Seq(Proofs)
        /\ Len(SubSeq(q, 1, BatchSize)) = BatchSize
    BY <1>1, <1>2
  <2>2. /\ SubSeq(q, BatchSize + 1, n) \in Seq(Proofs)
        /\ Len(SubSeq(q, BatchSize + 1, n)) = n - BatchSize
    BY <1>1, <1>2
  <2>3. SubSeq(q, 1, BatchSize) # <<>> /\ SubSeq(q, BatchSize + 1, n) # <<>>
    <3>1. Len(SubSeq(q, 1, BatchSize)) > 0 /\ Len(SubSeq(q, BatchSize + 1, n)) > 0
      BY <2>1, <2>2, <1>1, <1>2
    <3>2. QED
      BY <3>1, NotEmpty, Zenon
  <2>4. /\ Spanning(SubSeq(q, 1, BatchSize)) \in RangeProofs
        /\ Spanning(SubSeq(q, BatchSize + 1, n)) \in RangeProofs
    BY <2>1, <2>2, <2>3, SpanningType
  <2>5. Spanning(SubSeq(q, 1, BatchSize)).proofs = SubSeq(q, 1, BatchSize)
    BY DEF Spanning
  <2>6. QED
    BY <1>2, <2>3, <2>4, <2>5 DEF Kept, PutBack, Insert
<1>3. CASE ~(n > BatchSize)
  BY <1>3 DEF Kept, PutBack
<1>4. QED
  BY <1>2, <1>3

(* Reducing a batch gives a proof.                                         *)
LEMMA ReducedType ==
    ASSUME NEW rp \in RangeProofs
    PROVE  Reduced(rp) \in Proofs
<1>1. rp.proofs \in Seq(Proofs) /\ rp.range \in Ranges
  BY DEF RangeProofs
<1>2. \A i \in 1..Len(rp.proofs) : rp.proofs[i] \in Proofs
  BY <1>1
<1>3. \A i \in 1..Len(rp.proofs) : rp.proofs[i].leaves \subseteq Tasks
  BY <1>2 DEF Proofs
<1>4. UNION {rp.proofs[i].leaves : i \in 1..Len(rp.proofs)} \subseteq Tasks
  BY <1>3
<1>5. QED
  BY <1>1, <1>4 DEF Reduced, Proofs

(* Sending a proof, or nothing, gives a queue of proofs, one longer when   *)
(* there was a proof to send.                                              *)
LEMMA SendType ==
    ASSUME NEW queue \in Seq(Proofs), NEW x \in Proofs \cup {None}
    PROVE  /\ Send(queue, x) \in Seq(Proofs)
           /\ Len(Send(queue, x)) = Len(queue) + (IF x = None THEN 0 ELSE 1)
BY DEF Send

-----------------------------------------------------------------------------
(* The type invariant needs the accounting of pending_tasks: without it    *)
(* the decrement could leave the naturals.  The accounting needs the ids   *)
(* of the reduce tasks to be fresh.                                        *)

ReduceIdsFresh ==
    /\ IsFiniteSet(reducing)
    /\ \A r \in reducing : r.id < submitted

PendingInv == TypeOK /\ ReduceIdsFresh /\ PendingAccounted

(* Adding a task with a fresh id makes one more task in flight.            *)
LEMMA AddReduce ==
    ASSUME PendingInv, NEW r, r.id = submitted
    PROVE  /\ IsFiniteSet(reducing \cup {r})
           /\ Cardinality(reducing \cup {r}) = Cardinality(reducing) + 1
<1>1. r \notin reducing
  BY DEF PendingInv, ReduceIdsFresh, TypeOK
<1>2. QED
  BY <1>1, FS_AddElement DEF PendingInv, ReduceIdsFresh

(* Removing one makes one less.                                            *)
LEMMA RemoveReduce ==
    ASSUME PendingInv, NEW r \in reducing
    PROVE  /\ IsFiniteSet(reducing \ {r})
           /\ Cardinality(reducing \ {r}) = Cardinality(reducing) - 1
BY FS_RemoveElement DEF PendingInv, ReduceIdsFresh

(* The inductive invariant holds before anything has been received.        *)
LEMMA PendingInit == Init => PendingInv
<1> SUFFICES ASSUME Init PROVE PendingInv
  OBVIOUS
<1>1. IsFiniteSet({}) /\ Cardinality({}) = 0
  BY FS_EmptySet
<1>2. TypeOK
  BY DEF Init, TypeOK, Precompile, Ranges, Statuses, Results
<1>3. ReduceIdsFresh /\ PendingAccounted
  BY <1>1 DEF Init, ReduceIdsFresh, PendingAccounted
<1>4. QED
  BY <1>2, <1>3 DEF PendingInv

(* It is kept by the steps that leave the tree, its queue and the proof    *)
(* held back alone.                                                        *)
LEMMA PendingIntake ==
    ASSUME PendingInv,
           \/ \E t \in Tasks : ShardEnds(t) \/ IntakeReceive(t)
           \/ IntakeInsert \/ IntakeClosed \/ ReduceRefused \/ UNCHANGED vars
    PROVE  PendingInv'
<1> USE DEF PendingInv, taskVars, intakeVars, sharedVars, coreVars, treeVars
<1>1. ASSUME NEW t \in Tasks, ShardEnds(t) PROVE TypeOK'
  BY <1>1 DEF ShardEnds, TypeOK, Statuses
<1>2. ASSUME NEW t \in Tasks, IntakeReceive(t) PROVE TypeOK'
  BY <1>2 DEF IntakeReceive, TypeOK
<1>3. CASE IntakeInsert
  BY <1>3 DEF IntakeInsert, TypeOK, ReduceIdsFresh, PendingAccounted
<1>4. CASE IntakeClosed
  BY <1>4 DEF IntakeClosed, TypeOK, ReduceIdsFresh, PendingAccounted
<1>5. CASE UNCHANGED vars
  BY <1>5 DEF vars, TypeOK, ReduceIdsFresh, PendingAccounted
<1>6. ASSUME NEW t \in Tasks, ShardEnds(t) \/ IntakeReceive(t)
      PROVE  ReduceIdsFresh' /\ PendingAccounted'
  BY <1>6 DEF ShardEnds, IntakeReceive, ReduceIdsFresh, PendingAccounted
<1>7. CASE ReduceRefused
  BY <1>7 DEF ReduceRefused, LoopFails, TypeOK, Results, ReduceIdsFresh, PendingAccounted
<1>8. QED
  BY <1>1, <1>2, <1>3, <1>4, <1>5, <1>6, <1>7

(* It is kept when the number of shard proofs arrives, which may release   *)
(* the proof held back to the queue.                                       *)
LEMMA PendingNumCoreProofs ==
    ASSUME PendingInv, ReceiveNumCoreProofs
    PROVE  PendingInv'
<1> USE DEF PendingInv, taskVars, intakeVars, sharedVars
<1>1. /\ lastCoreProof \in Proofs \cup {None} /\ proofQueue \in Seq(Proofs)
      /\ Send(proofQueue, lastCoreProof) \in Seq(Proofs)
      /\ Len(Send(proofQueue, lastCoreProof))
           = Len(proofQueue) + (IF lastCoreProof = None THEN 0 ELSE 1)
  BY SendType DEF TypeOK
<1>2. TypeOK'
  BY <1>1 DEF ReceiveNumCoreProofs, TypeOK
<1>3. ReduceIdsFresh'
  BY DEF ReceiveNumCoreProofs, ReduceIdsFresh
<1>4. PendingAccounted'
  <2>1. Cardinality(reducing) \in Nat /\ Len(proofQueue) \in Nat
    BY FS_CardinalityType DEF ReduceIdsFresh, TypeOK
  <2>2. QED
    BY <1>1, <2>1 DEF ReceiveNumCoreProofs, PendingAccounted, TypeOK
<1>5. QED
  BY <1>2, <1>3, <1>4

(* It is kept when a shard proof is ready, fails or is unknown.            *)
LEMMA PendingCoreEvent ==
    ASSUME PendingInv, NEW t \in Tasks, ReceiveCoreEvent(t)
    PROVE  PendingInv'
<1> USE DEF PendingInv, taskVars, intakeVars, sharedVars, coreVars, treeVars
<1>1. CASE LoopFails
  BY <1>1 DEF LoopFails, TypeOK, Results, ReduceIdsFresh, PendingAccounted
<1>2. CASE subscribed' = subscribed \ {t} /\ ShardProofUnknown(t)
  BY <1>2 DEF ShardProofUnknown, TypeOK, ReduceIdsFresh, PendingAccounted
<1>3. CASE subscribed' = subscribed \ {t} /\ ShardProofReady(t)
  <2> DEFINE sent == Send(proofQueue, lastCoreProof)
  <2>0. lastCoreProof \in Proofs \cup {None} /\ proofQueue \in Seq(Proofs)
    BY DEF TypeOK
  <2>1. /\ sent \in Seq(Proofs)
        /\ Len(sent) = Len(proofQueue) + (IF lastCoreProof = None THEN 0 ELSE 1)
        /\ Len(proofQueue) \in Nat
    BY <2>0, SendType
  <2>2. ToProof(t) \in Proofs /\ ToProof(t) # None
    BY ToProofType
  <2>3. Append(sent, ToProof(t)) \in Seq(Proofs)
        /\ Len(Append(sent, ToProof(t))) = Len(sent) + 1
    BY <2>1, <2>2
  <2>4. Widen(maxRange, RangeOf[t]) \in Ranges
    BY WidenType DEF TypeOK
  <2>5. Cardinality(reducing) \in Nat
    BY FS_CardinalityType DEF ReduceIdsFresh
  <2> HIDE DEF sent
  <2>6. \/ /\ fullRange' = maxRange'
           /\ proofQueue' = Append(sent, ToProof(t))
           /\ lastCoreProof' = None
        \/ /\ fullRange' = fullRange
           /\ proofQueue' = sent
           /\ lastCoreProof' = ToProof(t)
    BY <1>3 DEF ShardProofReady, sent
  <2>7. TypeOK'
    <3>1. /\ proofQueue' \in Seq(Proofs)
          /\ lastCoreProof' \in Proofs \cup {None}
          /\ maxRange' \in Ranges
          /\ fullRange' \in Ranges \cup {None}
      BY <1>3, <2>1, <2>2, <2>3, <2>4, <2>6 DEF ShardProofReady, TypeOK
    <3>2. QED
      BY <1>3, <3>1 DEF ShardProofReady, TypeOK
  <2>8. ReduceIdsFresh'
    BY <1>3 DEF ShardProofReady, ReduceIdsFresh
  <2>9. PendingAccounted'
    <3>1. /\ pendingTasks' = pendingTasks + 1
          /\ reducing' = reducing
      BY <1>3 DEF ShardProofReady
    <3>2. Len(proofQueue') + (IF lastCoreProof' = None THEN 0 ELSE 1)
            = Len(proofQueue) + (IF lastCoreProof = None THEN 0 ELSE 1) + 1
      BY <2>1, <2>2, <2>3, <2>6
    <3>3. Len(proofQueue') \in Nat
      BY <2>1, <2>2, <2>3, <2>6
    <3>4. QED
      BY <2>1, <2>5, <3>1, <3>2, <3>3 DEF PendingAccounted, TypeOK
  <2>10. QED
    BY <2>7, <2>8, <2>9
<1>4. QED
  BY <1>1, <1>2, <1>3 DEF ReceiveCoreEvent

(* It is kept when a reduce task has ended: its proof moves to the queue.  *)
LEMMA PendingReduceEvent ==
    ASSUME PendingInv, NEW r \in reducing, ReceiveReduceEvent(r)
    PROVE  PendingInv'
<1> USE DEF PendingInv, taskVars, intakeVars, sharedVars, coreVars, treeVars
<1>1. CASE LoopFails
  BY <1>1 DEF LoopFails, TypeOK, Results, ReduceIdsFresh, PendingAccounted
<1>2. CASE /\ reducing' = reducing \ {r}
           /\ proofQueue' = Append(proofQueue, r.proof)
           /\ output' = IF r.isComplete THEN r.proof ELSE output
           /\ UNCHANGED <<taskVars, intakeVars, sharedVars, coreVars,
                          pendingTasks, map, submitted, result>>
  <2>1. r.proof \in Proofs
    BY DEF TypeOK
  <2>2. TypeOK'
    BY <1>2, <2>1 DEF TypeOK
  <2>3. ReduceIdsFresh'
    BY <1>2, RemoveReduce DEF ReduceIdsFresh
  <2>4. PendingAccounted'
    <3>1. Cardinality(reducing) \in Nat /\ Len(proofQueue) \in Nat
      BY FS_CardinalityType DEF ReduceIdsFresh, TypeOK
    <3>2. Len(proofQueue') = Len(proofQueue) + 1
      BY <1>2, <2>1 DEF TypeOK
    <3>3. Cardinality(reducing') = Cardinality(reducing) - 1
      BY <1>2, RemoveReduce
    <3>4. QED
      BY <1>2, <3>1, <3>2, <3>3 DEF PendingAccounted, TypeOK
  <2>5. QED
    BY <2>2, <2>3, <2>4
<1>3. QED
  BY <1>1, <1>2 DEF ReceiveReduceEvent

(* A proof that is received was counted, so the decrement stays a natural. *)
LEMMA QueueCounted ==
    ASSUME PendingInv, proofQueue # <<>>
    PROVE  /\ pendingTasks - 1 \in Nat
           /\ Head(proofQueue) \in Proofs
           /\ Tail(proofQueue) \in Seq(Proofs)
           /\ Len(Tail(proofQueue)) = Len(proofQueue) - 1
           /\ Len(proofQueue) \in Nat
           /\ Cardinality(reducing) \in Nat
<1>1. proofQueue \in Seq(Proofs) /\ pendingTasks \in Nat
  BY DEF PendingInv, TypeOK
<1>2. Len(proofQueue) \in Nat /\ Len(proofQueue) >= 1
  BY <1>1
<1>3. Cardinality(reducing) \in Nat
  BY FS_CardinalityType DEF PendingInv, ReduceIdsFresh
<1>4. pendingTasks >= 1
  BY <1>1, <1>2, <1>3 DEF PendingInv, PendingAccounted
<1>5. QED
  BY <1>1, <1>2, <1>3, <1>4

(* It is kept when a proof enters the tree: what leaves the queue is       *)
(* parked, or becomes part of one more reduce task.                        *)
LEMMA PendingReceiveProof ==
    ASSUME PendingInv, ReceiveProof
    PROVE  PendingInv'
<1> DEFINE p == Head(proofQueue)
<1>1. proofQueue # <<>> /\ proofQueue' = Tail(proofQueue)
  BY DEF ReceiveProof
<1>2. /\ p \in Proofs
      /\ Merged(p) \in RangeProofs
      /\ Merged(p).proofs # <<>>
  BY <1>1, QueueCounted, MergedType DEF PendingInv, TypeOK
<1>3. /\ UNCHANGED <<status, handling, seenTasks, seenRanges, counted, numChannel>>
      /\ UNCHANGED <<coreProofMap, subscribed, numCoreProofs, completed>>
      /\ UNCHANGED <<lastCoreProof, maxRange, fullRange, output>>
  BY DEF ReceiveProof, taskVars, intakeVars, sharedVars, coreVars
<1>4. SUFFICES ASSUME
        /\ map' \subseteq RangeProofs
        /\ result' \in Results
        /\ \/ /\ pendingTasks' = pendingTasks - 1
              /\ UNCHANGED <<submitted, reducing>>
           \/ \E r \in [id : Nat, proof : Proofs, isComplete : BOOLEAN] :
                 /\ r.id = submitted
                 /\ pendingTasks' = pendingTasks
                 /\ submitted' = submitted + 1
                 /\ reducing' = reducing \cup {r}
      PROVE PendingInv'
  <2>1. CASE Finish(p)
    BY <2>1 DEF Finish, Results, PendingInv, TypeOK
  <2>2. CASE Park(p)
    BY <2>2, <1>2 DEF Park, EndOfTurn, Insert, Results, PendingInv, TypeOK
  <2>3. CASE Combine(p)
    <3> DEFINE all  == Merged(p)
               rp   == Kept(all)
               tree == PutBack(map \ Siblings(p), all)
               last == IsComplete(rp.range, tree, pendingTasks - 1)
               r    == [id |-> submitted, proof |-> Reduced(rp), isComplete |-> last]
    <3>1. map \ Siblings(p) \subseteq RangeProofs
      BY DEF PendingInv, TypeOK
    <3>2. rp \in RangeProofs /\ tree \subseteq RangeProofs
      BY <1>2, <3>1, SplitType
    <3>3. Reduced(rp) \in Proofs
      BY <3>2, ReducedType
    <3>4. last \in BOOLEAN
      BY DEF IsComplete
    <3>5. /\ EndOfTurn
          /\ \/ /\ pendingTasks' = pendingTasks
                /\ map' = tree
                /\ submitted' = submitted + 1
                /\ reducing' = reducing \cup {r}
             \/ /\ pendingTasks' = pendingTasks - 1
                /\ map' = Insert(tree, rp)
                /\ UNCHANGED <<submitted, reducing>>
      BY <2>3 DEF Combine
    <3>6. result' \in Results
      BY <3>5 DEF EndOfTurn, Results
    <3> HIDE DEF rp, tree, last
    <3>7. r \in [id : Nat, proof : Proofs, isComplete : BOOLEAN] /\ r.id = submitted
      BY <3>3, <3>4 DEF PendingInv, TypeOK
    <3>8. Insert(tree, rp) \subseteq RangeProofs
      BY <3>2 DEF Insert
    <3> HIDE DEF r
    <3>9. QED
      BY <3>2, <3>5, <3>6, <3>7, <3>8
  <2>4. QED
    BY <2>1, <2>2, <2>3 DEF ReceiveProof
<1>5. CASE pendingTasks' = pendingTasks - 1 /\ UNCHANGED <<submitted, reducing>>
  <2>1. TypeOK'
    BY <1>1, <1>3, <1>4, <1>5, QueueCounted DEF PendingInv, TypeOK
  <2>2. ReduceIdsFresh'
    BY <1>5 DEF PendingInv, ReduceIdsFresh
  <2>3. PendingAccounted'
    BY <1>1, <1>3, <1>5, QueueCounted DEF PendingInv, PendingAccounted
  <2>4. QED
    BY <2>1, <2>2, <2>3 DEF PendingInv
<1>6. ASSUME NEW r \in [id : Nat, proof : Proofs, isComplete : BOOLEAN],
             r.id = submitted,
             pendingTasks' = pendingTasks,
             submitted' = submitted + 1,
             reducing' = reducing \cup {r}
      PROVE  PendingInv'
  <2>0. TypeOK
    BY DEF PendingInv
  <2>1. TypeOK'
    <3>1. pendingTasks' \in Nat /\ submitted' \in Nat
      BY <1>6, <2>0 DEF TypeOK
    <3>2. proofQueue' \in Seq(Proofs)
      BY <1>1, QueueCounted
    <3>3. reducing' \subseteq [id : Nat, proof : Proofs, isComplete : BOOLEAN]
      BY <1>6, <2>0 DEF TypeOK
    <3>4. map' \subseteq RangeProofs /\ result' \in Results
      BY <1>4
    <3> QED BY <1>3, <2>0, <3>1, <3>2, <3>3, <3>4 DEF TypeOK
  <2>2. /\ IsFiniteSet(reducing')
        /\ Cardinality(reducing') = Cardinality(reducing) + 1
    BY <1>6, AddReduce
  <2>3. ReduceIdsFresh'
    BY <1>6, <2>2 DEF PendingInv, ReduceIdsFresh, TypeOK
  <2>4. PendingAccounted'
    BY <1>1, <1>3, <1>6, <2>2, QueueCounted DEF PendingInv, PendingAccounted
  <2>5. QED
    BY <2>1, <2>3, <2>4 DEF PendingInv
<1>7. QED
  BY <1>4, <1>5, <1>6

(* Every step of the reduction keeps it.                                   *)
LEMMA PendingNext == PendingInv /\ [Next]_vars => PendingInv'
<1> SUFFICES ASSUME PendingInv, [Next]_vars PROVE PendingInv'
  OBVIOUS
<1>1. CASE ReceiveNumCoreProofs
  BY <1>1, PendingNumCoreProofs
<1>2. ASSUME NEW t \in Tasks, ReceiveCoreEvent(t) PROVE PendingInv'
  BY <1>2, PendingCoreEvent
<1>3. CASE ReceiveProof
  BY <1>3, PendingReceiveProof
<1>4. ASSUME NEW r \in reducing, ReceiveReduceEvent(r) PROVE PendingInv'
  BY <1>4, PendingReduceEvent
<1>5. CASE \/ \E t \in Tasks : ShardEnds(t) \/ IntakeReceive(t)
           \/ IntakeInsert \/ IntakeClosed \/ ReduceRefused \/ UNCHANGED vars
  BY <1>5, PendingIntake
<1>6. QED
  BY <1>1, <1>2, <1>3, <1>4, <1>5 DEF Next, Returned

(* Every state of the reduction is well typed; in particular pending_tasks *)
(* (a usize in the code) never underflows.                                 *)
THEOREM TypeCorrect == Spec => []TypeOK
<1>1. PendingInv => TypeOK
  BY DEF PendingInv
<1>2. QED
  BY <1>1, PendingInit, PendingNext, PTL DEF Spec

(* pending_tasks always counts exactly the proofs that are held back,      *)
(* queued or being reduced.                                                *)
THEOREM PendingCorrect == Spec => []PendingAccounted
<1>1. PendingInv => PendingAccounted
  BY DEF PendingInv
<1>2. QED
  BY <1>1, PendingInit, PendingNext, PTL DEF Spec

-----------------------------------------------------------------------------
(* The count of the shard proofs.  The intake hands over one task at a     *)
(* time, which it has seen and which has no entry yet.                     *)

CountInv ==
    /\ TypeOK
    /\ ShardsAccounted
    /\ coreProofMap \subseteq seenTasks
    /\ handling # None => handling \in seenTasks \ coreProofMap
    /\ numChannel # "empty" => handling = None
    /\ numCoreProofs # None => numChannel = "received" /\ numCoreProofs = counted

(* core_proof_map is finite, and inserting or removing an entry changes    *)
(* its size by one.                                                        *)
LEMMA CoreProofMapSize ==
    ASSUME TypeOK
    PROVE  /\ IsFiniteSet(coreProofMap)
           /\ Cardinality(coreProofMap) \in Nat
           /\ Cardinality(coreProofMap) = 0 <=> coreProofMap = {}
           /\ \A t : t \notin coreProofMap =>
                 Cardinality(coreProofMap \cup {t}) = Cardinality(coreProofMap) + 1
           /\ \A t \in coreProofMap :
                 /\ IsFiniteSet(coreProofMap \ {t})
                 /\ Cardinality(coreProofMap \ {t}) = Cardinality(coreProofMap) - 1
                 /\ Cardinality(coreProofMap \ {t}) = 0 => coreProofMap \ {t} = {}
<1>1. IsFiniteSet(coreProofMap)
  BY FS_Subset DEF TypeOK
<1>2. \A t \in coreProofMap : IsFiniteSet(coreProofMap \ {t})
  BY <1>1, FS_RemoveElement
<1>3. QED
  BY <1>1, <1>2, FS_CardinalityType, FS_EmptySet, FS_AddElement, FS_RemoveElement

(* The count holds before anything has been received.                      *)
LEMMA CountInit == Init => CountInv
<1> SUFFICES ASSUME Init PROVE CountInv
  OBVIOUS
<1>1. TypeOK
  BY PendingInit DEF PendingInv
<1>2. Cardinality({}) = 0
  BY FS_EmptySet
<1>3. QED
  BY <1>1, <1>2 DEF Init, CountInv, ShardsAccounted

(* Every step keeps the count: the interesting ones are the insert of the  *)
(* intake, and the event of a shard proof.                                 *)
LEMMA CountNext == CountInv /\ TypeOK' /\ [Next]_vars => CountInv'
<1> SUFFICES ASSUME CountInv, TypeOK', [Next]_vars PROVE CountInv'
  OBVIOUS
<1> USE DEF CountInv, ShardsAccounted, taskVars, intakeVars, sharedVars, coreVars,
            treeVars
<1>0. completed \in Nat /\ counted \in Nat /\ fullRange \in Ranges \cup {None}
  BY DEF TypeOK
<1>1. ASSUME NEW t \in Tasks, ShardEnds(t) PROVE CountInv'
  BY <1>1 DEF ShardEnds
<1>2. ASSUME NEW t \in Tasks, IntakeReceive(t) PROVE CountInv'
  BY <1>2 DEF IntakeReceive, Seen
<1>3. CASE IntakeInsert
  <2>1. handling \notin coreProofMap /\ numCoreProofs = None
    BY <1>3 DEF IntakeInsert
  <2>2. fullRange = None
    BY <2>1, <1>0
  <2>3. QED
    BY <1>0, <1>3, <2>1, <2>2, CoreProofMapSize DEF IntakeInsert
<1>4. CASE IntakeClosed
  BY <1>4 DEF IntakeClosed
<1>5. CASE ReceiveNumCoreProofs
  <2>1. numCoreProofs = None /\ fullRange = None
    BY <1>0, <1>5 DEF ReceiveNumCoreProofs
  <2>2. counted = completed => coreProofMap = {}
    BY <1>0, CoreProofMapSize
  <2>3. QED
    BY <1>0, <1>5, <2>1, <2>2 DEF ReceiveNumCoreProofs
<1>6. ASSUME NEW t \in Tasks, ReceiveCoreEvent(t) PROVE CountInv'
  <2>1. CASE LoopFails
    BY <2>1 DEF LoopFails
  <2>2. CASE ShardProofUnknown(t)
    BY <2>2 DEF ShardProofUnknown
  <2>3. CASE ShardProofReady(t)
    <3>1. /\ coreProofMap' = coreProofMap \ {t} /\ t \in coreProofMap
          /\ completed' = completed + 1
          /\ UNCHANGED <<handling, seenTasks, counted, numChannel, numCoreProofs>>
      BY <2>3 DEF ShardProofReady
    <3>2. Cardinality(coreProofMap') = Cardinality(coreProofMap) - 1
      BY <3>1, CoreProofMapSize
    <3>3. counted' = completed' + Cardinality(coreProofMap')
      BY <1>0, <3>1, <3>2, CoreProofMapSize
    <3>4. fullRange = None
      BY <3>1
    <3>5. CASE numCoreProofs = completed'
      <4>1. Cardinality(coreProofMap') = 0
        BY <1>0, <3>1, <3>3, <3>5, <3>2, CoreProofMapSize
      <4>2. coreProofMap' = {}
        BY <3>1, <4>1, CoreProofMapSize
      <4>3. QED
        BY <2>3, <3>1, <3>3, <3>5, <4>2 DEF ShardProofReady
    <3>6. CASE numCoreProofs # completed'
      BY <2>3, <3>1, <3>3, <3>4, <3>6 DEF ShardProofReady
    <3>7. QED
      BY <3>5, <3>6
  <2>4. QED
    BY <1>6, <2>1, <2>2, <2>3 DEF ReceiveCoreEvent
<1>7. CASE ReceiveProof
  BY <1>7 DEF ReceiveProof
<1>8. ASSUME NEW r \in reducing, ReceiveReduceEvent(r) PROVE CountInv'
  BY <1>8 DEF ReceiveReduceEvent, LoopFails
<1>9. CASE ReduceRefused
  BY <1>9 DEF ReduceRefused, LoopFails
<1>10. CASE UNCHANGED vars
  BY <1>10 DEF vars
<1>11. QED
  BY <1>1, <1>2, <1>3, <1>4, <1>5, <1>6, <1>7, <1>8, <1>9, <1>10 DEF Next, Returned

(* The count is an invariant.                                              *)
LEMMA CountCorrect == Spec => []CountInv
BY TypeCorrect, CountInit, CountNext, PTL DEF Spec

(* Every shard proof the intake has counted is completed or awaited, and   *)
(* full_range is set only when all of them have completed and have been    *)
(* handed to the tree: the claim of the comment above the fail-fast check. *)
THEOREM ShardsCorrect == Spec => []ShardsAccounted
<1>1. CountInv => ShardsAccounted
  BY DEF CountInv
<1>2. QED
  BY <1>1, CountCorrect, PTL

(* After full_range is set neither it nor the number of completed shard    *)
(* proofs changes: a late event cannot move the goal of the reduction.     *)
THEOREM FullRangeCorrect == Spec => FullRangeIsFinal
<1>1. ASSUME CountInv, [Next]_vars, fullRange # None
      PROVE  UNCHANGED <<fullRange, maxRange, completed>>
  <2> USE DEF taskVars, intakeVars, sharedVars, coreVars, treeVars
  <2>1. coreProofMap = {} /\ numChannel # "sent"
    BY <1>1 DEF CountInv, ShardsAccounted, TypeOK
  <2>2. ASSUME NEW t \in Tasks, ReceiveCoreEvent(t)
        PROVE  UNCHANGED <<fullRange, maxRange, completed>>
    BY <2>1, <2>2 DEF ReceiveCoreEvent, LoopFails, ShardProofReady, ShardProofUnknown
  <2>3. ~ReceiveNumCoreProofs
    BY <2>1 DEF ReceiveNumCoreProofs
  <2>4. ASSUME NEW r \in reducing, ReceiveReduceEvent(r)
        PROVE  UNCHANGED <<fullRange, maxRange, completed>>
    BY <2>4 DEF ReceiveReduceEvent, LoopFails
  <2>5. CASE ReceiveProof
    BY <2>5 DEF ReceiveProof
  <2>6. CASE ReduceRefused
    BY <2>6 DEF ReduceRefused, LoopFails
  <2>7. QED
    BY <1>1, <2>2, <2>3, <2>4, <2>5, <2>6
    DEF Next, ShardEnds, IntakeReceive, IntakeInsert, IntakeClosed, Returned, vars
<1>2. CountInv /\ [Next]_vars =>
        [fullRange # None => UNCHANGED <<fullRange, maxRange, completed>>]_vars
  BY <1>1
<1>3. QED
  BY <1>2, CountCorrect, PTL DEF Spec, FullRangeIsFinal

-----------------------------------------------------------------------------
(* The entries of the tree are runs of adjacent proofs.                    *)

Chained(q) == \A i \in 1..(Len(q) - 1) : q[i].range.end = q[i + 1].range.start

(* Two chains joined by a proof that continues the first and is continued  *)
(* by the second are one chain, whose ends are theirs.                     *)
LEMMA JoinChains ==
    ASSUME NEW l \in Seq(Proofs), NEW x \in Proofs, NEW r \in Seq(Proofs),
           Chained(l), Chained(r),
           l # <<>> => l[Len(l)].range.end = x.range.start,
           r # <<>> => x.range.end = r[1].range.start
    PROVE  LET m == l \o <<x>> \o r
           IN  /\ m \in Seq(Proofs)
               /\ Len(m) = Len(l) + 1 + Len(r)
               /\ Chained(m)
               /\ m[1] = IF l = <<>> THEN x ELSE l[1]
               /\ m[Len(m)] = IF r = <<>> THEN x ELSE r[Len(r)]
<1> DEFINE m == l \o <<x>> \o r
           n == Len(l)
<1>1. n \in Nat /\ Len(r) \in Nat /\ m \in Seq(Proofs) /\ Len(m) = n + 1 + Len(r)
  OBVIOUS
<1>2. /\ \A i \in 1..n : m[i] = l[i]
      /\ m[n + 1] = x
      /\ \A i \in 1..Len(r) : m[n + 1 + i] = r[i]
  OBVIOUS
<1>3. (l = <<>> <=> n = 0) /\ (r = <<>> <=> Len(r) = 0)
  OBVIOUS
<1> HIDE DEF m
<1>4. ASSUME NEW i \in 1..(Len(m) - 1)
      PROVE  m[i].range.end = m[i + 1].range.start
  <2>1. CASE i < n
    <3>1. i \in 1..n /\ i + 1 \in 1..n /\ i \in 1..(n - 1)
      BY <1>1, <2>1
    <3>2. QED
      BY <1>2, <3>1 DEF Chained
  <2>2. CASE i = n
    BY <1>1, <1>2, <1>3, <2>2
  <2>3. CASE i = n + 1
    <3>1. 1 \in 1..Len(r) /\ m[n + 1 + 1] = r[1]
      BY <1>1, <1>2, <2>3
    <3>2. QED
      BY <1>1, <1>2, <1>3, <2>3, <3>1
  <2>4. CASE i > n + 1
    <3> DEFINE j == i - n - 1
    <3>1. j \in 1..(Len(r) - 1) /\ j \in 1..Len(r) /\ j + 1 \in 1..Len(r)
      BY <1>1, <2>4
    <3> HIDE DEF j, n
    <3>2. m[n + 1 + j] = r[j] /\ m[n + 1 + (j + 1)] = r[j + 1]
      BY <1>2, <3>1
    <3>3. n + 1 + j = i /\ n + 1 + (j + 1) = i + 1
      BY <1>1, <2>4 DEF j
    <3>4. QED
      BY <3>1, <3>2, <3>3 DEF Chained
  <2>5. QED
    BY <1>1, <2>1, <2>2, <2>3, <2>4
<1>5. m[1] = IF l = <<>> THEN x ELSE l[1]
  BY <1>1, <1>2, <1>3
<1>6. m[Len(m)] = IF r = <<>> THEN x ELSE r[Len(r)]
  BY <1>1, <1>2, <1>3
<1>7. QED
  BY <1>1, <1>4, <1>5, <1>6 DEF Chained, m

(* A segment of a chain is a chain.                                        *)
LEMMA SubChain ==
    ASSUME NEW q \in Seq(Proofs), Chained(q),
           NEW a \in 1..Len(q), NEW b \in 1..Len(q), a <= b
    PROVE  /\ SubSeq(q, a, b) \in Seq(Proofs)
           /\ Len(SubSeq(q, a, b)) = b - a + 1
           /\ Chained(SubSeq(q, a, b))
<1>1. Len(q) \in Nat /\ SubSeq(q, a, b) \in Seq(Proofs) /\ Len(SubSeq(q, a, b)) = b - a + 1
  OBVIOUS
<1>2. \A i \in 1..(b - a + 1) : SubSeq(q, a, b)[i] = q[a + i - 1]
  OBVIOUS
<1>3. ASSUME NEW i \in 1..(b - a)
      PROVE  SubSeq(q, a, b)[i].range.end = SubSeq(q, a, b)[i + 1].range.start
  <2>1. i \in 1..(b - a + 1) /\ i + 1 \in 1..(b - a + 1) /\ a + (i + 1) - 1 = a + i
    BY <1>1
  <2>2. SubSeq(q, a, b)[i] = q[a + i - 1] /\ SubSeq(q, a, b)[i + 1] = q[a + i]
    BY <1>2, <2>1
  <2>3. a + i - 1 \in 1..(Len(q) - 1) /\ (a + i - 1) + 1 = a + i
    BY <1>1
  <2>4. QED
    BY <2>2, <2>3 DEF Chained
<1>4. QED
  BY <1>1, <1>3 DEF Chained

(* The result of a merge is a run, of less than two batches.               *)
LEMMA MergedRun ==
    ASSUME TypeOK, EntriesAreRuns, NEW x \in Proofs
    PROVE  /\ Merged(x).proofs \in Seq(Proofs)
           /\ Len(Merged(x).proofs) \in 1..(2 * BatchSize - 1)
           /\ Chained(Merged(x).proofs)
           /\ Merged(x) = Spanning(Merged(x).proofs)
           /\ Siblings(x) = {} => Len(Merged(x).proofs) = 1
<1> DEFINE l == LeftSibling(x)
           r == RightSibling(x)
           lp == IF l = {} THEN <<>> ELSE The(l).proofs
           rp == IF r = {} THEN <<>> ELSE The(r).proofs
<1>1. ASSUME l # {}
      PROVE  /\ The(l) \in RangeProofs
             /\ RunOfProofs(The(l))
             /\ The(l).range.end = x.range.start
  <2>1. The(l) \in l /\ The(l) \in map
    BY <1>1, SiblingsInMap
  <2>2. QED
    BY <2>1 DEF TypeOK, EntriesAreRuns, LeftSibling
<1>2. ASSUME r # {}
      PROVE  /\ The(r) \in RangeProofs
             /\ RunOfProofs(The(r))
             /\ The(r).range.start = x.range.end
  <2>1. The(r) \in r /\ The(r) \in map
    BY <1>2, SiblingsInMap
  <2>2. QED
    BY <2>1 DEF TypeOK, EntriesAreRuns, RightSibling
<1>3. /\ lp \in Seq(Proofs) /\ Chained(lp) /\ Len(lp) \in 0..(BatchSize - 1)
      /\ l = {} <=> lp = <<>>
      /\ l # {} => /\ The(l).range.start = lp[1].range.start
                   /\ lp[Len(lp)].range.end = x.range.start
  BY <1>1 DEF RunOfProofs, Chained, Spanning, RangeProofs
<1>4. /\ rp \in Seq(Proofs) /\ Chained(rp) /\ Len(rp) \in 0..(BatchSize - 1)
      /\ r = {} <=> rp = <<>>
      /\ r # {} => /\ The(r).range.end = rp[Len(rp)].range.end
                   /\ rp[1].range.start = x.range.end
  BY <1>2 DEF RunOfProofs, Chained, Spanning, RangeProofs
<1>5. Merged(x) = [range |-> [start |-> IF l = {} THEN x.range.start ELSE The(l).range.start,
                              end   |-> IF r = {} THEN x.range.end ELSE The(r).range.end],
                   proofs |-> lp \o <<x>> \o rp]
  BY DEF Merged
<1>6. Siblings(x) = {} => l = {} /\ r = {}
  BY DEF Siblings
<1> HIDE DEF l, r, lp, rp
<1> DEFINE m == lp \o <<x>> \o rp
<1>7. /\ m \in Seq(Proofs)
      /\ Len(m) = Len(lp) + 1 + Len(rp)
      /\ Chained(m)
      /\ m[1] = IF lp = <<>> THEN x ELSE lp[1]
      /\ m[Len(m)] = IF rp = <<>> THEN x ELSE rp[Len(rp)]
  BY <1>3, <1>4, JoinChains
<1> HIDE DEF m
<1>8. Merged(x).proofs = m
  BY <1>5 DEF m
<1>9. Merged(x).range = [start |-> m[1].range.start, end |-> m[Len(m)].range.end]
  <2>1. Merged(x).range.start = m[1].range.start
    BY <1>3, <1>5, <1>7
  <2>2. Merged(x).range.end = m[Len(m)].range.end
    BY <1>4, <1>5, <1>7
  <2>3. Merged(x).range = [start |-> Merged(x).range.start, end |-> Merged(x).range.end]
    BY <1>5
  <2>4. QED
    BY <2>1, <2>2, <2>3
<1>10. Merged(x) = [range |-> Merged(x).range, proofs |-> Merged(x).proofs]
  BY <1>5
<1>11. Merged(x) = Spanning(Merged(x).proofs)
  BY <1>8, <1>9, <1>10 DEF Spanning
<1>12. Len(m) \in 1..(2 * BatchSize - 1)
  BY <1>3, <1>4, <1>7
<1>13. Siblings(x) = {} => Len(m) = 1
  BY <1>3, <1>4, <1>6, <1>7
<1>14. QED
  BY <1>7, <1>8, <1>11, <1>12, <1>13

(* What split_off puts back is a run shorter than a batch; what it keeps   *)
(* is one too, unless it is a full batch.                                  *)
LEMMA SplitRun ==
    ASSUME NEW rp, rp.proofs \in Seq(Proofs),
           Len(rp.proofs) \in 1..(2 * BatchSize - 1),
           Chained(rp.proofs), rp = Spanning(rp.proofs),
           NEW tree, \A e \in tree : RunOfProofs(e)
    PROVE  /\ \A e \in PutBack(tree, rp) : RunOfProofs(e)
           /\ Len(Kept(rp).proofs) # BatchSize => RunOfProofs(Kept(rp))
<1> DEFINE q == rp.proofs
           n == Len(q)
<1>1. n \in Nat /\ q \in Seq(Proofs)
  OBVIOUS
<1>2. CASE n > BatchSize
  <2> DEFINE h == SubSeq(q, 1, BatchSize)
             t == SubSeq(q, BatchSize + 1, n)
  <2>1. Len(h) = BatchSize /\ h \in Seq(Proofs)
    BY <1>1, <1>2
  <2>2. Chained(t) /\ Len(t) = n - BatchSize
    <3>1. BatchSize + 1 \in 1..n /\ n \in 1..n /\ BatchSize + 1 <= n
      BY <1>1, <1>2
    <3> HIDE DEF q
    <3>2. Chained(SubSeq(q, BatchSize + 1, n)) /\ Len(t) = n - (BatchSize + 1) + 1
      BY <1>1, <3>1, SubChain DEF q
    <3>3. QED
      BY <1>1, <3>2
  <2>3. Spanning(h).proofs = h /\ Spanning(t).proofs = t
    BY DEF Spanning
  <2>4. Spanning(t) = Spanning(Spanning(t).proofs)
    BY <2>3
  <2>5. Len(t) \in 1..(BatchSize - 1)
    BY <1>1, <1>2, <2>2
  <2> HIDE DEF h, t
  <2>6. RunOfProofs(Spanning(t))
    BY <2>2, <2>3, <2>4, <2>5 DEF RunOfProofs, Chained
  <2>7. PutBack(tree, rp) = Insert(tree, Spanning(t)) /\ Kept(rp) = Spanning(h)
    BY <1>2 DEF PutBack, Kept, h, t
  <2>8. QED
    BY <2>1, <2>3, <2>6, <2>7 DEF Insert
<1>3. CASE ~(n > BatchSize)
  <2>1. PutBack(tree, rp) = tree /\ Kept(rp) = rp
    BY <1>3 DEF PutBack, Kept
  <2>2. Len(rp.proofs) # BatchSize => Len(rp.proofs) \in 1..(BatchSize - 1)
    BY <1>1, <1>3
  <2>3. QED
    BY <2>1, <2>2 DEF RunOfProofs, Chained
<1>4. QED
  BY <1>2, <1>3

(* Every step keeps the entries runs; only a proof that enters the tree    *)
(* changes them.                                                           *)
LEMMA RunsNext == PendingInv /\ EntriesAreRuns /\ [Next]_vars => EntriesAreRuns'
<1> SUFFICES ASSUME PendingInv, EntriesAreRuns, [Next]_vars PROVE EntriesAreRuns'
  OBVIOUS
<1>1. CASE map' = map
  BY <1>1 DEF EntriesAreRuns
<1>2. CASE ReceiveProof
  <2> DEFINE p == Head(proofQueue)
  <2>1. p \in Proofs /\ TypeOK
    BY <1>2, QueueCounted DEF ReceiveProof, PendingInv
  <2>2. CASE Finish(p)
    BY <2>2, <1>1 DEF Finish
  <2>3. CASE Park(p)
    <3> DEFINE m == Merged(p)
    <3>1. Siblings(p) = {} /\ map' = Insert(map, m)
      BY <2>3 DEF Park
    <3>2. Chained(m.proofs) /\ m = Spanning(m.proofs) /\ Len(m.proofs) = 1
      BY <2>1, <3>1, MergedRun
    <3> HIDE DEF m
    <3>3. RunOfProofs(m)
      BY <3>2 DEF RunOfProofs, Chained
    <3>4. QED
      BY <3>1, <3>3 DEF Insert, EntriesAreRuns
  <2>4. CASE Combine(p)
    <3> DEFINE all  == Merged(p)
               rp   == Kept(all)
               tree == PutBack(map \ Siblings(p), all)
    <3>1. \A e \in map \ Siblings(p) : RunOfProofs(e)
      BY DEF EntriesAreRuns
    <3>2. /\ \A e \in tree : RunOfProofs(e)
          /\ Len(rp.proofs) # BatchSize => RunOfProofs(rp)
      BY <2>1, <3>1, MergedRun, SplitRun
    <3>3. \/ map' = tree
          \/ map' = Insert(tree, rp) /\ Len(rp.proofs) # BatchSize
      BY <2>4 DEF Combine
    <3> HIDE DEF tree, rp
    <3>4. QED
      BY <3>2, <3>3 DEF Insert, EntriesAreRuns
  <2>5. QED
    BY <1>2, <2>2, <2>3, <2>4 DEF ReceiveProof
<1>3. QED
  BY <1>1, <1>2
  DEF Next, ShardEnds, IntakeReceive, IntakeInsert, IntakeClosed, ReceiveNumCoreProofs,
      ReceiveCoreEvent, ShardProofReady, ShardProofUnknown, LoopFails,
      ReduceRefused, ReceiveReduceEvent, Returned, vars, treeVars

(* Every entry of the tree is a run of adjacent proofs, shorter than a     *)
(* batch, that spans its range: the assertions of push_left, push_right    *)
(* and push_both hold, and the oversized-batch panic is unreachable.       *)
THEOREM RunsCorrect == Spec => []EntriesAreRuns
<1>1. Init => EntriesAreRuns
  BY DEF Init, EntriesAreRuns
<1>2. QED
  BY <1>1, PendingInit, PendingNext, RunsNext, PTL DEF Spec

=============================================================================
