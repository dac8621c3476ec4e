---------------------------- MODULE CompressTree ----------------------------
(***************************************************************************)
(* CompressTree::reduce_proofs (crates/prover/src/worker/controller/       *)
(* compress.rs): the controller receives one message per shard proof task, *)
(* waits for the tasks, merges proofs of adjacent shard ranges into        *)
(* batches, submits a RecursionReduce task per full batch, and stops when  *)
(* one proof of the whole range is left.                                   *)
(*                                                                         *)
(* Two threads share core_proof_map: the intake task, which receives the   *)
(* messages, and the select loop, which does everything else.              *)
(*                                                                         *)
(* A ShardBoundary is its rank in the lexicographic order of the six       *)
(* fields; ShardBoundary::initial() has rank 0.  A proof artifact is       *)
(* represented by what it attests: its range and the set of shard tasks    *)
(* (leaves) whose proofs it recursively verifies.                          *)
(*                                                                         *)
(* Definitions called Faulty... are not part of the model: each is a       *)
(* mistake one could make in the definition after it, to see that a        *)
(* property notices it.                                                    *)
(***************************************************************************)
EXTENDS Integers, Sequences, FiniteSets

CONSTANTS
    Tasks,          \* the shard proof tasks that executors of the proof submit
    RangeOf,        \* the shard range of each task, [start |-> _, end |-> _]
    BatchSize,      \* batch_size, the arity of a reduce task
    Failing,        \* the shard tasks that may fail
    ReduceMayFail,  \* whether a reduce task may fail or be refused
    FastShards,     \* the tasks that may end before their message is handled
    None            \* Option::None

Precompile == [start |-> 0, end |-> 0]

Ranges == [start : Nat, end : Nat]
Proofs == [range : Ranges, leaves : SUBSET Tasks]
RangeProofs == [range : Ranges, proofs : Seq(Proofs)]

Statuses == {"running", "succeeded", "failed"}
Results == {"running", "ok", "failed", "wedged"}

ASSUME TasksAssumption == IsFiniteSet(Tasks)
ASSUME RangeAssumption == RangeOf \in [Tasks -> Ranges]
ASSUME BatchSizeAssumption == BatchSize \in Nat /\ BatchSize >= 2
ASSUME FailingAssumption ==
    /\ Failing \subseteq Tasks
    /\ ReduceMayFail \in BOOLEAN
    /\ FastShards \subseteq Tasks
ASSUME NoneAssumption ==
    /\ None \notin Tasks \cup Nat \cup Ranges \cup Proofs
    /\ \A leaves \in SUBSET Tasks : None # leaves

VARIABLES
    \* The shard tasks.
    status,         \* status of each shard task: "running", "succeeded", "failed"
    \* The intake task.
    handling,       \* the task between its subscribe and its insert, or None
    seenTasks,      \* DuplicateShardFilter::task_ids
    seenRanges,     \* DuplicateShardFilter::ranges
    counted,        \* the intake's own num_core_proofs
    numChannel,     \* the num_core_proofs channel: "empty", "sent", "received"
    \* Shared between the two.
    coreProofMap,   \* core_proof_map: the tasks that have an entry
    subscribed,     \* shard tasks subscribed to, whose event is not yet received
    \* The select loop.
    numCoreProofs,  \* num_core_proofs: None until the channel delivered it
    completed,      \* num_core_proofs_completed
    lastCoreProof,  \* last_core_proof
    maxRange,       \* max_range
    fullRange,      \* full_range
    pendingTasks,   \* pending_tasks
    proofQueue,     \* proof_tx/proof_rx
    map,            \* CompressTree::map, as the set of its values (key: range.start)
    submitted,      \* reduce tasks submitted so far, the source of fresh task ids
    reducing,       \* proof_map: the reduce tasks in flight and their proofs
    result,         \* "running", "ok", or the error: "failed", "wedged"
    output          \* what the output artifact attests, None until it is uploaded

taskVars == <<status>>
intakeVars == <<handling, seenTasks, seenRanges, counted, numChannel>>
sharedVars == <<coreProofMap, subscribed>>
coreVars == <<numCoreProofs, completed, lastCoreProof, maxRange, fullRange>>
treeVars == <<pendingTasks, proofQueue, map, submitted, reducing, result, output>>
vars == <<taskVars, intakeVars, sharedVars, coreVars, treeVars>>

ToProof(t) == [range |-> RangeOf[t], leaves |-> {t}]

Init ==
    /\ status = [t \in Tasks |-> "running"]
    /\ handling = None
    /\ seenTasks = {}
    /\ seenRanges = {}
    /\ counted = 0
    /\ numChannel = "empty"
    /\ coreProofMap = {}
    /\ subscribed = {}
    /\ numCoreProofs = None
    /\ completed = 0
    /\ lastCoreProof = None
    /\ maxRange = Precompile
    /\ fullRange = None
    /\ pendingTasks = 0
    /\ proofQueue = <<>>
    /\ map = {}
    /\ submitted = 0
    /\ reducing = {}
    /\ result = "running"
    /\ output = None

-----------------------------------------------------------------------------
(* Environment: the workers that prove the shards and the reductions.      *)

(* A shard was submitted before its message was sent, so it can end at any *)
(* time (FastShards).  The others end after the intake has                 *)
(* recorded them: proving takes seconds, the intake two statements.        *)
ShardEnds(t) ==
    /\ result = "running"
    /\ status[t] = "running"
    /\ t \in FastShards \cup coreProofMap
    /\ \/ status' = [status EXCEPT ![t] = "succeeded"]
       \/ /\ t \in Failing
          /\ status' = [status EXCEPT ![t] = "failed"]
    /\ UNCHANGED <<intakeVars, sharedVars, coreVars, treeVars>>

-----------------------------------------------------------------------------
(* The intake task.                                                        *)

(* DuplicateShardFilter::seen: a known task, or a known range unless it is *)
(* the range all precompile shards share.  The task id is recorded either  *)
(* way, the range only when the id is new.                                 *)
Seen(t) ==
    \/ t \in seenTasks
    \/ /\ RangeOf[t] # Precompile
       /\ RangeOf[t] \in seenRanges

(* A message is received: dropped when seen, else its task is subscribed   *)
(* to.  Its proof enters core_proof_map only in the next step.  A message  *)
(* may be redelivered, and an executor that was retried submits new tasks  *)
(* for the ranges of the first attempt.                                    *)
IntakeReceive(t) ==
    /\ result = "running"
    /\ handling = None
    /\ numChannel = "empty"
    /\ seenTasks' = seenTasks \cup {t}
    /\ seenRanges' = IF t \in seenTasks \/ RangeOf[t] = Precompile
                     THEN seenRanges ELSE seenRanges \cup {RangeOf[t]}
    /\ IF Seen(t)
       THEN UNCHANGED <<handling, subscribed>>
       ELSE /\ handling' = t
            /\ subscribed' = subscribed \cup {t}
    /\ UNCHANGED <<taskVars, counted, numChannel, coreProofMap, coreVars, treeVars>>

IntakeInsert ==
    /\ result = "running"
    /\ handling # None
    /\ coreProofMap' = coreProofMap \cup {handling}
    /\ counted' = counted + 1
    /\ handling' = None
    /\ UNCHANGED <<taskVars, seenTasks, seenRanges, numChannel, subscribed,
                   coreVars, treeVars>>

(* The message channel closes when an executor attempt has finished: it    *)
(* has sent every precompile shard and every range.                        *)
AllSent ==
    \A t \in Tasks : \/ t \in seenTasks
                     \/ RangeOf[t] # Precompile /\ RangeOf[t] \in seenRanges

IntakeClosed ==
    /\ result = "running"
    /\ handling = None
    /\ numChannel = "empty"
    /\ AllSent
    /\ numChannel' = "sent"
    /\ UNCHANGED <<taskVars, handling, seenTasks, seenRanges, counted,
                   sharedVars, coreVars, treeVars>>

-----------------------------------------------------------------------------
(* The select loop: shard task events and the number of shard proofs.      *)

(* reduce_proofs returns an error; its local state does not matter then.   *)
LoopFails ==
    /\ result' = "failed"
    /\ UNCHANGED <<taskVars, intakeVars, sharedVars, coreVars, pendingTasks,
                   proofQueue, map, submitted, reducing, output>>

FaultyWidenLast(r, s) ==
    [start |-> IF s.start < r.start THEN s.start ELSE r.start, end |-> s.end]

Widen(r, s) ==
    [start |-> IF s.start < r.start THEN s.start ELSE r.start,
     end   |-> IF s.end > r.end THEN s.end ELSE r.end]

(* Queue a proof, or nothing.                                              *)
Send(queue, proof) == IF proof = None THEN queue ELSE Append(queue, proof)

FaultyNumCoreProofsUnchecked ==
    /\ result = "running"
    /\ numChannel = "sent"
    /\ numChannel' = "received"
    /\ numCoreProofs' = counted
    /\ fullRange' = maxRange
    /\ proofQueue' = Send(proofQueue, lastCoreProof)
    /\ lastCoreProof' = None
    /\ UNCHANGED <<taskVars, handling, seenTasks, seenRanges, counted, sharedVars,
                   completed, maxRange, pendingTasks, map, submitted, reducing,
                   result, output>>

FaultyNumCoreProofsOnly ==
    /\ result = "running"
    /\ numChannel = "sent"
    /\ numChannel' = "received"
    /\ numCoreProofs' = counted
    /\ UNCHANGED <<taskVars, handling, seenTasks, seenRanges, counted, sharedVars,
                   completed, lastCoreProof, maxRange, fullRange, treeVars>>

(* num_core_proofs_rx: the number of proofs to wait for.  When all of them *)
(* have already completed, the range is known and the last one is released *)
(* to the tree.                                                            *)
ReceiveNumCoreProofs ==
    /\ result = "running"
    /\ numChannel = "sent"
    /\ numChannel' = "received"
    /\ numCoreProofs' = counted
    /\ IF completed = counted
       THEN /\ fullRange' = maxRange
            /\ proofQueue' = Send(proofQueue, lastCoreProof)
            /\ lastCoreProof' = None
       ELSE UNCHANGED <<fullRange, proofQueue, lastCoreProof>>
    /\ UNCHANGED <<taskVars, handling, seenTasks, seenRanges, counted, sharedVars,
                   completed, maxRange, pendingTasks, map, submitted, reducing,
                   result, output>>

FaultyShardProofUncounted(t) ==
    /\ t \in coreProofMap
    /\ coreProofMap' = coreProofMap \ {t}
    /\ maxRange' = Widen(maxRange, RangeOf[t])
    /\ completed' = completed + 1
    /\ LET sent == Send(proofQueue, lastCoreProof)
       IN  IF numCoreProofs = completed'
           THEN /\ fullRange' = maxRange'
                /\ proofQueue' = Append(sent, ToProof(t))
                /\ lastCoreProof' = None
           ELSE /\ proofQueue' = sent
                /\ lastCoreProof' = ToProof(t)
                /\ UNCHANGED fullRange
    /\ UNCHANGED <<taskVars, intakeVars, numCoreProofs, pendingTasks, map, submitted,
                   reducing, result, output>>

(* core_proofs_event_stream: a shard proof is ready.  It is held back as   *)
(* last_core_proof until the next one, or until it is known to be the last *)
(* one.                                                                    *)
ShardProofReady(t) ==
    /\ t \in coreProofMap
    /\ coreProofMap' = coreProofMap \ {t}
    /\ maxRange' = Widen(maxRange, RangeOf[t])
    /\ pendingTasks' = pendingTasks + 1
    /\ completed' = completed + 1
    /\ LET sent == Send(proofQueue, lastCoreProof)
       IN  IF numCoreProofs = completed'
           THEN /\ fullRange' = maxRange'
                /\ proofQueue' = Append(sent, ToProof(t))
                /\ lastCoreProof' = None
           ELSE /\ proofQueue' = sent
                /\ lastCoreProof' = ToProof(t)
                /\ UNCHANGED fullRange
    /\ UNCHANGED <<taskVars, intakeVars, numCoreProofs, map, submitted, reducing,
                   result, output>>

(* The event of a task that has no entry is dropped, with a debug log.     *)
ShardProofUnknown(t) ==
    /\ t \notin coreProofMap
    /\ UNCHANGED <<taskVars, intakeVars, coreProofMap, coreVars, treeVars>>

(* Events of different tasks come from different subscription tasks, so    *)
(* they arrive in any order; each subscription yields one.                 *)
ReceiveCoreEvent(t) ==
    /\ result = "running"
    /\ t \in subscribed
    /\ status[t] # "running"
    /\ \/ status[t] = "failed" /\ LoopFails
       \/ /\ status[t] = "succeeded"
          /\ subscribed' = subscribed \ {t}
          /\ ShardProofReady(t) \/ ShardProofUnknown(t)

-----------------------------------------------------------------------------
(* The select loop: the tree.                                              *)

FaultyIsCompleteEarly(range, tree, pending) ==
    tree = {} /\ range = fullRange

IsComplete(range, tree, pending) ==
    pending = 0 /\ tree = {} /\ range = fullRange

(* BTreeMap::insert replaces an entry that has the same key.               *)
Insert(tree, rp) == {e \in tree : e.range.start # rp.range.start} \cup {rp}

(* CompressTree::sibling: the left sibling is the entry with the greatest  *)
(* key up to the start of the range, when it ends there; the right sibling *)
(* is the entry, among the others, whose key is the end of the range.      *)
LeftSibling(p) ==
    {e \in map : /\ e.range.start <= p.range.start
                 /\ \A f \in map : f.range.start <= p.range.start
                                     => f.range.start <= e.range.start
                 /\ e.range.end = p.range.start}
FaultyNoRightSibling(p) == {}
RightSibling(p) == {e \in map \ LeftSibling(p) : e.range.start = p.range.end}
Siblings(p) == LeftSibling(p) \cup RightSibling(p)

The(entries) == CHOOSE e \in entries : TRUE

FaultyMergedAppended(p) ==
    LET l == LeftSibling(p)
        r == RightSibling(p)
    IN  [range  |-> [start |-> IF l = {} THEN p.range.start ELSE The(l).range.start,
                     end   |-> IF r = {} THEN p.range.end ELSE The(r).range.end],
         proofs |-> (IF l = {} THEN <<>> ELSE The(l).proofs)
                    \o (IF r = {} THEN <<>> ELSE The(r).proofs) \o <<p>>]

(* RangeProofs::push_left, push_right, push_both, or a new RangeProofs.    *)
Merged(p) ==
    LET l == LeftSibling(p)
        r == RightSibling(p)
    IN  [range  |-> [start |-> IF l = {} THEN p.range.start ELSE The(l).range.start,
                     end   |-> IF r = {} THEN p.range.end ELSE The(r).range.end],
         proofs |-> (IF l = {} THEN <<>> ELSE The(l).proofs)
                    \o <<p>> \o
                    (IF r = {} THEN <<>> ELSE The(r).proofs)]

(* RangeProofs::split_off(batch_size) keeps the first batch and returns    *)
(* the rest; both ranges are recomputed from the proofs.                   *)
Spanning(proofs) ==
    [range  |-> [start |-> proofs[1].range.start,
                 end   |-> proofs[Len(proofs)].range.end],
     proofs |-> proofs]

Kept(rp) ==
    IF Len(rp.proofs) > BatchSize
    THEN Spanning(SubSeq(rp.proofs, 1, BatchSize)) ELSE rp

FaultyPutBackNothing(tree, rp) == tree

PutBack(tree, rp) ==
    IF Len(rp.proofs) > BatchSize
    THEN Insert(tree, Spanning(SubSeq(rp.proofs, BatchSize + 1, Len(rp.proofs))))
    ELSE tree

FaultyReducedShort(rp) ==
    [range  |-> rp.range,
     leaves |-> UNION {rp.proofs[i].leaves : i \in 1..(Len(rp.proofs) - 1)}]

(* What the proof of a reduce task attests.                                *)
Reduced(rp) ==
    [range  |-> rp.range,
     leaves |-> UNION {rp.proofs[i].leaves : i \in 1..Len(rp.proofs)}]

FaultyEndOfTurnUnchecked == result' = "running"

(* proof_rx: a proof enters the tree.  The last check fails the reduction  *)
(* when nothing is pending that could make the tree progress.              *)
EndOfTurn ==
    result' = IF pendingTasks' = 0 /\ fullRange # None THEN "wedged" ELSE "running"

Finish(p) ==
    /\ IsComplete(p.range, map, pendingTasks - 1)
    /\ pendingTasks' = pendingTasks - 1
    /\ result' = "ok"
    /\ UNCHANGED <<map, submitted, reducing>>

FaultyParkStillPending(p) ==
    /\ ~IsComplete(p.range, map, pendingTasks - 1)
    /\ Siblings(p) = {}
    /\ map' = Insert(map, Merged(p))
    /\ UNCHANGED <<pendingTasks, submitted, reducing>>
    /\ EndOfTurn

Park(p) ==
    /\ ~IsComplete(p.range, map, pendingTasks - 1)
    /\ Siblings(p) = {}
    /\ pendingTasks' = pendingTasks - 1
    /\ map' = Insert(map, Merged(p))
    /\ UNCHANGED <<submitted, reducing>>
    /\ EndOfTurn

Combine(p) ==
    /\ ~IsComplete(p.range, map, pendingTasks - 1)
    /\ Siblings(p) # {}
    /\ LET all  == Merged(p)
           rp   == Kept(all)
           tree == PutBack(map \ Siblings(p), all)
           last == IsComplete(rp.range, tree, pendingTasks - 1)
       IN  \/ /\ Len(rp.proofs) = BatchSize \/ last
              /\ pendingTasks' = pendingTasks
              /\ map' = tree
              /\ submitted' = submitted + 1
              /\ reducing' = reducing \cup {[id |-> submitted, proof |-> Reduced(rp),
                                             isComplete |-> last]}
           \/ /\ ~(Len(rp.proofs) = BatchSize \/ last)
              /\ pendingTasks' = pendingTasks - 1
              /\ map' = Insert(tree, rp)
              /\ UNCHANGED <<submitted, reducing>>
    /\ EndOfTurn

ReceiveProof ==
    /\ result = "running"
    /\ proofQueue # <<>>
    /\ proofQueue' = Tail(proofQueue)
    /\ LET p == Head(proofQueue) IN Finish(p) \/ Park(p) \/ Combine(p)
    /\ UNCHANGED <<taskVars, intakeVars, sharedVars, coreVars, output>>

(* The worker client refuses the reduce task of a full batch (the proof    *)
(* has ended meanwhile), and reduce_proofs returns the error.              *)
ReduceRefused ==
    /\ result = "running"
    /\ ReduceMayFail
    /\ proofQueue # <<>>
    /\ LET p    == Head(proofQueue)
           all  == Merged(p)
           tree == PutBack(map \ Siblings(p), all)
       IN  /\ ~IsComplete(p.range, map, pendingTasks - 1)
           /\ Siblings(p) # {}
           /\ \/ Len(Kept(all).proofs) = BatchSize
              \/ IsComplete(Kept(all).range, tree, pendingTasks - 1)
    /\ LoopFails

(* event_stream: a reduce task has ended.  proof_map belongs to the loop,  *)
(* so its entry is there whenever the event arrives.  The task that was    *)
(* submitted with is_complete has written the output artifact.             *)
ReceiveReduceEvent(r) ==
    /\ result = "running"
    /\ r \in reducing
    /\ \/ ReduceMayFail /\ LoopFails
       \/ /\ reducing' = reducing \ {r}
          /\ proofQueue' = Append(proofQueue, r.proof)
          /\ output' = IF r.isComplete THEN r.proof ELSE output
          /\ UNCHANGED <<taskVars, intakeVars, sharedVars, coreVars,
                         pendingTasks, map, submitted, result>>

(* reduce_proofs has returned; dropping its JoinSet aborts the intake.     *)
Returned == result # "running" /\ UNCHANGED vars

Next ==
    \/ \E t \in Tasks : ShardEnds(t)
    \/ \E t \in Tasks : IntakeReceive(t)
    \/ IntakeInsert
    \/ IntakeClosed
    \/ ReceiveNumCoreProofs
    \/ \E t \in Tasks : ReceiveCoreEvent(t)
    \/ ReceiveProof
    \/ ReduceRefused
    \/ \E r \in reducing : ReceiveReduceEvent(r)
    \/ Returned

(* Workers finish what they were given, and the runtime polls both threads *)
(* and every branch of the select, whose order tokio randomises.           *)
Fairness ==
    /\ \A t \in Tasks : /\ WF_vars(ShardEnds(t))
                        /\ WF_vars(IntakeReceive(t))
                        /\ WF_vars(ReceiveCoreEvent(t))
    /\ WF_vars(IntakeInsert)
    /\ WF_vars(IntakeClosed)
    /\ WF_vars(ReceiveNumCoreProofs)
    /\ WF_vars(ReceiveProof)
    /\ WF_vars(\E r \in reducing : ReceiveReduceEvent(r))

Spec == Init /\ [][Next]_vars
FairSpec == Spec /\ Fairness

-----------------------------------------------------------------------------
(* Properties.                                                             *)

(* The variables have the types of the code's; pending_tasks, a usize, is  *)
(* decremented for every proof received and must not go below zero.        *)
TypeOK ==
    /\ status \in [Tasks -> Statuses]
    /\ handling \in Tasks \cup {None}
    /\ seenTasks \subseteq Tasks
    /\ seenRanges \subseteq Ranges
    /\ counted \in Nat
    /\ numChannel \in {"empty", "sent", "received"}
    /\ coreProofMap \subseteq Tasks
    /\ subscribed \subseteq Tasks
    /\ numCoreProofs \in Nat \cup {None}
    /\ completed \in Nat
    /\ lastCoreProof \in Proofs \cup {None}
    /\ maxRange \in Ranges
    /\ fullRange \in Ranges \cup {None}
    /\ pendingTasks \in Nat
    /\ proofQueue \in Seq(Proofs)
    /\ map \subseteq RangeProofs
    /\ submitted \in Nat
    /\ reducing \subseteq [id : Nat, proof : Proofs, isComplete : BOOLEAN]
    /\ result \in Results
    /\ output \in Proofs \cup {None}

(* pending_tasks counts exactly the proofs that will still come through    *)
(* proof_rx: the queued ones, the reduce tasks in flight and the shard     *)
(* proof held back.  The decrement in the loop therefore never underflows, *)
(* and pending_tasks = 0 really means that nothing more can arrive.        *)
PendingAccounted ==
    pendingTasks = Len(proofQueue) + Cardinality(reducing)
                   + (IF lastCoreProof = None THEN 0 ELSE 1)

(* The shard proofs counted by the intake are the completed ones and those *)
(* that have an entry in core_proof_map; once full_range is set there are  *)
(* no more of them, none is held back, and the range is final.             *)
ShardsAccounted ==
    /\ counted = completed + Cardinality(coreProofMap)
    /\ fullRange # None => /\ numCoreProofs = completed
                           /\ coreProofMap = {}
                           /\ lastCoreProof = None
                           /\ fullRange = maxRange

(* Every entry of the tree is a run of adjacent proofs that spans the      *)
(* entry's range, shorter than a batch: split_off leaves no full batch     *)
(* behind, and the panic on an oversized batch cannot happen.              *)
RunOfProofs(rp) ==
    /\ Len(rp.proofs) \in 1..(BatchSize - 1)
    /\ rp = Spanning(rp.proofs)
    /\ \A i \in 1..(Len(rp.proofs) - 1) :
           rp.proofs[i].range.end = rp.proofs[i + 1].range.start

EntriesAreRuns == \A rp \in map : RunOfProofs(rp)

(* The tree never keeps two entries that could be merged, and no insert    *)
(* ever replaced one: two entries have different keys, do not overlap and  *)
(* are not adjacent.                                                       *)
EntriesApart ==
    \A e, f \in map : e = f \/ e.range.end < f.range.start
                            \/ f.range.end < e.range.start

(* What an execution makes of its shards.  Their ranges are the precompile *)
(* one or not empty, and two of them are the same (a shard that was        *)
(* submitted again) or do not overlap; each begins at the initial boundary *)
(* or where another one ends; and there is more than one.                  *)
Apart(r, s) == r.end <= s.start \/ s.end <= r.start
ShardsApart ==
    /\ \A t \in Tasks : RangeOf[t] = Precompile \/ RangeOf[t].start < RangeOf[t].end
    /\ \A t, u \in Tasks : RangeOf[t] = RangeOf[u] \/ Apart(RangeOf[t], RangeOf[u])
ShardsAdjoin ==
    \A t \in Tasks : RangeOf[t].start = 0 \/ \E u \in Tasks : RangeOf[u].end = RangeOf[t].start
SeveralShards ==
    \E t, u \in Tasks : t # u /\ (RangeOf[t] # RangeOf[u] \/ RangeOf[t] = Precompile)

(* Every shard proof whose completion was counted is attested by exactly   *)
(* one of the proofs that are held back, queued, in the tree or being      *)
(* reduced: merging, splitting and reducing lose and duplicate nothing.    *)
HeldBack == IF lastCoreProof = None THEN {} ELSE {<<"last", <<0, 0>>, lastCoreProof>>}
Queued == {<<"queue", <<0, i>>, proofQueue[i]>> : i \in 1..Len(proofQueue)}
ProofsOf(e) == {<<"tree", <<e.range.start, i>>, e.proofs[i]>> : i \in 1..Len(e.proofs)}
InFlight == {<<"reduce", <<0, r.id>>, r.proof>> : r \in reducing}
Pool == HeldBack \cup Queued \cup (UNION {ProofsOf(e) : e \in map}) \cup InFlight

Attested == UNION {x[3].leaves : x \in Pool}

EachProofOnce ==
    result # "ok" =>
        /\ completed = Cardinality(Attested)
        /\ \A x, y \in Pool : x # y => x[3].leaves \cap y[3].leaves = {}

(* reduce_proofs returns Ok only when the output artifact was written, by  *)
(* a task submitted with is_complete, and attests every precompile shard   *)
(* and exactly one proof of every other range.                             *)
OutputComplete ==
    result = "ok" =>
        /\ output # None
        /\ output.range = fullRange
        /\ \A t \in Tasks :
              IF RangeOf[t] = Precompile
              THEN t \in output.leaves
              ELSE \E u \in output.leaves :
                      {w \in output.leaves : RangeOf[w] = RangeOf[t]} = {u}

(* Shard proofs of a well-formed execution never wedge the tree: the       *)
(* fail-fast check does not fire while the reduction can still complete.   *)
NeverWedged == result # "wedged"

(* Once the full range is set, no shard proof is outstanding: the range    *)
(* and the number of completed proofs are final.                           *)
FullRangeIsFinal ==
    [][fullRange # None => UNCHANGED <<fullRange, maxRange, completed>>]_vars

(* The reduction implements ProofAggregation: the accepted proofs are the  *)
(* ones the intake took on, wherever they are; the published one is the    *)
(* output artifact.                                                        *)
Accepted ==
    IF result = "ok" THEN output.leaves
    ELSE ({handling} \ {None}) \cup coreProofMap \cup Attested

Aggregation == INSTANCE ProofAggregation WITH
    accepted  <- Accepted,
    published <- IF output = None THEN None ELSE output.leaves,
    outcome   <- IF result = "wedged" THEN "failed" ELSE result

ImplementsAggregation == Aggregation!AggSpec

(* reduce_proofs returns.                                                  *)
Terminates == <>(result # "running")

(* An event that came before its task was recorded (ShardProofUnknown):    *)
(* the task keeps its entry of core_proof_map, and no event will remove    *)
(* it.                                                                     *)
EventLost == \E t \in coreProofMap : t \notin subscribed

(* Without task failures it returns Ok, unless it dropped an event.        *)
Succeeds == <>(result = "ok" \/ EventLost)

(* Overlapping ranges can never be combined into one proof.  The reduction *)
(* then fails, on a failed task or on the wedged check, instead of waiting *)
(* forever.                                                                *)
FailsFast == <>(result \in {"wedged", "failed"})

=============================================================================
