# A TLA+ verification of SP1's proving coordination

SP1 proves that a RISC-V program ran. Most of the repository is arithmetic (field and
polynomial code, chips, recursion circuits, GPU kernels) and interpreters. Around it is a
concurrent, failure-prone program that decides *which* pieces are proved, *when*, and how their
proofs become one proof: an executor in a child process, a controller, a worker client with
task queues and retries, and a tree that reduces shard proofs. That program is what this
project specifies: five groups of components, model-checked with TLC, their safety proved with
TLAPS.

| Module | What it is |
|---|---|
| `CompressTree` | `reduce_proofs`, the reduction of shard proofs into one proof, with `DuplicateShardFilter` |
| `ProofAggregation` | abstract specification: what the reduction promises |
| `MCCompressTree` | instances of `CompressTree` for TLC |
| `CompressTreeProofs` | theorems about `CompressTree`: types, counts, runs |
| `ReductionProofs` | theorems about `CompressTree`: no proof lost or doubled, the output, the refinement of `ProofAggregation` |
| `LocalWorkerClient` | the in-process worker client, the node's task handlers, release of a proof |
| `MCLocalWorkerClient` | instances of `LocalWorkerClient` for TLC |
| `LocalWorkerClientProofs` | theorems about `LocalWorkerClient` |
| `ShmTraceRing` | the shared-memory ring between the native executor and the prover |
| `ShmTraceRingProofs` | theorems about `ShmTraceRing` |
| `CoreExecution` | `SP1CoreExecutor::execute`: executor thread, splicers, global memory, join |
| `MCCoreExecution` | instance of `CoreExecution` for TLC |
| `CoreExecutionProofs` | theorems about `CoreExecution` |
| `DeferredRecords` | precompile events from core shards to precompile shards: shard worker, artifact store, gate, emitter |
| `MCDeferredRecords` | instances of `DeferredRecords` for TLC |
| `DeferredRecordsProofs` | theorems about `DeferredRecords`: slices, workers, records and the gate |
| `DeferredRefsProofs` | theorems about `DeferredRecords`: event artifacts are freed, and not too early |
| `DeferredEventsProofs` | theorems about `DeferredRecords`: events, full shards, types |

`PROJECT.json` lists the components, the runs, which source lines every definition stands for
(`map`), the hazards and the findings. Definitions named `Faulty...` are no part of a model:
each is a plausible mistake in the definition that follows it, used to see that a property
notices it (`mutants`). Paths below are relative to `src/`.

    tlc -workers 2 -config MCCompressTree.cfg MCCompressTree
    tlapm CompressTreeProofs.tla

## 1. Inventory

### How a proof is made

1. `SP1LocalNode::prove_with_mode` (`crates/prover/src/worker/node/full/mod.rs`) submits a
   Controller task to the worker client and waits for it; when the request ends, or is dropped
   by its caller, the proof's bookkeeping is released.
2. The controller (`controller/mod.rs`) submits a CoreExecute task, subscribes to its messages,
   and spawns the reduction, the memory and precompile stages and, at the end, the wraps.
3. CoreExecute runs the program with the native executor, a child process, which streams trace
   chunks through a ring in shared memory (`core/jit/src/shm.rs`). Chunks are cut into shards
   (`controller/splicing.rs`, `core.rs`); each shard becomes a ProveShard task, announced by a
   message.
4. Handlers (`node/full/init.rs`) take tasks from the client's queues, run them on the prover
   engine, report a status or retry.
5. The reduction (`controller/compress.rs`) waits for the shard tasks, merges adjacent proofs
   and submits RecursionReduce tasks until one proof is left.

### Components

| Component | State | Operations | Hard behaviour | What makes it correct |
|---|---|---|---|---|
| Compress tree (`controller/compress.rs`) | tree of ranges, pending count, held-back proof, two maps of tasks in flight | intake of messages, shard and reduce events, merge, batch, submit, complete, fail fast | events in any order, an intake task racing the loop, duplicates, failures | no proof lost or doubled, completes exactly when everything is merged, never waits for ever |
| Local worker client (`client/local.rs`, `client.rs`) | db of tasks, index by proof, artifact index, channels, retry counts, ended proofs, bounded queues | submit, update status, retry, subscribe, complete a proof, clean up, messages | every operation takes several locks one after another and awaits in between | waiters are answered, nothing outlives its proof, a task runs in one place |
| Local node (`node/full/`) | handler loops, a release per proof | run a task, handle its output, release, release on drop | cancelled futures, back-pressure of a queue of one place | a dropped request leaves nothing behind |
| Trace ring and runner (`core/jit/src/shm.rs`, `core/runner`, `core/runner-binary`) | indices, two semaphores, an end flag, slots; the child's life | acquire, commit, mark finished, crash handler; access, claim, complete; spawn, wait, kill | two processes, crashes between any two accesses, timeouts, drops out of order, pipes | no held chunk overwritten, the whole trace delivered, every end reported |
| Controller stages (`controller/mod.rs`) | join set of stages, order of wraps | run, core proofs, compression, wraps | one stage failing among several | a failed stage fails the proof |
| Executor and splicing (`controller/core.rs`, `splicing.rs`, `global.rs`) | open shard carried between splicers, final state | splice, close a shard, final memory shards | workers hand state on in order | shards partition the execution |
| Deferred records (`controller/precompiles.rs`, `deferred.rs`) | packs of precompile events, references to artifacts | defer, pack, flush | reference counts shared between tasks | every event in one shard, artifacts deleted after the last use |
| Prove-shard gate (`controller/gate.rs`) | permits | admit, release | gate dropped before its tasks end | at most N shards in flight |
| Artifact store (`prover-types/src/artifacts.rs`) | artifacts, reference counts | upload, download, add_ref, remove_ref | count and delete under different locks | no artifact deleted while referenced |
| Groth16/PLONK wrap services (`recursion/gnark-ffi/src/groth16_queue.rs`, `host_lock.rs`, `prestart.rs`) | slots as file locks, servers | take a slot, serve, restart | several processes, crash of a holder | mutual exclusion on a GPU, no lost slot |
| Async pipelines (`slop/crates/futures`) | worker queues | submit, map, flatten | order of completion, drop of a handle | results in order, a worker returned to its queue |
| Network client (`crates/sdk/src/network`) | request state, retry timers | request, poll, retry | lost answers, timeouts | a retried request is made once |
| CUDA client/server (`crates/cuda`) | socket session | request, answer | server restart | answers match requests |
| Executor, proof system, GPU kernels, verifier, guest runtime, CLI | - | - | sequential or arithmetic | not transition systems of interest to TLC |

## 2. Plan

Built, in this order, most important first: the reduction (its errors lose or double proofs),
the worker client (all parts share it), the trace ring (two processes and no types to help),
the deferred records with the artifact store, the gate and the shard worker, and the execution
with its splicers and the global memory. Together they follow a proof from the executor's
chunks to the reduced proof.

Next, where the project is taken further:

1. `Controller`: `run`'s stages and their failure, and the deliveries of CoreExecute. Two
   executions that run side by side are the reason for `DuplicateShardFilter`; the filter lets
   precompile shards through, and the guard named in its comment only sees an execution that
   has completed.
2. `TaskSubscriber`: the pump in `client.rs` between `LocalWorkerClient`'s subscriptions and
   the event streams of `CompressTree` and `DeferredRecords`; with it they can be composed.
3. `Groth16Queue`: slots as file locks of several processes. Then the pipelines of
   `slop/crates/futures`, and the network client.

Theorems worth proving next: every safety property of the passing runs has one. What is left is
to state the promises of the compositions above once they are modelled, and to prove them from
the invariants at hand (`AnswerInv` for the subscriber, `ShardInv` and `MemoryInv` for the filter).

## 3. CompressTree

### Correspondence

Two threads of the code are two groups of actions over shared state: the intake task
(`IntakeReceive`, `IntakeInsert`, `IntakeClosed`) and the select loop (`ReceiveNumCoreProofs`,
`ReceiveCoreEvent`, `ReceiveProof`, `ReduceRefused`, `ReceiveReduceEvent`), one action per
branch. A turn of the loop is one step: it has no await between its reads and its writes of
shared state, except the submission of a reduce task, whose refusal is an action of its own.
The intake is two steps because it releases `core_proof_map` between its subscribe and its
insert. `ShardEnds` is the environment.

* A `ShardBoundary` is its rank in the lexicographic order of its six fields, which is how the
  code compares it (a derived order). `ShardBoundary::initial()` is 0 and the range `[0, 0]` is
  the one all precompile (and deferred) shards share.
* A proof is what it attests: its range and the shard tasks it verifies recursively.
* The `BTreeMap` is the set of its values; the key is the start of the value's range. `insert`
  replaces an entry with the same key, as in the code.
* `FastShards` are the shards that may end as soon as they are submitted, before their message
  reaches the intake, as the code allows. The others end after the intake has recorded them,
  which is what happens in practice, since proving takes seconds and the intake two
  statements. A fast shard's event can be lost (finding 1).
* A well-formed execution gives at least two proofs: `global.rs` emits a memory shard besides
  the core ones. A single proof would make `reduce_proofs` return `Ok` without an output, and
  no proof at all would never end; both are excluded by the instances, and by `SeveralShards` in
  the theorems.
* Unreachable with the local client and left out: the `else` branch of the select (the
  streams outlive the loop), a reduce event without an entry in `proof_map`, and an error of
  the intake's subscribe.
* Downloading witnesses happens in the reduce worker and is not part of the loop.

### Runs

| Run | Instance | Properties |
|---|---|---|
| `compress_tree` | ranges 0-1, 1-2 (twice), 2-3, two precompile shards, batches of 4 (`DEFAULT_ARITY`), a core and a precompile shard in `FastShards`; 93 k states | `TypeOK`, `PendingAccounted`, `EntriesApart`, `EachProofOnce`, `NeverWedged`, `EntriesAreRuns`, `ShardsAccounted`, `OutputComplete`, `FullRangeIsFinal`, `ImplementsAggregation`, `Succeeds` |
| `compress_overlap` | overlapping ranges, a failing shard, failing reductions; 2.6 k states | `FailsFast` |
| `compress_race` | two shards, `FastShards` | `Terminates`, violated (finding 1) |

Five proofs and the code's own batch size make every branch of the tree happen: left, right and
both siblings; runs of two and of three proofs that are taken out, extended and put back
(compress.rs:461-463); a merge of five proofs, of which a batch of four is split off and the
rest put back; and, since a reduction of four leaves two proofs, a last batch that is reduced
although it is not full (`|| is_complete`). Merges of six and seven proofs, whose rest is a run
of several, need more shards than a run has room for: the theorems on the tree hold for them, as
for every batch size. In `compress_tree`
the replaced entry and the filter need a range that is proved twice; the sharing
of `[0, 0]` needs two precompile shards, which are siblings of each other. `Succeeds` allows for
the race of finding 1: the reduction returns `Ok` or it has dropped an event (`EventLost`). Such
a reduction stops for good, so `compress_tree` does not check deadlock.

### Fairness

Weak fairness of each branch of the loop, of the intake's steps and of every shard: the runtime
polls both tasks, `tokio::select!` picks among ready branches at random, and a worker ends what
it was given. Nothing is assumed of `ReduceRefused`.

### Abstract specification

`ProofAggregation` has three variables: the accepted proofs, the published one and the outcome.
At most one proof of a range is accepted, one proof of exactly the accepted ones is published
once all ranges are covered, and only then is `Ok` returned. `ImplementsAggregation` is the
refinement, checked by TLC and proved (`RefinementCorrect`): the accepted tasks are collected
from wherever `CompressTree` keeps them (held by the intake, in `core_proof_map`, held back,
queued, in the tree, being reduced), so losing one, or doubling one, is not a step of the
abstract specification.

### Proofs

For every finite set of tasks, every assignment of ranges and every batch size of at least 2:

* `TypeCorrect`, `PendingCorrect`. `TypeOK` is not inductive: `pending_tasks - 1` is a natural
  number only because a received proof was counted. The inductive invariant `PendingInv` adds
  `PendingAccounted`, that reduce tasks in flight have ids below `submitted` (so that adding
  one raises the cardinality by one), and that the runs of the tree are not empty.
* `ShardsCorrect`, `FullRangeCorrect`. `CountInv` ties the intake's count to the completed
  proofs and to the entries of `core_proof_map`, and says that the number sent through the
  channel is final: what was counted equals the number once the channel was used.
* `RunsCorrect`. Joining chains of adjacent proofs gives a chain (`JoinChains`), a part of one
  is one (`SubChain`), so what `sibling` merges and `split_off` splits stays one; each kept
  entry is shorter than a batch because at most two such runs and one proof are joined and one
  batch is taken off.

The theorems of `ReductionProofs` are about what executions produce, and say so as hypotheses,
definitions of `CompressTree` over its constants: `ShardsApart` (a range is the precompile one or
not empty, and two ranges are equal, of a shard submitted twice, or do not overlap),
`ShardsAdjoin` (a range begins at the initial boundary or where another ends) and
`SeveralShards`. `MCCompressTree` assumes that its well-formed instances satisfy all three and the
overlapping one does not, and TLC evaluates that.

* `ApartCorrect`, `OnceCorrect`, under `ShardsApart`. The proofs at hand are those in line (queued or
  held back), the entries of the tree and the reductions in flight. The invariant `TreeInv` says
  that each is `Fine` (the shards it attests fill its range), that no two have a shard or a part of
  their ranges in common (`Separate`), that what the intake took on is at hand or waited for and
  has one shard of a range (`TakenInv`), and that the loop's count and maximum are those of the attested shards (`MaxInv`).
  Neither property is inductive without the others: that the two siblings found for a proof are
  the only ones it could be merged with needs that no other proof overlaps them, and that needs
  the filter.
* `OutputCorrect`, with `SeveralShards`. A reduce task is complete exactly when its proof attests
  every shard; it is then the only proof at hand (`OutInv`).
* `WedgeCorrect`, with `ShardsAdjoin`. When nothing is pending and the full range is known, an entry
  that does not start at the initial boundary would be adjacent to another, which `EntriesApart`
  excludes, so one entry of the full range is left (`OneEntry`).
* `RefinementCorrect`, with `SeveralShards`: `IntakeReceive` of a new range accepts, the complete
  reduction publishes, the return and the failures end; every other step keeps what is accepted.

## 4. LocalWorkerClient

### Correspondence

Every lock the client takes, and every await, ends a step. `submit_task` is `SubmitRecord`
(under the write lock of `proof_index`), `SubmitSend` (waiting for room in the queue) and
`SubmitRecheck`; `update_task_status` is `UpdateLookup`, `UpdatePost` and `UpdateUnlink`;
`resubmit_task` is `RetryCheck`, `RetryCount`, `RetryLookup` and `RetrySend`; a subscription is
`Subscribe`, `SubscriptionLookup` and `SubscriptionAnswer`; `release` (`complete_proof`, then
`cleanup`) is `ReleaseIndex`, `ReleaseDb`, `ReleaseChannels` and `Cleanup`. `DropRequest` is the
caller dropping the request inside the release: the future is cancelled at the lock it waits
for and `ReleaseOnDrop` starts another release.

* Two kinds stand for the two shapes of the handlers: `"execute"` (Controller, CoreExecute) runs
  one task at a time inside its loop and reports a retryable error as a failure; `"prove"`
  (SetupVkey, ProveShard, RecursionReduce, RecursionDeferred) runs tasks concurrently, each
  output handled by a task of its own, and retries under the same id.
* `"failed"` stands for FailedFatal, and for FailedRetryable of an `"execute"` task; no waiter
  tells them apart.
* `watch` is the value of the task's watch channel; a sender is alive while the task is in `db`
  or an update holds its copy (`"post"`), which is when a waiter goes on waiting.
* A task's message channel is `"none"`, `"buffered"` (created by the sender) or `"taken"`
  (created or taken by the subscriber); removing it drops the sender, which ends the stream.
  Messages themselves carry no state here.
* `attempts` is a history variable. `ended_proofs` is unbounded here, an LRU of 4096 in the
  code. `wrap_tasks`/`take_wrap_times` are timings that nothing decides on and are left out,
  and so is the release of GPU caches inside `resubmit_task`.

### Runs

| Run | Instance | Properties |
|---|---|---|
| `client_twin` | two shards of one proof, queue of one place, one retry, release at any time; 169 k states | `BookkeepingReleased`, `OneCopy`, `AttemptsBounded`, `StatusIsFinal`, `WaitersAnswered` |
| `client_mixed` | an execution of one proof and a shard of another, requests may be dropped; 4.4 M states | `TypeOK`, `AnswerIsOutcome` |
| `client_dropped` | one shard, its request may be dropped | `WaitersAnswered`, violated (finding 2) |
| `client_stream` | one execution | `StreamEnds`, violated (finding 3) |

Two tasks are enough for what tasks share: the queue of one place (a retry against a
submission), the handler's loop, the index entry of their proof. One retry allows both answers
of the budget check. The code's queue also has capacity 1. Deadlock is checked: the only
quiescent state is `Idle`, all proofs released and all queues empty.

### Fairness

Weak fairness of the handlers' loops, of subscriptions and of a started release (a proof may
stay unreleased for ever: starting the release is not fair). Strong fairness of a task's
sends: room in the queue comes and goes, but a tokio channel serves the waiting senders in
order, so none of them waits for ever. A task that was started ends. Submitters are not
assumed to do anything.

### Proofs

`TypeCorrect`, for every set of tasks and proofs, capacity and retry budget: in particular no
retry count exceeds the budget. `ReleaseCorrect`, when no request is dropped during its release:
`proof_index`, `db` and `artifact_index`, the maps that the tests count (`tracked`, local.rs:135),
have nothing of a released proof and never do again, although submissions, retries and updates
are anywhere in their steps. Two other maps do get entries back, and the code does not prune
them: `retry_counts`, whose field says "Pruned by `cleanup`" (local.rs:57), when a retry has
passed the check of `resubmit_task` before the proof ends and counts itself after `cleanup`; and
`task_channels`, when a straggler sends a message or a subscription comes late. Each is a small
leak per such task. The property says of the counts what makes them harmless (`LateCount`): such a count
is one, and its task is not queued again; of channels it says nothing. The invariant needed, `ReleaseInv`, says that a proof whose release was
started has ended, that an ended proof has no task in the index, that `db` holds only indexed
tasks or those the release has taken over, and that artifacts are tracked only until `Cleanup`;
`LateCounts` adds that a task that counts itself late finds no `db` entry and is done.
The assumption is needed: with a drop `BookkeepingReleased` is false (finding 2 is its effect
on waiters).

`CopyCorrect`, from `CopyInv`: a queue holds tasks of its kind, none twice, a queued task is not in
the hands of the node, a task not yet sent is in neither, and one whose status is set is done.
`StatusCorrect` follows, since the one update of a task is posted by the handler that has it.
`AnswerCorrect`, also when requests are dropped: a recorded task has its `db` entry until its proof
has ended, because a release marks its proof first and takes only that proof's tasks.
`AttemptsCorrect`, when no request is dropped during its release: each start but the first was
counted as a retry (`StartsCounted`) until `Cleanup` drops the count, and then the task has no `db`
entry to be retried with. With a drop the entry can stay while the count is reset, so that the
task has its retries again.

## 5. ShmTraceRing

### Correspondence

Each access of a process to shared memory is a step: `drop(ProducerGuard)` is `Commit` then
`PostFilled`, `mark_finished` is `MarkFinished` then `FinishedPost`, the signal handler is
`NotifyCrash` then `CrashPost`; `access` and `claim_read_slot` are `AccessCheck`, `AccessWake` or
`AccessTimeout`, `TimedOutCrash`, `TimedOutEnd`, `ClaimCrash`, `Claim`, `ClaimEmpty`;
`complete_read` holds a lock of the parent and releases one slot per step. `TryExecuteChunk`,
`TryWait`, `WaitForSuccess`, `ReportCrash` and `Abandon` are the runner in the parent.

* A chunk is its number, a slot holds the number of the chunk last written, or `Garbage` from
  `Acquire` until `Commit`.
* The atomics are read and written with acquire/release order and each index has one writer
  (`reserved_idx` is also written by `open`, before the child writes anything), so interleaving
  of single accesses is what the code can do.
* `Crash` is a fatal signal while the handler is attached; `Killed` is any death without notice
  (the memory monitor, SIGKILL), at any point.
* What the child writes to stdout at its end fits into the pipe (`"output"`, left by `Exit`) or
  does not (`"spilling"`); then it exits only once the parent reads (`Drain`).
* A failure to spawn the child changes no state: the call returns an error and may be
  repeated, which is a stutter. A failure to send it the program leaves it dead (`MayDie`).
  `reset` makes a new ring: a new behaviour of the specification.
* `Acquire` and `AccessWake` assume that `sem_wait` returned with a permit: the code does not look
  at its result (shm.rs:90), which is an error when a signal handler interrupts the wait and
  returns. The only handler installed is the child's crash handler. No property covers that.
* Left out: `ShmMemory`, the list of names to unlink at exit, runs without tracing.

### Runs

| Run | Instance | Properties |
|---|---|---|
| `ring_crash` | 3 slots, 6 chunks, the child may die, output of either size | `TypeOK`, `HeldIntact`, `PermitsAccounted`, `FinishedIsComplete`, `WakeFindsWork`, `SpilledTraceComplete`, `EndReported` |
| `ring_exit` | 2 slots, 2 chunks | `TraceComplete`, violated (finding 4) |

Twice as many chunks as slots makes every slot be reused, with all slots held, dropped in any
order. Deadlock is checked; a finished run is the step `Over`.

### Fairness

Both processes run; the parent asks for chunks until it is told the end; every chunk is dropped
some time (their consumers run to completion). Nothing is assumed of crashes and kills.

### Proofs

For every capacity and number of chunks: `TypeCorrect`, `HeldCorrect`, `PermitsCorrect`,
`FinishedCorrect`, `WakeCorrect`, and `TraceCorrect`: no chunk is lost by a child whose output
did not fit into the pipe. The inductive invariant `RingInv` is the conjunction of `CountInv` (the indices are
ordered, chunks between `read_idx` and `reserved_idx` are exactly the held and the completed
ones, permits and tokens are exact, where each process is agrees with the flag) and `Stored`
(every chunk between `read_idx` and `write_idx` is in its slot). The key lemma is `SlotsApart`:
indices less than `Capacity` apart, and different, are in different slots; a write is to an index
that far from every held chunk because a permit was taken for it. `TraceCorrect` needs one more
invariant: the child has exited only if the parent had seen the end of the ring.

## 6. CoreExecution

### Correspondence

`execute` joins four tasks. Three are here; the fourth, the precompile emitter, is
`DeferredRecords`.

* *Executor thread* (`executor`, `chunk`): `PullChunk` is a chunk or the end of the trace from
  `try_execute_chunk`, `TakeCarry` the blocking wait for the previous chunk's open shard,
  `SubmitSplicer` the submission, `EndExecutor` what follows the loop. A killed child is two steps,
  `ChildIsKilled` (which sets `child_killed`) and `StopExecutor` (which ends the thread and drops
  its channels), since the others notice the second only.
* *Splicers*, one per chunk: the blocking thread (`thread`: `CommonInput`, `SpliceShard`,
  `EndOfChunk`, `EndOfProgram`, `CarryNothing`, `ExtendTouched`), the tasks that take splices from
  `splicing_tx` and send them to be proven (`TakeSplice`, `SendShard`), and the result of
  `splice_chunk` (`splicer`, `JoinSplicer`). They are apart because the thread goes on when
  `splice_chunk` has failed, until it next uses the closed channel.
* *Collector* (`Collect`): waits for the handles in any order, fails with the first of them.
* *Global memory handler*: `MergeTouched`, `ReceiveFinalState`, `EmitAddress` (one step of the merge
  of bitmap and registers, with the flush), `EmitRest`, `EmitPages`, `SendMemoryShard`, `EndMemory`.
* `Return` is the join loop. What is async stops with it; threads and splicers, which the splicing
  engine runs, go on.

Abstractions:

* Time is the clk. The splicing VM decides where a shard is full from its trace, from the
  shard's start only; here that is `ShardLength` cycles after the start. `vm.splice` gives no
  rest exactly when the chunk is used up, so a boundary at the end of a chunk carries the full
  shard on (`>=` in `EndOfChunk`).
* The chunks of a program continue each other. The branches for chunks that do not (a carried
  shard that does not join, reads left over) are not taken and not modelled.
* An address is a number; events carry the address only. `MemoryPlans` and `PagePlans` are the
  hints, images, registers and pages that may be found: all combinations are tried.
* The bound on splicers at work (the splicing engine's) is left out: a splicer waits for nothing
  that a later one does. The permit a send waits for is `DeferredRecords`'s subject.
* The cache of the minimal executor and the output channel are left out.

### Run

`core_execution`: 9 cycles, shards of 2, chunks that end at 1, 4 and 9, `splicing_tx` of 2 as in
the code, two send workers, room for one bitmap, memory shards of 2 addresses, any number of
failures of any kind; 361 k states. The first chunk has no boundary, the second ends exactly at
one, the third has more shards than the channel has room. 8 is a touched address and a
register, 24 a hint and an image address.

| Property | What it says |
|---|---|
| `ShardsAsOneChunk` | whatever fails, shards sent are those of the program run as one chunk, none twice |
| `OkIsComplete` | an execution that returns its output has sent all shards |
| `KillIsRetried` | a kill alone never ends in a fatal error |
| `MemoryShardsPartition` | memory and page shards cover what was touched once, in order, in ranges that chain and differ |
| `ExecuteReturns` | `execute` returns |

Fairness is weak fairness of all steps but the faults (`Progress`): every step moves a thread or a
task forward, so any of them being taken is enough. The run may stop once `execute` has
returned, so deadlock is not checked; a hang before that is what `ExecuteReturns` excludes.

### Proofs

`KillCorrect`: `KillIsRetried` for every cut into chunks, shard length, channel size and set of
faults. The invariant `KillInv` is about executions in which nothing has gone wrong yet (`Clean`):
in them no task fails (`NothingFails`). That needs `Submitted` (the executor ends after the last
chunk was submitted), `FinalStateSet` (a shard is open inside its chunk until the end of the
program is recorded, so the last splicer, which never carries an open shard on, ends only after it
set the final state) and `EndsInOrder` (the collector ends after the executor, and `execute`
returns its output after both): the collector then finds a final state, and no receiver of the
executor is gone early. The first failure is hence a recorded fault or follows the mark of the
kill. The assumptions are that chunk ends increase and that the sizes are positive.

`ShardsCorrect`: `ShardsAsOneChunk`, whatever fails. `ShardInv` says that chunks are spliced one after
another, each from where the one before left its shard open (`OneAfterAnother`), that every
splicer's next shard starts at a multiple of `ShardLength` (`CutAligned`), that the shards it has cut
and not sent are shards of the program between the starts of its neighbours (`PendingOwn`,
`PendingOnce`), that a sent shard was cut and sent once (`SentCut`), and that without a failed splicer
every shard that was cut is sent or pending (`NoneLost`).

`CompleteCorrect`: `OkIsComplete` from these and `CompleteInv`: a splicer that ended has nothing
pending, the collector ends after all of them, the last thread ends at the end of the program,
the memory handler goes past merging when nothing is left in its channel and returns when
everything it made was sent.

`MemoryCorrect`: `MemoryShardsPartition` for every threshold and whatever is touched, hinted, in the
image or a register. `MemoryInv` follows the merge: with each step (`Emission`) the addresses that
are left are greater than all that were emitted, and what is in the shards and in the buffers
(taken as one more shard) lists the emitted ones once and in order, the initialized ones without
the image. Shards made so far are in a row (`InARow`): not empty, within the threshold, each from
where the one before ends to its own last address. For the page shards, `Sorted` is the list of
the k-th smallest elements (`SortedFacts`, from `RankFacts`: the number of smaller elements is
different for any two, so it takes each value below the size), and the chunks of a sorted list
follow one another, each from the last page of the one before (`ChunksList`). That ranges differ
needs an address above 0: memory shards differ by their last address and page shards by their last
page, but if 0 were the only address, the range of its shard would be empty and equal to that of
a page shard of page 0. `MemoryAssumption` asks for such an address in the memory image; the ELF
loader justifies it (`disassembler/elf.rs:163` refuses a program without instructions, `:267` a
segment below the top of the stack).

`ExecutionTypes`: `TypeOK` from these invariants and `Bounds`, the sizes of the channels and the number
of sends at once.

## 7. DeferredRecords

### Correspondence

* *Executor and gate*: `SubmitCoreShard` is `SendSpliceWorker::call` with `create_core_proving_task`
  (permit, record, marker, task), which refuses the task of an ended proof (`TaskRefused`);
  `ReleasePermit` the release task of `schedule_release`; `DropGate` the drop of the last clone when
  the executor returns.
* *Shard worker*, per delivery of a task (`attempt`): `Start` downloads the record, `DownloadEvents`
  the slices of a precompile shard, `Prove` proves, verifies and normalizes, `DropSliceRef` and
  `FreeSlice` are the two locked halves of `remove_ref`, `Finish` joins the deferred upload and
  deletes the record, `Fail` is `recover_if_complete` with the status or retry that follows. Errors:
  `TraceFails` before the deferred upload is spawned, `Prove` for a failed verification (retryable) or
  any other failure (fatal), `JoinFails` when the joined upload failed.
* *Deferred upload* (`upload`), on a task of its own: `UploadDeferred`, `CompleteMarker`, and
  `UploadFails` for each of its error returns.
* *Emitter*: `ListenerReceive`, `ReceiveMarker`, `DownloadWrapper`, `AppendEvents`, `CutShard`,
  `AddSliceRef`, `DropControllerRef`, `SubmitPrecompileShard`, `AllSubmitted`, `EndOfStream`; it
  returns an error for a marker that failed (`ReceiveFailedMarker`) and when a shard is refused
  (`SubmitRefused`, which also stands for a refused core shard: its error ends the executor).
* *End of the proof* (`ended`): once a shard task has failed the controller, which waits for all of
  them, fails the request (`RequestFails`), and its release prunes the tasks and deletes the artifacts
  they name (`ProofEnds`). Workers, uploads and the emitter run on: markers can no longer be completed
  or waited for, retries and new tasks are refused.
* `Redeliver` is the cluster, external: it delivers a task again, before or after its end.

Abstractions: one syscall code, as codes are split independently; an event artifact is the
shard, attempt and chunk it came from; verification fails together with normalization, because
the recursion circuit verifies the shard proof; the permits are one pool; the release of a proof,
whose steps `LocalWorkerClient` has, is one step. Failed steps and redeliveries are bounded by
`MaxFaults` in all, attempts by `1 + MaxFaults`. Left out: a record that cannot be uploaded, which
only ends the executor with an error, events of an upload that failed half-way, which no list names,
and deletes that fail, which `try_delete` logs.

### Runs

| Run | Instance | Properties |
|---|---|---|
| `records_retry` | core shards of 1 and 4 events, shards of 3, two permits, one retry, one fault; 515 k states | `TypeOK`, `EachEventOnce`, `SlicesStored`, `ShardsFull`, `RecordGoesLast`, `RecordsBounded`, `EventsFreed`, `EmitterEnds` |
| `records_redelivery` | one core shard | `RedeliveryRecovered`, violated (finding 5) |

Four events are an artifact of 3 and one of 1; after the single event of the other shard the
first is cut in two, its parts in different shards, which is the case reference counts are for.
In the other order a shard is full at once. Two permits for three shards at a time make a
submission wait. One fault is any of: a failed verification, which is retried; an error of the worker
before or after its upload is spawned, or of the upload, which fails the task for good and ends the
proof while the others run; a second delivery. `RecordsBounded` leaves out deliveries, failed tasks
and failed uploads, for which the code makes no promise: a redelivered task has no permit, a failed
one keeps its record, and so does one whose upload failed after another delivery had stored its
outputs. It is about a store that bounds permits; the in-memory one grants them all. `EventsFreed` speaks of
the artifacts that were used: those of an attempt whose wrapper was replaced before it was read
stay, and the code says nothing of them.

`SlicesStored`, `RecordGoesLast`, `EventsFreed` and the second half of `EachEventOnce` speak of a
proof that has not ended: its end deletes records, outputs and lists that are in use, and what still
runs for it may find them gone.

Fairness is weak fairness of `Progress`, all steps but `Redeliver`. `RequestFails` is in it because
`collect_core_proofs` and `reduce_proofs` wait for every shard task. A run may stop when all is
done, so deadlock is not checked. `EmitterEnds` excludes a wait for a permit or a marker that never
comes: the emitter returns, done or with an error. It has one exception, `MarkerLost`. If the worker
has stored proof and wrapper and only `complete_task` of the marker fails, the task's error is
recovered, since its outputs exist (`client.rs:195-213`); the shard counts as proved, nobody completes
the marker and the emitter waits for it. With the local client `complete_task` fails only once the
proof has ended, and then the wait ends too; a remote client could fail earlier.

### Proofs

For every number of core shards, events, thresholds, permits and faults; the chunk ends of a
core shard increase strictly, and shard names are not numbers, as precompile shards are.
What is said of the store and of events holds until the proof ends, so `RefInv`, `FreedInv` and the parts
of `CoverInv` are carried as "ended, or they hold"; the emitter's own invariants hold always.

* `EmitInv`, about the emitter alone: its slices are whole parts of chunks, no two overlap, and all
  slices of a core shard are of one attempt, since a marker is waited for once (`OneAttempt`). Slices
  that are accumulated, or cut together, are of different artifacts; only the last one of the
  shard being cut can share its artifact, with the first of the rest (`RemainderApart`).
* `RecordCorrect` from `WorkerInv`: until the proof ends, where an attempt is says what it has stored,
  and an upload that is done has completed its marker.
* `GateCorrect` from `GateInv`: while nothing was delivered twice a task has one attempt that runs, and
  a record is held by a permit or belongs to a failed task.
* `StoredCorrect` from `RefInv`: what is not cut has the emitter's reference, what is being cut has it
  from `position` on and its own before, what was cut has its own until its proof is stored, and a
  worker that frees an artifact was the last to refer to it. Slices of one artifact have different
  keys (`SliceKeys`): they do not overlap.
* `FreedCorrect` from `FreedInv`: an artifact that is stored without a reference is being freed
  (`UnreferencedFreed`); every reference is the emitter's, of what is not yet cut, or that of a slice
  (`RefsExplained`); and a shard with a proof has an attempt that has dropped the references of all
  slices it is past (`ProofDrops`). A retried attempt cannot store a freed artifact again, because
  the list that was used is written (`UsedListed`) and every attempt uploads under its own names.
* `OnceCorrect` from `CoverInv`: the events of a core shard that is no longer waited for are in slices
  (`NoneLost`), because its list is stored before its marker (`ListsFirst`), and at the end nothing is
  left (`EndedEmpty`).
* `FullCorrect` from `FullInv`: `split` cuts at the first slice that reaches the threshold, so each
  shard holds it exactly, except one that is cut when the stream has ended.
* `TypesCorrect` from `TypesInv`: `TypeOK` bounds deliveries and shards. Every delivery but the first
  was paid for by a fault (`DeliveriesPaid`), and shards hold at least one event each, no event twice,
  so there are no more shards than events.

## 8. Findings

1. **A fast shard stops the reduction** (`compress_race`). The intake subscribes to a task
   before it inserts the task into `core_proof_map`; an event in between is dropped and the
   reduction waits for ever. `compress.rs:323` documents that the function terminates.
2. **A request dropped during its release keeps its waiters waiting** (`client_dropped`).
   `complete_proof` takes the index entry away before it awaits the next lock; the second
   release finds no entry and prunes nothing. `node/full/mod.rs:97` and `:121` say otherwise.
3. **A late subscription to messages never ends** (`client_stream`). A terminal status removes
   the channel; subscribing after that makes a new one. `client.rs:56` promises that the stream
   ends with the task.
4. **Last chunks lost at exit** (`ring_exit`). After a timeout of `access` the parent asks
   whether the child has exited, and takes a successful exit for the end of the trace without
   looking at the ring again.
5. **A finished core shard fails when it is delivered again** (`records_redelivery`). The emitter
   deletes the shard's deferred output, one of the two outputs that `recover_if_complete` looks
   for; the second delivery finds its record gone, is not recovered, and the task turns from
   succeeded to failed. `prover/core.rs:393` and `client.rs:195` say that it is recovered. The
   local client does not deliver twice; a cluster does.

## 9. What is only model-checked, and what is not modelled

Liveness (`Succeeds`, `FailsFast`, `WaitersAnswered`, `EndReported`, `ExecuteReturns`,
`EmitterEnds`) is checked by TLC only:
fairness and ENABLED are out of the reach of the prover. Every safety property of the passing
runs has a theorem. Three sets of them have hypotheses: those of `ReductionProofs` (section 3), and
`ReleaseCorrect` and `AttemptsCorrect` (no request dropped inside its release, `~MayDrop`), each
false without. No theorem is by induction over data, and no module declares a RECURSIVE operator.

Not modelled: the components of section 1 that the plan names, until their turn; and for good
the interpreters, the arithmetic of the proof system, the GPU kernels, the verifier, the guest
runtime and the command line, whose correctness is not a matter of states and steps.
