--------------------------- MODULE DeferredRecords ---------------------------
(***************************************************************************)
(* How the precompile events of core shards reach precompile shards.       *)
(*                                                                         *)
(* The executor submits a ProveShard task per core shard, with a marker    *)
(* task and a place for the shard's deferred events.  The worker that      *)
(* proves the shard uploads the events as artifacts, then the list of them *)
(* (the wrapper), and completes the marker, all on a task of its own that  *)
(* outlives a failed attempt.  The emitter (emit_precompile_shards) waits  *)
(* for the markers, accumulates the events, cuts them into shards of       *)
(* Threshold events and submits those.  Event artifacts are shared by      *)
(* shards and freed by reference counts.  A task can be retried, and the   *)
(* cluster can deliver it again.                                           *)
(*                                                                         *)
(* A shard task or an upload can fail for good.  The controller then fails *)
(* the proof, whose end prunes its tasks and deletes their artifacts: what *)
(* still runs for it is refused, and who waits for a marker is told that   *)
(* it failed.                                                              *)
(*                                                                         *)
(* Every syscall code is split by itself; the module follows one code.     *)
(***************************************************************************)
EXTENDS Integers, Sequences, FiniteSets, FiniteSetsExt, SequencesExt

CONSTANTS
    Shards,             \* the core shards
    NumEvents,          \* the number of deferred events of each core shard
    Threshold,          \* split_opts.syscall_threshold of the code
    Permits,            \* the permits of the gate's pool
    MaxRetries,         \* MAX_LOCAL_TASK_RETRIES
    MaxFaults,          \* bound: failed steps and redeliveries, in all
    None

ASSUME ShardsAssumption ==
    /\ IsFiniteSet(Shards)
    /\ NumEvents \in [Shards -> Nat]
    /\ None \notin Shards
    /\ Shards \cap Nat = {}
ASSUME BoundsAssumption ==
    /\ Threshold \in Nat \ {0}
    /\ Permits \in Nat \ {0}
    /\ MaxRetries \in Nat
    /\ MaxFaults \in Nat

TotalEvents == Cardinality(UNION {{s} \X (1..NumEvents[s]) : s \in Shards})

(* The tasks: the core shards, and the precompile shards in the order they *)
(* were cut.  An attempt is a delivery of a task to a worker.              *)
Precompiles == 1..TotalEvents
Tasks == Shards \cup Precompiles
MaxAttempts == 1 + MaxFaults
Attempts == Tasks \X (1..MaxAttempts)

VARIABLES
    \* The artifact store.
    records,        \* the tasks whose record is stored
    outputs,        \* the tasks whose proof is stored
    wrappers,       \* per core shard: the attempt that wrote the stored wrapper, or 0
    events,         \* the event artifacts stored: <<core shard, attempt, chunk>>
    refs,           \* the references of event artifacts: <<artifact, key>>
    \* The workers.
    status,         \* per task: its last status
    delivered,      \* per task: how often it was delivered
    retries,        \* per task: its entry of retry_counts
    failures,       \* the steps of attempts and of uploads that failed
    redeliveries,   \* the tasks that were delivered again
    attempt,        \* per attempt: where its worker is, and the slice it is at
    upload,         \* per attempt of a core shard: where its deferred upload is
    markers,        \* the core shards whose marker task has succeeded
    \* The executor and the gate.
    unsent,         \* the core shards not yet submitted
    messages,       \* the deferred messages in deferred_marker_rx
    ended,          \* whether the proof has ended (ended_proofs)
    held,           \* the tasks whose permit is held
    \* The emitter.
    dataMap,        \* task_data_map
    subscribed,     \* the markers subscribed to
    emitter,        \* where the event loop is
    current,        \* the core shard whose events are being handled
    wrapper,        \* the attempt whose list of events was downloaded, or 0
    accumulator,    \* deferred_accumulator: the slices not yet in a shard
    cutting,        \* the slices of the shard that is being cut
    position,       \* the slice of cutting that is being referenced
    remainder,      \* whether the last slice of cutting was cut in two
    cut,            \* the shards cut and not yet submitted
    submitted       \* the precompile shards submitted

storeVars == <<records, outputs, wrappers, events, refs>>
workerVars == <<status, delivered, retries, failures, redeliveries, attempt,
                upload, markers>>
executorVars == <<unsent, messages, ended>>
listenVars == <<dataMap, subscribed>>
emitVars == <<emitter, current, wrapper, accumulator, cutting, position,
              remainder, cut, submitted>>
vars == <<storeVars, workerVars, executorVars, held, listenVars, emitVars>>

-----------------------------------------------------------------------------
(* Event artifacts and slices.                                             *)

(* defer_record: the events of a shard, in chunks of at most Threshold.    *)
NumChunks(s) == (NumEvents[s] + Threshold - 1) \div Threshold
ChunkLen(s, i) ==
    IF i * Threshold <= NumEvents[s] THEN Threshold
                                     ELSE NumEvents[s] - (i - 1) * Threshold
EventArtifacts(s, n) == {<<s, n, i>> : i \in 1..NumChunks(s)}

FaultyDeferRecordWhole(s, n) ==
    [i \in 1..NumChunks(s) |->
        [artifact |-> <<s, n, i>>, start |-> 0, end |-> NumEvents[s]]]

(* The DeferredEvents that defer_record returns.                           *)
DeferRecord(s, n) ==
    [i \in 1..NumChunks(s) |->
        [artifact |-> <<s, n, i>>, start |-> 0, end |-> ChunkLen(s, i)]]

Length(slice) == slice.end - slice.start
(* The events of a sequence of slices, each by its slice and its place.    *)
Events(slices) ==
    {e \in (1..Len(slices)) \X (0..Threshold) :
        slices[e[1]].start <= e[2] /\ e[2] < slices[e[1]].end}
Count(slices) == Cardinality(Events(slices))

(* The keys of references: the emitter's own, and one per slice of a shard *)
(* to prove.                                                               *)
ControllerRef == <<-1, -1>>
SliceRef(slice) == <<slice.start, slice.end>>
RefsOf(a) == {r \in refs : r[1] = a}

-----------------------------------------------------------------------------
Idle == [pc |-> "none", slice |-> 0]
At(pc) == [pc |-> pc, slice |-> 0]

Init ==
    /\ records = {} /\ outputs = {} /\ events = {} /\ refs = {}
    /\ wrappers = [s \in Shards |-> 0]
    /\ status = [t \in Tasks |-> "unsubmitted"]
    /\ delivered = [t \in Tasks |-> 0]
    /\ retries = [t \in Tasks |-> 0]
    /\ failures = 0
    /\ redeliveries = {}
    /\ attempt = [a \in Attempts |-> Idle]
    /\ upload = [a \in Shards \X (1..MaxAttempts) |-> "none"]
    /\ markers = {}
    /\ unsent = Shards
    /\ messages = {}
    /\ ended = FALSE
    /\ held = {}
    /\ dataMap = {} /\ subscribed = {}
    /\ emitter = "waiting"
    /\ current = None
    /\ wrapper = 0
    /\ accumulator = <<>> /\ cutting = <<>> /\ cut = <<>> /\ submitted = <<>>
    /\ position = 0
    /\ remainder = FALSE

-----------------------------------------------------------------------------
(* create_core_proving_task: take a permit, and unless the proof has ended *)
(* upload the record and submit the task.                                  *)

FaultyCreateTaskUngated(t) ==
    /\ ~ended
    /\ records' = records \cup {t}
    /\ held' = held \cup {t}
    /\ status' = [status EXCEPT ![t] = "pending"]
    /\ delivered' = [delivered EXCEPT ![t] = 1]
    /\ attempt' = [attempt EXCEPT ![<<t, 1>>] = At("queued")]

CreateCoreProvingTask(t) ==
    /\ Cardinality(held) < Permits
    /\ ~ended
    /\ records' = records \cup {t}
    /\ held' = held \cup {t}
    /\ status' = [status EXCEPT ![t] = "pending"]
    /\ delivered' = [delivered EXCEPT ![t] = 1]
    /\ attempt' = [attempt EXCEPT ![<<t, 1>>] = At("queued")]

(* SendSpliceWorker: a core shard, and its deferred message.               *)
SubmitCoreShard(s) ==
    /\ s \in unsent
    /\ CreateCoreProvingTask(s)
    /\ unsent' = unsent \ {s}
    /\ messages' = messages \cup {s}
    /\ UNCHANGED <<outputs, wrappers, events, refs, retries, failures,
                   redeliveries, upload, markers, ended, listenVars, emitVars>>

(* The task of an ended proof is refused: the permit drops, and the error  *)
(* ends execute.                                                           *)
TaskRefused ==
    /\ Cardinality(held) < Permits
    /\ ended

Terminal == {"succeeded", "failed"}

FaultyReleasePermitPrecompile(t) ==
    /\ t \in held \cap Precompiles
    /\ status[t] \in Terminal \/ ended
    /\ held' = held \ {t}
    /\ UNCHANGED <<storeVars, workerVars, executorVars, listenVars, emitVars>>

(* The release task of the gate drops the permit at the task's end, or     *)
(* when waiting for it fails, as it does once the proof has ended.         *)
ReleasePermit(t) ==
    /\ t \in held
    /\ status[t] \in Terminal \/ ended
    /\ held' = held \ {t}
    /\ UNCHANGED <<storeVars, workerVars, executorVars, listenVars, emitVars>>

(* The executor returns once its shards and the emitter are done, or one   *)
(* failed: the last clone of the gate aborts the release tasks, and their  *)
(* permits drop.                                                           *)
DropGate ==
    /\ (unsent = {} /\ emitter = "done") \/ emitter = "failed"
    /\ held # {}
    /\ held' = {}
    /\ UNCHANGED <<storeVars, workerVars, executorVars, listenVars, emitVars>>

-----------------------------------------------------------------------------
(* The worker: CoreWorker::call.                                           *)

FaultsLeft == failures + Cardinality(redeliveries) < MaxFaults

Goto(t, n, pc) == attempt' = [attempt EXCEPT ![<<t, n>>] = At(pc)]

SlicesOf(t) == submitted[t]

(* Download the record and trace it.  Then the deferred upload of a core   *)
(* shard is spawned.                                                       *)
StartCore(t, n) ==
    /\ t \in Shards
    /\ Goto(t, n, "proving")
    /\ upload' = [upload EXCEPT ![<<t, n>>] = "events"]

StartPrecompile(t, n) ==
    /\ t \in Precompiles
    /\ Goto(t, n, "downloading")
    /\ UNCHANGED upload

Start(t, n) ==
    /\ attempt[<<t, n>>].pc = "queued"
    /\ IF t \in records
       THEN StartCore(t, n) \/ StartPrecompile(t, n)
       ELSE Goto(t, n, "fatal") /\ UNCHANGED upload
    /\ UNCHANGED <<storeVars, status, delivered, retries, failures, redeliveries,
                   markers, executorVars, held, listenVars, emitVars>>

(* An error before that: a download, the program, decoding or tracing the  *)
(* chunk.  There is no upload then.                                        *)
TraceFails(t, n) ==
    /\ attempt[<<t, n>>].pc \in {"queued", "downloading"}
    /\ FaultsLeft
    /\ failures' = failures + 1
    /\ Goto(t, n, "fatal")
    /\ UNCHANGED <<storeVars, status, delivered, retries, redeliveries, upload,
                   markers, executorVars, held, listenVars, emitVars>>

(* Download the events of a precompile shard.                              *)
DownloadEvents(t, n) ==
    /\ attempt[<<t, n>>].pc = "downloading"
    /\ IF \A i \in DOMAIN SlicesOf(t) : SlicesOf(t)[i].artifact \in events
       THEN Goto(t, n, "proving")
       ELSE Goto(t, n, "fatal")
    /\ UNCHANGED <<storeVars, status, delivered, retries, failures, redeliveries,
                   upload, markers, executorVars, held, listenVars, emitVars>>

(* Prove, verify and normalize.  A shard proof that fails verification has *)
(* no normalize proof either, so nothing was uploaded; other errors are    *)
(* fatal.                                                                  *)
Prove(t, n) ==
    /\ attempt[<<t, n>>].pc = "proving"
    /\ \/ /\ outputs' = outputs \cup {t}
          /\ attempt' = [attempt EXCEPT ![<<t, n>>] = IF t \in Precompiles
                                THEN [pc |-> "dropping", slice |-> 1]
                                ELSE At("finishing")]
          /\ UNCHANGED failures
       \/ /\ FaultsLeft
          /\ failures' = failures + 1
          /\ Goto(t, n, "retryable") \/ Goto(t, n, "fatal")
          /\ UNCHANGED outputs
    /\ UNCHANGED <<records, wrappers, events, refs, status, delivered, retries,
                   redeliveries, upload, markers, executorVars, held,
                   listenVars, emitVars>>

(* The next slice, or the record when there is none.                       *)
NextSlice(t, n) ==
    attempt' = [attempt EXCEPT ![<<t, n>>] =
                   IF @.slice < Len(SlicesOf(t))
                   THEN [pc |-> "dropping", slice |-> @.slice + 1]
                   ELSE At("finishing")]

(* remove_ref of a precompile shard's slices: it removes the reference and *)
(* counts the others under one lock, and with none left frees the artifact *)
(* under another one.                                                      *)
DropSliceRef(t, n) ==
    LET slice == SlicesOf(t)[attempt[<<t, n>>].slice]
        a == slice.artifact
    IN /\ attempt[<<t, n>>].pc = "dropping"
       /\ refs' = refs \ {<<a, SliceRef(slice)>>}
       /\ IF RefsOf(a) \ {<<a, SliceRef(slice)>>} = {}
          THEN attempt' = [attempt EXCEPT ![<<t, n>>].pc = "freeing"]
          ELSE NextSlice(t, n)
       /\ UNCHANGED <<records, outputs, wrappers, events, status, delivered,
                      retries, failures, redeliveries, upload, markers,
                      executorVars, held, listenVars, emitVars>>

FreeSlice(t, n) ==
    LET a == SlicesOf(t)[attempt[<<t, n>>].slice].artifact
    IN /\ attempt[<<t, n>>].pc = "freeing"
       /\ refs' = refs \ RefsOf(a)
       /\ events' = events \ {a}
       /\ NextSlice(t, n)
       /\ UNCHANGED <<records, outputs, wrappers, status, delivered, retries,
                      failures, redeliveries, upload, markers, executorVars,
                      held, listenVars, emitVars>>

-----------------------------------------------------------------------------
(* The deferred upload of a core shard's attempt, which goes on when the   *)
(* attempt fails.                                                          *)

(* The events, and then the list of them: nobody knows the artifacts       *)
(* before the wrapper names them.                                          *)
UploadDeferred(s, n) ==
    /\ upload[<<s, n>>] = "events"
    /\ events' = events \cup EventArtifacts(s, n)
    /\ wrappers' = [wrappers EXCEPT ![s] = n]
    /\ upload' = [upload EXCEPT ![<<s, n>>] = "marker"]
    /\ UNCHANGED <<records, outputs, refs, status, delivered, retries, failures,
                   redeliveries, attempt, markers, executorVars, held,
                   listenVars, emitVars>>

FaultyCompleteMarkerFirst(s, n) ==
    /\ upload[<<s, n>>] \in {"events", "marker"}
    /\ markers' = markers \cup {s}
    /\ upload' = [upload EXCEPT ![<<s, n>>] = IF @ = "marker" THEN "done" ELSE @]
    /\ UNCHANGED <<storeVars, status, delivered, retries, failures, redeliveries,
                   attempt, executorVars, held, listenVars, emitVars>>

CompleteMarker(s, n) ==
    /\ upload[<<s, n>>] = "marker"
    /\ markers' = markers \cup {s}
    /\ upload' = [upload EXCEPT ![<<s, n>>] = "done"]
    /\ UNCHANGED <<storeVars, status, delivered, retries, failures, redeliveries,
                   attempt, executorVars, held, listenVars, emitVars>>

(* The upload fails before the wrapper is stored (events it has uploaded,  *)
(* which no list names, are left out), or the marker cannot be completed,  *)
(* as once the proof has ended.                                            *)
UploadFails(s, n) ==
    /\ \/ /\ upload[<<s, n>>] \in {"events", "marker"}
          /\ FaultsLeft
          /\ failures' = failures + 1
       \/ /\ upload[<<s, n>>] = "marker"
          /\ ended
          /\ UNCHANGED failures
    /\ upload' = [upload EXCEPT ![<<s, n>>] = "failed"]
    /\ UNCHANGED <<storeVars, status, delivered, retries, redeliveries, attempt,
                   markers, executorVars, held, listenVars, emitVars>>

-----------------------------------------------------------------------------
(* The end of an attempt: recover_if_complete, then its status.            *)

(* outputs_exist: the proof, and for a core shard the wrapper.             *)
OutputsExist(t) == t \in outputs /\ (t \in Shards => wrappers[t] # 0)

Post(t, n, st) ==
    /\ status' = [status EXCEPT ![t] = st]
    /\ Goto(t, n, "ended")
    /\ UNCHANGED <<delivered, retries>>

(* resubmit_task: the same task again, within its budget; not for a proof  *)
(* that has ended, unless the retry was past that check.                   *)
Resubmit(t, n) ==
    IF retries[t] >= MaxRetries
    THEN Post(t, n, "failed")
    ELSE /\ retries' = [retries EXCEPT ![t] = @ + 1]
         /\ delivered' = [delivered EXCEPT ![t] = @ + 1]
         /\ attempt' = [attempt EXCEPT ![<<t, n>>] = At("ended"),
                                       ![<<t, delivered[t] + 1>>] = At("queued")]
         /\ UNCHANGED status

NotResubmitted(t, n) ==
    /\ ended
    /\ Goto(t, n, "ended")
    /\ UNCHANGED <<status, delivered, retries>>

FaultyFinishUnjoined(t, n) ==
    /\ attempt[<<t, n>>].pc = "finishing"
    /\ records' = records \ {t}
    /\ Post(t, n, "succeeded")
    /\ UNCHANGED <<outputs, wrappers, events, refs, failures, redeliveries,
                   upload, markers, executorVars, held, listenVars, emitVars>>

(* A core shard joins its deferred upload; the record goes last, and       *)
(* try_delete reports no error.                                            *)
Finish(t, n) ==
    /\ attempt[<<t, n>>].pc = "finishing"
    /\ t \in Shards => upload[<<t, n>>] = "done"
    /\ records' = records \ {t}
    /\ Post(t, n, "succeeded")
    /\ UNCHANGED <<outputs, wrappers, events, refs, failures, redeliveries,
                   upload, markers, executorVars, held, listenVars, emitVars>>

(* The upload that is joined has failed.                                   *)
JoinFails(t, n) ==
    /\ attempt[<<t, n>>].pc = "finishing"
    /\ t \in Shards /\ upload[<<t, n>>] = "failed"
    /\ Goto(t, n, "fatal")
    /\ UNCHANGED <<storeVars, status, delivered, retries, failures, redeliveries,
                   upload, markers, executorVars, held, listenVars, emitVars>>

(* A failed attempt whose outputs exist was completed by another delivery. *)
Fail(t, n) ==
    /\ \/ /\ attempt[<<t, n>>].pc \in {"retryable", "fatal"}
          /\ OutputsExist(t)
          /\ Post(t, n, "succeeded")
       \/ /\ ~OutputsExist(t)
          /\ \/ /\ attempt[<<t, n>>].pc = "retryable"
                /\ Resubmit(t, n) \/ NotResubmitted(t, n)
             \/ attempt[<<t, n>>].pc = "fatal" /\ Post(t, n, "failed")
    /\ UNCHANGED <<storeVars, failures, redeliveries, upload, markers,
                   executorVars, held, listenVars, emitVars>>

(* The cluster delivers tasks at least once.                               *)
Redeliver(t) ==
    /\ delivered[t] > 0
    /\ t \notin redeliveries
    /\ FaultsLeft
    /\ redeliveries' = redeliveries \cup {t}
    /\ delivered' = [delivered EXCEPT ![t] = @ + 1]
    /\ Goto(t, delivered[t] + 1, "queued")
    /\ UNCHANGED <<storeVars, status, retries, failures, upload, markers,
                   executorVars, held, listenVars, emitVars>>

-----------------------------------------------------------------------------
(* The end of the proof.                                                   *)

(* The request is released (complete_proof and cleanup, whose steps are    *)
(* LocalWorkerClient's): the tasks are pruned, and the artifacts that they *)
(* name are deleted, event artifacts not being among them.                 *)
ProofEnds ==
    /\ ~ended
    /\ ended' = TRUE
    /\ records' = {}
    /\ outputs' = {}
    /\ wrappers' = [s \in Shards |-> 0]
    /\ UNCHANGED <<events, refs, workerVars, unsent, messages, held, listenVars,
                   emitVars>>

(* The controller waits for every shard task (reduce_proofs,               *)
(* collect_core_proofs) and fails the request with the first that failed.  *)
RequestFails ==
    /\ \E t \in Tasks : status[t] = "failed"
    /\ ProofEnds

-----------------------------------------------------------------------------
(* The deferred listener: a message goes into task_data_map before its     *)
(* marker is subscribed to, so no event of it comes earlier.               *)

ListenerReceive(s) ==
    /\ emitter # "failed"
    /\ s \in messages
    /\ messages' = messages \ {s}
    /\ dataMap' = dataMap \cup {s}
    /\ subscribed' = subscribed \cup {s}
    /\ UNCHANGED <<storeVars, workerVars, unsent, ended, held, emitVars>>

-----------------------------------------------------------------------------
(* The deferred sender: the event loop.                                    *)

(* The event of a marker.  An unknown marker is ignored.                   *)
ReceiveMarker(s) ==
    /\ emitter = "waiting"
    /\ s \in subscribed \cap markers
    /\ subscribed' = subscribed \ {s}
    /\ IF s \in dataMap
       THEN /\ dataMap' = dataMap \ {s}
            /\ current' = s
            /\ emitter' = "downloading"
       ELSE UNCHANGED <<dataMap, current, emitter>>
    /\ UNCHANGED <<storeVars, workerVars, executorVars, held, wrapper,
                   accumulator, cutting, position, remainder, cut, submitted>>

EmitterFails ==
    /\ emitter' = "failed"
    /\ UNCHANGED <<storeVars, workerVars, executorVars, held, listenVars, current,
                   wrapper, accumulator, cutting, position, remainder, cut,
                   submitted>>

(* The marker was pruned with its proof: the subscription answers with a   *)
(* failure.                                                                *)
ReceiveFailedMarker(s) ==
    /\ emitter = "waiting"
    /\ s \in subscribed
    /\ ended
    /\ EmitterFails

(* A wrapper that cannot be downloaded counts as an empty one.             *)
DownloadWrapper ==
    /\ emitter = "downloading"
    /\ wrapper' = wrappers[current]
    /\ emitter' = "appending"
    /\ UNCHANGED <<storeVars, workerVars, executorVars, held, listenVars,
                   current, accumulator, cutting, position, remainder, cut,
                   submitted>>

(* Delete the wrapper and append its slices, each with a reference of the  *)
(* emitter's own.                                                          *)
AppendEvents ==
    LET slices == IF wrapper = 0 THEN <<>> ELSE DeferRecord(current, wrapper)
    IN /\ emitter = "appending"
       /\ wrappers' = [wrappers EXCEPT ![current] = 0]
       /\ accumulator' = accumulator \o slices
       /\ refs' = refs \cup {<<slices[i].artifact, ControllerRef>> :
                                i \in DOMAIN slices}
       /\ emitter' = "splitting"
       /\ UNCHANGED <<records, outputs, events, workerVars, executorVars, held,
                      listenVars, current, wrapper, cutting, position,
                      remainder, cut, submitted>>

(* The stream ends once the executor and the listener are done and every   *)
(* subscription was answered; then the rest is split.                      *)
EndOfStream ==
    /\ emitter = "waiting"
    /\ unsent = {} /\ messages = {} /\ subscribed = {}
    /\ emitter' = "splitting"
    /\ UNCHANGED <<storeVars, workerVars, executorVars, held, listenVars,
                   current, wrapper, accumulator, cutting, position, remainder,
                   cut, submitted>>

LastSplit == current = None

(* split: the first slices that hold Threshold events, or with `last` all  *)
(* that are left.                                                          *)
SplitPoints ==
    {i \in 1..Len(accumulator) :
        \/ Count(SubSeq(accumulator, 1, i)) >= Threshold
        \/ LastSplit /\ i = Len(accumulator)}

FaultyCutShardWhole ==
    LET index == Min(SplitPoints)
    IN /\ emitter = "splitting"
       /\ SplitPoints # {}
       /\ cutting' = SubSeq(accumulator, 1, index)
       /\ accumulator' = SubSeq(accumulator, index + 1, Len(accumulator))
       /\ remainder' = FALSE
       /\ position' = 1
       /\ emitter' = "referencing"
       /\ UNCHANGED <<storeVars, workerVars, executorVars, held, listenVars,
                      current, wrapper, cut, submitted>>

(* Cut a shard off.  Events beyond Threshold stay as a slice of their own, *)
(* in front.                                                               *)
CutShard ==
    LET index == Min(SplitPoints)
        slices == SubSeq(accumulator, 1, index)
        over == Count(slices) - Threshold
        middle == slices[index].end - over
    IN /\ emitter = "splitting"
       /\ SplitPoints # {}
       /\ IF over > 0
          THEN /\ cutting' = [slices EXCEPT ![index].end = middle]
               /\ accumulator' = <<[slices[index] EXCEPT !.start = middle]>>
                                 \o SubSeq(accumulator, index + 1, Len(accumulator))
          ELSE /\ cutting' = slices
               /\ accumulator' = SubSeq(accumulator, index + 1, Len(accumulator))
       /\ remainder' = (over > 0)
       /\ position' = 1
       /\ emitter' = "referencing"
       /\ UNCHANGED <<storeVars, workerVars, executorVars, held, listenVars,
                      current, wrapper, cut, submitted>>

(* The next slice of the shard being cut, or the shard is ready.           *)
NextPosition ==
    IF position < Len(cutting)
    THEN /\ position' = position + 1
         /\ emitter' = "referencing"
         /\ UNCHANGED <<cutting, cut>>
    ELSE /\ position' = 0
         /\ cutting' = <<>>
         /\ cut' = Append(cut, cutting)
         /\ emitter' = "splitting"

FaultyAddSliceRefForgets ==
    LET slice == cutting[position]
    IN /\ emitter = "referencing"
       /\ refs' = refs \cup {<<slice.artifact, SliceRef(slice)>>}
       /\ emitter' = "unreferencing" /\ UNCHANGED <<position, cutting, cut>>
       /\ UNCHANGED <<records, outputs, wrappers, events, workerVars,
                      executorVars, held, listenVars, current, wrapper,
                      accumulator, remainder, submitted>>

FaultyAddSliceRefWhole ==
    LET slice == cutting[position]
        whole == [slice EXCEPT !.end = ChunkLen(slice.artifact[1], slice.artifact[3])]
    IN /\ emitter = "referencing"
       /\ refs' = refs \cup {<<slice.artifact, SliceRef(whole)>>}
       /\ IF position = Len(cutting) /\ remainder
          THEN NextPosition
          ELSE emitter' = "unreferencing" /\ UNCHANGED <<position, cutting, cut>>
       /\ UNCHANGED <<records, outputs, wrappers, events, workerVars,
                      executorVars, held, listenVars, current, wrapper,
                      accumulator, remainder, submitted>>

(* Add the reference of a slice.  An artifact with a remainder keeps the   *)
(* emitter's reference.                                                    *)
AddSliceRef ==
    LET slice == cutting[position]
    IN /\ emitter = "referencing"
       /\ refs' = refs \cup {<<slice.artifact, SliceRef(slice)>>}
       /\ IF position = Len(cutting) /\ remainder
          THEN NextPosition
          ELSE emitter' = "unreferencing" /\ UNCHANGED <<position, cutting, cut>>
       /\ UNCHANGED <<records, outputs, wrappers, events, workerVars,
                      executorVars, held, listenVars, current, wrapper,
                      accumulator, remainder, submitted>>

(* remove_ref of the emitter's reference.  The slice's own was just added  *)
(* and its shard is not submitted, so the count of remove_ref is not zero. *)
DropControllerRef ==
    LET a == cutting[position].artifact
        left == RefsOf(a) \ {<<a, ControllerRef>>}
    IN /\ emitter = "unreferencing"
       /\ refs' = refs \ {<<a, ControllerRef>>}
       /\ events' = IF left = {} THEN events \ {a} ELSE events
       /\ NextPosition
       /\ UNCHANGED <<records, outputs, wrappers, workerVars, executorVars, held,
                      listenVars, current, wrapper, accumulator, remainder,
                      submitted>>

(* With nothing left to cut, split returns and its shards are submitted.   *)
SubmitPrecompileShard ==
    /\ emitter = "splitting"
    /\ SplitPoints = {}
    /\ cut # <<>>
    /\ CreateCoreProvingTask(Len(submitted) + 1)
    /\ submitted' = Append(submitted, Head(cut))
    /\ cut' = Tail(cut)
    /\ UNCHANGED <<outputs, wrappers, events, refs, retries, failures,
                   redeliveries, upload, markers, executorVars, listenVars,
                   emitter, current, wrapper, accumulator, cutting, position,
                   remainder>>

(* A precompile shard is refused, or a core shard: that error ends execute *)
(* too, which aborts the emitter.                                          *)
SubmitRefused ==
    /\ TaskRefused
    /\ \/ emitter = "splitting" /\ SplitPoints = {} /\ cut # <<>>
       \/ emitter \notin {"done", "failed"} /\ unsent # {}
    /\ EmitterFails

AllSubmitted ==
    /\ emitter = "splitting"
    /\ SplitPoints = {}
    /\ cut = <<>>
    /\ emitter' = IF LastSplit THEN "done" ELSE "waiting"
    /\ current' = None
    /\ UNCHANGED <<storeVars, workerVars, executorVars, held, listenVars,
                   wrapper, accumulator, cutting, position, remainder, cut,
                   submitted>>

-----------------------------------------------------------------------------
Worker(t, n) ==
    \/ Start(t, n)
    \/ TraceFails(t, n)
    \/ DownloadEvents(t, n)
    \/ Prove(t, n)
    \/ DropSliceRef(t, n)
    \/ FreeSlice(t, n)
    \/ Finish(t, n)
    \/ JoinFails(t, n)
    \/ Fail(t, n)

DeferredUpload(s, n) ==
    \/ UploadDeferred(s, n)
    \/ CompleteMarker(s, n)
    \/ UploadFails(s, n)

Emitter ==
    \/ \E s \in Shards : ListenerReceive(s) \/ ReceiveMarker(s) \/ ReceiveFailedMarker(s)
    \/ DownloadWrapper
    \/ AppendEvents
    \/ EndOfStream
    \/ CutShard
    \/ AddSliceRef
    \/ DropControllerRef
    \/ SubmitPrecompileShard
    \/ SubmitRefused
    \/ AllSubmitted

Progress ==
    \/ \E s \in Shards : SubmitCoreShard(s)
    \/ \E t \in Tasks : ReleasePermit(t)
    \/ DropGate
    \/ \E t \in Tasks, n \in 1..MaxAttempts : Worker(t, n)
    \/ \E s \in Shards, n \in 1..MaxAttempts : DeferredUpload(s, n)
    \/ Emitter
    \/ RequestFails

Next ==
    \/ Progress
    \/ \E t \in Tasks : Redeliver(t)

Spec == Init /\ [][Next]_vars

(* Every task of the runtime is polled until it ends; nothing here is done *)
(* more often than the number of tasks and attempts, so weak fairness of   *)
(* the whole is enough.  The end of a proof with a failed task is in it,   *)
(* as the controller waits for every shard task; redelivery never is.      *)
FairSpec == Spec /\ WF_vars(Progress)

-----------------------------------------------------------------------------
Keys == {ControllerRef} \cup (0..Threshold) \X (0..Threshold)
ArtifactIds ==
    UNION {UNION {EventArtifacts(s, n) : n \in 1..MaxAttempts} : s \in Shards}
Slice == [artifact : ArtifactIds, start : 0..Threshold, end : 0..Threshold]

TypeOK ==
    /\ records \subseteq Tasks /\ outputs \subseteq Tasks /\ held \subseteq Tasks
    /\ wrappers \in [Shards -> 0..MaxAttempts]
    /\ events \subseteq ArtifactIds
    /\ refs \subseteq ArtifactIds \X Keys
    /\ status \in [Tasks -> {"unsubmitted", "pending"} \cup Terminal]
    /\ delivered \in [Tasks -> 0..MaxAttempts]
    /\ retries \in [Tasks -> 0..MaxRetries]
    /\ failures \in 0..MaxFaults
    /\ redeliveries \subseteq Tasks
    /\ \A a \in Attempts :
          /\ attempt[a].pc \in {"none", "queued", "downloading", "proving",
                 "dropping", "freeing", "finishing", "retryable", "fatal",
                 "ended"}
          /\ attempt[a].slice \in 0..TotalEvents
    /\ upload \in [Shards \X (1..MaxAttempts) ->
                      {"none", "events", "marker", "done", "failed"}]
    /\ markers \subseteq Shards /\ unsent \subseteq Shards
    /\ ended \in BOOLEAN
    /\ messages \subseteq Shards /\ dataMap \subseteq Shards
    /\ subscribed \subseteq Shards
    /\ current \in Shards \cup {None}
    /\ emitter \in {"waiting", "downloading", "appending", "splitting",
                    "referencing", "unreferencing", "done", "failed"}
    /\ wrapper \in 0..MaxAttempts
    /\ \A sl \in Range(accumulator) \cup Range(cutting) : sl \in Slice
    /\ \A sh \in Range(cut) \cup Range(submitted) : \A sl \in Range(sh) : sl \in Slice
    /\ position \in 0..Len(cutting)
    /\ remainder \in BOOLEAN

(* Every slice the emitter holds or has put into a shard: the shards, the  *)
(* one that is being cut, and the rest.                                    *)
Kept == submitted \o cut \o <<cutting, accumulator>>

(* The event, whichever attempt uploaded it: its shard, chunk and place.   *)
EventsIn(slice) ==
    {<<slice.artifact[1], slice.artifact[3], k>> : k \in slice.start..(slice.end - 1)}

AllEvents ==
    UNION {UNION {{<<s, i, k>> : k \in 0..(ChunkLen(s, i) - 1)} : i \in 1..NumChunks(s)} :
              s \in Shards}

SlicesIn(shards) == UNION {Range(shards[k]) : k \in DOMAIN shards}

(* No event is in two shards, however often its core shard is retried or   *)
(* delivered, and when emit_precompile_shards returns and the proof has    *)
(* not ended every deferred event of every core shard is in one.           *)
EachEventOnce ==
    /\ \A k, l \in DOMAIN Kept : \A i \in DOMAIN Kept[k], j \in DOMAIN Kept[l] :
          <<k, i>> # <<l, j>> => EventsIn(Kept[k][i]) \cap EventsIn(Kept[l][j]) = {}
    /\ emitter = "done" /\ ~ended => UNION {EventsIn(sl) : sl \in SlicesIn(submitted)} = AllEvents

(* Until the proof ends, the events of a precompile shard that has no      *)
(* proof yet are stored, and so are the ones still to be cut: no finished  *)
(* neighbour frees a shared artifact too early.                            *)
SlicesStored ==
    LET Stored(slices) == \A i \in DOMAIN slices : slices[i].artifact \in events
    IN ~ended =>
          /\ \A p \in DOMAIN submitted : p \notin outputs => Stored(submitted[p])
          /\ \A k \in DOMAIN cut : Stored(cut[k])
          /\ Stored(cutting) /\ Stored(accumulator)

(* Precompile shards are full: all but the very last hold Threshold        *)
(* events, and the emitter never waits for a marker with enough events for *)
(* a shard in hand.                                                        *)
ShardsFull ==
    LET shards == submitted \o cut
    IN /\ \A i \in DOMAIN shards :
             IF i < Len(shards) THEN Count(shards[i]) = Threshold
                                ELSE Count(shards[i]) \in 1..Threshold
       /\ emitter = "waiting" => Count(accumulator) < Threshold

(* A record is gone only when all that its task produces is durable: the   *)
(* proof, and the deferred events up to the marker; or the proof has ended.*)
RecordGoesLast ==
    \A t \in Tasks : status[t] # "unsubmitted" /\ t \notin records /\ ~ended =>
        t \in outputs /\ (t \in Shards => t \in markers)

(* The gate bounds the records in memory: while the executor runs, no task *)
(* has failed and none was delivered twice, there are no more than permits.*)
RecordsBounded ==
    (/\ emitter # "done"
     /\ ~ended
     /\ redeliveries = {}
     /\ \A t \in Tasks : status[t] # "failed"
     /\ \A a \in DOMAIN upload : upload[a] # "failed") =>
        Cardinality(records) <= Permits

(* Reference counts free what they guard: when all tasks have succeeded    *)
(* and no worker runs, no event artifact that a shard was cut from is left.*)
EventsFreed ==
    (/\ emitter = "done"
     /\ ~ended
     /\ \A a \in Attempts : attempt[a].pc \in {"none", "ended"}
     /\ \A t \in Shards \cup DOMAIN submitted : status[t] = "succeeded") =>
        \A sl \in SlicesIn(submitted) : sl.artifact \notin events

(* The marker of a core shard that counts as proved is never completed.    *)
(* Its worker stored the proof and the wrapper but could not complete the  *)
(* marker: recover_if_complete turns the error into a success.             *)
MarkerLost ==
    \E s \in Shards :
        /\ status[s] = "succeeded"
        /\ s \notin markers
        /\ \A n \in 1..MaxAttempts : upload[<<s, n>>] \in {"none", "failed"}

(* emit_precompile_shards returns, done or with an error, whatever steps   *)
(* fail and whenever the proof ends: a shard that waits for a permit does  *)
(* not keep it from coming back, and a marker that will not be completed   *)
(* is reported as failed.  The exception is MarkerLost, which no failure   *)
(* of the proof follows.                                                   *)
EmitterEnds == <>(emitter \in {"done", "failed"} \/ MarkerLost)

(* A task that has succeeded stays so: a second delivery is recovered.     *)
RedeliveryRecovered ==
    [][\A t \in Tasks : status[t] = "succeeded" => status'[t] = "succeeded"]_vars

=============================================================================
