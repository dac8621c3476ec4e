------------------------- MODULE LocalWorkerClient -------------------------
(***************************************************************************)
(* The worker client of the local node (crates/prover/src/worker/client/   *)
(* local.rs), the node's task handlers that drive it (node/full/init.rs)   *)
(* and the release of a proof's bookkeeping (node/full/mod.rs).            *)
(*                                                                         *)
(* Concurrent actors, interleaved at every lock they take and every await: *)
(* the submitters of tasks, the handlers of two kinds of task with their   *)
(* queues, the handling of a task's output (status update or retry), one   *)
(* subscription per task, the message stream of a task, and the release    *)
(* of each proof.                                                          *)
(*                                                                         *)
(* The kinds stand for the two shapes the node's handlers have: "execute"  *)
(* (Controller, CoreExecute) runs its tasks one at a time in its own loop, *)
(* streams messages and never retries; "prove" (SetupVkey, ProveShard,     *)
(* RecursionReduce, RecursionDeferred) runs them concurrently, and retries *)
(* a task under its own id.                                                *)
(*                                                                         *)
(* Definitions called Faulty... are not part of the model: each is a       *)
(* mistake one could make in the definition after it, to see that a        *)
(* property notices it.                                                    *)
(***************************************************************************)
EXTENDS Integers, Sequences, FiniteSets

CONSTANTS
    Tasks,          \* task ids
    Proofs,         \* proof ids
    ProofOf,        \* the proof of each task
    KindOf,         \* the kind of each task, "execute" or "prove"
    QueueCapacity,  \* capacity of a task type's input queue, 1 in the code
    MaxRetries,     \* MAX_LOCAL_TASK_RETRIES
    MayDrop         \* whether a caller may drop a request while it is released

Kinds == {"execute", "prove"}

ASSUME TasksAssumption == ProofOf \in [Tasks -> Proofs] /\ KindOf \in [Tasks -> Kinds]
ASSUME CapacityAssumption == QueueCapacity \in Nat \ {0} /\ MaxRetries \in Nat
ASSUME MayDropAssumption == MayDrop \in BOOLEAN

(* "failed" is FailedFatal, or FailedRetryable of an "execute" task.       *)
Terminal == {"succeeded", "failed"}
Statuses == {"pending"} \cup Terminal

VARIABLES
    \* LocalWorkerClientInner.
    proofIndex,     \* the tasks in proof_index; a proof has an entry iff it has one
    db,             \* the tasks that have an entry in db
    artifactIndex,  \* the tasks whose artifacts are tracked in artifact_index
    channels,       \* task_channels: "none", "buffered" (rx kept), "taken" (rx taken)
    retryCounts,    \* retry_counts
    endedProofs,    \* ended_proofs
    queue,          \* input_task_queues, for each kind
    \* What the client's users see.
    watch,          \* the value of each task's watch channel
    submission,     \* progress of submit_task for each task
    handler,        \* progress of the node with each task
    outcome,        \* the terminal status a task's output carries
    attempts,       \* how often the node started each task (history)
    subscription,   \* progress of one subscription per task
    stream,         \* the message stream of each task: "none", "open", "ended"
    release,        \* progress of each proof's release
    releasing,      \* the tasks complete_proof took out of proof_index
    dropped         \* the proofs whose request was dropped by its caller

clientVars == <<proofIndex, db, artifactIndex, channels, retryCounts, endedProofs, queue>>
userVars == <<watch, submission, handler, outcome, attempts, subscription, stream>>
releaseVars == <<release, releasing, dropped>>
vars == <<clientVars, userVars, releaseVars>>

Ended(t) == ProofOf[t] \in endedProofs
TasksOf(p) == {t \in Tasks : ProofOf[t] = p}

Init ==
    /\ proofIndex = {}
    /\ db = {}
    /\ artifactIndex = {}
    /\ channels = [t \in Tasks |-> "none"]
    /\ retryCounts = [t \in Tasks |-> 0]
    /\ endedProofs = {}
    /\ queue = [k \in Kinds |-> <<>>]
    /\ watch = [t \in Tasks |-> "pending"]
    /\ submission = [t \in Tasks |-> "idle"]
    /\ handler = [t \in Tasks |-> "idle"]
    /\ outcome = [t \in Tasks |-> "pending"]
    /\ attempts = [t \in Tasks |-> 0]
    /\ subscription = [t \in Tasks |-> "none"]
    /\ stream = [t \in Tasks |-> "none"]
    /\ release = [p \in Proofs |-> "idle"]
    /\ releasing = [p \in Proofs |-> {}]
    /\ dropped = {}

-----------------------------------------------------------------------------
(* submit_task.                                                            *)

FaultySubmitRecordUnchecked(t) ==
    /\ submission[t] = "idle"
    /\ submission' = [submission EXCEPT ![t] = "sending"]
    /\ proofIndex' = proofIndex \cup {t}
    /\ artifactIndex' = artifactIndex \cup {t}
    /\ db' = db \cup {t}
    /\ UNCHANGED <<channels, retryCounts, endedProofs, queue, watch, handler, outcome, attempts,
                   subscription, stream, releaseVars>>

(* Under the write lock of proof_index: refuse a proof that has ended,     *)
(* else record the task, its artifacts and its db entry.                   *)
SubmitRecord(t) ==
    /\ submission[t] = "idle"
    /\ \/ /\ Ended(t)
          /\ submission' = [submission EXCEPT ![t] = "refused"]
          /\ UNCHANGED <<proofIndex, artifactIndex, db>>
       \/ /\ ~Ended(t)
          /\ submission' = [submission EXCEPT ![t] = "sending"]
          /\ proofIndex' = proofIndex \cup {t}
          /\ artifactIndex' = artifactIndex \cup {t}
          /\ db' = db \cup {t}
    /\ UNCHANGED <<channels, retryCounts, endedProofs, queue, watch, handler, outcome, attempts,
                   subscription, stream, releaseVars>>

(* Both submissions and retries wait for room in the queue of the kind.    *)
Enqueue(t) ==
    /\ Len(queue[KindOf[t]]) < QueueCapacity
    /\ queue' = [queue EXCEPT ![KindOf[t]] = Append(@, t)]

SubmitSend(t) ==
    /\ submission[t] = "sending"
    /\ Enqueue(t)
    /\ submission' = [submission EXCEPT ![t] = "sent"]
    /\ UNCHANGED <<proofIndex, db, artifactIndex, channels, retryCounts, endedProofs,
                   watch, handler, outcome, attempts, subscription, stream, releaseVars>>

(* The proof may have ended in the meantime.                               *)
SubmitRecheck(t) ==
    /\ submission[t] = "sent"
    /\ submission' = [submission EXCEPT ![t] = IF Ended(t) THEN "refused" ELSE "accepted"]
    /\ UNCHANGED <<clientVars, watch, handler, outcome, attempts, subscription, stream, releaseVars>>

-----------------------------------------------------------------------------
(* The node's handlers.                                                    *)

(* Where a task is in the hands of the node.                               *)
Active == {"running", "update", "post", "unlink"}
Retrying == {"retry", "count", "lookup", "requeue"}

FaultyHandlerAwaitsOutput(k) ==
    /\ queue[k] # <<>>
    /\ \A t \in Tasks : KindOf[t] = k => handler[t] \notin (Active \cup Retrying) \ {"running"}
    /\ queue' = [queue EXCEPT ![k] = Tail(@)]
    /\ handler' = [handler EXCEPT ![Head(queue[k])] = "running"]
    /\ attempts' = [attempts EXCEPT ![Head(queue[k])] = @ + 1]
    /\ UNCHANGED <<proofIndex, db, artifactIndex, channels, retryCounts, endedProofs,
                   watch, submission, outcome, subscription, stream, releaseVars>>

(* A handler's loop takes a task from its queue and starts it.  The one of *)
(* "execute" tasks first waits for the task before, up to its status       *)
(* update.  The one of "prove" tasks waits for nothing: their outputs are  *)
(* handled by tasks of their own.                                          *)
HandlerReceive(k) ==
    /\ queue[k] # <<>>
    /\ k = "execute" => \A t \in Tasks : KindOf[t] = k => handler[t] \notin Active
    /\ queue' = [queue EXCEPT ![k] = Tail(@)]
    /\ handler' = [handler EXCEPT ![Head(queue[k])] = "running"]
    /\ attempts' = [attempts EXCEPT ![Head(queue[k])] = @ + 1]
    /\ UNCHANGED <<proofIndex, db, artifactIndex, channels, retryCounts, endedProofs,
                   watch, submission, outcome, subscription, stream, releaseVars>>

(* The task ends: it succeeded, failed or panicked; or its error may be    *)
(* retried, which an "execute" task reports as a failure.                  *)
TaskEnds(t) ==
    /\ handler[t] = "running"
    /\ \/ /\ handler' = [handler EXCEPT ![t] = "update"]
          /\ \E s \in Terminal : outcome' = [outcome EXCEPT ![t] = s]
       \/ /\ KindOf[t] = "prove"
          /\ handler' = [handler EXCEPT ![t] = "retry"]
          /\ UNCHANGED outcome
    /\ UNCHANGED <<clientVars, watch, submission, attempts, subscription, stream, releaseVars>>

HandlerStep(t, from, to) ==
    /\ handler[t] = from
    /\ handler' = [handler EXCEPT ![t] = to]

(* update_task_status copies the sender from the db, sends the status,     *)
(* then removes the task's message channel, which ends its stream.  It is  *)
(* an error, only logged, that the task is not in the db any more, or that *)
(* nobody holds a receiver: its entry, which has one, or a subscription.   *)
UpdateLookup(t) ==
    /\ HandlerStep(t, "update", IF t \in db THEN "post" ELSE "done")
    /\ UNCHANGED <<clientVars, watch, submission, outcome, attempts, subscription, stream,
                   releaseVars>>

FaultyUpdatePostThenRetry(t) ==
    /\ HandlerStep(t, "post", IF outcome[t] = "failed" THEN "retry" ELSE "unlink")
    /\ watch' = [watch EXCEPT ![t] = outcome[t]]
    /\ UNCHANGED <<clientVars, submission, outcome, attempts, subscription, stream, releaseVars>>

UpdatePost(t) ==
    /\ \/ /\ t \in db \/ subscription[t] = "waiting"
          /\ HandlerStep(t, "post", "unlink")
          /\ watch' = [watch EXCEPT ![t] = outcome[t]]
       \/ /\ t \notin db /\ subscription[t] # "waiting"
          /\ HandlerStep(t, "post", "done")
          /\ UNCHANGED watch
    /\ UNCHANGED <<clientVars, submission, outcome, attempts, subscription, stream, releaseVars>>

(* Dropping a channel's sender ends the stream of the task, if it has one. *)
RemoveChannels(tasks) ==
    /\ channels' = [t \in Tasks |-> IF t \in tasks THEN "none" ELSE channels[t]]
    /\ stream' = [t \in Tasks |-> IF t \in tasks /\ channels[t] = "taken"
                                  THEN "ended" ELSE stream[t]]

UpdateUnlink(t) ==
    /\ HandlerStep(t, "unlink", "done")
    /\ RemoveChannels({t})
    /\ UNCHANGED <<proofIndex, db, artifactIndex, retryCounts, endedProofs, queue, watch,
                   submission, outcome, attempts, subscription, releaseVars>>

(* resubmit_task: not for a proof that has ended; the retry is counted,    *)
(* and a task out of retries fails; the GPU caches are emptied; then the   *)
(* task is queued again under its id, unless its entry is gone.            *)
RetryCheck(t) ==
    /\ HandlerStep(t, "retry", IF Ended(t) THEN "done" ELSE "count")
    /\ UNCHANGED <<clientVars, watch, submission, outcome, attempts, subscription, stream,
                   releaseVars>>

FaultyRetryCountOffByOne(t) ==
    /\ \/ /\ retryCounts[t] > MaxRetries
          /\ HandlerStep(t, "count", "update")
          /\ outcome' = [outcome EXCEPT ![t] = "failed"]
          /\ UNCHANGED retryCounts
       \/ /\ retryCounts[t] <= MaxRetries
          /\ HandlerStep(t, "count", "lookup")
          /\ retryCounts' = [retryCounts EXCEPT ![t] = @ + 1]
          /\ UNCHANGED outcome
    /\ UNCHANGED <<proofIndex, db, artifactIndex, channels, endedProofs, queue, watch,
                   submission, attempts, subscription, stream, releaseVars>>

RetryCount(t) ==
    /\ \/ /\ retryCounts[t] >= MaxRetries
          /\ HandlerStep(t, "count", "update")
          /\ outcome' = [outcome EXCEPT ![t] = "failed"]
          /\ UNCHANGED retryCounts
       \/ /\ retryCounts[t] < MaxRetries
          /\ HandlerStep(t, "count", "lookup")
          /\ retryCounts' = [retryCounts EXCEPT ![t] = @ + 1]
          /\ UNCHANGED outcome
    /\ UNCHANGED <<proofIndex, db, artifactIndex, channels, endedProofs, queue, watch,
                   submission, attempts, subscription, stream, releaseVars>>

RetryLookup(t) ==
    /\ HandlerStep(t, "lookup", IF t \in db THEN "requeue" ELSE "done")
    /\ UNCHANGED <<clientVars, watch, submission, outcome, attempts, subscription, stream,
                   releaseVars>>

FaultyRetrySendRepeated(t) ==
    /\ Enqueue(t)
    /\ HandlerStep(t, "requeue", "requeue")
    /\ UNCHANGED <<proofIndex, db, artifactIndex, channels, retryCounts, endedProofs, watch,
                   submission, outcome, attempts, subscription, stream, releaseVars>>

RetrySend(t) ==
    /\ Enqueue(t)
    /\ HandlerStep(t, "requeue", "idle")
    /\ UNCHANGED <<proofIndex, db, artifactIndex, channels, retryCounts, endedProofs, watch,
                   submission, outcome, attempts, subscription, stream, releaseVars>>

-----------------------------------------------------------------------------
(* Waiting for a task.                                                     *)

(* The submitter subscribes with the id submit_task returned.              *)
Subscribe(t) ==
    /\ submission[t] = "accepted"
    /\ subscription[t] = "none"
    /\ subscription' = [subscription EXCEPT ![t] = "lookup"]
    /\ UNCHANGED <<clientVars, watch, submission, handler, outcome, attempts, stream,
                   releaseVars>>

(* The subscription's own task: a task without a db entry has failed.      *)
SubscriptionLookup(t) ==
    /\ subscription[t] = "lookup"
    /\ subscription' = [subscription EXCEPT ![t] = IF t \in db THEN "waiting" ELSE "failed"]
    /\ UNCHANGED <<clientVars, watch, submission, handler, outcome, attempts, stream,
                   releaseVars>>

(* It answers with the first terminal status, or with a failure when every *)
(* sender is gone: the entry was pruned and no update holds a copy.        *)
SubscriptionAnswer(t) ==
    /\ subscription[t] = "waiting"
    /\ \/ /\ watch[t] \in Terminal
          /\ subscription' = [subscription EXCEPT ![t] = watch[t]]
       \/ /\ watch[t] = "pending"
          /\ t \notin db
          /\ handler[t] # "post"
          /\ subscription' = [subscription EXCEPT ![t] = "failed"]
    /\ UNCHANGED <<clientVars, watch, submission, handler, outcome, attempts, stream,
                   releaseVars>>

-----------------------------------------------------------------------------
(* The message channel of an "execute" task: the task sends, its submitter *)
(* reads.  Whoever comes first creates the channel.                        *)

SendTaskMessage(t) ==
    /\ KindOf[t] = "execute"
    /\ handler[t] = "running"
    /\ channels[t] = "none"
    /\ channels' = [channels EXCEPT ![t] = "buffered"]
    /\ UNCHANGED <<proofIndex, db, artifactIndex, retryCounts, endedProofs, queue, userVars,
                   releaseVars>>

SubscribeTaskMessages(t) ==
    /\ KindOf[t] = "execute"
    /\ submission[t] = "accepted"
    /\ stream[t] = "none"
    /\ channels' = [channels EXCEPT ![t] = "taken"]
    /\ stream' = [stream EXCEPT ![t] = "open"]
    /\ UNCHANGED <<proofIndex, db, artifactIndex, retryCounts, endedProofs, queue, watch,
                   submission, handler, outcome, attempts, subscription, releaseVars>>

-----------------------------------------------------------------------------
(* SP1LocalNode::release, that is complete_proof then cleanup, when the    *)
(* request has ended, or has been dropped by its caller (ReleaseOnDrop).   *)

ReleaseStep(p, from, to) ==
    /\ release[p] = from
    /\ release' = [release EXCEPT ![p] = to]

FaultyReleaseIndexUnmarked(p) ==
    LET tasks == proofIndex \cap TasksOf(p) IN
    /\ ReleaseStep(p, "idle", IF tasks = {} THEN "cleanup" ELSE "db")
    /\ proofIndex' = proofIndex \ tasks
    /\ releasing' = [releasing EXCEPT ![p] = tasks]
    /\ UNCHANGED <<db, artifactIndex, channels, retryCounts, endedProofs, queue, userVars,
                   dropped>>

(* Under the write lock of proof_index.  Without an entry complete_proof   *)
(* returns an error, which is logged, and cleanup follows.                 *)
ReleaseIndex(p) ==
    LET tasks == proofIndex \cap TasksOf(p) IN
    /\ ReleaseStep(p, "idle", IF tasks = {} THEN "cleanup" ELSE "db")
    /\ endedProofs' = endedProofs \cup {p}
    /\ proofIndex' = proofIndex \ tasks
    /\ releasing' = [releasing EXCEPT ![p] = tasks]
    /\ UNCHANGED <<db, artifactIndex, channels, retryCounts, queue, userVars, dropped>>

ReleaseDb(p) ==
    /\ ReleaseStep(p, "db", "channels")
    /\ db' = db \ releasing[p]
    /\ UNCHANGED <<proofIndex, artifactIndex, channels, retryCounts, endedProofs, queue,
                   userVars, releasing, dropped>>

ReleaseChannels(p) ==
    /\ ReleaseStep(p, "channels", "cleanup")
    /\ RemoveChannels(releasing[p])
    /\ UNCHANGED <<proofIndex, db, artifactIndex, retryCounts, endedProofs, queue, watch,
                   submission, handler, outcome, attempts, subscription, releasing, dropped>>

Cleanup(p) ==
    /\ ReleaseStep(p, "cleanup", "released")
    /\ retryCounts' = [t \in Tasks |-> IF ProofOf[t] = p THEN 0 ELSE retryCounts[t]]
    /\ artifactIndex' = artifactIndex \ TasksOf(p)
    /\ UNCHANGED <<proofIndex, db, channels, endedProofs, queue, userVars, releasing, dropped>>

(* The caller drops the request while it is being released.  The release   *)
(* is cancelled at the lock it waits for, and ReleaseOnDrop starts another *)
(* one, on a task of its own.                                              *)
DropRequest(p) ==
    /\ MayDrop
    /\ p \notin dropped
    /\ release[p] \in {"db", "channels", "cleanup"}
    /\ dropped' = dropped \cup {p}
    /\ release' = [release EXCEPT ![p] = "idle"]
    /\ releasing' = [releasing EXCEPT ![p] = {}]
    /\ UNCHANGED <<clientVars, userVars>>

-----------------------------------------------------------------------------
SubmitTask(t) == SubmitRecord(t) \/ SubmitSend(t) \/ SubmitRecheck(t)
HandleTaskOutput(t) ==
    \/ UpdateLookup(t) \/ UpdatePost(t) \/ UpdateUnlink(t)
    \/ RetryCheck(t) \/ RetryCount(t) \/ RetryLookup(t) \/ RetrySend(t)
Release(p) == ReleaseIndex(p) \/ ReleaseDb(p) \/ ReleaseChannels(p) \/ Cleanup(p)

(* Every proof has been released and nothing is left to do.                *)
Idle ==
    /\ \A p \in Proofs : release[p] = "released"
    /\ \A k \in Kinds : queue[k] = <<>>
    /\ UNCHANGED vars

Next ==
    \/ \E t \in Tasks : SubmitTask(t)
    \/ \E k \in Kinds : HandlerReceive(k)
    \/ \E t \in Tasks : TaskEnds(t)
    \/ \E t \in Tasks : HandleTaskOutput(t)
    \/ \E t \in Tasks : Subscribe(t) \/ SubscriptionLookup(t) \/ SubscriptionAnswer(t)
    \/ \E t \in Tasks : SendTaskMessage(t)
    \/ \E t \in Tasks : SubscribeTaskMessages(t)
    \/ \E p \in Proofs : Release(p)
    \/ \E p \in Proofs : DropRequest(p)
    \/ Idle

(* The runtime polls every task, and a task that was started ends.  A      *)
(* channel gives room to its senders in the order in which they came, so   *)
(* none waits for ever: strong fairness of submissions and retries.  A     *)
(* release that was started goes on, and the one that a drop starts does.  *)
Fairness ==
    /\ \A t \in Tasks : /\ SF_vars(SubmitSend(t) \/ SubmitRecheck(t))
                        /\ SF_vars(TaskEnds(t) \/ HandleTaskOutput(t))
                        /\ WF_vars(SubscriptionLookup(t) \/ SubscriptionAnswer(t))
    /\ \A k \in Kinds : WF_vars(HandlerReceive(k))
    /\ \A p \in Proofs : WF_vars(/\ release[p] # "idle" \/ p \in dropped
                                 /\ Release(p))

Spec == Init /\ [][Next]_vars
FairSpec == Spec /\ Fairness

-----------------------------------------------------------------------------
(* Properties.                                                             *)

(* The variables have their types; a retry count never exceeds the budget  *)
(* (MAX_LOCAL_TASK_RETRIES).                                               *)
TypeOK ==
    /\ proofIndex \subseteq Tasks
    /\ db \subseteq Tasks
    /\ artifactIndex \subseteq Tasks
    /\ channels \in [Tasks -> {"none", "buffered", "taken"}]
    /\ retryCounts \in [Tasks -> 0..MaxRetries]
    /\ endedProofs \subseteq Proofs
    /\ queue \in [Kinds -> Seq(Tasks)]
    /\ watch \in [Tasks -> Statuses]
    /\ submission \in [Tasks -> {"idle", "sending", "sent", "refused", "accepted"}]
    /\ handler \in [Tasks -> {"idle", "done"} \cup Active \cup Retrying]
    /\ outcome \in [Tasks -> Statuses]
    /\ attempts \in [Tasks -> Nat]
    /\ subscription \in [Tasks -> {"none", "lookup", "waiting"} \cup Terminal]
    /\ stream \in [Tasks -> {"none", "open", "ended"}]
    /\ release \in [Proofs -> {"idle", "db", "channels", "cleanup", "released"}]
    /\ releasing \in [Proofs -> SUBSET Tasks]
    /\ dropped \subseteq Proofs

(* What is left of a proof once its release has ended, and from then on.   *)
(* proof_index, db and artifact_index have nothing of it, whatever was     *)
(* being submitted, running or retried at the time.  retry_counts may: a   *)
(* retry that was not yet refused when the proof ended counts itself after *)
(* cleanup has pruned the counts, and nothing prunes that count.  It is    *)
(* one at most, of a task that finds no db entry to be queued again from.  *)
(* task_channels are not part of this: a message that a straggler sends,   *)
(* or a late subscription, makes a channel again.                          *)
Tracked == proofIndex \cup db \cup artifactIndex

LateCount(t) ==
    retryCounts[t] > 0 => retryCounts[t] = 1 /\ handler[t] \in {"lookup", "done"}

BookkeepingReleased ==
    \A p \in Proofs : release[p] = "released" =>
        /\ Tracked \cap TasksOf(p) = {}
        /\ \A t \in TasksOf(p) : LateCount(t)

(* A task is in one place at a time, however it is retried: waiting to be  *)
(* sent, in the queue of its kind once, or in the hands of the node; and   *)
(* it runs no more once its status is final.                               *)
Occurrences(t) == {i \in 1..Len(queue[KindOf[t]]) : queue[KindOf[t]][i] = t}

OneCopy ==
    \A t \in Tasks :
        /\ Cardinality(Occurrences(t)) <= 1
        /\ submission[t] \in {"idle", "sending"} \/ handler[t] # "idle"
               => Occurrences(t) = {}
        /\ watch[t] # "pending" => handler[t] \in {"unlink", "done"}

(* A task is started at most once, plus once for every retry, although the *)
(* counts are dropped with the proof's bookkeeping while the task runs on. *)
AttemptsBounded == \A t \in Tasks : attempts[t] <= MaxRetries + 1

(* A subscription answers with the status of the task; with a failure the  *)
(* task did not report only when its proof has ended.                      *)
AnswerIsOutcome ==
    \A t \in Tasks :
        subscription[t] \in Terminal =>
            \/ subscription[t] = watch[t]
            \/ subscription[t] = "failed" /\ Ended(t)

(* A status that was reported is final: no retry and no later update       *)
(* changes what waiters have seen.                                         *)
StatusIsFinal ==
    [][\A t \in Tasks : watch[t] # "pending" => watch'[t] = watch[t]]_vars

(* Whoever waits for a task is answered, whatever happens to the task and  *)
(* to its proof.                                                           *)
WaitersAnswered ==
    \A t \in Tasks : subscription[t] \in {"lookup", "waiting"}
                         ~> subscription[t] \in Terminal

(* The message stream of a task ends when the task completes or fails.     *)
StreamEnds ==
    \A t \in Tasks : stream[t] = "open" /\ handler[t] = "done" ~> stream[t] = "ended"

=============================================================================
