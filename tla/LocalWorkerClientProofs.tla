---------------------- MODULE LocalWorkerClientProofs ----------------------
(***************************************************************************)
(* Proofs about LocalWorkerClient: its type invariant, that nothing of a   *)
(* proof is tracked any more once its release has ended, that a task is in *)
(* one place at a time and its status is final, that no task is started    *)
(* more often than its retries allow, and that subscriptions answer with   *)
(* the status of their task; for any number of tasks and proofs, any queue *)
(* capacity and any number of retries.                                     *)
(***************************************************************************)
EXTENDS LocalWorkerClient, FiniteSetTheorems, TLAPS

USE DEF Kinds, Terminal, Statuses, Active, Retrying

(* The type invariant is kept by submit_task.                              *)
LEMMA TypeSubmit ==
    ASSUME TypeOK, NEW t \in Tasks, SubmitTask(t)
    PROVE  TypeOK'
<1> USE TasksAssumption, CapacityAssumption DEF TypeOK
<1>1. CASE SubmitRecord(t)
  <2>1. submission' \in [Tasks -> {"idle", "sending", "sent", "refused", "accepted"}]
    <3>1. PICK s \in {"sending", "refused"} : submission' = [submission EXCEPT ![t] = s]
      BY <1>1 DEF SubmitRecord
    <3> QED BY <3>1
  <2>2. proofIndex' \subseteq Tasks /\ artifactIndex' \subseteq Tasks /\ db' \subseteq Tasks
    BY <1>1 DEF SubmitRecord
  <2>3. UNCHANGED <<channels, retryCounts, endedProofs, queue, watch, handler, outcome,
                    attempts, subscription, stream, release, releasing, dropped>>
    BY <1>1 DEF SubmitRecord, releaseVars
  <2> QED BY <2>1, <2>2, <2>3
<1>2. CASE SubmitSend(t)
  BY <1>2 DEF SubmitSend, Enqueue, releaseVars
<1>3. CASE SubmitRecheck(t)
  BY <1>3 DEF SubmitRecheck, clientVars, releaseVars
<1> QED BY <1>1, <1>2, <1>3 DEF SubmitTask

(* It is kept when a handler takes a task from its queue.                  *)
LEMMA TypeReceive ==
    ASSUME TypeOK, NEW k \in Kinds, HandlerReceive(k)
    PROVE  TypeOK'
<1>1. queue[k] \in Seq(Tasks) /\ queue[k] # <<>>
  BY DEF TypeOK, HandlerReceive
<1>2. Head(queue[k]) \in Tasks /\ Tail(queue[k]) \in Seq(Tasks)
  BY <1>1
<1>3. queue' \in [Kinds -> Seq(Tasks)]
  BY <1>2 DEF TypeOK, HandlerReceive
<1>4. attempts' \in [Tasks -> Nat]
  BY <1>2 DEF TypeOK, HandlerReceive
<1>5. handler' \in [Tasks -> {"idle", "done"} \cup Active \cup Retrying]
  BY <1>2 DEF TypeOK, HandlerReceive
<1> QED BY <1>3, <1>4, <1>5 DEF TypeOK, HandlerReceive, releaseVars

(* It is kept when a task ends.                                            *)
LEMMA TypeEnds ==
    ASSUME TypeOK, NEW t \in Tasks, TaskEnds(t)
    PROVE  TypeOK'
<1>1. CASE /\ handler' = [handler EXCEPT ![t] = "update"]
           /\ \E s \in Terminal : outcome' = [outcome EXCEPT ![t] = s]
  <2>1. PICK s \in Terminal : outcome' = [outcome EXCEPT ![t] = s]
    BY <1>1
  <2>2. outcome' \in [Tasks -> Statuses]
    BY <2>1 DEF TypeOK
  <2> QED BY <1>1, <2>2 DEF TypeOK, TaskEnds, clientVars, releaseVars
<1>2. CASE handler' = [handler EXCEPT ![t] = "retry"] /\ UNCHANGED outcome
  BY <1>2 DEF TypeOK, TaskEnds, clientVars, releaseVars
<1> QED BY <1>1, <1>2 DEF TaskEnds

(* It is kept by the handling of a task's output: the status update and    *)
(* the retry, whose count stays within the budget.                         *)
LEMMA TypeOutput ==
    ASSUME TypeOK, NEW t \in Tasks, HandleTaskOutput(t)
    PROVE  TypeOK'
<1> USE TasksAssumption, CapacityAssumption DEF TypeOK, HandlerStep
<1>1. CASE UpdateLookup(t)
  BY <1>1 DEF UpdateLookup, clientVars, releaseVars
<1>2. CASE UpdatePost(t)
  <2>1. CASE /\ handler' = [handler EXCEPT ![t] = "unlink"]
             /\ watch' = [watch EXCEPT ![t] = outcome[t]]
    <3>1. watch' \in [Tasks -> Statuses]
      BY <2>1
    <3> QED BY <1>2, <2>1, <3>1 DEF UpdatePost, clientVars, releaseVars
  <2>2. CASE handler' = [handler EXCEPT ![t] = "done"] /\ UNCHANGED watch
    BY <1>2, <2>2 DEF UpdatePost, clientVars, releaseVars
  <2> QED BY <1>2, <2>1, <2>2 DEF UpdatePost
<1>3. CASE UpdateUnlink(t)
  BY <1>3 DEF UpdateUnlink, RemoveChannels, releaseVars
<1>4. CASE RetryCheck(t)
  BY <1>4 DEF RetryCheck, clientVars, releaseVars
<1>5. CASE RetryCount(t)
  <2>1. retryCounts[t] \in 0..MaxRetries /\ MaxRetries \in Nat
    OBVIOUS
  <2>2. CASE /\ handler' = [handler EXCEPT ![t] = "update"]
             /\ outcome' = [outcome EXCEPT ![t] = "failed"]
             /\ UNCHANGED retryCounts
    BY <1>5, <2>2 DEF RetryCount, releaseVars
  <2>3. CASE /\ retryCounts[t] < MaxRetries
             /\ handler' = [handler EXCEPT ![t] = "lookup"]
             /\ retryCounts' = [retryCounts EXCEPT ![t] = @ + 1]
             /\ UNCHANGED outcome
    <3>1. retryCounts[t] + 1 \in 0..MaxRetries
      BY <2>1, <2>3
    <3>2. retryCounts' \in [Tasks -> 0..MaxRetries]
      BY <2>3, <3>1
    <3> QED BY <1>5, <2>3, <3>2 DEF RetryCount, releaseVars
  <2> QED BY <1>5, <2>2, <2>3 DEF RetryCount
<1>6. CASE RetryLookup(t)
  BY <1>6 DEF RetryLookup, clientVars, releaseVars
<1>7. CASE RetrySend(t)
  <2>1. queue' \in [Kinds -> Seq(Tasks)]
    BY <1>7 DEF RetrySend, Enqueue
  <2>2. handler' = [handler EXCEPT ![t] = "idle"]
    BY <1>7 DEF RetrySend
  <2>3. UNCHANGED <<proofIndex, db, artifactIndex, channels, retryCounts, endedProofs, watch,
                    submission, outcome, attempts, subscription, stream, release, releasing,
                    dropped>>
    BY <1>7 DEF RetrySend, releaseVars
  <2> QED BY <2>1, <2>2, <2>3
<1> QED BY <1>1, <1>2, <1>3, <1>4, <1>5, <1>6, <1>7 DEF HandleTaskOutput

(* It is kept by those who wait for a task, and by its message channel.    *)
LEMMA TypeWaiting ==
    ASSUME TypeOK, NEW t \in Tasks,
           \/ Subscribe(t) \/ SubscriptionLookup(t) \/ SubscriptionAnswer(t)
           \/ SendTaskMessage(t) \/ SubscribeTaskMessages(t)
    PROVE  TypeOK'
<1> USE DEF TypeOK, clientVars, userVars, releaseVars
<1>1. CASE Subscribe(t)
  BY <1>1 DEF Subscribe
<1>2. CASE SubscriptionLookup(t)
  BY <1>2 DEF SubscriptionLookup
<1>3. CASE SubscriptionAnswer(t)
  <2>1. subscription' \in [Tasks -> {"none", "lookup", "waiting"} \cup Terminal]
    <3>1. PICK s \in Terminal : subscription' = [subscription EXCEPT ![t] = s]
      BY <1>3 DEF SubscriptionAnswer
    <3> QED BY <3>1
  <2>2. UNCHANGED <<clientVars, watch, submission, handler, outcome, attempts, stream,
                    releaseVars>>
    BY <1>3 DEF SubscriptionAnswer
  <2> QED BY <2>1, <2>2
<1>4. CASE SendTaskMessage(t)
  BY <1>4 DEF SendTaskMessage
<1>5. CASE SubscribeTaskMessages(t)
  BY <1>5 DEF SubscribeTaskMessages
<1> QED BY <1>1, <1>2, <1>3, <1>4, <1>5

(* It is kept by the release of a proof, and when its request is dropped.  *)
LEMMA TypeRelease ==
    ASSUME TypeOK, NEW p \in Proofs, Release(p) \/ DropRequest(p)
    PROVE  TypeOK'
<1> USE CapacityAssumption DEF TypeOK, ReleaseStep, clientVars, userVars
<1>1. CASE ReleaseIndex(p)
  BY <1>1 DEF ReleaseIndex
<1>2. CASE ReleaseDb(p)
  BY <1>2 DEF ReleaseDb
<1>3. CASE ReleaseChannels(p)
  BY <1>3 DEF ReleaseChannels, RemoveChannels
<1>4. CASE Cleanup(p)
  BY <1>4 DEF Cleanup
<1>5. CASE DropRequest(p)
  BY <1>5 DEF DropRequest
<1> QED BY <1>1, <1>2, <1>3, <1>4, <1>5 DEF Release

(* Every state of the client is well typed; in particular no retry count   *)
(* exceeds MAX_LOCAL_TASK_RETRIES.                                         *)
THEOREM TypeCorrect == Spec => []TypeOK
<1>1. Init => TypeOK
  BY CapacityAssumption DEF Init, TypeOK
<1>2. TypeOK /\ [Next]_vars => TypeOK'
  <2> SUFFICES ASSUME TypeOK, [Next]_vars PROVE TypeOK'
    OBVIOUS
  <2>1. CASE UNCHANGED vars
    BY <2>1 DEF TypeOK, vars, clientVars, userVars, releaseVars
  <2>2. CASE Next
    BY <2>1, <2>2, TypeSubmit, TypeReceive, TypeEnds, TypeOutput, TypeWaiting, TypeRelease
       DEF Next, Idle
  <2> QED BY <2>1, <2>2
<1> QED BY <1>1, <1>2, PTL DEF Spec

-----------------------------------------------------------------------------
(* The inductive invariant of the release.  A proof whose release started  *)
(* has ended, and an ended proof has no task in the index.  What is in the *)
(* db or tracked as an artifact without being in the index is what the     *)
(* release has taken out and not yet pruned.                               *)
EndedWhenReleased == \A p \in Proofs : release[p] # "idle" => p \in endedProofs
EndedNotIndexed == \A t \in proofIndex : ~Ended(t)
DbIndexed ==
    \A t \in db : \/ t \in proofIndex
                  \/ release[ProofOf[t]] = "db" /\ t \in releasing[ProofOf[t]]
ArtifactsIndexed ==
    \A t \in artifactIndex : \/ t \in proofIndex
                             \/ release[ProofOf[t]] \in {"db", "channels", "cleanup"}

ReleaseInv ==
    /\ TypeOK
    /\ EndedWhenReleased
    /\ EndedNotIndexed
    /\ DbIndexed
    /\ ArtifactsIndexed

(* The state the invariant is about.                                       *)
trackVars == <<proofIndex, db, artifactIndex, endedProofs, release, releasing>>

(* A step that leaves what the client tracks alone keeps the invariant.    *)
LEMMA ReleaseStutter ==
    ASSUME ReleaseInv, TypeOK', UNCHANGED trackVars
    PROVE  ReleaseInv'
BY DEF ReleaseInv, EndedWhenReleased, EndedNotIndexed, DbIndexed, ArtifactsIndexed,
       trackVars, Ended

(* submit_task keeps it: it records a task only when, under the lock of    *)
(* the index, the proof has not ended.                                     *)
LEMMA ReleaseSubmit ==
    ASSUME ReleaseInv, TypeOK', NEW t \in Tasks, SubmitRecord(t)
    PROVE  ReleaseInv'
BY DEF ReleaseInv, TypeOK, EndedWhenReleased, EndedNotIndexed, DbIndexed, ArtifactsIndexed,
       SubmitRecord, Ended, releaseVars

(* complete_proof and cleanup keep it.                                     *)
LEMMA ReleaseRelease ==
    ASSUME ReleaseInv, TypeOK', NEW p \in Proofs, Release(p)
    PROVE  ReleaseInv'
<1> USE TasksAssumption DEF ReleaseStep, Ended, TasksOf, userVars
<1>1. CASE ReleaseIndex(p)
  <2> DEFINE tasks == proofIndex \cap TasksOf(p)
  <2>1. /\ release[p] = "idle"
        /\ release' = [release EXCEPT ![p] = IF tasks = {} THEN "cleanup" ELSE "db"]
        /\ endedProofs' = endedProofs \cup {p}
        /\ proofIndex' = proofIndex \ tasks
        /\ releasing' = [releasing EXCEPT ![p] = tasks]
        /\ UNCHANGED <<db, artifactIndex>>
    BY <1>1 DEF ReleaseIndex
  <2>2. EndedWhenReleased'
    BY <2>1 DEF ReleaseInv, TypeOK, EndedWhenReleased
  <2>3. EndedNotIndexed'
    BY <2>1 DEF ReleaseInv, TypeOK, EndedNotIndexed
  <2>4. ASSUME NEW t \in Tasks, ProofOf[t] = p, t \in proofIndex
        PROVE  release'[p] = "db" /\ t \in releasing'[p]
    BY <2>1, <2>4 DEF ReleaseInv, TypeOK
  <2>5. ASSUME NEW t \in Tasks, ProofOf[t] # p
        PROVE  /\ release'[ProofOf[t]] = release[ProofOf[t]]
               /\ releasing'[ProofOf[t]] = releasing[ProofOf[t]]
               /\ t \in proofIndex' <=> t \in proofIndex
    BY <2>1, <2>5 DEF ReleaseInv, TypeOK
  <2>6. DbIndexed'
    <3> SUFFICES ASSUME NEW t \in db
                 PROVE  \/ t \in proofIndex'
                        \/ release'[ProofOf[t]] = "db" /\ t \in releasing'[ProofOf[t]]
      BY <2>1 DEF DbIndexed
    <3>1. t \in Tasks /\ (\/ t \in proofIndex
                          \/ release[ProofOf[t]] = "db" /\ t \in releasing[ProofOf[t]])
      BY DEF ReleaseInv, TypeOK, DbIndexed
    <3>2. CASE ProofOf[t] = p
      BY <2>1, <2>4, <3>1, <3>2
    <3>3. CASE ProofOf[t] # p
      BY <2>5, <3>1, <3>3
    <3> QED BY <3>2, <3>3
  <2>7. ArtifactsIndexed'
    <3> SUFFICES ASSUME NEW t \in artifactIndex
                 PROVE  \/ t \in proofIndex'
                        \/ release'[ProofOf[t]] \in {"db", "channels", "cleanup"}
      BY <2>1 DEF ArtifactsIndexed
    <3>1. t \in Tasks /\ (\/ t \in proofIndex
                          \/ release[ProofOf[t]] \in {"db", "channels", "cleanup"})
      BY DEF ReleaseInv, TypeOK, ArtifactsIndexed
    <3>2. CASE ProofOf[t] = p
      BY <2>1, <2>4, <3>1, <3>2
    <3>3. CASE ProofOf[t] # p
      BY <2>5, <3>1, <3>3
    <3> QED BY <3>2, <3>3
  <2> QED BY <2>2, <2>3, <2>6, <2>7 DEF ReleaseInv
<1>2. CASE ReleaseDb(p)
  BY <1>2 DEF ReleaseDb, ReleaseInv, TypeOK, EndedWhenReleased, EndedNotIndexed, DbIndexed,
              ArtifactsIndexed
<1>3. CASE ReleaseChannels(p)
  BY <1>3 DEF ReleaseChannels, ReleaseInv, TypeOK, EndedWhenReleased, EndedNotIndexed,
              DbIndexed, ArtifactsIndexed
<1>4. CASE Cleanup(p)
  BY <1>4 DEF Cleanup, ReleaseInv, TypeOK, EndedWhenReleased, EndedNotIndexed, DbIndexed,
              ArtifactsIndexed
<1> QED BY <1>1, <1>2, <1>3, <1>4 DEF Release

(* Unless a request is dropped during its release, every step keeps it.    *)
LEMMA ReleaseNext ==
    ASSUME ~MayDrop, ReleaseInv, TypeOK', [Next]_vars
    PROVE  ReleaseInv'
<1>1. CASE \E t \in Tasks : SubmitRecord(t)
  BY <1>1, ReleaseSubmit
<1>2. CASE \E p \in Proofs : Release(p)
  BY <1>2, ReleaseRelease
<1>3. CASE \E p \in Proofs : DropRequest(p)
  BY <1>3 DEF DropRequest
<1>4. CASE UNCHANGED trackVars
  BY <1>4, ReleaseStutter
<1>5. \/ \E t \in Tasks : SubmitRecord(t)
      \/ \E p \in Proofs : Release(p)
      \/ \E p \in Proofs : DropRequest(p)
      \/ UNCHANGED trackVars
  <2>1. CASE UNCHANGED vars
    BY <2>1 DEF vars, clientVars, releaseVars, trackVars
  <2>2. CASE Next
    <3> USE DEF clientVars, userVars, releaseVars, trackVars
    <3>1. ASSUME NEW t \in Tasks, SubmitSend(t) \/ SubmitRecheck(t)
          PROVE  UNCHANGED trackVars
      BY <3>1 DEF SubmitSend, SubmitRecheck
    <3>2. ASSUME NEW k \in Kinds, HandlerReceive(k) PROVE UNCHANGED trackVars
      BY <3>2 DEF HandlerReceive
    <3>3. ASSUME NEW t \in Tasks, TaskEnds(t) PROVE UNCHANGED trackVars
      BY <3>3 DEF TaskEnds
    <3>4. ASSUME NEW t \in Tasks, HandleTaskOutput(t) PROVE UNCHANGED trackVars
      BY <3>4 DEF HandleTaskOutput, UpdateLookup, UpdatePost, UpdateUnlink, RetryCheck,
                  RetryCount, RetryLookup, RetrySend
    <3>5. ASSUME NEW t \in Tasks,
                 \/ Subscribe(t) \/ SubscriptionLookup(t) \/ SubscriptionAnswer(t)
                 \/ SendTaskMessage(t) \/ SubscribeTaskMessages(t)
          PROVE  UNCHANGED trackVars
      BY <3>5 DEF Subscribe, SubscriptionLookup, SubscriptionAnswer, SendTaskMessage,
                  SubscribeTaskMessages
    <3> QED BY <2>2, <3>1, <3>2, <3>3, <3>4, <3>5 DEF Next, SubmitTask, Idle, vars
  <2> QED BY <2>1, <2>2
<1> QED BY <1>1, <1>2, <1>3, <1>4, <1>5

(* Once the release of a proof has ended, proof_index, db and              *)
(* artifact_index have no entry of its tasks.                              *)
LEMMA NothingTracked ==
    ASSUME ReleaseInv, NEW t \in Tasks, release[ProofOf[t]] = "released"
    PROVE  t \notin Tracked
<1>1. t \notin proofIndex
  BY TasksAssumption DEF ReleaseInv, EndedWhenReleased, EndedNotIndexed, Ended
<1>2. t \notin db
  BY <1>1 DEF ReleaseInv, DbIndexed
<1>3. t \notin artifactIndex
  BY <1>1 DEF ReleaseInv, ArtifactsIndexed
<1> QED BY <1>1, <1>2, <1>3 DEF Tracked

-----------------------------------------------------------------------------
(* A task is in one place at a time.  The queue of a kind holds tasks of   *)
(* that kind, none twice; one that is queued is not in the hands of the    *)
(* node; and one that was not sent yet is in neither.                      *)
QueuedKind == \A k \in Kinds : \A i \in 1..Len(queue[k]) : KindOf[queue[k][i]] = k
QueuedOnce ==
    \A k \in Kinds : \A i, j \in 1..Len(queue[k]) : queue[k][i] = queue[k][j] => i = j
QueuedIdle ==
    \A k \in Kinds : \A i \in 1..Len(queue[k]) :
        /\ handler[queue[k][i]] = "idle"
        /\ submission[queue[k][i]] \notin {"idle", "sending"}
UnsentIdle == \A t \in Tasks : submission[t] \in {"idle", "sending"} => handler[t] = "idle"
PostedDone == \A t \in Tasks : watch[t] # "pending" => handler[t] \in {"unlink", "done"}

CopyInv == TypeOK /\ QueuedKind /\ QueuedOnce /\ QueuedIdle /\ UnsentIdle /\ PostedDone

(* What the invariant is about.                                            *)
copyVars == <<queue, watch, submission, handler>>

(* A step that changes none of it keeps the invariant.                     *)
LEMMA CopyStutter ==
    ASSUME CopyInv, TypeOK', UNCHANGED copyVars
    PROVE  CopyInv'
BY DEF CopyInv, QueuedKind, QueuedOnce, QueuedIdle, UnsentIdle, PostedDone, copyVars

(* A task in the hands of the node is queued nowhere.                      *)
LEMMA BusyNotQueued ==
    ASSUME CopyInv, NEW t \in Tasks, handler[t] # "idle" \/ submission[t] \in {"idle", "sending"},
           NEW k \in Kinds, NEW i \in 1..Len(queue[k])
    PROVE  queue[k][i] # t
BY DEF CopyInv, QueuedIdle

(* The handler's next step with a task that stays in its hands, or is      *)
(* done, keeps the invariant; also when it posts the status at the end.    *)
LEMMA CopyHandler ==
    ASSUME CopyInv, TypeOK', NEW t \in Tasks, handler[t] # "idle",
           NEW to, handler' = [handler EXCEPT ![t] = to],
           UNCHANGED <<queue, submission>>,
           \/ watch' = watch /\ (handler[t] = "unlink" => to = "done") /\ handler[t] # "done"
           \/ to = "unlink"
           \/ to = "done" /\ UNCHANGED watch,
           \A u \in Tasks : u # t => watch'[u] = watch[u]
    PROVE  CopyInv'
<1>1. QueuedKind' /\ QueuedOnce'
  BY DEF CopyInv, QueuedKind, QueuedOnce
<1>2. QueuedIdle'
  <2> SUFFICES ASSUME NEW k \in Kinds, NEW i \in 1..Len(queue[k])
               PROVE  /\ handler'[queue[k][i]] = "idle"
                      /\ submission[queue[k][i]] \notin {"idle", "sending"}
    BY DEF QueuedIdle
  <2>1. queue[k][i] # t
    BY BusyNotQueued
  <2>2. queue[k][i] \in Tasks
    BY DEF CopyInv, TypeOK
  <2> QED BY <2>1, <2>2 DEF CopyInv, QueuedIdle, TypeOK
<1>3. UnsentIdle'
  BY DEF CopyInv, UnsentIdle, TypeOK
<1>4. PostedDone'
  BY DEF CopyInv, PostedDone, TypeOK
<1> QED BY <1>1, <1>2, <1>3, <1>4 DEF CopyInv

(* Putting a task that is not queued into the queue of its kind keeps the  *)
(* queues as they must be.                                                 *)
LEMMA CopyEnqueue ==
    ASSUME CopyInv, NEW t \in Tasks, Enqueue(t),
           handler[t] # "idle" \/ submission[t] \in {"idle", "sending"}
    PROVE  QueuedKind' /\ QueuedOnce'
<1> DEFINE q == queue[KindOf[t]]
<1>1. /\ KindOf[t] \in Kinds /\ q \in Seq(Tasks)
      /\ queue' = [queue EXCEPT ![KindOf[t]] = Append(q, t)]
      /\ queue \in [Kinds -> Seq(Tasks)]
  BY TasksAssumption DEF CopyInv, TypeOK, Enqueue
<1>2. ASSUME NEW k \in Kinds, k # KindOf[t] PROVE queue'[k] = queue[k]
  BY <1>1, <1>2
<1>3. /\ queue'[KindOf[t]] = Append(q, t)
      /\ Len(queue'[KindOf[t]]) = Len(q) + 1
      /\ \A i \in 1..Len(q) : queue'[KindOf[t]][i] = q[i]
      /\ queue'[KindOf[t]][Len(q) + 1] = t
      /\ Len(q) \in Nat
  BY <1>1
<1>4. \A i \in 1..Len(q) : q[i] # t
  BY <1>1, BusyNotQueued
<1>5. QueuedKind'
  <2> SUFFICES ASSUME NEW k \in Kinds, NEW i \in 1..Len(queue'[k])
               PROVE  KindOf[queue'[k][i]] = k
    BY DEF QueuedKind
  <2>1. CASE k # KindOf[t]
    BY <2>1, <1>2 DEF CopyInv, QueuedKind
  <2>2. CASE k = KindOf[t]
    BY <2>2, <1>1, <1>3 DEF CopyInv, QueuedKind
  <2> QED BY <2>1, <2>2
<1>6. QueuedOnce'
  <2> SUFFICES ASSUME NEW k \in Kinds, NEW i \in 1..Len(queue'[k]), NEW j \in 1..Len(queue'[k]),
                      queue'[k][i] = queue'[k][j]
               PROVE  i = j
    BY DEF QueuedOnce
  <2>1. CASE k # KindOf[t]
    BY <2>1, <1>2 DEF CopyInv, QueuedOnce
  <2>2. CASE k = KindOf[t]
    <3>1. i \in 1..(Len(q) + 1) /\ j \in 1..(Len(q) + 1)
      BY <2>2, <1>3
    <3>2. CASE i \in 1..Len(q) /\ j \in 1..Len(q)
      <4>1. q[i] = q[j]
        BY <2>2, <3>2, <1>3
      <4>2. \A a, b \in 1..Len(q) : q[a] = q[b] => a = b
        BY <1>1 DEF CopyInv, QueuedOnce
      <4> QED BY <3>2, <4>1, <4>2
    <3>3. CASE i = Len(q) + 1 \/ j = Len(q) + 1
      BY <2>2, <3>1, <3>3, <1>3, <1>4
    <3>4. /\ i \in 1..Len(q) \/ i = Len(q) + 1
          /\ j \in 1..Len(q) \/ j = Len(q) + 1
      BY <3>1, <1>3
    <3> QED BY <3>2, <3>3, <3>4
  <2> QED BY <2>1, <2>2
<1> QED BY <1>5, <1>6

(* Submissions and retries keep the invariant.                             *)
LEMMA CopySend ==
    ASSUME CopyInv, TypeOK', NEW t \in Tasks, SubmitSend(t) \/ RetrySend(t)
    PROVE  CopyInv'
<1> DEFINE q == queue[KindOf[t]]
<1>1. /\ handler[t] # "idle" \/ submission[t] \in {"idle", "sending"}
      /\ handler'[t] = "idle" /\ submission'[t] \notin {"idle", "sending"}
      /\ \A u \in Tasks : u # t => handler'[u] = handler[u] /\ submission'[u] = submission[u]
      /\ Enqueue(t) /\ watch' = watch
      /\ watch[t] = "pending"
  <2>1. CASE SubmitSend(t)
    <3>1. handler[t] = "idle"
      BY <2>1 DEF SubmitSend, CopyInv, UnsentIdle
    <3>2. watch[t] = "pending"
      BY <3>1 DEF CopyInv, PostedDone
    <3> QED BY <2>1, <3>1, <3>2 DEF SubmitSend, CopyInv, TypeOK
  <2>2. CASE RetrySend(t)
    <3>1. handler[t] = "requeue"
      BY <2>2 DEF RetrySend, HandlerStep
    <3>2. watch[t] = "pending" /\ submission[t] \notin {"idle", "sending"}
      BY <3>1 DEF CopyInv, PostedDone, UnsentIdle
    <3> QED BY <2>2, <3>1, <3>2 DEF RetrySend, HandlerStep, CopyInv, TypeOK
  <2> QED BY <2>1, <2>2
<1>2. QueuedKind' /\ QueuedOnce'
  BY <1>1, CopyEnqueue
<1>3. QueuedIdle'
  <2> SUFFICES ASSUME NEW k \in Kinds, NEW i \in 1..Len(queue'[k])
               PROVE  /\ handler'[queue'[k][i]] = "idle"
                      /\ submission'[queue'[k][i]] \notin {"idle", "sending"}
    BY DEF QueuedIdle
  <2>1. /\ KindOf[t] \in Kinds /\ q \in Seq(Tasks)
        /\ queue' = [queue EXCEPT ![KindOf[t]] = Append(q, t)]
        /\ queue \in [Kinds -> Seq(Tasks)]
    BY <1>1, TasksAssumption DEF CopyInv, TypeOK, Enqueue
  <2>2. queue'[k][i] = t \/ (i \in 1..Len(queue[k]) /\ queue'[k][i] = queue[k][i])
    <3>1. CASE k # KindOf[t]
      BY <2>1, <3>1
    <3>2. CASE k = KindOf[t]
      BY <2>1, <3>2
    <3> QED BY <3>1, <3>2
  <2>3. CASE queue'[k][i] = t
    BY <1>1, <2>3
  <2>4. CASE queue'[k][i] # t
    <3>1. /\ i \in 1..Len(queue[k]) /\ queue'[k][i] = queue[k][i] /\ queue[k][i] \in Tasks
      BY <2>1, <2>2, <2>4
    <3> QED BY <1>1, <2>4, <3>1 DEF CopyInv, QueuedIdle
  <2> QED BY <2>3, <2>4
<1>4. UnsentIdle' /\ PostedDone'
  BY <1>1 DEF CopyInv, UnsentIdle, PostedDone
<1> QED BY <1>2, <1>3, <1>4 DEF CopyInv

(* So does the handler's loop: what it takes is in the queue no more.      *)
LEMMA CopyReceive ==
    ASSUME CopyInv, TypeOK', NEW k \in Kinds, HandlerReceive(k)
    PROVE  CopyInv'
<1> DEFINE t == Head(queue[k])
<1>1. /\ queue \in [Kinds -> Seq(Tasks)] /\ queue[k] \in Seq(Tasks) /\ queue[k] # <<>>
      /\ queue' = [queue EXCEPT ![k] = Tail(queue[k])]
      /\ handler' = [handler EXCEPT ![t] = "running"]
      /\ UNCHANGED <<watch, submission>>
  BY DEF CopyInv, TypeOK, HandlerReceive
<1>2. /\ t \in Tasks /\ t = queue[k][1] /\ 1 \in 1..Len(queue[k]) /\ KindOf[t] = k
      /\ handler[t] = "idle" /\ submission[t] \notin {"idle", "sending"}
  BY <1>1 DEF CopyInv, QueuedKind, QueuedIdle
<1>3. ASSUME NEW l \in Kinds, NEW i \in 1..Len(queue'[l])
      PROVE  \/ l # k /\ i \in 1..Len(queue[l]) /\ queue'[l][i] = queue[l][i]
             \/ l = k /\ i + 1 \in 1..Len(queue[l]) /\ queue'[l][i] = queue[l][i + 1]
  <2>1. CASE l # k
    BY <1>1, <2>1
  <2>2. CASE l = k
    BY <1>1, <2>2
  <2> QED BY <2>1, <2>2
<1>4. QueuedKind'
  <2> SUFFICES ASSUME NEW l \in Kinds, NEW i \in 1..Len(queue'[l])
               PROVE  KindOf[queue'[l][i]] = l
    BY DEF QueuedKind
  <2>1. PICK j \in 1..Len(queue[l]) : queue'[l][i] = queue[l][j]
    BY <1>3
  <2> QED BY <2>1 DEF CopyInv, QueuedKind
<1>5. QueuedOnce'
  <2> SUFFICES ASSUME NEW l \in Kinds, NEW i \in 1..Len(queue'[l]), NEW j \in 1..Len(queue'[l]),
                      queue'[l][i] = queue'[l][j]
               PROVE  i = j
    BY DEF QueuedOnce
  <2>1. CASE l # k
    BY <2>1, <1>3 DEF CopyInv, QueuedOnce
  <2>2. CASE l = k
    <3>1. /\ i + 1 \in 1..Len(queue[l]) /\ queue'[l][i] = queue[l][i + 1]
          /\ j + 1 \in 1..Len(queue[l]) /\ queue'[l][j] = queue[l][j + 1]
      BY <2>2, <1>3
    <3>2. i + 1 = j + 1
      BY <3>1 DEF CopyInv, QueuedOnce
    <3> QED BY <3>2
  <2> QED BY <2>1, <2>2
<1>6. QueuedIdle'
  <2> SUFFICES ASSUME NEW l \in Kinds, NEW i \in 1..Len(queue'[l])
               PROVE  /\ handler'[queue'[l][i]] = "idle"
                      /\ submission[queue'[l][i]] \notin {"idle", "sending"}
    <3>1. UNCHANGED submission
      BY <1>1
    <3> QED BY <3>1 DEF QueuedIdle
  <2>1. PICK j \in 1..Len(queue[l]) : queue'[l][i] = queue[l][j] /\ (l = k => j = i + 1)
    BY <1>3
  <2>2. queue[l][j] # t
    <3>1. CASE l # k
      BY <1>2, <3>1 DEF CopyInv, QueuedKind
    <3>2. CASE l = k
      BY <1>2, <2>1, <3>2 DEF CopyInv, QueuedOnce
    <3> QED BY <3>1, <3>2
  <2>3. handler[queue[l][j]] = "idle" /\ submission[queue[l][j]] \notin {"idle", "sending"}
    BY DEF CopyInv, QueuedIdle
  <2>4. queue[l][j] \in Tasks
    BY <1>1
  <2>5. handler'[queue[l][j]] = handler[queue[l][j]]
    BY <1>1, <2>2, <2>4 DEF CopyInv, TypeOK
  <2> QED BY <2>1, <2>3, <2>5
<1>7. /\ \A u \in Tasks : u # t => handler'[u] = handler[u]
      /\ watch[t] = "pending"
  <2>1. watch[t] = "pending"
    <3> HIDE DEF t
    <3> QED BY <1>2 DEF CopyInv, PostedDone
  <2>2. handler \in [Tasks -> {"idle", "done"} \cup Active \cup Retrying]
    BY DEF CopyInv, TypeOK
  <2>3. \A u \in Tasks : u # t => handler'[u] = handler[u]
    <3> HIDE DEF t
    <3> QED BY <1>1, <1>2, <2>2
  <2> QED BY <2>1, <2>3
<1>8. UnsentIdle' /\ PostedDone'
  BY <1>1, <1>2, <1>7 DEF CopyInv, UnsentIdle, PostedDone
<1> QED BY <1>4, <1>5, <1>6, <1>8 DEF CopyInv

(* Every step keeps the invariant.                                         *)
LEMMA CopyNext ==
    ASSUME CopyInv, TypeOK', [Next]_vars
    PROVE  CopyInv'
<1> USE DEF clientVars, userVars, releaseVars, copyVars
<1>1. CASE UNCHANGED vars
  BY <1>1, CopyStutter DEF vars
<1>2. ASSUME NEW t \in Tasks, SubmitTask(t) PROVE CopyInv'
  <2>1. CASE SubmitRecord(t)
    <3>1. /\ submission[t] = "idle" /\ submission'[t] \in {"sending", "refused"}
          /\ \A u \in Tasks : u # t => submission'[u] = submission[u]
          /\ UNCHANGED <<queue, watch, handler>>
      BY <2>1 DEF SubmitRecord, CopyInv, TypeOK
    <3>2. ASSUME NEW k \in Kinds, NEW i \in 1..Len(queue[k])
          PROVE  queue[k][i] # t /\ queue[k][i] \in Tasks
      <4>1. queue[k][i] # t
        BY <3>1, BusyNotQueued
      <4>2. queue[k][i] \in Tasks
        BY DEF CopyInv, TypeOK
      <4> QED BY <4>1, <4>2
    <3> QED
      BY <3>1, <3>2 DEF CopyInv, QueuedKind, QueuedOnce, QueuedIdle, UnsentIdle, PostedDone
  <2>2. CASE SubmitSend(t)
    BY <2>2, CopySend
  <2>3. CASE SubmitRecheck(t)
    <3>1. /\ submission[t] = "sent" /\ submission'[t] \in {"accepted", "refused"}
          /\ \A u \in Tasks : u # t => submission'[u] = submission[u]
          /\ UNCHANGED <<queue, watch, handler>>
      BY <2>3 DEF SubmitRecheck, CopyInv, TypeOK
    <3>2. \A k \in Kinds : \A i \in 1..Len(queue[k]) : queue[k][i] \in Tasks
      BY DEF CopyInv, TypeOK
    <3> QED
      BY <3>1, <3>2 DEF CopyInv, QueuedKind, QueuedOnce, QueuedIdle, UnsentIdle, PostedDone
  <2> QED BY <1>2, <2>1, <2>2, <2>3 DEF SubmitTask
<1>3. ASSUME NEW k \in Kinds, HandlerReceive(k) PROVE CopyInv'
  BY <1>3, CopyReceive
<1>4. ASSUME NEW t \in Tasks, TaskEnds(t) PROVE CopyInv'
  <2>1. PICK to \in {"update", "retry"} : handler' = [handler EXCEPT ![t] = to]
    BY <1>4 DEF TaskEnds
  <2>2. handler[t] = "running" /\ UNCHANGED <<queue, submission, watch>>
    BY <1>4 DEF TaskEnds
  <2> QED BY <2>1, <2>2, CopyHandler
<1>5. ASSUME NEW t \in Tasks, HandleTaskOutput(t) PROVE CopyInv'
  <2> USE DEF HandlerStep
  <2>1. CASE UpdateLookup(t)
    BY <2>1, CopyHandler DEF UpdateLookup
  <2>2. CASE UpdatePost(t)
    <3>1. CASE handler' = [handler EXCEPT ![t] = "unlink"] /\ watch' = [watch EXCEPT ![t] = outcome[t]]
      <4>1. handler[t] # "idle" /\ UNCHANGED <<queue, submission>>
        BY <2>2 DEF UpdatePost
      <4>2. \A u \in Tasks : u # t => watch'[u] = watch[u]
        BY <3>1 DEF CopyInv, TypeOK
      <4> QED BY <3>1, <4>1, <4>2, CopyHandler
    <3>2. CASE handler' = [handler EXCEPT ![t] = "done"] /\ UNCHANGED watch
      BY <2>2, <3>2, CopyHandler DEF UpdatePost
    <3> QED BY <2>2, <3>1, <3>2 DEF UpdatePost
  <2>3. CASE UpdateUnlink(t)
    BY <2>3, CopyHandler DEF UpdateUnlink
  <2>4. CASE RetryCheck(t)
    BY <2>4, CopyHandler DEF RetryCheck
  <2>5. CASE RetryCount(t)
    BY <2>5, CopyHandler DEF RetryCount
  <2>6. CASE RetryLookup(t)
    BY <2>6, CopyHandler DEF RetryLookup
  <2>7. CASE RetrySend(t)
    BY <2>7, CopySend
  <2> QED BY <1>5, <2>1, <2>2, <2>3, <2>4, <2>5, <2>6, <2>7 DEF HandleTaskOutput
<1>6. ASSUME NEW t \in Tasks,
             \/ Subscribe(t) \/ SubscriptionLookup(t) \/ SubscriptionAnswer(t)
             \/ SendTaskMessage(t) \/ SubscribeTaskMessages(t)
      PROVE  CopyInv'
  <2>1. UNCHANGED copyVars
    BY <1>6 DEF Subscribe, SubscriptionLookup, SubscriptionAnswer, SendTaskMessage,
                SubscribeTaskMessages
  <2> QED BY <2>1, CopyStutter
<1>7. ASSUME NEW p \in Proofs, Release(p) \/ DropRequest(p) PROVE CopyInv'
  <2>1. UNCHANGED copyVars
    BY <1>7 DEF Release, ReleaseIndex, ReleaseDb, ReleaseChannels, Cleanup, DropRequest
  <2> QED BY <2>1, CopyStutter
<1> QED BY <1>1, <1>2, <1>3, <1>4, <1>5, <1>6, <1>7 DEF Next, Idle

(* The invariant holds throughout.                                         *)
LEMMA CopyAlways == Spec => []CopyInv
<1>1. Init => CopyInv
  BY CapacityAssumption DEF Init, CopyInv, TypeOK, QueuedKind, QueuedOnce, QueuedIdle,
                            UnsentIdle, PostedDone
<1>2. CopyInv /\ TypeOK' /\ [Next]_vars => CopyInv'
  BY CopyNext
<1> QED BY <1>1, <1>2, TypeCorrect, PTL DEF Spec

(* However a task is retried, it is in one place at a time: waiting to be  *)
(* sent, in its queue once, or in the hands of the node; and it runs no    *)
(* more once its status is final.                                          *)
THEOREM CopyCorrect == Spec => []OneCopy
<1>1. CopyInv => OneCopy
  <2> SUFFICES ASSUME CopyInv, NEW t \in Tasks
               PROVE  /\ Cardinality(Occurrences(t)) <= 1
                      /\ submission[t] \in {"idle", "sending"} \/ handler[t] # "idle"
                             => Occurrences(t) = {}
                      /\ watch[t] # "pending" => handler[t] \in {"unlink", "done"}
    BY DEF OneCopy
  <2>1. KindOf[t] \in Kinds
    BY TasksAssumption
  <2>2. Cardinality(Occurrences(t)) <= 1
    <3>1. \A i, j \in Occurrences(t) : i = j
      BY <2>1 DEF Occurrences, CopyInv, QueuedOnce
    <3>2. CASE Occurrences(t) = {}
      BY <3>2, FS_EmptySet
    <3>3. CASE Occurrences(t) # {}
      <4>1. PICK i \in Occurrences(t) : TRUE
        BY <3>3
      <4>2. Occurrences(t) = {i}
        BY <3>1, <4>1
      <4>3. Cardinality({i}) = 1
        BY FS_Singleton
      <4> QED BY <4>2, <4>3
    <3> QED BY <3>2, <3>3
  <2>3. submission[t] \in {"idle", "sending"} \/ handler[t] # "idle" => Occurrences(t) = {}
    BY <2>1, BusyNotQueued DEF Occurrences
  <2> QED BY <2>2, <2>3 DEF CopyInv, PostedDone
<1> QED BY <1>1, CopyAlways, PTL

(* A status that was reported never changes: whoever has seen it has seen  *)
(* the last one.                                                           *)
THEOREM StatusCorrect == Spec => StatusIsFinal
<1>1. CopyInv /\ [Next]_vars => [\A t \in Tasks : watch[t] # "pending" => watch'[t] = watch[t]]_vars
  <2> SUFFICES ASSUME CopyInv, Next, NEW t \in Tasks, watch[t] # "pending"
               PROVE  watch'[t] = watch[t]
    OBVIOUS
  <2> USE DEF clientVars, userVars, releaseVars
  <2>1. ASSUME NEW u \in Tasks, UpdatePost(u) PROVE watch'[t] = watch[t]
    <3>1. handler[u] = "post"
      BY <2>1 DEF UpdatePost, HandlerStep
    <3>2. u # t
      BY <3>1 DEF CopyInv, PostedDone
    <3> QED BY <2>1, <3>2 DEF UpdatePost, CopyInv, TypeOK
  <2>2. ASSUME NEW u \in Tasks, SubmitTask(u) \/ TaskEnds(u) PROVE watch' = watch
    BY <2>2 DEF SubmitTask, SubmitRecord, SubmitSend, SubmitRecheck, TaskEnds
  <2>3. ASSUME NEW u \in Tasks, HandleTaskOutput(u) PROVE watch' = watch \/ UpdatePost(u)
    BY <2>3 DEF HandleTaskOutput, UpdateLookup, UpdateUnlink, RetryCheck, RetryCount,
                RetryLookup, RetrySend
  <2>4. ASSUME NEW u \in Tasks,
               \/ Subscribe(u) \/ SubscriptionLookup(u) \/ SubscriptionAnswer(u)
               \/ SendTaskMessage(u) \/ SubscribeTaskMessages(u)
        PROVE  watch' = watch
    BY <2>4 DEF Subscribe, SubscriptionLookup, SubscriptionAnswer, SendTaskMessage,
                SubscribeTaskMessages
  <2>5. ASSUME NEW p \in Proofs, Release(p) \/ DropRequest(p) PROVE watch' = watch
    BY <2>5 DEF Release, ReleaseIndex, ReleaseDb, ReleaseChannels, Cleanup, DropRequest
  <2>6. ASSUME NEW k \in Kinds, HandlerReceive(k) PROVE watch' = watch
    BY <2>6 DEF HandlerReceive
  <2> QED BY <2>1, <2>2, <2>3, <2>4, <2>5, <2>6 DEF Next, Idle, vars
<1> QED BY <1>1, CopyAlways, PTL DEF Spec, StatusIsFinal

-----------------------------------------------------------------------------
(* What a subscription finds.  A task whose submission was not refused has *)
(* its db entry until its proof has ended, because a release takes only    *)
(* tasks of its own proof and marks the proof as ended first; also when    *)
(* its request is dropped.  Only accepted tasks are subscribed to.         *)
ReleasingOwn == \A p \in Proofs : releasing[p] \subseteq TasksOf(p)
Recorded ==
    \A t \in Tasks : submission[t] \in {"sending", "sent", "accepted"} => t \in db \/ Ended(t)
SubscribedAccepted ==
    \A t \in Tasks : subscription[t] # "none" => submission[t] = "accepted"

AnswerInv ==
    /\ CopyInv
    /\ EndedWhenReleased
    /\ ReleasingOwn
    /\ Recorded
    /\ SubscribedAccepted
    /\ AnswerIsOutcome

answerVars == <<db, endedProofs, watch, submission, subscription, release, releasing>>

(* A step that changes none of it keeps the invariant.                     *)
LEMMA AnswerStutter ==
    ASSUME AnswerInv, CopyInv', UNCHANGED answerVars
    PROVE  AnswerInv'
BY DEF AnswerInv, EndedWhenReleased, ReleasingOwn, Recorded, SubscribedAccepted,
       AnswerIsOutcome, answerVars, Ended, TasksOf

(* submit_task keeps it: the entry is there before the task is sent.       *)
LEMMA AnswerSubmit ==
    ASSUME AnswerInv, CopyInv', NEW t \in Tasks, SubmitTask(t)
    PROVE  AnswerInv'
<1>1. /\ UNCHANGED <<endedProofs, watch, subscription, release, releasing>>
      /\ db \subseteq db'
      /\ \A u \in Tasks : u # t => submission'[u] = submission[u]
  BY DEF SubmitTask, SubmitRecord, SubmitSend, SubmitRecheck, clientVars, releaseVars,
         AnswerInv, CopyInv, TypeOK
<1>2. /\ submission[t] # "accepted"
      /\ submission'[t] \in {"sending", "sent", "accepted"} => t \in db' \/ Ended(t)
  BY DEF SubmitTask, SubmitRecord, SubmitSend, SubmitRecheck, clientVars,
         AnswerInv, CopyInv, TypeOK, Recorded
<1>3. EndedWhenReleased' /\ ReleasingOwn' /\ AnswerIsOutcome'
  BY <1>1 DEF AnswerInv, EndedWhenReleased, ReleasingOwn, AnswerIsOutcome, Ended, TasksOf
<1>4. Recorded'
  BY <1>1, <1>2 DEF AnswerInv, Recorded, Ended
<1>5. SubscribedAccepted'
  BY <1>1, <1>2 DEF AnswerInv, SubscribedAccepted
<1> QED BY <1>3, <1>4, <1>5 DEF AnswerInv

(* Posting a status keeps it: no status was posted before.                 *)
LEMMA AnswerPost ==
    ASSUME AnswerInv, CopyInv', NEW t \in Tasks, UpdatePost(t)
    PROVE  AnswerInv'
<1>1. handler[t] = "post"
  BY DEF UpdatePost, HandlerStep
<1>2. watch[t] = "pending"
  BY <1>1 DEF AnswerInv, CopyInv, PostedDone
<1>3. /\ \A u \in Tasks : u # t => watch'[u] = watch[u]
      /\ UNCHANGED <<db, endedProofs, submission, subscription, release, releasing>>
  BY DEF UpdatePost, AnswerInv, CopyInv, TypeOK, clientVars, releaseVars
<1>4. AnswerIsOutcome'
  BY <1>2, <1>3 DEF AnswerInv, AnswerIsOutcome, Ended
<1>5. EndedWhenReleased' /\ ReleasingOwn' /\ Recorded' /\ SubscribedAccepted'
  BY <1>3 DEF AnswerInv, EndedWhenReleased, ReleasingOwn, Recorded, SubscribedAccepted, Ended,
              TasksOf
<1> QED BY <1>4, <1>5 DEF AnswerInv

(* The steps of a subscription keep it: without a db entry the proof of    *)
(* the task has ended.                                                     *)
LEMMA AnswerSubscription ==
    ASSUME AnswerInv, CopyInv', NEW t \in Tasks,
           Subscribe(t) \/ SubscriptionLookup(t) \/ SubscriptionAnswer(t)
    PROVE  AnswerInv'
<1>1. /\ UNCHANGED <<db, endedProofs, watch, submission, release, releasing>>
      /\ \A u \in Tasks : u # t => subscription'[u] = subscription[u]
  BY DEF Subscribe, SubscriptionLookup, SubscriptionAnswer, clientVars, releaseVars,
         AnswerInv, CopyInv, TypeOK
<1>2. submission[t] = "accepted"
  BY DEF Subscribe, SubscriptionLookup, SubscriptionAnswer, AnswerInv, SubscribedAccepted
<1>3. t \in db \/ Ended(t)
  BY <1>2 DEF AnswerInv, Recorded
<1>4. ASSUME subscription'[t] \in Terminal
      PROVE  \/ subscription'[t] = watch[t]
             \/ subscription'[t] = "failed" /\ Ended(t)
  <2> USE DEF AnswerInv, CopyInv, TypeOK, Terminal
  <2>1. CASE Subscribe(t)
    BY <1>4, <2>1 DEF Subscribe
  <2>2. CASE SubscriptionLookup(t)
    <3>1. subscription'[t] = IF t \in db THEN "waiting" ELSE "failed"
      BY <2>2 DEF SubscriptionLookup
    <3> QED BY <1>3, <1>4, <3>1
  <2>3. CASE SubscriptionAnswer(t)
    <3>1. subscription'[t] = watch[t] \/ (subscription'[t] = "failed" /\ t \notin db)
      BY <2>3 DEF SubscriptionAnswer
    <3> QED BY <1>3, <3>1
  <2> QED BY <2>1, <2>2, <2>3
<1>5. AnswerIsOutcome'
  BY <1>1, <1>4 DEF AnswerInv, AnswerIsOutcome, Ended
<1>6. EndedWhenReleased' /\ ReleasingOwn' /\ Recorded'
  BY <1>1 DEF AnswerInv, EndedWhenReleased, ReleasingOwn, Recorded, Ended, TasksOf
<1>7. SubscribedAccepted'
  BY <1>1, <1>2 DEF AnswerInv, SubscribedAccepted
<1> QED BY <1>5, <1>6, <1>7 DEF AnswerInv

(* A release keeps it, and so does dropping the request meanwhile.         *)
LEMMA AnswerRelease ==
    ASSUME AnswerInv, CopyInv', NEW p \in Proofs, Release(p) \/ DropRequest(p)
    PROVE  AnswerInv'
<1> USE DEF ReleaseStep, userVars, clientVars
<1>1. UNCHANGED <<watch, submission, subscription>> /\ endedProofs \subseteq endedProofs'
  BY DEF Release, ReleaseIndex, ReleaseDb, ReleaseChannels, Cleanup, DropRequest
<1>2. EndedWhenReleased'
  <2>1. CASE ReleaseIndex(p)
    BY <2>1 DEF ReleaseIndex, AnswerInv, CopyInv, TypeOK, EndedWhenReleased
  <2>2. CASE ReleaseDb(p) \/ ReleaseChannels(p) \/ Cleanup(p) \/ DropRequest(p)
    BY <2>2 DEF ReleaseDb, ReleaseChannels, Cleanup, DropRequest, AnswerInv, CopyInv, TypeOK,
                EndedWhenReleased
  <2> QED BY <2>1, <2>2 DEF Release
<1>3. ReleasingOwn'
  <2> USE DEF AnswerInv, CopyInv, TypeOK, ReleasingOwn
  <2>1. CASE ReleaseIndex(p)
    <3>1. releasing' = [releasing EXCEPT ![p] = proofIndex \cap TasksOf(p)]
      BY <2>1 DEF ReleaseIndex
    <3> QED BY <3>1 DEF TasksOf
  <2>2. CASE ReleaseDb(p) \/ ReleaseChannels(p) \/ Cleanup(p)
    <3>1. releasing' = releasing
      BY <2>2 DEF ReleaseDb, ReleaseChannels, Cleanup
    <3> QED BY <3>1 DEF TasksOf
  <2>3. CASE DropRequest(p)
    <3>1. releasing' = [releasing EXCEPT ![p] = {}]
      BY <2>3 DEF DropRequest
    <3> QED BY <3>1 DEF TasksOf
  <2> QED BY <2>1, <2>2, <2>3 DEF Release
<1>4. \A t \in db : t \in db' \/ Ended(t)
  BY DEF Release, ReleaseIndex, ReleaseDb, ReleaseChannels, Cleanup, DropRequest, AnswerInv,
         CopyInv, TypeOK, ReleasingOwn, EndedWhenReleased, TasksOf, Ended
<1>5. Recorded' /\ SubscribedAccepted' /\ AnswerIsOutcome'
  BY <1>1, <1>4 DEF AnswerInv, Recorded, SubscribedAccepted, AnswerIsOutcome, Ended
<1> QED BY <1>2, <1>3, <1>5 DEF AnswerInv

(* A subscription answers with the status its task reported, or with a     *)
(* failure when the proof of the task has ended; never otherwise, even if  *)
(* requests are dropped while they are released.                           *)
THEOREM AnswerCorrect == Spec => []AnswerIsOutcome
<1>1. Init => AnswerInv
  BY CapacityAssumption
     DEF Init, AnswerInv, CopyInv, TypeOK, QueuedKind, QueuedOnce, QueuedIdle, UnsentIdle,
         PostedDone, EndedWhenReleased, ReleasingOwn, Recorded, SubscribedAccepted,
         AnswerIsOutcome
<1>2. AnswerInv /\ CopyInv' /\ [Next]_vars => AnswerInv'
  <2> SUFFICES ASSUME AnswerInv, CopyInv', [Next]_vars PROVE AnswerInv'
    OBVIOUS
  <2> USE DEF clientVars, userVars, releaseVars, answerVars
  <2>1. CASE UNCHANGED vars
    BY <2>1, AnswerStutter DEF vars
  <2>2. ASSUME NEW k \in Kinds, HandlerReceive(k) PROVE AnswerInv'
    BY <2>2, AnswerStutter DEF HandlerReceive
  <2>3. ASSUME NEW t \in Tasks, TaskEnds(t) PROVE AnswerInv'
    BY <2>3, AnswerStutter DEF TaskEnds
  <2>4. ASSUME NEW t \in Tasks, HandleTaskOutput(t) PROVE AnswerInv'
    <3>1. UpdatePost(t) \/ UNCHANGED answerVars
      BY <2>4 DEF HandleTaskOutput, UpdateLookup, UpdateUnlink, RetryCheck, RetryCount,
                  RetryLookup, RetrySend
    <3> QED BY <3>1, AnswerPost, AnswerStutter
  <2>5. ASSUME NEW t \in Tasks, SendTaskMessage(t) \/ SubscribeTaskMessages(t) PROVE AnswerInv'
    <3>1. UNCHANGED answerVars
      BY <2>5 DEF SendTaskMessage, SubscribeTaskMessages
    <3> QED BY <3>1, AnswerStutter
  <2> QED BY <2>1, <2>2, <2>3, <2>4, <2>5, AnswerSubmit, AnswerSubscription, AnswerRelease
          DEF Next, Idle
<1>3. AnswerInv => AnswerIsOutcome
  BY DEF AnswerInv
<1> QED BY <1>1, <1>2, <1>3, CopyAlways, PTL DEF Spec

-----------------------------------------------------------------------------
(* How often a task is started.  Until its proof is released, each start   *)
(* but the first was counted as a retry.  The release drops the count, but *)
(* then the task has no db entry and its proof has ended: one that is      *)
(* queued is started once more and not retried, one that is counted again  *)
(* finds no entry.                                                         *)
AttemptsCounted(t) ==
    attempts[t] <= retryCounts[t] + (IF handler[t] \in {"idle", "lookup", "requeue"} THEN 0 ELSE 1)
AttemptsLast(t) ==
    attempts[t] <= MaxRetries + (IF handler[t] \in {"idle", "requeue"} THEN 0 ELSE 1)
StartsCounted ==
    \A t \in Tasks : IF release[ProofOf[t]] = "released" THEN AttemptsLast(t)
                                                          ELSE AttemptsCounted(t)

AttemptsInv == CopyInv /\ ReleaseInv /\ StartsCounted

attemptVars == <<attempts, retryCounts, handler, release>>

(* Every step but those of the node and of cleanup leaves the counts as    *)
(* they are.                                                               *)
LEMMA AttemptsStutter ==
    ASSUME StartsCounted, UNCHANGED attemptVars
    PROVE  StartsCounted'
BY DEF StartsCounted, AttemptsCounted, AttemptsLast, attemptVars

(* A step of the handler of task t that keeps its attempts and its count.  *)
LEMMA AttemptsHandler ==
    ASSUME AttemptsInv, NEW t \in Tasks, NEW to, handler' = [handler EXCEPT ![t] = to],
           UNCHANGED <<attempts, retryCounts, release>>,
           \/ to \notin {"idle", "lookup", "requeue"}
           \/ handler[t] \in {"idle", "requeue"}
           \/ handler[t] = "lookup" /\ release[ProofOf[t]] # "released"
    PROVE  StartsCounted'
<1> SUFFICES ASSUME NEW u \in Tasks
             PROVE  IF release[ProofOf[u]] = "released" THEN AttemptsLast(u)'
                                                         ELSE AttemptsCounted(u)'
  BY DEF StartsCounted
<1>1. /\ attempts[u] \in Nat /\ retryCounts[u] \in Nat /\ MaxRetries \in Nat
      /\ handler \in [Tasks -> {"idle", "done"} \cup Active \cup Retrying]
  BY CapacityAssumption DEF AttemptsInv, CopyInv, TypeOK
<1>2. IF release[ProofOf[u]] = "released" THEN AttemptsLast(u) ELSE AttemptsCounted(u)
  BY DEF AttemptsInv, StartsCounted
<1>3. CASE u # t
  BY <1>1, <1>2, <1>3 DEF AttemptsLast, AttemptsCounted
<1>4. CASE u = t
  BY <1>1, <1>2, <1>4 DEF AttemptsLast, AttemptsCounted
<1> QED BY <1>3, <1>4

(* The handler's loop keeps it: what it takes from the queue was idle.     *)
LEMMA AttemptsReceive ==
    ASSUME AttemptsInv, NEW k \in Kinds, HandlerReceive(k)
    PROVE  StartsCounted'
<1> DEFINE t == Head(queue[k])
<1>1. /\ queue[k] \in Seq(Tasks) /\ queue[k] # <<>>
      /\ handler' = [handler EXCEPT ![t] = "running"]
      /\ attempts' = [attempts EXCEPT ![t] = @ + 1]
      /\ UNCHANGED <<retryCounts, release>>
  BY DEF AttemptsInv, CopyInv, TypeOK, HandlerReceive, releaseVars
<1>2. t \in Tasks /\ t = queue[k][1] /\ 1 \in 1..Len(queue[k])
  BY <1>1
<1>3. handler[t] = "idle"
  BY <1>2 DEF AttemptsInv, CopyInv, QueuedIdle
<1> HIDE DEF t
<1> SUFFICES ASSUME NEW u \in Tasks
             PROVE  IF release[ProofOf[u]] = "released" THEN AttemptsLast(u)'
                                                         ELSE AttemptsCounted(u)'
  BY <1>1 DEF StartsCounted
<1>4. /\ attempts \in [Tasks -> Nat] /\ retryCounts[u] \in Nat /\ MaxRetries \in Nat
      /\ handler \in [Tasks -> {"idle", "done"} \cup Active \cup Retrying]
  BY CapacityAssumption DEF AttemptsInv, CopyInv, TypeOK
<1>5. IF release[ProofOf[u]] = "released" THEN AttemptsLast(u) ELSE AttemptsCounted(u)
  BY DEF AttemptsInv, StartsCounted
<1>6. CASE u # t
  BY <1>1, <1>4, <1>5, <1>6 DEF AttemptsLast, AttemptsCounted
<1>7. CASE u = t
  BY <1>1, <1>3, <1>4, <1>5, <1>7 DEF AttemptsLast, AttemptsCounted
<1> QED BY <1>6, <1>7

(* Counting a retry keeps it.                                              *)
LEMMA AttemptsCount ==
    ASSUME AttemptsInv, NEW t \in Tasks, RetryCount(t)
    PROVE  StartsCounted'
<1>1. /\ handler[t] = "count"
      /\ UNCHANGED <<attempts, release>>
      /\ \/ handler' = [handler EXCEPT ![t] = "update"] /\ UNCHANGED retryCounts
         \/ /\ handler' = [handler EXCEPT ![t] = "lookup"]
            /\ retryCounts' = [retryCounts EXCEPT ![t] = @ + 1]
  BY DEF RetryCount, HandlerStep, releaseVars
<1> SUFFICES ASSUME NEW u \in Tasks
             PROVE  IF release[ProofOf[u]] = "released" THEN AttemptsLast(u)'
                                                         ELSE AttemptsCounted(u)'
  BY <1>1 DEF StartsCounted
<1>2. /\ attempts[u] \in Nat /\ MaxRetries \in Nat
      /\ retryCounts \in [Tasks -> 0..MaxRetries] /\ retryCounts[u] \in Nat
      /\ handler \in [Tasks -> {"idle", "done"} \cup Active \cup Retrying]
  BY CapacityAssumption DEF AttemptsInv, CopyInv, TypeOK
<1>3. IF release[ProofOf[u]] = "released" THEN AttemptsLast(u) ELSE AttemptsCounted(u)
  BY DEF AttemptsInv, StartsCounted
<1>4. CASE u # t
  BY <1>1, <1>2, <1>3, <1>4 DEF AttemptsLast, AttemptsCounted
<1>5. CASE u = t
  BY <1>1, <1>2, <1>3, <1>5 DEF AttemptsLast, AttemptsCounted
<1> QED BY <1>4, <1>5

(* A release that does not end keeps it; the one that ends drops counts,   *)
(* which were within the budget.                                           *)
LEMMA AttemptsRelease ==
    ASSUME AttemptsInv, NEW p \in Proofs, Release(p)
    PROVE  StartsCounted'
<1>1. UNCHANGED <<attempts, handler>>
  BY DEF Release, ReleaseIndex, ReleaseDb, ReleaseChannels, Cleanup, userVars
<1> SUFFICES ASSUME NEW u \in Tasks
             PROVE  IF release'[ProofOf[u]] = "released" THEN AttemptsLast(u)'
                                                          ELSE AttemptsCounted(u)'
  BY <1>1 DEF StartsCounted
<1>2. /\ attempts[u] \in Nat /\ MaxRetries \in Nat
      /\ retryCounts \in [Tasks -> 0..MaxRetries] /\ retryCounts[u] \in 0..MaxRetries
      /\ ProofOf[u] \in Proofs
      /\ release \in [Proofs -> {"idle", "db", "channels", "cleanup", "released"}]
  BY CapacityAssumption, TasksAssumption DEF AttemptsInv, CopyInv, TypeOK
<1>3. IF release[ProofOf[u]] = "released" THEN AttemptsLast(u) ELSE AttemptsCounted(u)
  BY DEF AttemptsInv, StartsCounted
<1>4. CASE Cleanup(p)
  <2>1. /\ retryCounts' = [t \in Tasks |-> IF ProofOf[t] = p THEN 0 ELSE retryCounts[t]]
        /\ release[p] = "cleanup" /\ release' = [release EXCEPT ![p] = "released"]
    BY <1>4 DEF Cleanup, ReleaseStep
  <2>2. CASE ProofOf[u] = p
    BY <1>1, <1>2, <1>3, <2>1, <2>2 DEF AttemptsLast, AttemptsCounted
  <2>3. CASE ProofOf[u] # p
    BY <1>1, <1>2, <1>3, <2>1, <2>3 DEF AttemptsLast, AttemptsCounted
  <2> QED BY <2>2, <2>3
<1>5. CASE ReleaseIndex(p) \/ ReleaseDb(p) \/ ReleaseChannels(p)
  <2>1. /\ UNCHANGED retryCounts
        /\ release'[ProofOf[u]] = "released" <=> release[ProofOf[u]] = "released"
    BY <1>2, <1>5 DEF ReleaseIndex, ReleaseDb, ReleaseChannels, ReleaseStep
  <2> QED BY <1>1, <1>3, <2>1 DEF AttemptsLast, AttemptsCounted
<1> QED BY <1>4, <1>5 DEF Release

(* Every step keeps the counts.                                            *)
LEMMA AttemptsNext ==
    ASSUME ~MayDrop, AttemptsInv, [Next]_vars
    PROVE  StartsCounted'
<1> USE DEF clientVars, userVars, releaseVars, attemptVars
<1>0. StartsCounted
  BY DEF AttemptsInv
<1>1. CASE UNCHANGED vars
  BY <1>0, <1>1, AttemptsStutter DEF vars
<1>2. ASSUME NEW t \in Tasks,
             \/ SubmitTask(t) \/ Subscribe(t) \/ SubscriptionLookup(t) \/ SubscriptionAnswer(t)
             \/ SendTaskMessage(t) \/ SubscribeTaskMessages(t)
      PROVE  StartsCounted'
  <2>1. UNCHANGED attemptVars
    BY <1>2 DEF SubmitTask, SubmitRecord, SubmitSend, SubmitRecheck, Subscribe,
                SubscriptionLookup, SubscriptionAnswer, SendTaskMessage, SubscribeTaskMessages
  <2> QED BY <1>0, <2>1, AttemptsStutter
<1>3. ASSUME NEW t \in Tasks, TaskEnds(t) PROVE StartsCounted'
  <2>1. PICK to \in {"update", "retry"} : handler' = [handler EXCEPT ![t] = to]
    BY <1>3 DEF TaskEnds
  <2>2. UNCHANGED <<attempts, retryCounts, release>>
    BY <1>3 DEF TaskEnds
  <2> QED BY <2>1, <2>2, AttemptsHandler
<1>4. ASSUME NEW t \in Tasks, HandleTaskOutput(t) PROVE StartsCounted'
  <2>1. CASE UpdateLookup(t) \/ UpdatePost(t) \/ UpdateUnlink(t)
    <3>1. PICK to \in {"post", "unlink", "done"} : handler' = [handler EXCEPT ![t] = to]
      BY <2>1 DEF UpdateLookup, UpdatePost, UpdateUnlink, HandlerStep
    <3>2. UNCHANGED <<attempts, retryCounts, release>>
      BY <2>1 DEF UpdateLookup, UpdatePost, UpdateUnlink
    <3> QED BY <3>1, <3>2, AttemptsHandler
  <2>2. CASE RetryCheck(t)
    <3>1. PICK to \in {"count", "done"} : handler' = [handler EXCEPT ![t] = to]
      BY <2>2 DEF RetryCheck, HandlerStep
    <3>2. UNCHANGED <<attempts, retryCounts, release>>
      BY <2>2 DEF RetryCheck
    <3> QED BY <3>1, <3>2, AttemptsHandler
  <2>3. CASE RetryCount(t)
    BY <2>3, AttemptsCount
  <2>4. CASE RetryLookup(t)
    <3>1. UNCHANGED <<attempts, retryCounts, release>> /\ handler[t] = "lookup"
      BY <2>4 DEF RetryLookup, HandlerStep
    <3>2. CASE t \in db
      <4>1. release[ProofOf[t]] # "released"
        <5>1. CASE t \in proofIndex
          <6>1. ~Ended(t)
            BY <5>1 DEF AttemptsInv, ReleaseInv, EndedNotIndexed
          <6> QED BY <6>1, TasksAssumption DEF AttemptsInv, ReleaseInv, EndedWhenReleased, Ended
        <5>2. CASE t \notin proofIndex
          BY <3>2, <5>2 DEF AttemptsInv, ReleaseInv, DbIndexed
        <5> QED BY <5>1, <5>2
      <4> QED BY <2>4, <3>1, <3>2, <4>1, AttemptsHandler DEF RetryLookup, HandlerStep
    <3>3. CASE t \notin db
      <4>1. handler' = [handler EXCEPT ![t] = "done"]
        BY <2>4, <3>3 DEF RetryLookup, HandlerStep
      <4> QED BY <3>1, <4>1, AttemptsHandler
    <3> QED BY <3>2, <3>3
  <2>5. CASE RetrySend(t)
    <3>1. /\ handler[t] = "requeue" /\ handler' = [handler EXCEPT ![t] = "idle"]
          /\ UNCHANGED <<attempts, retryCounts, release>>
      BY <2>5 DEF RetrySend, HandlerStep
    <3> QED BY <3>1, AttemptsHandler
  <2> QED BY <1>4, <2>1, <2>2, <2>3, <2>4, <2>5 DEF HandleTaskOutput
<1>5. ASSUME NEW p \in Proofs, DropRequest(p) PROVE FALSE
  BY <1>5 DEF DropRequest
<1> QED BY <1>1, <1>2, <1>3, <1>4, <1>5, AttemptsReceive, AttemptsRelease DEF Next, Idle

(* No task is started more than MAX_LOCAL_TASK_RETRIES + 1 times, although *)
(* cleanup forgets the retries of a proof whose tasks still run: provided  *)
(* that no caller drops a request while it is being released.              *)
THEOREM AttemptsCorrect ==
    ASSUME ~MayDrop
    PROVE  Spec => []AttemptsBounded
<1>1. Init => ReleaseInv
  BY CapacityAssumption DEF Init, ReleaseInv, TypeOK, EndedWhenReleased, EndedNotIndexed,
                            DbIndexed, ArtifactsIndexed
<1>2. ReleaseInv /\ TypeOK' /\ [Next]_vars => ReleaseInv'
  BY ReleaseNext
<1>3. Init => StartsCounted
  BY CapacityAssumption, TasksAssumption DEF Init, StartsCounted, AttemptsCounted
<1>4. CopyInv /\ ReleaseInv /\ StartsCounted /\ [Next]_vars => StartsCounted'
  BY AttemptsNext DEF AttemptsInv
<1>5. TypeOK /\ StartsCounted => AttemptsBounded
  <2> SUFFICES ASSUME TypeOK, StartsCounted, NEW t \in Tasks
               PROVE  attempts[t] <= MaxRetries + 1
    BY DEF AttemptsBounded
  <2>1. attempts[t] \in Nat /\ MaxRetries \in Nat /\ retryCounts[t] \in 0..MaxRetries
    BY CapacityAssumption DEF TypeOK
  <2> QED BY <2>1 DEF StartsCounted, AttemptsCounted, AttemptsLast
<1> QED BY <1>1, <1>2, <1>3, <1>4, <1>5, TypeCorrect, CopyAlways, PTL DEF Spec

-----------------------------------------------------------------------------
(* What comes back of the retry counts.  After cleanup only a task that    *)
(* had passed the check for the end of its proof counts itself; it has no  *)
(* db entry, so it is done next, and a task that is done stays so.         *)
LateCounts ==
    \A t \in Tasks : release[ProofOf[t]] = "released" => LateCount(t)

LateInv == CopyInv /\ ReleaseInv /\ LateCounts

lateVars == <<retryCounts, handler, release>>

LEMMA LateStutter ==
    ASSUME LateCounts, UNCHANGED lateVars
    PROVE  LateCounts'
BY DEF LateCounts, LateCount, lateVars

(* A step of the node with task t that leaves the counts alone keeps it,   *)
(* when t was neither looked up nor done, or becomes done.                 *)
LEMMA LateHandler ==
    ASSUME LateInv, NEW t \in Tasks, NEW to, handler' = [handler EXCEPT ![t] = to],
           UNCHANGED <<retryCounts, release>>,
           handler[t] \notin {"lookup", "done"} \/ to = "done"
                                              \/ release[ProofOf[t]] # "released"
    PROVE  LateCounts'
<1> SUFFICES ASSUME NEW u \in Tasks, release[ProofOf[u]] = "released", retryCounts[u] > 0
             PROVE  retryCounts[u] = 1 /\ handler'[u] \in {"lookup", "done"}
  BY DEF LateCounts, LateCount
<1>1. retryCounts[u] = 1 /\ handler[u] \in {"lookup", "done"}
  BY DEF LateInv, LateCounts, LateCount
<1>2. handler \in [Tasks -> {"idle", "done"} \cup Active \cup Retrying]
  BY DEF LateInv, CopyInv, TypeOK
<1> QED BY <1>1, <1>2

(* The handler's loop takes a task that is idle.                           *)
LEMMA LateReceive ==
    ASSUME LateInv, NEW k \in Kinds, HandlerReceive(k)
    PROVE  LateCounts'
<1> DEFINE t == Head(queue[k])
<1>1. /\ queue[k] \in Seq(Tasks) /\ queue[k] # <<>>
      /\ handler' = [handler EXCEPT ![t] = "running"]
      /\ UNCHANGED <<retryCounts, release>>
  BY DEF LateInv, CopyInv, TypeOK, HandlerReceive, releaseVars
<1>2. t \in Tasks /\ t = queue[k][1] /\ 1 \in 1..Len(queue[k])
  BY <1>1
<1>3. handler[t] = "idle"
  BY <1>2 DEF LateInv, CopyInv, QueuedIdle
<1> HIDE DEF t
<1> QED BY <1>1, <1>2, <1>3, LateHandler

(* A retry counts itself: it is not looked up yet, so its count was zero.  *)
LEMMA LateRetryCount ==
    ASSUME LateInv, NEW t \in Tasks, RetryCount(t)
    PROVE  LateCounts'
<1>1. /\ handler[t] = "count"
      /\ UNCHANGED release
      /\ \/ handler' = [handler EXCEPT ![t] = "update"] /\ UNCHANGED retryCounts
         \/ /\ handler' = [handler EXCEPT ![t] = "lookup"]
            /\ retryCounts' = [retryCounts EXCEPT ![t] = @ + 1]
  BY DEF RetryCount, HandlerStep, releaseVars
<1>2. /\ retryCounts \in [Tasks -> 0..MaxRetries] /\ MaxRetries \in Nat
      /\ handler \in [Tasks -> {"idle", "done"} \cup Active \cup Retrying]
  BY CapacityAssumption DEF LateInv, CopyInv, TypeOK
<1> SUFFICES ASSUME NEW u \in Tasks, release[ProofOf[u]] = "released", retryCounts'[u] > 0
             PROVE  retryCounts'[u] = 1 /\ handler'[u] \in {"lookup", "done"}
  BY <1>1 DEF LateCounts, LateCount
<1>3. retryCounts[u] > 0 => retryCounts[u] = 1 /\ handler[u] \in {"lookup", "done"}
  BY DEF LateInv, LateCounts, LateCount
<1>4. CASE u # t
  BY <1>1, <1>2, <1>3, <1>4
<1>5. CASE u = t
  <2>1. retryCounts[t] = 0
    BY <1>1, <1>2, <1>3, <1>5
  <2> QED BY <1>1, <1>2, <1>5, <2>1
<1> QED BY <1>4, <1>5

(* cleanup drops the counts of its proof; no other step ends a release.    *)
LEMMA LateRelease ==
    ASSUME LateInv, NEW p \in Proofs, Release(p)
    PROVE  LateCounts'
<1>1. UNCHANGED handler
  BY DEF Release, ReleaseIndex, ReleaseDb, ReleaseChannels, Cleanup, userVars
<1>2. /\ release \in [Proofs -> {"idle", "db", "channels", "cleanup", "released"}]
      /\ \A t \in Tasks : ProofOf[t] \in Proofs
  BY TasksAssumption DEF LateInv, CopyInv, TypeOK
<1>3. CASE Cleanup(p)
  BY <1>1, <1>2, <1>3 DEF Cleanup, ReleaseStep, LateInv, LateCounts, LateCount
<1>4. CASE ReleaseIndex(p) \/ ReleaseDb(p) \/ ReleaseChannels(p)
  <2>1. UNCHANGED retryCounts
    BY <1>4 DEF ReleaseIndex, ReleaseDb, ReleaseChannels
  <2>2. \A t \in Tasks :
            release'[ProofOf[t]] = "released" <=> release[ProofOf[t]] = "released"
    BY <1>2, <1>4 DEF ReleaseIndex, ReleaseDb, ReleaseChannels, ReleaseStep
  <2> QED BY <1>1, <2>1, <2>2 DEF LateInv, LateCounts, LateCount
<1> QED BY <1>3, <1>4 DEF Release

LEMMA LateNext ==
    ASSUME ~MayDrop, LateInv, [Next]_vars
    PROVE  LateCounts'
<1> USE DEF clientVars, userVars, releaseVars, lateVars
<1>0. LateCounts
  BY DEF LateInv
<1>1. CASE UNCHANGED vars
  BY <1>0, <1>1, LateStutter DEF vars
<1>2. ASSUME NEW t \in Tasks,
             \/ SubmitTask(t) \/ Subscribe(t) \/ SubscriptionLookup(t) \/ SubscriptionAnswer(t)
             \/ SendTaskMessage(t) \/ SubscribeTaskMessages(t)
      PROVE  LateCounts'
  <2>1. UNCHANGED lateVars
    BY <1>2 DEF SubmitTask, SubmitRecord, SubmitSend, SubmitRecheck, Subscribe,
                SubscriptionLookup, SubscriptionAnswer, SendTaskMessage, SubscribeTaskMessages
  <2> QED BY <1>0, <2>1, LateStutter
<1>3. ASSUME NEW t \in Tasks, TaskEnds(t) PROVE LateCounts'
  <2>1. PICK to \in {"update", "retry"} : handler' = [handler EXCEPT ![t] = to]
    BY <1>3 DEF TaskEnds
  <2>2. UNCHANGED <<retryCounts, release>> /\ handler[t] = "running"
    BY <1>3 DEF TaskEnds
  <2> QED BY <2>1, <2>2, LateHandler
<1>4. ASSUME NEW t \in Tasks, HandleTaskOutput(t) PROVE LateCounts'
  <2>1. CASE UpdateLookup(t) \/ UpdatePost(t) \/ UpdateUnlink(t) \/ RetryCheck(t) \/ RetrySend(t)
    <3>1. PICK to \in {"post", "unlink", "done", "count", "idle"} :
              handler' = [handler EXCEPT ![t] = to]
      BY <2>1 DEF UpdateLookup, UpdatePost, UpdateUnlink, RetryCheck, RetrySend, HandlerStep
    <3>2. UNCHANGED <<retryCounts, release>> /\ handler[t] \notin {"lookup", "done"}
      BY <2>1 DEF UpdateLookup, UpdatePost, UpdateUnlink, RetryCheck, RetrySend, HandlerStep
    <3> QED BY <3>1, <3>2, LateHandler
  <2>2. CASE RetryCount(t)
    BY <2>2, LateRetryCount
  <2>3. CASE RetryLookup(t)
    <3>1. /\ handler' = [handler EXCEPT ![t] = IF t \in db THEN "requeue" ELSE "done"]
          /\ UNCHANGED <<retryCounts, release>>
      BY <2>3 DEF RetryLookup, HandlerStep
    <3>2. release[ProofOf[t]] = "released" => t \notin db
      BY NothingTracked DEF LateInv, Tracked
    <3> QED BY <3>1, <3>2, LateHandler
  <2> QED BY <1>4, <2>1, <2>2, <2>3 DEF HandleTaskOutput
<1>5. ASSUME NEW p \in Proofs, DropRequest(p) PROVE FALSE
  BY <1>5 DEF DropRequest
<1> QED BY <1>1, <1>2, <1>3, <1>4, <1>5, LateReceive, LateRelease DEF Next, Idle

(* Once the release of a proof has ended, no entry of its tasks is left in *)
(* proof_index, db or artifact_index and none comes back; a retry count    *)
(* that comes back is one, of a task that is not queued again: provided    *)
(* that no caller drops a request while it is being released.              *)
THEOREM ReleaseCorrect ==
    ASSUME ~MayDrop
    PROVE  Spec => []BookkeepingReleased
<1>1. Init => ReleaseInv
  BY CapacityAssumption DEF Init, ReleaseInv, TypeOK, EndedWhenReleased, EndedNotIndexed,
                            DbIndexed, ArtifactsIndexed
<1>2. ReleaseInv /\ TypeOK' /\ [Next]_vars => ReleaseInv'
  BY ReleaseNext
<1>3. Init => LateCounts
  BY TasksAssumption DEF Init, LateCounts, LateCount
<1>4. CopyInv /\ ReleaseInv /\ LateCounts /\ [Next]_vars => LateCounts'
  BY LateNext DEF LateInv
<1>5. ReleaseInv /\ LateCounts => BookkeepingReleased
  <2> SUFFICES ASSUME ReleaseInv, LateCounts, NEW p \in Proofs, release[p] = "released",
                      NEW t \in TasksOf(p)
               PROVE  t \notin Tracked /\ LateCount(t)
    BY DEF BookkeepingReleased
  <2>1. t \in Tasks /\ ProofOf[t] = p
    BY DEF TasksOf
  <2>2. t \notin Tracked
    BY <2>1, NothingTracked
  <2>3. LateCount(t)
    BY <2>1 DEF LateCounts
  <2> QED BY <2>2, <2>3
<1> QED BY <1>1, <1>2, <1>3, <1>4, <1>5, TypeCorrect, CopyAlways, PTL DEF Spec

=============================================================================
