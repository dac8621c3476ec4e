---------------------------- MODULE ShmTraceRing ----------------------------
(***************************************************************************)
(* The trace ring between the native executor, a child process, and the    *)
(* prover that consumes its trace chunks: ShmTraceRing                     *)
(* (crates/core/jit/src/shm.rs), the child's main loop                     *)
(* (crates/core/runner-binary/src/main.rs) and the parent's                *)
(* try_execute_chunk (crates/core/runner/src/native.rs).                   *)
(*                                                                         *)
(* The two processes share a header of atomic counters, the slots and two  *)
(* semaphores; each step below is one access to them.  The chunks that the *)
(* parent was given are dropped by other threads, in any order.  The child *)
(* may crash, with its signal handler reporting it, or be killed at any    *)
(* point (by the memory monitor, or the system's).                         *)
(*                                                                         *)
(* A chunk is its number; a slot holds the number of the chunk that was    *)
(* written to it, or Garbage while it is being overwritten.                *)
(*                                                                         *)
(* Definitions called Faulty... are not part of the model: each is a       *)
(* mistake one could make in the definition after it, to see that a        *)
(* property notices it.                                                    *)
(***************************************************************************)
EXTENDS Integers, FiniteSets

CONSTANTS
    Capacity,    \* capacity of the ring, in slots
    NumChunks,   \* how many chunks the program's execution has
    MayDie       \* whether the child may crash, be killed or be abandoned

ASSUME RingAssumption == Capacity \in Nat \ {0} /\ NumChunks \in Nat \ {0}
ASSUME ChildAssumption == MayDie \in BOOLEAN

Garbage == -1
Slots == 0..(Capacity - 1)
SlotOf(index) == index % Capacity

VARIABLES
    \* RingHeader.
    writeIdx,      \* write_idx
    readIdx,       \* read_idx
    reservedIdx,   \* reserved_idx
    finished,      \* finished: "running" (0), "finished" (1), "crashed" (2)
    \* The rest of the shared memory.
    slots,         \* the slots
    semEmpty,      \* sem_empty
    semFilled,     \* sem_filled
    \* The child.
    child,         \* where the child is; "none" before it is spawned
    \* The parent.
    consumer,      \* where try_execute_chunk is; "idle" between two calls
    output,        \* MinimalExecutorRunner::output: "none", "ok", "error";
                   \* "abandoned" after reset or drop
    held,          \* the indices of the ConsumerGuards that are alive
    completions,   \* pending_completions
    completing     \* whether a thread holds the lock of pending_completions

headerVars == <<writeIdx, readIdx, reservedIdx, finished>>
ringVars == <<headerVars, slots, semEmpty, semFilled>>
guardVars == <<held, completions, completing>>
vars == <<ringVars, child, consumer, output, guardVars>>

Tracing == {"acquire", "writing", "post", "finish", "finishPost"}
Alive == {"start", "output", "spilling", "crashing", "crashPost"} \cup Tracing
Exited == {"exited", "drained"}
Dead == Exited \cup {"killed"}
Consuming == {"check", "wait", "claim", "compare", "empty", "timedOut", "timedOutEnd",
              "tryWait", "finished", "exited", "crashed"}

Init ==
    /\ writeIdx = 0
    /\ readIdx = 0
    /\ reservedIdx = 0
    /\ finished = "running"
    /\ slots = [s \in Slots |-> Garbage]
    /\ semEmpty = Capacity
    /\ semFilled = 0
    /\ child = "none"
    /\ consumer = "idle"
    /\ output = "none"
    /\ held = {}
    /\ completions = {}
    /\ completing = FALSE

-----------------------------------------------------------------------------
(* The child.                                                              *)

ChildStep(from, to) == child = from /\ child' = to

(* ShmTraceRing::open: whoever opens an existing ring takes the reserved   *)
(* chunks back ("crash recovery").                                         *)
Open ==
    /\ ChildStep("start", "acquire")
    /\ reservedIdx' = IF reservedIdx > readIdx THEN readIdx ELSE reservedIdx
    /\ UNCHANGED <<writeIdx, readIdx, finished, slots, semEmpty, semFilled, consumer, output,
                   guardVars>>

FaultyAcquireInterrupted ==
    /\ ChildStep("acquire", "writing")
    /\ semEmpty' = IF semEmpty > 0 THEN semEmpty - 1 ELSE semEmpty
    /\ slots' = [slots EXCEPT ![SlotOf(writeIdx)] = Garbage]
    /\ UNCHANGED <<headerVars, semFilled, consumer, output, guardVars>>

(* acquire waits for an empty slot; the pages of the slot are given up and *)
(* its header is cleared.  The result of sem_wait is not looked at: it is  *)
(* taken to return with a permit, as it does unless a signal handler runs  *)
(* and returns; the only one installed is the crash handler.               *)
Acquire ==
    /\ ChildStep("acquire", "writing")
    /\ semEmpty > 0
    /\ semEmpty' = semEmpty - 1
    /\ slots' = [slots EXCEPT ![SlotOf(writeIdx)] = Garbage]
    /\ UNCHANGED <<headerVars, semFilled, consumer, output, guardVars>>

(* The chunk is written and the ProducerGuard dropped: write_idx first,    *)
(* sem_filled in a step of its own.                                        *)
Commit ==
    /\ ChildStep("writing", "post")
    /\ slots' = [slots EXCEPT ![SlotOf(writeIdx)] = writeIdx]
    /\ writeIdx' = writeIdx + 1
    /\ UNCHANGED <<readIdx, reservedIdx, finished, semEmpty, semFilled, consumer, output,
                   guardVars>>

FaultyPostFilledPastLast ==
    /\ ChildStep("post", IF writeIdx <= NumChunks THEN "acquire" ELSE "finish")
    /\ semFilled' = semFilled + 1
    /\ UNCHANGED <<headerVars, slots, semEmpty, consumer, output, guardVars>>

PostFilled ==
    /\ ChildStep("post", IF writeIdx < NumChunks THEN "acquire" ELSE "finish")
    /\ semFilled' = semFilled + 1
    /\ UNCHANGED <<headerVars, slots, semEmpty, consumer, output, guardVars>>

MarkFinished ==
    /\ ChildStep("finish", "finishPost")
    /\ finished' = "finished"
    /\ UNCHANGED <<writeIdx, readIdx, reservedIdx, slots, semEmpty, semFilled, consumer, output,
                   guardVars>>

(* The output that the child then writes to stdout fits into the pipe, or  *)
(* it does not.                                                            *)
FinishedPost ==
    /\ child = "finishPost"
    /\ child' \in {"output", "spilling"}
    /\ semFilled' = semFilled + 1
    /\ UNCHANGED <<headerVars, slots, semEmpty, consumer, output, guardVars>>

(* The child writes an output that fits into the pipe, and exits.          *)
Exit ==
    /\ ChildStep("output", "exited")
    /\ UNCHANGED <<ringVars, consumer, output, guardVars>>

FaultyDrainUnread ==
    /\ ChildStep("spilling", "drained")
    /\ UNCHANGED <<ringVars, consumer, output, guardVars>>

(* An output larger than the pipe: the child exits once the parent reads.  *)
Drain ==
    /\ ChildStep("spilling", "drained")
    /\ consumer \in {"finished", "exited"}
    /\ UNCHANGED <<ringVars, consumer, output, guardVars>>

(* A fatal signal while the crash handler is attached: the handler calls   *)
(* notify_crash, and the signal then kills the child.                      *)
Crash ==
    /\ MayDie
    /\ child \in Tracing
    /\ child' = "crashing"
    /\ UNCHANGED <<ringVars, consumer, output, guardVars>>

NotifyCrash ==
    /\ ChildStep("crashing", "crashPost")
    /\ finished' = "crashed"
    /\ UNCHANGED <<writeIdx, readIdx, reservedIdx, slots, semEmpty, semFilled, consumer, output,
                   guardVars>>

CrashPost ==
    /\ ChildStep("crashPost", "killed")
    /\ semFilled' = semFilled + 1
    /\ UNCHANGED <<headerVars, slots, semEmpty, consumer, output, guardVars>>

Killed ==
    /\ MayDie
    /\ child \in Alive
    /\ child' = "killed"
    /\ UNCHANGED <<ringVars, consumer, output, guardVars>>

-----------------------------------------------------------------------------
(* The parent: try_execute_chunk, with ShmTraceRing::access in its loop.   *)

ConsumerStep(from, to) == consumer = from /\ consumer' = to

(* The first call spawns the child and sends it the program.  When that    *)
(* fails, the child has died.                                              *)
TryExecuteChunk ==
    /\ output = "none"
    /\ \/ /\ child # "none"
          /\ ConsumerStep("idle", "check")
          /\ UNCHANGED <<child, output>>
       \/ /\ child = "none"
          /\ ConsumerStep("idle", "check")
          /\ child' = "start"
          /\ UNCHANGED output
       \/ /\ child = "none"
          /\ MayDie
          /\ child' = "killed"
          /\ output' = "error"
          /\ ConsumerStep("idle", "idle")
    /\ UNCHANGED <<ringVars, guardVars>>

(* access: a crash is reported before anything else.                       *)
AccessCheck ==
    /\ ConsumerStep("check", IF finished = "crashed" THEN "crashed" ELSE "wait")
    /\ UNCHANGED <<ringVars, child, output, guardVars>>

AccessWake ==
    /\ ConsumerStep("wait", "claim")
    /\ semFilled > 0
    /\ semFilled' = semFilled - 1
    /\ UNCHANGED <<headerVars, slots, semEmpty, child, output, guardVars>>

AccessTimeout ==
    /\ ConsumerStep("wait", "timedOut")
    /\ semFilled = 0
    /\ UNCHANGED <<ringVars, child, output, guardVars>>

TimedOutCrash ==
    /\ ConsumerStep("timedOut", IF finished = "crashed" THEN "crashed" ELSE "timedOutEnd")
    /\ UNCHANGED <<ringVars, child, output, guardVars>>

FaultyTimedOutEndUnchecked ==
    /\ ConsumerStep("timedOutEnd",
           IF finished = "finished" THEN "finished" ELSE "tryWait")
    /\ UNCHANGED <<ringVars, child, output, guardVars>>

TimedOutEnd ==
    /\ ConsumerStep("timedOutEnd",
           IF finished = "finished" /\ writeIdx = reservedIdx THEN "finished" ELSE "tryWait")
    /\ UNCHANGED <<ringVars, child, output, guardVars>>

FaultyClaimCrashAlwaysPosts ==
    /\ ConsumerStep("claim", IF finished = "crashed" THEN "crashed" ELSE "compare")
    /\ semFilled' = semFilled + 1
    /\ UNCHANGED <<headerVars, slots, semEmpty, child, output, guardVars>>

(* claim_read_slot: a crash first; then the next chunk; and when there is  *)
(* none, the end.  The posts pass the token of the end on.                 *)
ClaimCrash ==
    /\ \/ /\ finished = "crashed"
          /\ ConsumerStep("claim", "crashed")
          /\ semFilled' = semFilled + 1
       \/ /\ finished # "crashed"
          /\ ConsumerStep("claim", "compare")
          /\ UNCHANGED semFilled
    /\ UNCHANGED <<headerVars, slots, semEmpty, child, output, guardVars>>

Claim ==
    /\ \/ /\ writeIdx = reservedIdx
          /\ ConsumerStep("compare", "empty")
          /\ UNCHANGED <<reservedIdx, held>>
       \/ /\ writeIdx # reservedIdx
          /\ ConsumerStep("compare", "idle")
          /\ reservedIdx' = reservedIdx + 1
          /\ held' = held \cup {reservedIdx}
    /\ UNCHANGED <<writeIdx, readIdx, finished, slots, semEmpty, semFilled, child, output,
                   completions, completing>>

ClaimEmpty ==
    /\ \/ /\ finished = "finished"
          /\ ConsumerStep("empty", "finished")
          /\ semFilled' = semFilled + 1
       \/ /\ finished # "finished"
          /\ ConsumerStep("empty", "tryWait")
          /\ UNCHANGED semFilled
    /\ UNCHANGED <<headerVars, slots, semEmpty, child, output, guardVars>>

(* After a timeout: a child that has exited is taken to have ended the     *)
(* program; one that was killed is an error; else access is tried again.   *)
TryWait ==
    /\ \/ /\ child \in Exited
          /\ ConsumerStep("tryWait", "exited")
          /\ UNCHANGED output
       \/ /\ child = "killed"
          /\ ConsumerStep("tryWait", "idle")
          /\ output' = "error"
       \/ /\ child \notin Dead
          /\ ConsumerStep("tryWait", "check")
          /\ UNCHANGED output
    /\ UNCHANGED <<ringVars, child, guardVars>>

(* wait_for_success reads the output and waits for the child.              *)
WaitForSuccess ==
    /\ child \in Dead
    /\ consumer \in {"finished", "exited"}
    /\ consumer' = "idle"
    /\ output' = IF child \in Exited THEN "ok" ELSE "error"
    /\ UNCHANGED <<ringVars, child, guardVars>>

(* After a crash the child's log is read to its end, that is until it died. *)
ReportCrash ==
    /\ child \in Dead
    /\ ConsumerStep("crashed", "idle")
    /\ output' = "error"
    /\ UNCHANGED <<ringVars, child, guardVars>>

(* reset, or drop of the runner.  (reset goes on with a ring of its own.)  *)
Abandon ==
    /\ MayDie
    /\ consumer = "idle"
    /\ output = "none"
    /\ output' = "abandoned"
    /\ child' = IF child \in Alive THEN "killed" ELSE child
    /\ UNCHANGED <<ringVars, consumer, guardVars>>

-----------------------------------------------------------------------------
(* InnerRing::complete_read, when a ConsumerGuard is dropped: slots are    *)
(* released in the order of their indices, under the lock.                 *)

CompletePush(i) ==
    /\ i \in held
    /\ ~completing
    /\ completing' = TRUE
    /\ held' = held \ {i}
    /\ completions' = completions \cup {i}
    /\ UNCHANGED <<ringVars, child, consumer, output>>

FaultyFirstGreatest(i) == i \in completions /\ \A j \in completions : i >= j
First(i) == i \in completions /\ \A j \in completions : i <= j

FaultyCompleteReleaseAny(i) ==
    /\ completing
    /\ First(i)
    /\ completions' = completions \ {i}
    /\ readIdx' = readIdx + 1
    /\ semEmpty' = semEmpty + 1
    /\ UNCHANGED <<writeIdx, reservedIdx, finished, slots, semFilled, child, consumer, output,
                   held, completing>>

CompleteRelease(i) ==
    /\ completing
    /\ First(i)
    /\ i = readIdx
    /\ completions' = completions \ {i}
    /\ readIdx' = readIdx + 1
    /\ semEmpty' = semEmpty + 1
    /\ UNCHANGED <<writeIdx, reservedIdx, finished, slots, semFilled, child, consumer, output,
                   held, completing>>

CompleteEnd ==
    /\ completing
    /\ \A i \in completions : First(i) => i # readIdx
    /\ completing' = FALSE
    /\ UNCHANGED <<ringVars, child, consumer, output, held, completions>>

-----------------------------------------------------------------------------
Produce ==
    \/ Open \/ Acquire \/ Commit \/ PostFilled \/ MarkFinished \/ FinishedPost \/ Exit
    \/ Drain \/ NotifyCrash \/ CrashPost
Access ==
    \/ AccessCheck \/ AccessWake \/ AccessTimeout \/ TimedOutCrash \/ TimedOutEnd
    \/ ClaimCrash \/ Claim \/ ClaimEmpty
Consume == TryExecuteChunk \/ Access \/ TryWait \/ WaitForSuccess \/ ReportCrash
CompleteRead(i) == CompletePush(i) \/ CompleteRelease(i)
Complete == (\E i \in held \cup completions : CompleteRead(i)) \/ CompleteEnd

(* The run is over for the parent and its chunks have been dropped.        *)
Over == output # "none" /\ held = {} /\ ~completing /\ UNCHANGED vars

Next ==
    \/ Produce \/ Crash \/ Killed
    \/ Consume \/ Abandon
    \/ Complete
    \/ Over

(* Both processes run, the parent asks for chunks until the end, and every *)
(* chunk is dropped some time.                                             *)
Fairness == WF_vars(Produce) /\ WF_vars(Consume) /\ WF_vars(Complete)

Spec == Init /\ [][Next]_vars
FairSpec == Spec /\ Fairness

-----------------------------------------------------------------------------
(* Properties.                                                             *)

(* The variables have their types; no semaphore is waited for below zero.  *)
TypeOK ==
    /\ writeIdx \in 0..NumChunks
    /\ readIdx \in 0..NumChunks
    /\ reservedIdx \in 0..NumChunks
    /\ finished \in {"running", "finished", "crashed"}
    /\ slots \in [Slots -> Nat \cup {Garbage}]
    /\ semEmpty \in 0..Capacity
    /\ semFilled \in Nat
    /\ child \in {"none"} \cup Alive \cup Dead
    /\ consumer \in {"idle"} \cup Consuming
    /\ output \in {"none", "ok", "error", "abandoned"}
    /\ held \subseteq 0..(NumChunks - 1)
    /\ completions \subseteq 0..(NumChunks - 1)
    /\ completing \in BOOLEAN

(* A chunk that the parent holds is not overwritten, in whatever order     *)
(* chunks are dropped: its slot keeps its data until its guard is dropped. *)
HeldIntact == \A i \in held : slots[SlotOf(i)] = i

(* Every slot is empty, being written, waiting to be read, or read and not *)
(* yet released: while the child lives no permit is lost, and none is ever *)
(* made up.                                                                *)
Permits ==
    semEmpty + (writeIdx - readIdx) + (IF child = "writing" THEN 1 ELSE 0)

PermitsAccounted ==
    /\ Permits <= Capacity
    /\ child \notin {"killed", "crashing", "crashPost"} => Permits = Capacity

(* The parent is told that the program has finished only when it was given *)
(* every chunk of it.                                                      *)
FinishedIsComplete ==
    consumer = "finished" => reservedIdx = writeIdx /\ writeIdx = NumChunks

(* A wake-up is never spurious: whoever took a token of sem_filled finds a *)
(* chunk, or the end.                                                      *)
WakeFindsWork ==
    consumer = "empty" => finished # "running"

(* The parent reports success only when it was given every chunk.          *)
TraceComplete == output = "ok" => reservedIdx = NumChunks

(* A child that cannot exit before its output is read loses no chunk: the  *)
(* parent reports its success only after it was given the whole trace.     *)
SpilledTraceComplete == child = "drained" => TraceComplete

(* The parent is always told how the program ended, whatever happens to    *)
(* the child: neither process waits for the other for ever.                *)
EndReported == <>(output # "none")

=============================================================================
