------------------------- MODULE ShmTraceRingProofs -------------------------
(***************************************************************************)
(* Proofs about ShmTraceRing, for every capacity, number of chunks and     *)
(* failure of the child.                                                   *)
(*                                                                         *)
(* The counters come first (CountInv): the indices are ordered, the chunks *)
(* between read_idx and reserved_idx are the ones held or waiting to be    *)
(* released, permits are never made up, and while the child runs there are *)
(* no more tokens of sem_filled than chunks to claim.  The contents of the *)
(* slots follow (Stored), because two chunks that are in the ring at the   *)
(* same time are less than a capacity apart.                               *)
(***************************************************************************)
EXTENDS ShmTraceRing, TLAPS

-----------------------------------------------------------------------------
(* The parts of the inductive invariant.                                   *)

(* The chunks the parent has taken are the ones after read_idx: held, or   *)
(* dropped out of order.                                                   *)
Ordered ==
    /\ readIdx <= reservedIdx
    /\ reservedIdx <= writeIdx
    /\ held \cup completions = readIdx..(reservedIdx - 1)
    /\ held \cap completions = {}

(* Where the child is tells how much of the program it has traced.         *)
ChildInv ==
    /\ child \in {"none", "start"} => writeIdx = 0
    /\ child \in {"acquire", "writing"} => writeIdx < NumChunks
    /\ child \in {"finish", "finishPost", "output", "spilling", "exited", "drained"} => writeIdx = NumChunks
    /\ finished # "running" =>
           child \notin {"none", "start", "acquire", "writing", "post", "finish"}
    /\ child \in {"finishPost", "output", "spilling", "crashPost"} => finished # "running"
    /\ finished = "finished" => writeIdx = NumChunks

(* While the child runs, every token of sem_filled stands for a chunk that *)
(* is written and not yet claimed.                                         *)
TokensInv ==
    finished = "running" =>
        semFilled + (IF consumer \in {"claim", "compare"} THEN 1 ELSE 0)
                  + (IF child = "post" THEN 1 ELSE 0) <= writeIdx - reservedIdx

ConsumerInv ==
    /\ consumer = "empty" => finished # "running" /\ writeIdx = reservedIdx
    /\ FinishedIsComplete

CountInv ==
    /\ TypeOK
    /\ Ordered
    /\ PermitsAccounted
    /\ ChildInv
    /\ TokensInv
    /\ ConsumerInv

(* Every chunk that was written and not released is in its slot.           *)
Stored == \A i \in readIdx..(writeIdx - 1) : slots[SlotOf(i)] = i

RingInv == CountInv /\ Stored

(* With an output that does not fit into the pipe, the child exits only    *)
(* while the parent reads it.                                              *)
ExitInv ==
    /\ output # "none" => consumer = "idle"
    /\ child \in Alive => consumer # "exited"
    /\ child = "drained" => consumer = "finished" \/ output # "none"
    /\ SpilledTraceComplete

-----------------------------------------------------------------------------
(* Initially nothing is in the ring.                                       *)
LEMMA CountInit == Init => CountInv
<1> SUFFICES ASSUME Init PROVE CountInv
  OBVIOUS
<1> USE RingAssumption DEF Init
<1>1. TypeOK
  <2>1. slots \in [Slots -> Nat \cup {Garbage}]
    OBVIOUS
  <2>2. /\ writeIdx \in 0..NumChunks
        /\ readIdx \in 0..NumChunks
        /\ reservedIdx \in 0..NumChunks
        /\ semEmpty \in 0..Capacity
        /\ semFilled \in Nat
    OBVIOUS
  <2> QED
    BY <2>1, <2>2 DEF TypeOK, Alive, Exited, Dead, Tracing, Consuming
<1>2. Ordered
  <2>1. readIdx..(reservedIdx - 1) = {}
    OBVIOUS
  <2> QED
    BY <2>1 DEF Ordered
<1>3. PermitsAccounted /\ ChildInv /\ TokensInv /\ ConsumerInv
  BY DEF PermitsAccounted, Permits, ChildInv, TokensInv, ConsumerInv, FinishedIsComplete
<1> QED
  BY <1>1, <1>2, <1>3 DEF CountInv

(* The release of the lock of pending_completions keeps the types.         *)
LEMMA CompleteEndType ==
    ASSUME TypeOK, CompleteEnd
    PROVE  TypeOK'
<1>1. completing' = FALSE
  BY DEF CompleteEnd
<1>2. UNCHANGED <<writeIdx, readIdx, reservedIdx, finished, slots, semEmpty, semFilled,
                  child, consumer, output, held, completions>>
  BY DEF CompleteEnd, ringVars, headerVars
<1> QED
  BY <1>1, <1>2 DEF TypeOK

(* Every step keeps the counters in order.                                 *)
LEMMA CountStep == CountInv /\ [Next]_vars => CountInv'
<1> SUFFICES ASSUME CountInv, [Next]_vars
             PROVE  CountInv'
  OBVIOUS
<1> USE RingAssumption, ChildAssumption
    DEF CountInv, TypeOK, Ordered, PermitsAccounted, Permits, ChildInv, TokensInv,
        ConsumerInv, FinishedIsComplete, Alive, Exited, Dead, Tracing, Consuming, ringVars,
        headerVars, guardVars
<1>1. CASE Open
  BY <1>1 DEF Open, ChildStep
<1>2. CASE Acquire
  BY <1>2 DEF Acquire, ChildStep, Slots, SlotOf, Garbage
<1>3. CASE Commit
  BY <1>3 DEF Commit, ChildStep, Slots, SlotOf, Garbage
<1>4. CASE PostFilled
  BY <1>4 DEF PostFilled, ChildStep
<1>5. CASE MarkFinished
  BY <1>5 DEF MarkFinished, ChildStep
<1>6. CASE FinishedPost
  BY <1>6 DEF FinishedPost, ChildStep
<1>7. CASE Exit \/ Drain
  BY <1>7 DEF Exit, Drain, ChildStep
<1>8. CASE NotifyCrash
  BY <1>8 DEF NotifyCrash, ChildStep
<1>9. CASE CrashPost
  BY <1>9 DEF CrashPost, ChildStep
<1>10. CASE Crash
  BY <1>10 DEF Crash
<1>11. CASE Killed
  BY <1>11 DEF Killed
<1>12. CASE TryExecuteChunk
  BY <1>12 DEF TryExecuteChunk, ConsumerStep
<1>13. CASE AccessCheck
  BY <1>13 DEF AccessCheck, ConsumerStep
<1>14. CASE AccessWake
  BY <1>14 DEF AccessWake, ConsumerStep
<1>15. CASE AccessTimeout
  BY <1>15 DEF AccessTimeout, ConsumerStep
<1>16. CASE TimedOutCrash
  BY <1>16 DEF TimedOutCrash, ConsumerStep
<1>17. CASE TimedOutEnd
  BY <1>17 DEF TimedOutEnd, ConsumerStep
<1>18. CASE ClaimCrash
  BY <1>18 DEF ClaimCrash, ConsumerStep
<1>19. CASE Claim
  BY <1>19 DEF Claim, ConsumerStep
<1>20. CASE ClaimEmpty
  BY <1>20 DEF ClaimEmpty, ConsumerStep
<1>21. CASE TryWait
  BY <1>21 DEF TryWait, ConsumerStep
<1>22. CASE WaitForSuccess
  BY <1>22 DEF WaitForSuccess
<1>23. CASE ReportCrash
  BY <1>23 DEF ReportCrash, ConsumerStep
<1>24. CASE Abandon
  BY <1>24 DEF Abandon
<1>25. ASSUME NEW i \in held \cup completions, CompletePush(i)
      PROVE  CountInv'
  BY <1>25 DEF CompletePush
<1>26. ASSUME NEW i \in held \cup completions, CompleteRelease(i)
      PROVE  CountInv'
  <2>1. i = readIdx /\ i \in completions /\ i \notin held
    BY <1>26 DEF CompleteRelease, First
  <2>2. i < reservedIdx
    BY <2>1
  <2>3. held' \cup completions' = readIdx'..(reservedIdx' - 1)
    BY <1>26, <2>1, <2>2 DEF CompleteRelease
  <2>4. Ordered'
    BY <1>26, <2>2, <2>3 DEF CompleteRelease
  <2>5. PermitsAccounted' /\ ChildInv' /\ TokensInv' /\ ConsumerInv'
    BY <1>26, <2>2 DEF CompleteRelease
  <2>6. TypeOK'
    BY <1>26, <2>2, <2>5 DEF CompleteRelease
  <2> QED
    BY <2>4, <2>5, <2>6
<1>27. CASE CompleteEnd
  <2>1. completing' = FALSE /\ UNCHANGED <<ringVars, child, consumer, output, held, completions>>
    BY <1>27 DEF CompleteEnd
  <2>2. TypeOK'
    BY <1>27, CompleteEndType
  <2>3. Ordered' /\ PermitsAccounted' /\ ChildInv' /\ TokensInv' /\ ConsumerInv'
    BY <2>1
  <2> QED
    BY <2>2, <2>3
<1>28. CASE Over
  BY <1>28 DEF Over, vars
<1>29. CASE UNCHANGED vars
  BY <1>29 DEF vars
<1> QED
  BY <1>1, <1>2, <1>3, <1>4, <1>5, <1>6, <1>7, <1>8, <1>9, <1>10,
     <1>11, <1>12, <1>13, <1>14, <1>15, <1>16, <1>17, <1>18, <1>19, <1>20,
     <1>21, <1>22, <1>23, <1>24, <1>25, <1>26, <1>27, <1>28, <1>29
  DEF Next, Produce, Consume, Access, Complete, CompleteRead

-----------------------------------------------------------------------------
(* Chunks that are less than a capacity apart have different slots.        *)
LEMMA SlotsApart ==
    ASSUME NEW i \in Nat, NEW j \in Nat, i < j, j - i < Capacity
    PROVE  SlotOf(i) # SlotOf(j)
<1> DEFINE C == Capacity
<1> SUFFICES ASSUME i % C = j % C
             PROVE  FALSE
  BY DEF SlotOf
<1>1. C \in Nat \ {0}
  BY RingAssumption
<1> HIDE DEF C
<1>2. i = C * (i \div C) + (i % C) /\ i \div C \in Int
  BY <1>1
<1>3. j = C * (j \div C) + (j % C) /\ j \div C \in Int
  BY <1>1
<1> DEFINE k == (j \div C) - (i \div C)
<1>4. k \in Int /\ j - i = C * k
  BY <1>1, <1>2, <1>3
<1> HIDE DEF k
<1>5. CASE k <= 0
  <2>1. C * k <= 0
    BY <1>1, <1>4, <1>5
  <2> QED
    BY <1>4, <2>1
<1>6. CASE k >= 1
  <2>1. C * k >= C
    BY <1>1, <1>4, <1>6
  <2> QED
    BY <1>1, <1>4, <2>1 DEF C
<1> QED
  BY <1>4, <1>5, <1>6

(* Writing a chunk overwrites no chunk that is still in the ring.          *)
LEMMA WriteApart ==
    ASSUME CountInv, NEW v \in Nat \cup {Garbage},
           child \in {"acquire", "writing"}, child = "acquire" => semEmpty > 0,
           slots' = [slots EXCEPT ![SlotOf(writeIdx)] = v]
    PROVE  /\ \A i \in readIdx..(writeIdx - 1) : slots'[SlotOf(i)] = slots[SlotOf(i)]
           /\ slots'[SlotOf(writeIdx)] = v
<1>1. /\ readIdx \in Nat /\ writeIdx \in Nat /\ semEmpty \in Nat
      /\ slots \in [Slots -> Nat \cup {Garbage}]
  BY DEF CountInv, TypeOK
<1>2. writeIdx - readIdx < Capacity
  BY <1>1, RingAssumption DEF CountInv, PermitsAccounted, Permits
<1>3. SlotOf(writeIdx) \in Slots
  BY <1>1, RingAssumption DEF SlotOf, Slots
<1>4. ASSUME NEW i \in readIdx..(writeIdx - 1)
      PROVE  SlotOf(i) # SlotOf(writeIdx) /\ SlotOf(i) \in Slots
  <2>1. i \in Nat /\ i < writeIdx /\ writeIdx - i < Capacity
    BY <1>1, <1>2, RingAssumption
  <2>2. SlotOf(i) # SlotOf(writeIdx)
    BY <1>1, <2>1, SlotsApart
  <2>3. SlotOf(i) \in Slots
    BY <2>1, RingAssumption DEF SlotOf, Slots
  <2> QED
    BY <2>2, <2>3
<1> QED
  BY <1>1, <1>3, <1>4

(* Every step keeps the chunks of the ring in their slots.                 *)
LEMMA StoredStep == RingInv /\ [Next]_vars => Stored'
<1> SUFFICES ASSUME RingInv, [Next]_vars
             PROVE  Stored'
  OBVIOUS
<1>1. CountInv /\ Stored
  BY DEF RingInv
<1>2. readIdx \in Nat /\ writeIdx \in Nat
  BY <1>1 DEF CountInv, TypeOK
<1>3. CASE Acquire
  <2>1. \A i \in readIdx..(writeIdx - 1) : slots'[SlotOf(i)] = slots[SlotOf(i)]
    BY <1>1, <1>3, WriteApart DEF Acquire, ChildStep
  <2> QED
    BY <1>1, <1>3, <2>1 DEF Acquire, headerVars, Stored
<1>4. CASE Commit
  <2>1. /\ \A i \in readIdx..(writeIdx - 1) : slots'[SlotOf(i)] = slots[SlotOf(i)]
        /\ slots'[SlotOf(writeIdx)] = writeIdx
    BY <1>1, <1>2, <1>4, WriteApart DEF Commit, ChildStep
  <2>2. \A i \in readIdx..writeIdx : slots'[SlotOf(i)] = i
    BY <1>1, <1>2, <2>1 DEF Stored
  <2> QED
    BY <1>2, <1>4, <2>2 DEF Commit, Stored
<1>5. ASSUME NEW i \in held \cup completions, CompleteRelease(i)
      PROVE  Stored'
  BY <1>1, <1>2, <1>5 DEF CompleteRelease, Stored
<1>6. CASE UNCHANGED <<slots, readIdx, writeIdx>>
  BY <1>1, <1>6 DEF Stored
<1>7. \/ Acquire \/ Commit \/ \E i \in held \cup completions : CompleteRelease(i)
      \/ UNCHANGED <<slots, readIdx, writeIdx>>
  BY DEF Next, Produce, Consume, Access, Complete, CompleteRead, Open, PostFilled,
         MarkFinished, FinishedPost, Exit, Drain, Crash, NotifyCrash, CrashPost, Killed,
         TryExecuteChunk, AccessCheck, AccessWake, AccessTimeout, TimedOutCrash, TimedOutEnd,
         ClaimCrash, Claim, ClaimEmpty, TryWait, WaitForSuccess, ReportCrash, Abandon,
         CompletePush, CompleteEnd, Over, vars, ringVars, headerVars
<1> QED
  BY <1>3, <1>4, <1>5, <1>6, <1>7

(* RingInv is an invariant of the ring.                                    *)
LEMMA RingCorrect == Spec => []RingInv
<1>1. Init => RingInv
  <2> SUFFICES ASSUME Init PROVE Stored
    BY CountInit DEF RingInv
  <2>1. readIdx..(writeIdx - 1) = {}
    BY DEF Init
  <2> QED
    BY <2>1 DEF Stored
<1>2. RingInv /\ [Next]_vars => RingInv'
  BY CountStep, StoredStep DEF RingInv
<1> QED
  BY <1>1, <1>2, PTL DEF Spec

(* The indices of the ring stay within the program's chunks and its        *)
(* semaphores count what they should: type correctness of ShmTraceRing.    *)
THEOREM TypeCorrect == Spec => []TypeOK
<1>1. RingInv => TypeOK
  BY DEF RingInv, CountInv
<1> QED
  BY <1>1, RingCorrect, PTL

(* No chunk that the parent holds is overwritten, whatever the capacity    *)
(* and in whatever order chunks are dropped (complete_read, acquire).      *)
THEOREM HeldCorrect == Spec => []HeldIntact
<1>1. RingInv => HeldIntact
  <2> SUFFICES ASSUME RingInv, NEW i \in held
               PROVE  slots[SlotOf(i)] = i
    BY DEF HeldIntact
  <2>1. readIdx \in Nat /\ writeIdx \in Nat /\ reservedIdx \in Nat
    BY DEF RingInv, CountInv, TypeOK
  <2>2. i \in readIdx..(writeIdx - 1)
    BY <2>1 DEF RingInv, CountInv, Ordered
  <2> QED
    BY <2>2 DEF RingInv, Stored
<1> QED
  BY <1>1, RingCorrect, PTL

(* No permit of sem_empty is made up, and none is lost while the child     *)
(* lives.                                                                  *)
THEOREM PermitsCorrect == Spec => []PermitsAccounted
<1>1. RingInv => PermitsAccounted
  BY DEF RingInv, CountInv
<1> QED
  BY <1>1, RingCorrect, PTL

(* access returns Finished only after the last chunk, although it reads    *)
(* the flag and the indices in separate steps.                             *)
THEOREM FinishedCorrect == Spec => []FinishedIsComplete
<1>1. RingInv => FinishedIsComplete
  BY DEF RingInv, CountInv, ConsumerInv
<1> QED
  BY <1>1, RingCorrect, PTL

(* claim_read_slot never finds the ring empty while the child runs.        *)
THEOREM WakeCorrect == Spec => []WakeFindsWork
<1>1. RingInv => WakeFindsWork
  BY DEF RingInv, CountInv, ConsumerInv, WakeFindsWork
<1> QED
  BY <1>1, RingCorrect, PTL

-----------------------------------------------------------------------------
(* When the child cannot exit before its output is read, the parent        *)
(* reports success only after it was given the whole trace: the loss in    *)
(* the branch of try_execute_chunk that finds an exited child needs an     *)
(* output that fits into the pipe.                                         *)
THEOREM TraceCorrect == Spec => []SpilledTraceComplete
<1>1. Init => ExitInv
  BY DEF Init, ExitInv, SpilledTraceComplete
<1>2. RingInv /\ ExitInv /\ [Next]_vars => ExitInv'
  <2> SUFFICES ASSUME RingInv, ExitInv, [Next]_vars
               PROVE  ExitInv'
    OBVIOUS
  <2>1. FinishedIsComplete
    BY DEF RingInv, CountInv, ConsumerInv
  <2> USE DEF ExitInv, SpilledTraceComplete, TraceComplete, Alive, Exited, Dead, Tracing
  <2>2. CASE Open
    <3>1. reservedIdx' = reservedIdx
      BY <2>2 DEF RingInv, CountInv, TypeOK, Ordered, ChildInv, Open, ChildStep
    <3> QED
      BY <2>2, <3>1 DEF Open, ChildStep
  <2>3. CASE Exit \/ Drain
    BY <2>3 DEF Exit, Drain, ChildStep, ringVars, headerVars
  <2>4. CASE \/ Acquire \/ Commit \/ PostFilled \/ MarkFinished \/ FinishedPost
             \/ NotifyCrash \/ CrashPost \/ Crash \/ Killed
    BY <2>4 DEF Acquire, Commit, PostFilled, MarkFinished, FinishedPost, NotifyCrash,
                CrashPost, Crash, Killed, ChildStep, ringVars, headerVars
  <2>5. CASE TryExecuteChunk
    BY <2>5 DEF TryExecuteChunk, ConsumerStep, ringVars, headerVars
  <2>6. CASE \/ AccessCheck \/ AccessWake \/ AccessTimeout \/ TimedOutCrash \/ TimedOutEnd
             \/ ClaimCrash \/ Claim \/ ClaimEmpty
    BY <2>6 DEF AccessCheck, AccessWake, AccessTimeout, TimedOutCrash, TimedOutEnd,
                ClaimCrash, Claim, ClaimEmpty, ConsumerStep, ringVars, headerVars
  <2>7. CASE TryWait
    BY <2>7 DEF TryWait, ConsumerStep, Exited, Dead, ringVars, headerVars
  <2>8. CASE WaitForSuccess
    BY <2>1, <2>8 DEF WaitForSuccess, FinishedIsComplete, ringVars, headerVars
  <2>9. CASE ReportCrash
    BY <2>9 DEF ReportCrash, ConsumerStep, ringVars, headerVars
  <2>10. CASE Abandon
    BY <2>10 DEF Abandon, Alive, Tracing, ringVars, headerVars
  <2>11. CASE Complete \/ Over \/ UNCHANGED vars
    BY <2>11 DEF Complete, CompleteRead, CompletePush, CompleteRelease, CompleteEnd, Over,
                 vars, ringVars, headerVars
  <2> QED
    BY <2>2, <2>3, <2>4, <2>5, <2>6, <2>7, <2>8, <2>9, <2>10, <2>11
    DEF Next, Produce, Consume, Access
<1> QED
  BY <1>1, <1>2, RingCorrect, PTL DEF Spec, ExitInv

=============================================================================
