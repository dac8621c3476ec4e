------------------------ MODULE CoreExecutionProofs ------------------------
(***************************************************************************)
(* Five results about CoreExecution.                                       *)
(*                                                                         *)
(* A killed child alone never makes an execution fail for good.  The       *)
(* argument is about the executions in which nothing has gone wrong yet:   *)
(* no fault has happened and the child was not killed (Clean).  In them no *)
(* task can fail, which needs that the executor ends only after the last   *)
(* chunk was submitted, that the last splicer ends only after it set the   *)
(* final state, and that nobody is left without a partner before that.  So *)
(* the first failure is a fault, which is recorded, or follows the mark of *)
(* the kill.                                                               *)
(*                                                                         *)
(* The shards that are cut are those of one long chunk (ShardInv): a       *)
(* splicer starts where the one before it left its last shard open.        *)
(*                                                                         *)
(* An execution that returns Ok has sent everything (CompleteInv).         *)
(*                                                                         *)
(* The memory shards are a partition of the addresses and of the pages     *)
(* (MemoryInv), and the channels and buffers keep their bounds (Bounds).   *)
(***************************************************************************)
EXTENDS CoreExecution, FiniteSetTheorems, SequenceTheorems, TLAPS

(* Neither a fault nor a kill has happened.                                 *)
Clean == faults = {} /\ ~childKilled

(* The types the argument needs.                                           *)
Types ==
    /\ executor \in {"pulling", "stopping", "carry", "submit", "last", "ended", "failed"}
    /\ chunk \in 1..(NumChunks + 1)
    /\ childKilled \in BOOLEAN
    /\ thread \in [Chunks -> {"none", "waiting", "splicing", "extending", "ended", "failed"}]
    /\ splicer \in [Chunks -> {"none", "running", "ended", "failed"}]
    /\ start \in [Chunks -> Nat]
    /\ carry \in [Chunks -> {"none", "open", "closed"}]
    /\ finalState \in {-1, ProgramEnd}
    /\ collector \in {"running", "ended", "failed"}
    /\ result \in {"running", "ok", "retryable", "fatal"}

(* Where the executor is in the sequence of chunks.                        *)
Submitted ==
    /\ executor \in {"carry", "submit"} => chunk <= NumChunks
    /\ executor \in {"last", "ended"} => chunk = NumChunks + 1
    /\ \A i \in Chunks : i < chunk => splicer[i] # "none"

(* A shard is open inside its chunk until the program's end is recorded,   *)
(* and only the program's end ends the last splicer.                       *)
FinalStateSet ==
    /\ \A i \in Chunks : start[i] < ChunkEnds[i] \/ (i = NumChunks /\ finalState # -1)
    /\ thread[NumChunks] \in {"extending", "ended"} => finalState # -1
    /\ \A i \in Chunks : splicer[i] = "ended" => thread[i] = "ended"
    /\ carry[NumChunks] # "open"

(* Who has ended before whom.                                              *)
EndsInOrder ==
    /\ collector = "ended" => ExecutorGone
    /\ result = "ok" => executor = "ended" /\ collector = "ended"

(* No task of execute has failed.                                          *)
NothingFails ==
    /\ executor \notin {"stopping", "failed"}
    /\ \A i \in Chunks : thread[i] # "failed" /\ splicer[i] # "failed"
    /\ collector # "failed"
    /\ memory # "failed"
    /\ result \notin {"retryable", "fatal"}

(* The inductive invariant.                                                *)
KillInv ==
    /\ Types
    /\ Submitted
    /\ FinalStateSet
    /\ EndsInOrder
    /\ Clean => NothingFails
    /\ KillIsRetried

-----------------------------------------------------------------------------
(* What the assumptions say of the chunks and of the end of the program.   *)
LEMMA ChunksFacts ==
    /\ NumChunks \in Nat /\ NumChunks > 0
    /\ NumChunks \in Chunks
    /\ \A i \in Chunks : ChunkEnds[i] \in Nat /\ ChunkEnds[i] > 0
    /\ \A i \in Chunks : i > 1 => i - 1 \in Chunks /\ ChunkEnds[i - 1] < ChunkEnds[i]
    /\ \A i \in Chunks : i = NumChunks \/ ChunkEnds[i] < ProgramEnd
    /\ ProgramEnd \in Nat /\ ProgramEnd > 0
    /\ ProgramEnd = ChunkEnds[NumChunks]
    /\ ShardLength \in Nat /\ ShardLength > 0
<1>1. NumChunks \in Nat /\ NumChunks > 0
  BY ChunksAssumption DEF NumChunks
<1>2. \A i \in Chunks : ChunkEnds[i] \in Nat /\ ChunkEnds[i] > 0
  BY ChunksAssumption DEF NumChunks, Chunks
<1>3. \A i \in Chunks : i > 1 => i - 1 \in Chunks /\ ChunkEnds[i - 1] < ChunkEnds[i]
  BY <1>1, ChunksAssumption DEF Chunks
<1>4. NumChunks \in Chunks
  BY <1>1 DEF Chunks
<1>5. \A i \in Chunks : i = NumChunks \/ ChunkEnds[i] < ChunkEnds[NumChunks]
  BY <1>1, <1>4, ChunksAssumption DEF Chunks
<1> QED
  BY <1>1, <1>2, <1>3, <1>4, <1>5, SizesAssumption DEF ProgramEnd

(* The first shard starts in the first chunk, each other one in its own.   *)
LEMMA KillInit == Init => KillInv
<1> SUFFICES ASSUME Init PROVE KillInv
  OBVIOUS
<1> USE ChunksFacts
<1>0. \A i \in Chunks : start[i] \in Nat /\ start[i] < ChunkEnds[i]
  <2> SUFFICES ASSUME NEW i \in Chunks PROVE start[i] \in Nat /\ start[i] < ChunkEnds[i]
    OBVIOUS
  <2>1. CASE i = 1
    BY <2>1 DEF Init
  <2>2. CASE i # 1
    <3>1. i > 1
      BY <2>2 DEF Chunks
    <3> QED
      BY <2>2, <3>1 DEF Init
  <2> QED
    BY <2>1, <2>2
<1>1. Types
  <2>1. start \in [Chunks -> Nat]
    BY <1>0 DEF Init
  <2>2. chunk \in 1..(NumChunks + 1)
    BY DEF Init
  <2> QED
    BY <2>1, <2>2 DEF Init, Types
<1>2. Submitted
  BY DEF Init, Submitted, Chunks
<1>3. FinalStateSet
  BY <1>0 DEF Init, FinalStateSet
<1>4. EndsInOrder /\ (Clean => NothingFails) /\ KillIsRetried
  BY DEF Init, EndsInOrder, NothingFails, KillIsRetried
<1> QED
  BY <1>1, <1>2, <1>3, <1>4 DEF KillInv

(* Every step of the executor, the splicers, the collector, the memory     *)
(* handler and execute preserves KillInv.                                  *)
LEMMA KillStep == KillInv /\ [Next]_vars => KillInv'
<1> SUFFICES ASSUME KillInv, [Next]_vars PROVE KillInv'
  OBVIOUS
<1> USE ChunksFacts
<1> USE DEF KillInv, Types, Submitted, FinalStateSet, EndsInOrder, Clean, NothingFails,
            KillIsRetried, ExecutorGone
<1>1. CASE PullChunk
  BY <1>1 DEF PullChunk, splicerVars, memoryVars
<1>2. CASE ChildIsKilled
  BY <1>2 DEF ChildIsKilled, splicerVars, memoryVars
<1>3. CASE StopExecutor
  BY <1>3 DEF StopExecutor, splicerVars, memoryVars
<1>4. CASE ExecutionFails
  BY <1>4 DEF ExecutionFails, splicerVars, memoryVars
<1>5. CASE TakeCarry
  <2>1. chunk \in Chunks
    BY <1>5 DEF TakeCarry, Chunks
  <2>2. ASSUME chunk > 1
        PROVE  /\ chunk - 1 \in Chunks /\ chunk - 1 # NumChunks
               /\ start[chunk - 1] \in Nat /\ start[chunk - 1] < ChunkEnds[chunk]
    <3>1. chunk - 1 \in Chunks /\ chunk - 1 # NumChunks /\ ChunkEnds[chunk - 1] < ChunkEnds[chunk]
      BY <2>1, <2>2 DEF Chunks
    <3>2. start[chunk - 1] \in Nat /\ start[chunk - 1] < ChunkEnds[chunk - 1]
      BY <3>1
    <3> QED
      BY <2>1, <3>1, <3>2
  <2>3. /\ start' \in [Chunks -> Nat]
        /\ \A i \in Chunks : start'[i] < ChunkEnds[i] \/ (i = NumChunks /\ finalState # -1)
    BY <1>5, <2>1, <2>2 DEF TakeCarry
  <2>4. /\ executor' \in {"submit", "failed"}
        /\ Clean => executor' = "submit"
    BY <1>5, <2>2 DEF TakeCarry, CarryDropped
  <2> QED
    BY <1>5, <2>1, <2>3, <2>4 DEF TakeCarry, memoryVars
<1>6. CASE SubmitSplicer
  <2>1. chunk \in Chunks /\ executor = "submit"
    BY <1>6 DEF SubmitSplicer, Chunks
  <2>2. /\ thread' = [thread EXCEPT ![chunk] = "waiting"]
        /\ splicer' = [splicer EXCEPT ![chunk] = "running"]
        /\ UNCHANGED <<childKilled, faults, start, carry, finalState, collector, memory, result>>
    BY <1>6 DEF SubmitSplicer, memoryVars
  <2>3. CASE collector = "running" /\ result = "running"
    <3>1. executor' = "pulling" /\ chunk' = chunk + 1 /\ chunk' \in 1..(NumChunks + 1)
      BY <1>6, <2>1, <2>3 DEF SubmitSplicer, Chunks
    <3>2. \A i \in Chunks : i < chunk' => i < chunk \/ i = chunk
      BY <2>1, <3>1 DEF Chunks
    <3> QED BY <2>1, <2>2, <2>3, <3>1, <3>2
  <2>4. CASE ~(collector = "running" /\ result = "running")
    <3>1. executor' = "failed" /\ UNCHANGED chunk
      BY <1>6, <2>4 DEF SubmitSplicer
    <3> QED BY <2>1, <2>2, <2>4, <3>1
  <2> QED BY <2>3, <2>4
<1>7. CASE EndExecutor
  BY <1>7 DEF EndExecutor, CarryKnown, CarryDropped, splicerVars, memoryVars
<1>8. CASE \E i \in Chunks : Splicer(i)
  <2> PICK i \in Chunks : Splicer(i)
    BY <1>8
  <2> USE DEF executorVars, memoryVars
  <2>1. CASE CommonInput(i)
    <3>1. CASE UNCHANGED <<splicer, faults>> /\ thread' = [thread EXCEPT ![i] = "splicing"]
      BY <2>1, <3>1 DEF CommonInput
    <3>2. CASE /\ thread' = [thread EXCEPT ![i] = "failed"]
               /\ splicer' = [splicer EXCEPT ![i] = "failed"]
               /\ faults' = faults \cup {"input"}
      <4>1. faults' # {}
        BY <3>2
      <4> QED
        BY <2>1, <3>2, <4>1 DEF CommonInput
    <3> QED
      BY <2>1, <3>1, <3>2 DEF CommonInput
  <2>2. CASE SpliceShard(i)
    <3>1. Boundary(start[i]) \in Nat /\ Boundary(start[i]) < ChunkEnds[i]
      BY <2>2 DEF SpliceShard, Boundary
    <3>2. /\ start' \in [Chunks -> Nat]
          /\ \A j \in Chunks : start'[j] < ChunkEnds[j] \/ (j = NumChunks /\ finalState # -1)
      BY <2>2, <3>1 DEF SpliceShard, SendSplice, Shard
    <3>3. \/ UNCHANGED thread
          \/ splicer[i] = "failed" /\ thread' = [thread EXCEPT ![i] = "failed"]
      BY <2>2 DEF SpliceShard, SendSplice
    <3> QED
      BY <2>2, <3>2, <3>3 DEF SpliceShard
  <2>3. CASE EndOfChunk(i)
    BY <2>3 DEF EndOfChunk
  <2>4. CASE EndOfProgram(i)
    <3>1. /\ start' \in [Chunks -> Nat]
          /\ \A j \in Chunks : start'[j] < ChunkEnds[j] \/ (j = NumChunks /\ finalState' # -1)
      <4>1. finalState' # -1 /\ i = NumChunks
        BY <2>4 DEF EndOfProgram
      <4>2. start' \in [Chunks -> Nat] /\ \A j \in Chunks \ {i} : start'[j] = start[j]
        BY <2>4 DEF EndOfProgram, SendSplice, Shard
      <4> QED
        BY <4>1, <4>2
    <3>2. finalState' = ProgramEnd /\ finalState' # -1
      BY <2>4 DEF EndOfProgram
    <3>3. \/ UNCHANGED thread
          \/ splicer[i] = "failed" /\ thread' = [thread EXCEPT ![i] = "failed"]
      BY <2>4 DEF EndOfProgram, SendSplice
    <3> QED
      BY <2>4, <3>1, <3>2, <3>3 DEF EndOfProgram
  <2>5. CASE CarryNothing(i)
    BY <2>5 DEF CarryNothing
  <2>6. CASE ExtendTouched(i)
    <3>1. /\ thread[i] = "extending" /\ thread' = [thread EXCEPT ![i] = "ended"]
          /\ UNCHANGED <<executor, chunk, childKilled, faults, splicer, start, carry, finalState,
                         collector, memory, result>>
      BY <2>6 DEF ExtendTouched
    <3>2. /\ thread' \in [Chunks -> {"none", "waiting", "splicing", "extending", "ended", "failed"}]
          /\ \A j \in Chunks : thread'[j] = thread[j] \/ (j = i /\ thread'[j] = "ended")
      BY <3>1
    <3> QED BY <3>1, <3>2
  <2>7. CASE TakeSplice(i)
    BY <2>7 DEF TakeSplice
  <2>8. CASE \E shard \in AllShards : SendShard(i, shard)
    <3> PICK shard \in AllShards : SendShard(i, shard)
      BY <2>8
    <3>1. CASE UNCHANGED <<faults, splicer>>
      BY <3>1 DEF SendShard
    <3>2. CASE splicer' = [splicer EXCEPT ![i] = "failed"] /\ faults' = faults \cup {"send"}
      <4>1. faults' # {}
        BY <3>2
      <4> QED
        BY <3>2, <4>1 DEF SendShard
    <3> QED
      BY <3>1, <3>2 DEF SendShard
  <2>9. CASE JoinSplicer(i)
    BY <2>9 DEF JoinSplicer
  <2> QED
    BY <2>1, <2>2, <2>3, <2>4, <2>5, <2>6, <2>7, <2>8, <2>9 DEF Splicer
<1>9. CASE \E i \in Chunks : SpliceFails(i)
  BY <1>9 DEF SpliceFails, executorVars, memoryVars
<1>10. CASE Collect
  BY <1>10 DEF Collect, executorVars, splicerVars, memoryVars
<1> USE DEF executorVars, splicerVars, emissionVars
<1>11. CASE MergeTouched
  BY <1>11 DEF MergeTouched
<1>12. CASE ReceiveFinalState
  BY <1>12 DEF ReceiveFinalState
<1>13. CASE EmitAddress
  BY <1>13 DEF EmitAddress
<1>14. CASE EmitRest
  BY <1>14 DEF EmitRest
<1>15. CASE EmitPages
  BY <1>15 DEF EmitPages
<1>16. CASE SendMemoryShard
  <2>1. CASE UNCHANGED <<memory, faults>>
    BY <1>16, <2>1 DEF SendMemoryShard
  <2>2. CASE faults' = faults \cup {"send"}
    <3>1. faults' # {}
      BY <2>2
    <3> QED BY <1>16, <3>1 DEF SendMemoryShard
  <2> QED BY <1>16, <2>1, <2>2 DEF SendMemoryShard
<1>17. CASE EndMemory
  BY <1>17 DEF EndMemory
<1>18. CASE Return
  BY <1>18 DEF Return, memoryVars
<1>19. CASE UNCHANGED vars
  BY <1>19 DEF vars, memoryVars
<1> QED
  BY <1>1, <1>2, <1>3, <1>4, <1>5, <1>6, <1>7, <1>8, <1>9, <1>10, <1>11, <1>12, <1>13,
     <1>14, <1>15, <1>16, <1>17, <1>18, <1>19 DEF Next, Progress

(* Whatever the order in which the tasks of execute fail, an execution in  *)
(* which nothing but a kill of the child went wrong is never a fatal       *)
(* failure: child_killed is set before the executor drops its channels.    *)
THEOREM KillCorrect == Spec => []KillIsRetried
<1>1. KillInv => KillIsRetried
  BY DEF KillInv
<1> QED
  BY KillInit, KillStep, <1>1, PTL DEF Spec

-----------------------------------------------------------------------------
(* The shards are those of the program run as one chunk.                   *)
(*                                                                         *)
(* Chunks are cut one after the other: a chunk is resumed when the one     *)
(* before it has handed on its open shard, and cuts no more.  So there is  *)
(* one place where the program is being cut, and it moves forward, from a  *)
(* boundary of the program run as one chunk to the next.  A shard that was *)
(* cut waits in its splicer, has been sent, or was lost with a splicer     *)
(* that failed.                                                            *)

(* A chunk that knows where its first shard starts: its splicer was        *)
(* submitted, or is about to be.                                           *)
Resumed(i) == thread[i] # "none" \/ (executor = "submit" /\ i = chunk)

(* The shards that wait in a splicer to be sent.                           *)
Queued(i) == {queue[i][k] : k \in 1..Len(queue[i])}
Pending(i) == Queued(i) \cup sending[i]

(* The shards that have been cut.                                          *)
Cut(shard) == \E i \in Chunks : Resumed(i) /\ shard.start < start[i]

Aligned(s) == \E k \in Nat : s = k * ShardLength

ShardTypes ==
    /\ queue \in [Chunks -> Seq(AllShards)]
    /\ sending \in [Chunks -> SUBSET AllShards]
    /\ sent \in [AllShards -> Nat]

OneAfterAnother ==
    /\ \A i \in Chunks : splicer[i] = "none" <=> thread[i] = "none"
    /\ \A i \in Chunks : i < chunk => thread[i] # "none"
    /\ \A i \in Chunks : i > chunk => thread[i] = "none"
    /\ \A i \in Chunks : i = chunk /\ executor # "failed" => thread[i] = "none"
    /\ \A i \in Chunks : carry[i] # "none" => thread[i] \in {"extending", "ended"}
    /\ \A i \in Chunks : carry[i] = "closed" => i = NumChunks
    /\ \A i, j \in Chunks : i < j /\ Resumed(j) => carry[i] = "open" /\ start[i] <= start[j]
    /\ thread[1] = "none" => start[1] = 0

(* A shard starts at a boundary of the program run as one chunk, until the *)
(* last one was cut.                                                       *)
CutAligned == \A i \in Chunks : Resumed(i) => Aligned(start[i]) \/ start[i] = ProgramEnd

(* The shards of a splicer are shards of the program, not sent yet, that   *)
(* start before its next one and after those of the chunks before it.      *)
PendingOwn ==
    \A i \in Chunks : \A shard \in Pending(i) :
        /\ shard \in Reference
        /\ shard.start < start[i]
        /\ \A j \in Chunks : j < i => start[j] <= shard.start
        /\ sent[shard] = 0
        /\ thread[i] # "none"

PendingOnce ==
    \A i \in Chunks :
        /\ \A k, l \in 1..Len(queue[i]) : queue[i][k] = queue[i][l] => k = l
        /\ \A k \in 1..Len(queue[i]) : queue[i][k] \notin sending[i]

SentCut ==
    \A shard \in AllShards :
        sent[shard] > 0 => shard \in Reference /\ sent[shard] = 1 /\ Cut(shard)

(* Without a splicer that failed, no shard is lost.                        *)
NoneLost ==
    (\A i \in Chunks : splicer[i] # "failed") =>
        \A shard \in Reference :
            Cut(shard) => sent[shard] = 1 \/ \E i \in Chunks : shard \in Pending(i)

ShardInv ==
    /\ ShardTypes
    /\ OneAfterAnother
    /\ CutAligned
    /\ PendingOwn
    /\ PendingOnce
    /\ SentCut
    /\ NoneLost

(* What division and multiplication by a positive number do.               *)
LEMMA DivFacts ==
    ASSUME NEW a \in Nat, NEW b \in Nat, b > 0
    PROVE  a \div b \in Nat /\ (a \div b) * b <= a /\ a < (a \div b) * b + b
OBVIOUS

(* Chunks come one after the other, so their ends do.                      *)
LEMMA TimesMonotone ==
    ASSUME NEW a \in Nat, NEW b \in Nat, NEW c \in Nat, a < b
    PROVE  a * c + c <= b * c
OBVIOUS

(* The next chunk ends later.                                              *)
LEMMA TimesNext ==
    ASSUME NEW a \in Nat, NEW c \in Nat
    PROVE  a * c \in Nat /\ (a + 1) * c = a * c + c
OBVIOUS

(* The shards of the program run as one chunk: each starts at a boundary,  *)
(* and ends at the next one or at the end of the program.                  *)
LEMMA ReferenceFacts ==
    /\ LastIndex \in Nat
    /\ LastIndex * ShardLength < ProgramEnd
    /\ LastIndex * ShardLength + ShardLength >= ProgramEnd
    /\ Reference \subseteq AllShards
<1> USE ChunksFacts
<1>1. /\ LastIndex \in Nat
      /\ LastIndex * ShardLength <= ProgramEnd - 1
      /\ ProgramEnd - 1 < LastIndex * ShardLength + ShardLength
  BY DivFacts DEF LastIndex
<1>2. LastIndex * ShardLength \in Nat
  BY <1>1, TimesNext
<1>3. ASSUME NEW k \in 0..LastIndex
      PROVE  Shard(k * ShardLength, IF k = LastIndex THEN ProgramEnd ELSE (k + 1) * ShardLength)
                 \in AllShards
  <2>1. CASE k = LastIndex
    BY <1>1, <1>2, <2>1 DEF Shard, AllShards
  <2>2. CASE k # LastIndex
    <3>1. k \in Nat /\ k < LastIndex
      BY <1>1, <2>2
    <3>2. k * ShardLength + ShardLength <= LastIndex * ShardLength
      BY <1>1, <3>1, TimesMonotone
    <3>3. k * ShardLength \in Nat /\ (k + 1) * ShardLength = k * ShardLength + ShardLength
      BY <3>1, TimesNext
    <3>4. k * ShardLength \in 0..ProgramEnd /\ (k + 1) * ShardLength \in 0..ProgramEnd
      BY <1>1, <1>2, <3>2, <3>3
    <3>5. k * ShardLength < (k + 1) * ShardLength
      BY <3>3
    <3> QED BY <2>2, <3>4, <3>5 DEF Shard, AllShards
  <2> QED BY <2>1, <2>2
<1>4. Reference \subseteq AllShards
  BY <1>3 DEF Reference
<1> QED BY <1>1, <1>2, <1>4

(* A shard cut at a boundary, up to the next one or to the end of the      *)
(* program, is one of them, and the only one that starts there.            *)
LEMMA NextShard ==
    ASSUME NEW s \in Nat, Aligned(s), NEW e \in Nat,
           \/ e = s + ShardLength /\ e < ProgramEnd
           \/ e = ProgramEnd /\ s < ProgramEnd /\ s + ShardLength >= ProgramEnd
    PROVE  /\ Shard(s, e) \in Reference
           /\ s < e
           /\ Aligned(e) \/ e = ProgramEnd
           /\ \A r \in Reference : r.start < e => r.start < s \/ r = Shard(s, e)
<1> USE ChunksFacts
<1>1. PICK k \in Nat : s = k * ShardLength
  BY DEF Aligned
<1>2. (k + 1) * ShardLength = s + ShardLength
  BY <1>1, TimesNext
<1>3. LastIndex \in Nat /\ LastIndex * ShardLength \in Nat
  BY ReferenceFacts, TimesNext
<1>4. k <= LastIndex
  <2> SUFFICES ASSUME LastIndex < k PROVE FALSE
    BY <1>3
  <2>1. LastIndex * ShardLength + ShardLength <= k * ShardLength
    BY <1>3, TimesMonotone
  <2> QED BY <1>1, <1>3, <2>1, ReferenceFacts
<1>5. e = IF k = LastIndex THEN ProgramEnd ELSE (k + 1) * ShardLength
  <2>1. CASE k = LastIndex
    BY <1>1, <2>1, ReferenceFacts
  <2>2. CASE k # LastIndex
    <3>1. k < LastIndex
      BY <1>3, <1>4, <2>2
    <3>2. k * ShardLength + ShardLength <= LastIndex * ShardLength
      BY <1>3, <3>1, TimesMonotone
    <3> QED BY <1>1, <1>2, <1>3, <2>2, <3>2, ReferenceFacts
  <2> QED BY <2>1, <2>2
<1>6. Shard(s, e) \in Reference
  <2>1. k \in 0..LastIndex
    BY <1>3, <1>4
  <2> QED BY <1>1, <1>5, <2>1 DEF Reference
<1>7. Aligned(e) \/ e = ProgramEnd
  <2>1. k + 1 \in Nat
    OBVIOUS
  <2> QED BY <1>5, <2>1 DEF Aligned
<1>8. ASSUME NEW r \in Reference, r.start < e PROVE r.start < s \/ r = Shard(s, e)
  <2>1. PICK m \in 0..LastIndex :
            r = Shard(m * ShardLength, IF m = LastIndex THEN ProgramEnd ELSE (m + 1) * ShardLength)
    BY DEF Reference
  <2>2. m \in Nat /\ m * ShardLength \in Nat /\ r.start = m * ShardLength
    <3>1. m \in Nat
      BY <1>3
    <3>2. m * ShardLength \in Nat
      BY <3>1, TimesNext
    <3> QED BY <2>1, <3>1, <3>2 DEF Shard
  <2>3. CASE m = k
    BY <1>1, <1>5, <2>1, <2>3
  <2>4. CASE m < k
    <3>1. m * ShardLength + ShardLength <= k * ShardLength
      BY <2>2, <2>4, TimesMonotone
    <3> QED BY <1>1, <2>2, <3>1
  <2>5. CASE m > k
    <3>1. k * ShardLength + ShardLength <= m * ShardLength
      BY <2>2, <2>5, TimesMonotone
    <3>2. e = (k + 1) * ShardLength
      BY <1>3, <1>5, <2>5
    <3> QED BY <1>1, <1>2, <1>8, <2>2, <3>1, <3>2
  <2> QED BY <2>2, <2>3, <2>4, <2>5
<1>9. s < e
  OBVIOUS
<1> QED BY <1>6, <1>7, <1>8, <1>9

(* A step that resumes no chunk, cuts nothing and sends nothing, and takes *)
(* shards away only with a splicer that fails.                             *)
LEMMA ShardKept ==
    ASSUME ShardInv, ShardTypes', OneAfterAnother', PendingOnce',
           UNCHANGED <<start, sent>>,
           \A i \in Chunks : Resumed(i)' <=> Resumed(i),
           \A i \in Chunks : thread[i] # "none" => thread'[i] # "none",
           \A i \in Chunks : Pending(i)' \subseteq Pending(i),
           \/ \E i \in Chunks : splicer'[i] = "failed"
           \/ \A i \in Chunks : /\ Pending(i)' = Pending(i)
                                /\ splicer[i] = "failed" => splicer'[i] = "failed"
    PROVE  ShardInv'
<1>1. CutAligned'
  BY DEF ShardInv, CutAligned, Aligned
<1>2. PendingOwn'
  BY DEF ShardInv, PendingOwn
<1>3. \A shard : Cut(shard)' <=> Cut(shard)
  BY DEF Cut
<1>4. SentCut'
  BY <1>3 DEF ShardInv, SentCut
<1>5. NoneLost'
  BY <1>3 DEF ShardInv, NoneLost
<1> QED BY <1>1, <1>2, <1>4, <1>5 DEF ShardInv

(* A step of the executor or of a splicing thread that touches no shard.   *)
LEMMA ShardControl ==
    ASSUME ShardInv, OneAfterAnother', UNCHANGED <<start, sent, queue, sending>>,
           \A i \in Chunks : Resumed(i)' <=> Resumed(i),
           \A i \in Chunks : thread[i] # "none" => thread'[i] # "none",
           \/ \E i \in Chunks : splicer'[i] = "failed"
           \/ \A i \in Chunks : splicer[i] = "failed" => splicer'[i] = "failed"
    PROVE  ShardInv'
<1>1. ShardTypes' /\ PendingOnce'
  BY DEF ShardInv, ShardTypes, PendingOnce
<1>2. \A i \in Chunks : Pending(i)' = Pending(i)
  BY DEF Pending, Queued
<1> QED BY <1>1, <1>2, ShardKept

(* The executor moves on, but neither to nor from a submission.            *)
LEMMA ShardExecutor ==
    ASSUME ShardInv, executor # "submit", executor' # "submit", executor # "failed",
           UNCHANGED <<chunk, splicerVars>>
    PROVE  ShardInv'
<1> USE DEF splicerVars
<1>1. \A i \in Chunks : Resumed(i)' <=> Resumed(i)
  BY DEF Resumed
<1>2. OneAfterAnother'
  BY <1>1 DEF ShardInv, OneAfterAnother
<1> QED BY <1>1, <1>2, ShardControl

(* A splicing thread that has been started goes on, and cuts nothing.      *)
LEMMA ShardThread ==
    ASSUME KillInv, ShardInv, NEW i \in Chunks, NEW to, thread[i] # "none", to # "none",
           carry'[i] # "none" => to \in {"extending", "ended"},
           \/ UNCHANGED carry
           \/ carry[i] = "none" /\ carry' = [carry EXCEPT ![i] = "open"]
           \/ carry[i] = "none" /\ carry' = [carry EXCEPT ![i] = "closed"] /\ i = NumChunks,
           thread' = [thread EXCEPT ![i] = to],
           \/ UNCHANGED splicer \/ splicer' = [splicer EXCEPT ![i] = "failed"],
           UNCHANGED <<executor, chunk, start, sent, queue, sending>>
    PROVE  ShardInv'
<1> USE DEF KillInv, Types
<1>1. \A j \in Chunks : thread'[j] # "none" <=> thread[j] # "none"
  OBVIOUS
<1>2. \A j \in Chunks : Resumed(j)' <=> Resumed(j)
  BY <1>1 DEF Resumed
<1>3. OneAfterAnother'
  <2>1. /\ \A j \in Chunks : j < chunk => thread'[j] # "none"
        /\ \A j \in Chunks : j > chunk => thread'[j] = "none"
        /\ \A j \in Chunks : j = chunk /\ executor # "failed" => thread'[j] = "none"
    BY <1>1 DEF ShardInv, OneAfterAnother
  <2>2. \A j \in Chunks : carry'[j] # "none" => thread'[j] \in {"extending", "ended"}
    BY DEF ShardInv, OneAfterAnother
  <2>3. \A j \in Chunks : /\ carry[j] # "none" => carry'[j] = carry[j]
                          /\ carry'[j] = "closed" => j = NumChunks
    BY DEF ShardInv, OneAfterAnother
  <2>4. \A j, l \in Chunks : j < l /\ Resumed(l) => carry'[j] = "open" /\ start[j] <= start[l]
    BY <2>3 DEF ShardInv, OneAfterAnother
  <2>5. thread'[1] = "none" => start[1] = 0
    <3>1. 1 \in Chunks
      BY ChunksFacts DEF Chunks
    <3> QED BY <1>1, <3>1 DEF ShardInv, OneAfterAnother
  <2>6. \A j \in Chunks : splicer'[j] = "none" <=> thread'[j] = "none"
    BY <1>1 DEF ShardInv, OneAfterAnother
  <2> QED BY <1>2, <2>1, <2>2, <2>3, <2>4, <2>5, <2>6 DEF OneAfterAnother
<1> QED BY <1>1, <1>2, <1>3, ShardControl

(* The executor takes the carry of the chunk before: the next chunk starts *)
(* where that one stopped.                                                 *)
LEMMA ShardTakeCarry ==
    ASSUME KillInv, ShardInv, TakeCarry
    PROVE  ShardInv'
<1> USE DEF KillInv, Types
<1>1. /\ executor = "carry" /\ chunk \in Chunks
      /\ UNCHANGED <<chunk, thread, splicer, queue, sending, carry, sent>>
  BY ChunksFacts DEF TakeCarry, Submitted, Chunks
<1>2. CASE executor' = "failed" /\ UNCHANGED start
  BY <1>1, <1>2, ShardExecutor DEF splicerVars, TakeCarry
<1>3. CASE /\ executor' = "submit"
           /\ ~(chunk > 1 /\ CarryDropped(chunk - 1))
           /\ start' = IF chunk > 1 /\ carry[chunk - 1] = "open"
                       THEN [start EXCEPT ![chunk] = start[chunk - 1]]
                       ELSE start
  <2>1. thread[chunk] = "none" /\ ~Resumed(chunk)
    BY <1>1 DEF ShardInv, OneAfterAnother, Resumed
  <2>2. ASSUME chunk > 1
        PROVE  /\ chunk - 1 \in Chunks
               /\ carry[chunk - 1] = "open"
               /\ Resumed(chunk - 1)
    <3>1. chunk - 1 \in Chunks /\ chunk - 1 < chunk /\ chunk - 1 # NumChunks
      BY <1>1, <2>2, ChunksFacts DEF Chunks
    <3>2. carry[chunk - 1] # "none"
      BY <1>3, <2>2 DEF TakeCarry, CarryKnown
    <3>3. carry[chunk - 1] # "closed"
      BY <3>1 DEF ShardInv, OneAfterAnother
    <3>4. thread[chunk - 1] # "none"
      BY <3>1 DEF ShardInv, OneAfterAnother
    <3> QED BY <3>1, <3>2, <3>3, <3>4 DEF Resumed
  <2>3. /\ \A i \in Chunks : i # chunk => start'[i] = start[i]
        /\ chunk > 1 => start'[chunk] = start[chunk - 1]
        /\ chunk = 1 => start'[chunk] = 0
    <3>1. CASE chunk > 1
      BY <1>1, <1>3, <2>2, <3>1
    <3>2. CASE chunk = 1
      BY <1>1, <1>3, <2>1, <3>2 DEF ShardInv, OneAfterAnother
    <3> QED BY <1>1, <3>1, <3>2 DEF Chunks
  <2>4. \A i \in Chunks : Resumed(i)' <=> Resumed(i) \/ i = chunk
    BY <1>1, <1>3 DEF Resumed
  <2>5. \A i \in Chunks : i >= chunk => Pending(i) = {} /\ ~Resumed(i)
    <3> SUFFICES ASSUME NEW i \in Chunks, i >= chunk PROVE Pending(i) = {} /\ ~Resumed(i)
      OBVIOUS
    <3>1. thread[i] = "none"
      BY <1>1, <2>1 DEF ShardInv, OneAfterAnother, Chunks
    <3> QED BY <1>1, <3>1 DEF ShardInv, PendingOwn, Resumed
  <2>6. \A i \in Chunks : Pending(i)' = Pending(i)
    BY <1>1 DEF Pending, Queued
  <2>7. ShardTypes' /\ PendingOnce'
    BY <1>1 DEF ShardInv, ShardTypes, PendingOnce
  <2>8. OneAfterAnother'
    <3>1. ASSUME NEW i \in Chunks, NEW j \in Chunks, i < j, Resumed(j)'
          PROVE  carry[i] = "open" /\ start'[i] <= start'[j]
      <4>1. CASE j = chunk
        <5>1. chunk > 1
          BY <3>1, <4>1 DEF Chunks
        <5>2. i = chunk - 1 \/ i < chunk - 1
          BY <1>1, <3>1, <4>1 DEF Chunks
        <5>3. carry[i] = "open" /\ start[i] <= start[chunk - 1]
          BY <2>2, <5>1, <5>2 DEF ShardInv, OneAfterAnother
        <5> QED BY <2>3, <3>1, <4>1, <5>1, <5>3
      <4>2. CASE j # chunk
        <5>1. Resumed(j) /\ i # chunk /\ j < chunk
          BY <1>1, <2>4, <2>5, <3>1, <4>2 DEF Chunks
        <5> QED BY <2>3, <3>1, <4>2, <5>1 DEF ShardInv, OneAfterAnother
      <4> QED BY <4>1, <4>2
    <3>2. thread'[1] = "none" => start'[1] = 0
      <4>1. 1 \in Chunks
        BY ChunksFacts DEF Chunks
      <4>2. CASE chunk = 1
        BY <2>3, <4>2
      <4>3. CASE chunk # 1
        BY <1>1, <2>3, <4>1, <4>3 DEF ShardInv, OneAfterAnother
      <4> QED BY <4>2, <4>3
    <3> QED BY <1>1, <1>3, <3>1, <3>2 DEF ShardInv, OneAfterAnother
  <2>9. CutAligned'
    <3> SUFFICES ASSUME NEW i \in Chunks, Resumed(i)'
                 PROVE  Aligned(start'[i]) \/ start'[i] = ProgramEnd
      BY DEF CutAligned, Aligned
    <3>1. CASE i # chunk
      BY <2>3, <2>4, <3>1 DEF ShardInv, CutAligned
    <3>2. CASE i = chunk /\ chunk > 1
      BY <2>2, <2>3, <3>2 DEF ShardInv, CutAligned
    <3>3. CASE i = chunk /\ chunk = 1
      <4>1. 0 = 0 * ShardLength
        BY ChunksFacts
      <4> QED BY <2>3, <3>3, <4>1 DEF Aligned
    <3> QED BY <3>1, <3>2, <3>3 DEF Chunks
  <2>10. PendingOwn'
    <3> SUFFICES ASSUME NEW i \in Chunks, NEW shard \in Pending(i)
                 PROVE  /\ shard \in Reference
                        /\ shard.start < start'[i]
                        /\ \A j \in Chunks : j < i => start'[j] <= shard.start
                        /\ sent[shard] = 0
                        /\ thread[i] # "none"
      BY <1>1, <2>6 DEF PendingOwn
    <3>1. i < chunk
      BY <1>1, <2>5 DEF Chunks
    <3> QED BY <1>1, <2>3, <3>1 DEF ShardInv, PendingOwn, Chunks
  <2>11. \A shard \in AllShards : Cut(shard)' <=> Cut(shard)
    <3> SUFFICES ASSUME NEW shard \in AllShards PROVE Cut(shard)' <=> Cut(shard)
      OBVIOUS
    <3>1. shard.start \in Nat
      BY ChunksFacts DEF AllShards
    <3>2. ASSUME Cut(shard) PROVE Cut(shard)'
      BY <2>1, <2>3, <2>4, <3>2 DEF Cut
    <3>3. ASSUME Cut(shard)' PROVE Cut(shard)
      <4>1. PICK i \in Chunks : Resumed(i)' /\ shard.start < start'[i]
        BY <3>3 DEF Cut
      <4>2. CASE i # chunk
        BY <2>3, <2>4, <4>1, <4>2 DEF Cut
      <4>3. CASE i = chunk /\ chunk > 1
        BY <2>2, <2>3, <4>1, <4>3 DEF Cut
      <4>4. CASE i = chunk /\ chunk = 1
        BY <2>3, <3>1, <4>1, <4>4
      <4> QED BY <4>2, <4>3, <4>4 DEF Chunks
    <3> QED BY <3>2, <3>3
  <2>12. SentCut'
    BY <1>1, <2>11 DEF ShardInv, SentCut
  <2>13. NoneLost'
    BY <1>1, <2>6, <2>11, ReferenceFacts DEF ShardInv, NoneLost
  <2> QED BY <2>7, <2>8, <2>9, <2>10, <2>12, <2>13 DEF ShardInv
<1> QED BY <1>2, <1>3 DEF TakeCarry

(* A splicer cuts the next shard of the program and queues it.             *)
LEMMA ShardCut ==
    ASSUME KillInv, ShardInv, NEW i \in Chunks, thread[i] = "splicing", NEW e \in Nat,
           Aligned(start[i]),
           \/ e = start[i] + ShardLength /\ e < ProgramEnd
           \/ e = ProgramEnd /\ start[i] < ProgramEnd /\ start[i] + ShardLength >= ProgramEnd,
           queue' = [queue EXCEPT ![i] = Append(@, Shard(start[i], e))],
           start' = [start EXCEPT ![i] = e],
           UNCHANGED <<executor, chunk, thread, splicer, sending, carry, sent>>
    PROVE  ShardInv'
<1> DEFINE s == start[i]
           new == Shard(s, e)
<1> USE DEF KillInv, Types
<1>1. /\ new \in Reference /\ new \in AllShards
      /\ s \in Nat /\ s < e
      /\ Aligned(e) \/ e = ProgramEnd
      /\ \A r \in Reference : r.start < e => r.start < s \/ r = new
  BY NextShard, ReferenceFacts
<1>2. new.start = s
  BY DEF Shard
<1> HIDE DEF new
<1>3. /\ \A j \in Chunks : j # i => start'[j] = start[j] /\ queue'[j] = queue[j]
      /\ start'[i] = e
      /\ queue'[i] = Append(queue[i], new)
      /\ start' \in [Chunks -> Nat]
  BY <1>1 DEF ShardInv, ShardTypes, new
<1>4. /\ queue[i] \in Seq(AllShards)
      /\ Len(queue[i]) \in Nat
      /\ Len(queue'[i]) = Len(queue[i]) + 1
      /\ \A k \in 1..Len(queue[i]) : queue'[i][k] = queue[i][k]
      /\ queue'[i][Len(queue[i]) + 1] = new
  BY <1>1, <1>3 DEF ShardInv, ShardTypes
<1>5. \A j \in Chunks : Resumed(j)' <=> Resumed(j)
  BY DEF Resumed
<1>6. Resumed(i) /\ carry[i] = "none"
  BY DEF Resumed, ShardInv, OneAfterAnother
<1>7. \A j \in Chunks : Resumed(j) => j <= i /\ start[j] <= s
  <2> SUFFICES ASSUME NEW j \in Chunks, Resumed(j) PROVE j <= i /\ start[j] <= s
    OBVIOUS
  <2>1. ~(i < j)
    BY <1>6 DEF ShardInv, OneAfterAnother
  <2>2. j <= i
    BY <2>1, ChunksFacts DEF Chunks
  <2>3. CASE j = i
    BY <1>1, <2>2, <2>3
  <2>4. CASE j < i
    <3>1. start[j] <= start[i]
      BY <1>6, <2>4 DEF ShardInv, OneAfterAnother
    <3> QED BY <2>2, <3>1
  <2> QED BY <2>2, <2>3, <2>4, ChunksFacts DEF Chunks
<1>8. /\ \A j \in Chunks : j # i => Pending(j)' = Pending(j)
      /\ Pending(i)' = Pending(i) \cup {new}
  <2>1. ASSUME NEW j \in Chunks, j # i PROVE Pending(j)' = Pending(j)
    BY <1>3, <2>1 DEF Pending, Queued
  <2>2. Queued(i)' = Queued(i) \cup {new}
    <3>1. \A x : x \in Queued(i)' <=> \E k \in 1..(Len(queue[i]) + 1) : x = queue'[i][k]
      BY <1>4 DEF Queued
    <3>2. \A k \in 1..(Len(queue[i]) + 1) : k \in 1..Len(queue[i]) \/ k = Len(queue[i]) + 1
      BY <1>4
    <3>3. \A k \in 1..Len(queue[i]) : k \in 1..(Len(queue[i]) + 1)
      BY <1>4
    <3>4. Len(queue[i]) + 1 \in 1..(Len(queue[i]) + 1)
      BY <1>4
    <3>5. \A x : x \in Queued(i)' <=> x \in Queued(i) \/ x = new
      BY <1>4, <3>1, <3>2, <3>3, <3>4 DEF Queued
    <3> QED BY <3>5
  <2> QED BY <2>1, <2>2 DEF Pending
<1>9. new \notin Pending(i)
  BY <1>1, <1>2 DEF ShardInv, PendingOwn
<1>10. sent[new] = 0
  <2> SUFFICES ASSUME sent[new] > 0 PROVE FALSE
    BY <1>1 DEF ShardInv, ShardTypes
  <2>1. PICK j \in Chunks : Resumed(j) /\ new.start < start[j]
    BY <1>1 DEF ShardInv, SentCut, Cut
  <2> QED BY <1>1, <1>2, <1>7, <2>1
<1>11. ShardTypes'
  BY <1>1, <1>3 DEF ShardInv, ShardTypes
<1>12. OneAfterAnother'
  <2>1. ASSUME NEW a \in Chunks, NEW b \in Chunks, a < b, Resumed(b)
        PROVE  carry[a] = "open" /\ start'[a] <= start'[b]
    <3>1. carry[a] = "open" /\ start[a] <= start[b]
      BY <2>1 DEF ShardInv, OneAfterAnother
    <3>2. a # i
      BY <1>6, <3>1
    <3>3. start[b] <= start'[b]
      BY <1>1, <1>3
    <3> QED BY <1>1, <1>3, <3>1, <3>2, <3>3
  <2>2. thread[1] = "none" => start'[1] = 0
    <3>1. 1 \in Chunks
      BY ChunksFacts DEF Chunks
    <3> QED BY <1>3, <3>1 DEF ShardInv, OneAfterAnother
  <2> QED BY <1>5, <2>1, <2>2 DEF ShardInv, OneAfterAnother
<1>13. CutAligned'
  <2> SUFFICES ASSUME NEW j \in Chunks, Resumed(j)
               PROVE  Aligned(start'[j]) \/ start'[j] = ProgramEnd
    BY <1>5 DEF CutAligned, Aligned
  <2>1. CASE j = i
    BY <1>1, <1>3, <2>1
  <2>2. CASE j # i
    BY <1>3, <2>2 DEF ShardInv, CutAligned
  <2> QED BY <2>1, <2>2
<1>14. PendingOwn'
  <2> SUFFICES ASSUME NEW j \in Chunks, NEW shard \in Pending(j)'
               PROVE  /\ shard \in Reference
                      /\ shard.start < start'[j]
                      /\ \A l \in Chunks : l < j => start'[l] <= shard.start
                      /\ sent[shard] = 0
                      /\ thread[j] # "none"
    BY DEF PendingOwn
  <2>1. CASE j = i /\ shard = new
    <3>1. \A l \in Chunks : l < i => start'[l] <= s
      BY <1>3, <1>6 DEF ShardInv, OneAfterAnother, Chunks
    <3> QED BY <1>1, <1>2, <1>3, <1>10, <2>1, <3>1
  <2>2. CASE j = i /\ shard \in Pending(i)
    <3>1. /\ shard \in Reference /\ shard.start < s /\ sent[shard] = 0
          /\ \A l \in Chunks : l < i => start[l] <= shard.start
      BY <2>2 DEF ShardInv, PendingOwn
    <3>2. shard.start \in Nat
      BY <3>1, ReferenceFacts, ChunksFacts DEF AllShards
    <3>3. shard.start < e
      BY <1>1, <3>1, <3>2
    <3>4. \A l \in Chunks : l < i => start'[l] <= shard.start
      BY <1>3, <3>1 DEF Chunks
    <3> QED BY <1>3, <2>2, <3>1, <3>3, <3>4
  <2>3. CASE j # i
    <3>1. shard \in Pending(j)
      BY <1>8, <2>3
    <3>2. /\ shard \in Reference /\ shard.start < start[j] /\ sent[shard] = 0
          /\ \A l \in Chunks : l < j => start[l] <= shard.start
          /\ thread[j] # "none"
      BY <3>1 DEF ShardInv, PendingOwn
    <3>3. j <= i
      BY <1>7, <3>2 DEF Resumed
    <3> QED BY <1>3, <2>3, <3>2, <3>3 DEF Chunks
  <2> QED BY <1>8, <2>1, <2>2, <2>3
<1>15. PendingOnce'
  <2> SUFFICES ASSUME NEW j \in Chunks
               PROVE  /\ \A k, l \in 1..Len(queue'[j]) : queue'[j][k] = queue'[j][l] => k = l
                      /\ \A k \in 1..Len(queue'[j]) : queue'[j][k] \notin sending[j]
    BY DEF PendingOnce
  <2>1. CASE j # i
    BY <1>3, <2>1 DEF ShardInv, PendingOnce
  <2>2. CASE j = i
    <3>1. \A k \in 1..Len(queue'[i]) : k \in 1..Len(queue[i]) \/ k = Len(queue[i]) + 1
      BY <1>4
    <3>2. \A k \in 1..Len(queue[i]) : queue[i][k] # new
      BY <1>9 DEF Pending, Queued
    <3>3. new \notin sending[i]
      BY <1>9 DEF Pending
    <3>4. /\ \A k, l \in 1..Len(queue[i]) : queue[i][k] = queue[i][l] => k = l
          /\ \A k \in 1..Len(queue[i]) : queue[i][k] \notin sending[i]
      BY DEF ShardInv, PendingOnce
    <3>5. \A k, l \in 1..Len(queue'[i]) : queue'[i][k] = queue'[i][l] => k = l
      BY <1>4, <3>1, <3>2, <3>4
    <3>6. \A k \in 1..Len(queue'[i]) : queue'[i][k] \notin sending[i]
      BY <1>4, <3>1, <3>3, <3>4
    <3> QED BY <2>2, <3>5, <3>6
  <2> QED BY <2>1, <2>2
<1>16. \A shard \in AllShards : Cut(shard) => Cut(shard)'
  <2> SUFFICES ASSUME NEW shard \in AllShards, Cut(shard) PROVE Cut(shard)'
    OBVIOUS
  <2>1. PICK j \in Chunks : Resumed(j) /\ shard.start < start[j]
    BY DEF Cut
  <2>2. shard.start \in Nat
    BY ChunksFacts DEF AllShards
  <2>3. shard.start < start'[j]
    BY <1>1, <1>3, <2>1, <2>2
  <2> QED BY <1>5, <2>1, <2>3 DEF Cut
<1>17. \A shard \in Reference : Cut(shard)' => Cut(shard) \/ shard = new
  <2> SUFFICES ASSUME NEW shard \in Reference, Cut(shard)' PROVE Cut(shard) \/ shard = new
    OBVIOUS
  <2>1. PICK j \in Chunks : Resumed(j)' /\ shard.start < start'[j]
    BY DEF Cut
  <2>2. CASE j = i
    BY <1>1, <1>3, <1>6, <2>1, <2>2 DEF Cut
  <2>3. CASE j # i
    BY <1>3, <1>5, <2>1, <2>3 DEF Cut
  <2> QED BY <2>2, <2>3
<1>18. SentCut'
  BY <1>16 DEF ShardInv, SentCut
<1>19. NoneLost'
  BY <1>8, <1>17 DEF ShardInv, NoneLost
<1> QED BY <1>11, <1>12, <1>13, <1>14, <1>15, <1>18, <1>19 DEF ShardInv

(* What taking the first shard of a queue leaves of it.                    *)
LEMMA TailFacts ==
    ASSUME NEW S, NEW q \in Seq(S), q # <<>>
    PROVE  /\ Head(q) = q[1] /\ Head(q) \in S
           /\ Len(q) \in Nat /\ Len(q) > 0
           /\ Tail(q) \in Seq(S) /\ Len(Tail(q)) = Len(q) - 1
           /\ \A k \in 1..(Len(q) - 1) : Tail(q)[k] = q[k + 1]
OBVIOUS

(* A send worker takes a shard from the queue.                             *)
LEMMA ShardTake ==
    ASSUME KillInv, ShardInv, NEW i \in Chunks, TakeSplice(i)
    PROVE  ShardInv'
<1> DEFINE q == queue[i]
           h == Head(q)
<1>1. /\ q \in Seq(AllShards) /\ q # <<>>
      /\ sending' = [sending EXCEPT ![i] = @ \cup {h}]
      /\ queue' = [queue EXCEPT ![i] = Tail(q)]
      /\ UNCHANGED <<executor, chunk, thread, splicer, start, carry, sent>>
  BY DEF TakeSplice, ShardInv, ShardTypes, executorVars
<1>2. /\ h = q[1] /\ h \in AllShards
      /\ Len(q) \in Nat /\ Len(q) > 0
      /\ Tail(q) \in Seq(AllShards) /\ Len(Tail(q)) = Len(q) - 1
      /\ \A k \in 1..(Len(q) - 1) : Tail(q)[k] = q[k + 1]
  BY <1>1, TailFacts
<1> HIDE DEF q, h
<1>3. /\ \A j \in Chunks : j # i => queue'[j] = queue[j] /\ sending'[j] = sending[j]
      /\ queue'[i] = Tail(q) /\ sending'[i] = sending[i] \cup {h}
  BY <1>1 DEF ShardInv, ShardTypes
<1>4. ShardTypes'
  BY <1>1, <1>2 DEF ShardInv, ShardTypes
<1>5. \A j \in Chunks : Resumed(j)' <=> Resumed(j)
  BY <1>1 DEF Resumed
<1>6. OneAfterAnother'
  BY <1>1, <1>5 DEF ShardInv, OneAfterAnother
<1>7. /\ \A k, l \in 1..Len(q) : q[k] = q[l] => k = l
      /\ \A k \in 1..Len(q) : q[k] \notin sending[i]
  BY DEF ShardInv, PendingOnce, q
<1>8. \A k \in 1..(Len(q) - 1) : k + 1 \in 1..Len(q) /\ k + 1 # 1
  BY <1>2
<1>9. PendingOnce'
  <2> SUFFICES ASSUME NEW j \in Chunks
               PROVE  /\ \A k, l \in 1..Len(queue'[j]) : queue'[j][k] = queue'[j][l] => k = l
                      /\ \A k \in 1..Len(queue'[j]) : queue'[j][k] \notin sending'[j]
    BY DEF PendingOnce
  <2>1. CASE j # i
    BY <1>3, <2>1 DEF ShardInv, PendingOnce
  <2>2. CASE j = i
    <3>1. ASSUME NEW k \in 1..(Len(q) - 1), NEW l \in 1..(Len(q) - 1), Tail(q)[k] = Tail(q)[l]
          PROVE  k = l
      <4>1. k + 1 = l + 1
        BY <1>2, <1>7, <1>8, <3>1
      <4> QED BY <1>2, <4>1
    <3>2. ASSUME NEW k \in 1..(Len(q) - 1) PROVE Tail(q)[k] \notin sending[i] \cup {h}
      <4>1. q[k + 1] \notin sending[i]
        BY <1>7, <1>8
      <4>2. 1 \in 1..Len(q)
        BY <1>2
      <4>3. q[k + 1] # h
        BY <1>2, <1>7, <1>8, <4>2
      <4> QED BY <1>2, <4>1, <4>3
    <3>3. queue'[j] = Tail(q) /\ sending'[j] = sending[i] \cup {h}
      BY <1>3, <2>2
    <3>4. 1..Len(queue'[j]) = 1..(Len(q) - 1)
      BY <1>2, <3>3
    <3> QED BY <3>1, <3>2, <3>3, <3>4
  <2> QED BY <2>1, <2>2
<1>10. \A j \in Chunks : Pending(j)' = Pending(j)
  <2> SUFFICES ASSUME NEW j \in Chunks PROVE Pending(j)' = Pending(j)
    OBVIOUS
  <2>1. CASE j # i
    BY <1>3, <2>1 DEF Pending, Queued
  <2>2. CASE j = i
    <3>1. Queued(i)' = {Tail(q)[k] : k \in 1..(Len(q) - 1)}
      BY <1>2, <1>3 DEF Queued
    <3>2. \A k \in 1..Len(q) : k = 1 \/ (k - 1 \in 1..(Len(q) - 1) /\ (k - 1) + 1 = k)
      BY <1>2
    <3>3. 1 \in 1..Len(q)
      BY <1>2
    <3>4. \A x : x \in Queued(i) <=> x = h \/ x \in Queued(i)'
      <4>1. ASSUME NEW x \in Queued(i) PROVE x = h \/ x \in Queued(i)'
        <5>1. PICK k \in 1..Len(q) : x = q[k]
          BY DEF Queued, q
        <5>2. k = 1 \/ x = Tail(q)[k - 1]
          BY <1>2, <3>2, <5>1
        <5> QED BY <1>2, <3>1, <3>2, <5>1, <5>2
      <4>2. h \in Queued(i)
        BY <1>2, <3>3 DEF Queued, q
      <4>3. ASSUME NEW x \in Queued(i)' PROVE x \in Queued(i)
        <5>1. PICK k \in 1..(Len(q) - 1) : x = Tail(q)[k]
          BY <3>1
        <5>2. x = q[k + 1] /\ k + 1 \in 1..Len(q)
          BY <1>2, <1>8, <5>1
        <5> QED BY <5>2 DEF Queued, q
      <4> QED BY <4>1, <4>2, <4>3
    <3> QED BY <1>3, <2>2, <3>4 DEF Pending
  <2> QED BY <2>1, <2>2
<1> QED BY <1>1, <1>4, <1>5, <1>6, <1>9, <1>10, ShardKept

(* A splicer fails: what waited in its queue is lost.                      *)
LEMMA ShardLost ==
    ASSUME ShardInv, NEW i \in Chunks, thread[i] # "none",
           splicer \in [Chunks -> {"none", "running", "ended", "failed"}],
           splicer' = [splicer EXCEPT ![i] = "failed"],
           queue' = [queue EXCEPT ![i] = <<>>],
           \A j \in Chunks : sending'[j] \subseteq sending[j],
           sending' \in [Chunks -> SUBSET AllShards],
           \A j \in Chunks : thread'[j] = "none" <=> thread[j] = "none",
           \A j \in Chunks : carry[j] # "none" => thread'[j] = thread[j],
           UNCHANGED <<executor, chunk, start, carry, sent>>
    PROVE  ShardInv'
<1>1. \A j \in Chunks : \/ queue'[j] = queue[j]
                        \/ queue'[j] = <<>>
  BY DEF ShardInv, ShardTypes
<1>2. ShardTypes'
  <2>1. <<>> \in Seq(AllShards)
    OBVIOUS
  <2>2. queue' \in [Chunks -> Seq(AllShards)]
    BY <2>1 DEF ShardInv, ShardTypes
  <2> QED BY <2>2 DEF ShardInv, ShardTypes
<1>3. \A j \in Chunks : Resumed(j)' <=> Resumed(j)
  BY DEF Resumed
<1>4. OneAfterAnother'
  <2>1. thread'[1] = "none" => start[1] = 0
    <3>1. 1 \in Chunks
      BY ChunksFacts DEF Chunks
    <3> QED BY <3>1 DEF ShardInv, OneAfterAnother
  <2> QED BY <1>3, <2>1 DEF ShardInv, OneAfterAnother
<1>5. \A j \in Chunks : Pending(j)' \subseteq Pending(j)
  BY <1>1 DEF Pending, Queued
<1>6. PendingOnce'
  BY <1>1 DEF ShardInv, PendingOnce
<1> QED BY <1>2, <1>3, <1>4, <1>5, <1>6, ShardKept

(* A shard is sent: it waits nowhere else, and was not sent before.        *)
LEMMA ShardSent ==
    ASSUME KillInv, ShardInv, NEW i \in Chunks, NEW shard \in AllShards,
           shard \in sending[i],
           sending' = [sending EXCEPT ![i] = @ \ {shard}],
           sent' = [sent EXCEPT ![shard] = @ + 1],
           UNCHANGED <<executor, chunk, thread, splicer, start, carry, queue>>
    PROVE  ShardInv'
<1> USE DEF KillInv, Types
<1>1. shard \in Pending(i)
  BY DEF Pending
<1>2. /\ shard \in Reference
      /\ shard.start < start[i]
      /\ \A j \in Chunks : j < i => start[j] <= shard.start
      /\ sent[shard] = 0
      /\ thread[i] # "none"
  BY <1>1 DEF ShardInv, PendingOwn
<1>3. ShardTypes'
  BY DEF ShardInv, ShardTypes
<1>4. \A j \in Chunks : Resumed(j)' <=> Resumed(j)
  BY DEF Resumed
<1>5. OneAfterAnother'
  BY <1>4 DEF ShardInv, OneAfterAnother
<1>6. CutAligned'
  BY <1>4 DEF ShardInv, CutAligned, Aligned
<1>7. /\ \A j \in Chunks : sending'[j] = IF j = i THEN sending[i] \ {shard} ELSE sending[j]
      /\ sent'[shard] = 1
      /\ \A x \in AllShards : x # shard => sent'[x] = sent[x]
  BY <1>2 DEF ShardInv, ShardTypes
<1>8. PendingOnce'
  BY <1>7 DEF ShardInv, PendingOnce
<1>9. Pending(i)' = Pending(i) \ {shard} /\ \A j \in Chunks : j # i => Pending(j)' = Pending(j)
  <2>1. \A j \in Chunks : Queued(j)' = Queued(j)
    BY DEF Queued
  <2>2. shard \notin Queued(i)
    BY DEF ShardInv, PendingOnce, Queued
  <2> QED BY <1>7, <2>1, <2>2 DEF Pending
<1>10. ASSUME NEW j \in Chunks, j # i PROVE shard \notin Pending(j)
  <2> SUFFICES ASSUME shard \in Pending(j) PROVE FALSE
    OBVIOUS
  <2>1. shard.start < start[j] /\ \A l \in Chunks : l < j => start[l] <= shard.start
    BY DEF ShardInv, PendingOwn
  <2>2. shard.start \in Nat
    BY ChunksFacts DEF AllShards
  <2>3. j < i \/ i < j
    BY <1>10, ChunksFacts DEF Chunks
  <2> QED BY <1>2, <2>1, <2>2, <2>3
<1>11. PendingOwn'
  <2> SUFFICES ASSUME NEW j \in Chunks, NEW x \in Pending(j)'
               PROVE  /\ x \in Reference
                      /\ x.start < start[j]
                      /\ \A l \in Chunks : l < j => start[l] <= x.start
                      /\ sent'[x] = 0
                      /\ thread[j] # "none"
    BY DEF PendingOwn
  <2>1. x \in Pending(j) /\ x # shard
    BY <1>9, <1>10
  <2> QED BY <1>7, <2>1, ReferenceFacts DEF ShardInv, PendingOwn
<1>12. \A x : Cut(x)' <=> Cut(x)
  BY <1>4 DEF Cut
<1>13. Cut(shard)
  BY <1>2 DEF Cut, Resumed
<1>14. SentCut'
  BY <1>2, <1>7, <1>12, <1>13 DEF ShardInv, SentCut
<1>15. NoneLost'
  <2> SUFFICES ASSUME \A j \in Chunks : splicer[j] # "failed", NEW x \in Reference, Cut(x)
               PROVE  sent'[x] = 1 \/ \E j \in Chunks : x \in Pending(j)'
    BY <1>12 DEF NoneLost
  <2>1. x \in AllShards
    BY ReferenceFacts
  <2>2. CASE x = shard
    BY <1>7, <2>2
  <2>3. CASE x # shard
    <3>1. sent[x] = 1 \/ \E j \in Chunks : x \in Pending(j)
      BY DEF ShardInv, NoneLost
    <3> QED BY <1>7, <1>9, <2>1, <2>3, <3>1
  <2> QED BY <2>2, <2>3
<1> QED BY <1>3, <1>5, <1>6, <1>8, <1>11, <1>14, <1>15 DEF ShardInv

(* A step that changes none of it keeps the invariant.                     *)
LEMMA ShardStutter ==
    ASSUME ShardInv, UNCHANGED <<executor, chunk, splicerVars>>
    PROVE  ShardInv'
<1> USE DEF splicerVars
<1>1. \A i \in Chunks : Resumed(i)' <=> Resumed(i)
  BY DEF Resumed
<1>2. OneAfterAnother'
  BY <1>1 DEF ShardInv, OneAfterAnother
<1> QED BY <1>1, <1>2, ShardControl

(* The steps of a splicer keep the invariant.                              *)
LEMMA ShardSplicer ==
    ASSUME KillInv, ShardInv, NEW i \in Chunks, Splicer(i) \/ SpliceFails(i)
    PROVE  ShardInv'
<1> USE DEF executorVars
<1>0. /\ start[i] \in Nat /\ ChunkEnds[i] \in Nat /\ ChunkEnds[i] <= ProgramEnd
      /\ thread \in [Chunks -> {"none", "waiting", "splicing", "extending", "ended", "failed"}]
      /\ splicer \in [Chunks -> {"none", "running", "ended", "failed"}]
      /\ carry \in [Chunks -> {"none", "open", "closed"}]
  BY ChunksFacts DEF KillInv, Types
<1>1. ASSUME thread[i] = "splicing" PROVE carry[i] = "none"
  BY <1>1 DEF ShardInv, OneAfterAnother
<1>2. ASSUME thread[i] = "splicing", start[i] < ProgramEnd PROVE Aligned(start[i])
  BY <1>0, <1>2, ChunksFacts DEF ShardInv, CutAligned, Resumed
<1>3. CASE CommonInput(i)
  <2>1. thread[i] = "waiting" /\ UNCHANGED <<executor, chunk, start, sent, queue, sending, carry>>
    BY <1>3 DEF CommonInput
  <2>2. carry[i] = "none"
    BY <2>1 DEF ShardInv, OneAfterAnother
  <2>3. CASE thread' = [thread EXCEPT ![i] = "splicing"] /\ UNCHANGED splicer
    BY <2>1, <2>2, <2>3, ShardThread
  <2>4. CASE thread' = [thread EXCEPT ![i] = "failed"] /\ splicer' = [splicer EXCEPT ![i] = "failed"]
    BY <2>1, <2>2, <2>4, ShardThread
  <2> QED BY <1>3, <2>3, <2>4 DEF CommonInput
<1>4. CASE SpliceShard(i) \/ EndOfProgram(i)
  <2>1. PICK e \in Nat :
            /\ SendSplice(i, Shard(start[i], e))
            /\ \/ e = start[i] + ShardLength /\ e < ProgramEnd
               \/ e = ProgramEnd /\ start[i] < ProgramEnd /\ start[i] + ShardLength >= ProgramEnd
    <3>1. CASE SpliceShard(i)
      <4>1. /\ SendSplice(i, Shard(start[i], start[i] + ShardLength))
            /\ start[i] + ShardLength < ChunkEnds[i]
        BY <3>1 DEF SpliceShard, Boundary
      <4>2. start[i] + ShardLength \in Nat /\ start[i] + ShardLength < ProgramEnd
        BY <1>0, <4>1, ChunksFacts
      <4> QED BY <4>1, <4>2
    <3>2. CASE EndOfProgram(i)
      <4>1. /\ SendSplice(i, Shard(start[i], ProgramEnd)) /\ start[i] < ProgramEnd
            /\ start[i] + ShardLength >= ProgramEnd
        BY <3>2, ChunksFacts DEF EndOfProgram, Boundary
      <4> QED BY <4>1, ChunksFacts
    <3> QED BY <1>4, <3>1, <3>2
  <2>2. /\ thread[i] = "splicing"
        /\ UNCHANGED <<executor, chunk, splicer, sending, carry, sent>>
    BY <1>4 DEF SpliceShard, EndOfProgram
  <2>3. carry[i] = "none" /\ Aligned(start[i])
    BY <1>0, <1>1, <1>2, <2>1, <2>2, ChunksFacts
  <2>4. CASE splicer[i] = "failed"
    BY <2>1, <2>2, <2>3, <2>4, ShardThread DEF SendSplice
  <2>5. CASE splicer[i] # "failed"
    <3>1. /\ queue' = [queue EXCEPT ![i] = Append(@, Shard(start[i], e))]
          /\ start' = [start EXCEPT ![i] = e]
          /\ UNCHANGED thread
      BY <2>1, <2>5 DEF SendSplice, Shard
    <3> QED BY <2>1, <2>2, <2>3, <3>1, ShardCut
  <2> QED BY <2>4, <2>5
<1>5. CASE EndOfChunk(i)
  BY <1>0, <1>1, <1>5, ShardThread DEF EndOfChunk
<1>6. CASE CarryNothing(i)
  <2>1. i = NumChunks
    BY <1>6, ChunksFacts DEF CarryNothing, KillInv, FinalStateSet, Types
  <2> QED BY <1>0, <1>1, <1>6, <2>1, ShardThread DEF CarryNothing
<1>7. CASE ExtendTouched(i)
  BY <1>7, ShardThread DEF ExtendTouched
<1>8. CASE TakeSplice(i)
  BY <1>8, ShardTake
<1>9. CASE \E shard \in AllShards : SendShard(i, shard)
  <2>1. PICK shard \in AllShards : SendShard(i, shard)
    BY <1>9
  <2>2. /\ shard \in sending[i]
        /\ sending' = [sending EXCEPT ![i] = @ \ {shard}]
        /\ UNCHANGED <<executor, chunk, thread, start, carry>>
    BY <2>1 DEF SendShard
  <2>3. CASE sent' = [sent EXCEPT ![shard] = @ + 1] /\ UNCHANGED <<splicer, queue>>
    BY <2>2, <2>3, ShardSent
  <2>4. CASE /\ splicer' = [splicer EXCEPT ![i] = "failed"]
             /\ queue' = [queue EXCEPT ![i] = <<>>]
             /\ UNCHANGED sent
    <3>1. /\ \A j \in Chunks : sending'[j] \subseteq sending[j]
          /\ sending' \in [Chunks -> SUBSET AllShards]
          /\ thread[i] # "none"
      BY <2>2 DEF ShardInv, ShardTypes, PendingOwn, Pending
    <3> QED BY <1>0, <2>2, <2>4, <3>1, ShardLost
  <2> QED BY <2>1, <2>3, <2>4 DEF SendShard
<1>10. CASE JoinSplicer(i)
  <2>1. /\ UNCHANGED <<executor, chunk, thread, start, queue, sending, carry, sent>>
        /\ \A j \in Chunks : splicer[j] = "failed" => splicer'[j] = "failed"
    BY <1>0, <1>10 DEF JoinSplicer
  <2>2. \A j \in Chunks : splicer'[j] = "none" <=> splicer[j] = "none"
    BY <1>0, <1>10 DEF JoinSplicer
  <2>3. \A j \in Chunks : Resumed(j)' <=> Resumed(j)
    BY <2>1 DEF Resumed
  <2>4. OneAfterAnother'
    BY <2>1, <2>2, <2>3 DEF ShardInv, OneAfterAnother
  <2> QED BY <2>1, <2>3, <2>4, ShardControl
<1>11. CASE SpliceFails(i)
  <2>1. /\ thread[i] = "splicing" /\ thread' = [thread EXCEPT ![i] = "failed"]
        /\ splicer' = [splicer EXCEPT ![i] = "failed"]
        /\ queue' = [queue EXCEPT ![i] = <<>>]
        /\ UNCHANGED <<executor, chunk, start, sending, carry, sent>>
    BY <1>11 DEF SpliceFails
  <2>2. /\ \A j \in Chunks : thread'[j] = "none" <=> thread[j] = "none"
        /\ \A j \in Chunks : carry[j] # "none" => thread'[j] = thread[j]
        /\ splicer'[i] = "failed"
    BY <1>0, <1>1, <2>1
  <2>3. sending' \in [Chunks -> SUBSET AllShards]
    BY <2>1 DEF ShardInv, ShardTypes
  <2> QED BY <1>0, <2>1, <2>2, <2>3, ShardLost
<1> QED BY <1>3, <1>4, <1>5, <1>6, <1>7, <1>8, <1>9, <1>10, <1>11 DEF Splicer

(* Every step keeps the invariant.                                         *)
LEMMA ShardStep ==
    ASSUME KillInv, ShardInv, [Next]_vars
    PROVE  ShardInv'
<1>1. CASE PullChunk \/ ChildIsKilled \/ StopExecutor \/ ExecutionFails \/ EndExecutor
  <2>1. /\ executor \notin {"submit", "failed"} /\ executor' # "submit"
        /\ UNCHANGED <<chunk, splicerVars>>
    BY <1>1 DEF PullChunk, ChildIsKilled, StopExecutor, ExecutionFails, EndExecutor
  <2> QED BY <2>1, ShardExecutor
<1>2. CASE TakeCarry
  BY <1>2, ShardTakeCarry
<1>3. CASE SubmitSplicer
  <2> USE DEF KillInv, Types
  <2>1. chunk \in Chunks /\ executor = "submit"
    BY <1>3, ChunksFacts DEF SubmitSplicer, Submitted, Chunks
  <2>2. /\ thread' = [thread EXCEPT ![chunk] = "waiting"]
        /\ splicer' = [splicer EXCEPT ![chunk] = "running"]
        /\ UNCHANGED <<start, queue, sending, carry, sent>>
        /\ \/ executor' = "pulling" /\ chunk' = chunk + 1
           \/ executor' = "failed" /\ chunk' = chunk
    BY <1>3 DEF SubmitSplicer
  <2>3. /\ thread'[chunk] = "waiting"
        /\ \A i \in Chunks : i # chunk => thread'[i] = thread[i]
    BY <2>1, <2>2
  <2>4. \A i \in Chunks : Resumed(i)' <=> Resumed(i)
    BY <2>1, <2>2, <2>3 DEF Resumed
  <2>5. \A i \in Chunks : splicer'[i] = splicer[i] \/ splicer'[i] = "running"
    BY <2>2
  <2>6. thread[chunk] = "none" /\ carry[chunk] = "none"
    BY <2>1 DEF ShardInv, OneAfterAnother
  <2>7. OneAfterAnother'
    <3>1. /\ \A i \in Chunks : i < chunk' => thread'[i] # "none"
          /\ \A i \in Chunks : i > chunk' => thread'[i] = "none"
          /\ \A i \in Chunks : i = chunk' /\ executor' # "failed" => thread'[i] = "none"
      BY <2>1, <2>2, <2>3, ChunksFacts DEF ShardInv, OneAfterAnother, Chunks
    <3>2. \A i \in Chunks : carry[i] # "none" => thread'[i] \in {"extending", "ended"}
      BY <2>3, <2>6 DEF ShardInv, OneAfterAnother
    <3>3. thread'[1] = "none" => start[1] = 0
      <4>1. 1 \in Chunks
        BY ChunksFacts DEF Chunks
      <4> QED BY <2>3, <4>1 DEF ShardInv, OneAfterAnother
    <3> QED BY <2>2, <2>4, <3>1, <3>2, <3>3 DEF ShardInv, OneAfterAnother
  <2>8. splicer[chunk] # "failed"
    BY <2>1, <2>6 DEF ShardInv, OneAfterAnother
  <2> QED BY <2>2, <2>3, <2>4, <2>5, <2>7, <2>8, ShardControl
<1>4. CASE \E i \in Chunks : Splicer(i) \/ SpliceFails(i)
  BY <1>4, ShardSplicer
<1>5. CASE \/ Collect \/ MergeTouched \/ ReceiveFinalState \/ EmitAddress \/ EmitRest
           \/ EmitPages \/ SendMemoryShard \/ EndMemory \/ Return \/ UNCHANGED vars
  <2>1. UNCHANGED <<executor, chunk, splicerVars>>
    BY <1>5 DEF Collect, MergeTouched, ReceiveFinalState, EmitAddress, EmitRest, EmitPages,
                SendMemoryShard, EndMemory, Return, vars, executorVars
  <2> QED BY <2>1, ShardStutter
<1> QED BY <1>1, <1>2, <1>3, <1>4, <1>5 DEF Next, Progress

(* Nothing is cut before the first chunk is submitted.                     *)
LEMMA ShardInit == Init => ShardInv
<1> SUFFICES ASSUME Init PROVE ShardInv
  OBVIOUS
<1>1. /\ \A i \in Chunks : ~Resumed(i) /\ Pending(i) = {} /\ queue[i] = <<>>
      /\ 1 \in Chunks
  <2>1. 1 \in Chunks
    BY ChunksFacts DEF Chunks
  <2>2. ASSUME NEW i \in Chunks PROVE ~Resumed(i) /\ Pending(i) = {} /\ queue[i] = <<>>
    <3>1. queue[i] = <<>> /\ sending[i] = {} /\ ~Resumed(i)
      BY DEF Init, Resumed
    <3>2. 1..Len(queue[i]) = {}
      BY <3>1
    <3> QED BY <3>1, <3>2 DEF Pending, Queued
  <2> QED BY <2>1, <2>2
<1>2. ShardTypes
  <2>1. <<>> \in Seq(AllShards)
    OBVIOUS
  <2> QED BY <2>1 DEF Init, ShardTypes
<1>3. OneAfterAnother
  BY <1>1, ChunksFacts DEF Init, OneAfterAnother, Chunks
<1>4. CutAligned /\ PendingOwn /\ NoneLost
  BY <1>1 DEF CutAligned, PendingOwn, NoneLost, Cut
<1>5. PendingOnce
  BY <1>1 DEF PendingOnce
<1>6. SentCut
  BY DEF Init, SentCut
<1> QED BY <1>2, <1>3, <1>4, <1>5, <1>6 DEF ShardInv

(* The two invariants hold throughout.                                     *)
LEMMA ShardAlways == Spec => [](KillInv /\ ShardInv)
<1>1. KillInv /\ ShardInv /\ [Next]_vars => ShardInv'
  BY ShardStep
<1> QED BY <1>1, KillInit, KillStep, ShardInit, PTL DEF Spec

(* Wherever the trace is cut into chunks, whatever the channels hold and   *)
(* whatever fails, a shard that is sent to be proven is one of the program *)
(* run as one chunk, and is sent once.                                     *)
THEOREM ShardsCorrect == Spec => []ShardsAsOneChunk
<1>1. ShardInv => ShardsAsOneChunk
  BY DEF ShardInv, ShardTypes, SentCut, ShardsAsOneChunk
<1> QED BY <1>1, ShardAlways, PTL

-----------------------------------------------------------------------------
(* An execution that returns its output is complete.                       *)
(*                                                                         *)
(* The collector ends well only when every splicer that was submitted has  *)
(* ended, with nothing left to send; the executor only after it submitted  *)
(* the last one; the memory handler only when every thread has handed over *)
(* what its chunk touched.                                                 *)
CompleteInv ==
    /\ \A i \in Chunks : splicer[i] = "ended" => Pending(i) = {}
    /\ thread[NumChunks] \in {"extending", "ended"} => start[NumChunks] = ProgramEnd
    /\ collector = "ended" => \A i \in Chunks : splicer[i] \in {"none", "ended"}
    /\ channel \in Seq(Chunks)
    /\ merged \subseteq Chunks
    /\ \A i \in Chunks :
          thread[i] = "ended" => i \in merged \/ \E k \in 1..Len(channel) : channel[k] = i
    /\ memory \notin {"merging", "failed"} =>
          channel = <<>> /\ executor = "ended" /\ collector = "ended"
    /\ memory = "ended" => memorySent = Len(memoryShards)
    /\ result = "ok" => memory = "ended"

(* Once the executor and the collector have ended well, every splicer and  *)
(* its thread have ended.                                                  *)
LEMMA AllEnded ==
    ASSUME KillInv, ShardInv, CompleteInv, executor = "ended", collector = "ended"
    PROVE  \A i \in Chunks : splicer[i] = "ended" /\ thread[i] = "ended"
<1>1. chunk = NumChunks + 1
  BY DEF KillInv, Submitted
<1>2. \A i \in Chunks : splicer[i] # "none"
  BY <1>1, ChunksFacts DEF KillInv, Submitted, Chunks
<1> QED BY <1>2 DEF CompleteInv, KillInv, FinalStateSet

(* Each step of a splicer, for the parts of the invariant it can disturb.  *)
LEMMA CompleteSplicer ==
    ASSUME KillInv, ShardInv, CompleteInv, ShardInv', KillInv', NEW i \in Chunks,
           Splicer(i) \/ SpliceFails(i)
    PROVE  CompleteInv'
<1> USE DEF executorVars, memoryVars
<1>0. /\ splicer \in [Chunks -> {"none", "running", "ended", "failed"}]
      /\ thread \in [Chunks -> {"none", "waiting", "splicing", "extending", "ended", "failed"}]
      /\ start \in [Chunks -> Nat]
      /\ queue \in [Chunks -> Seq(AllShards)]
      /\ sending \in [Chunks -> SUBSET AllShards]
      /\ splicer[i] = "none" <=> thread[i] = "none"
      /\ splicer[i] = "ended" => thread[i] = "ended" /\ Pending(i) = {}
  BY DEF KillInv, Types, ShardInv, ShardTypes, OneAfterAnother, FinalStateSet, CompleteInv
<1>1. UNCHANGED <<executor, collector, merged, memory, memorySent, memoryShards, result>>
  BY DEF Splicer, CommonInput, SpliceShard, EndOfChunk, EndOfProgram, CarryNothing,
         ExtendTouched, TakeSplice, SendShard, JoinSplicer, SpliceFails
<1>2. ASSUME NEW j \in Chunks, j # i
      PROVE  splicer'[j] = splicer[j] /\ thread'[j] = thread[j] /\ start'[j] = start[j]
             /\ queue'[j] = queue[j] /\ sending'[j] = sending[j]
  BY <1>0, <1>2 DEF Splicer, CommonInput, SpliceShard, EndOfChunk, EndOfProgram, CarryNothing,
         ExtendTouched, TakeSplice, SendShard, JoinSplicer, SpliceFails, SendSplice
<1>3. \A j \in Chunks : j # i => Pending(j)' = Pending(j)
  BY <1>2 DEF Pending, Queued
<1>4. /\ splicer[i] \in {"none", "ended"} => splicer'[i] = splicer[i]
      /\ splicer'[i] = "ended" => Pending(i)' = {}
  <2>1. CASE splicer[i] \in {"none", "ended"}
    <3>1. thread[i] \in {"none", "ended"}
      BY <1>0, <2>1
    <3>2. Pending(i) = {}
      BY <1>0, <2>1, <3>1 DEF ShardInv, PendingOwn
    <3>3. /\ ~CommonInput(i) /\ ~SpliceShard(i) /\ ~EndOfChunk(i) /\ ~EndOfProgram(i)
          /\ ~CarryNothing(i) /\ ~ExtendTouched(i) /\ ~SpliceFails(i)
          /\ ~TakeSplice(i) /\ ~JoinSplicer(i)
      BY <2>1, <3>1 DEF CommonInput, SpliceShard, EndOfChunk, EndOfProgram, CarryNothing,
                        ExtendTouched, SpliceFails, TakeSplice, JoinSplicer
    <3>4. \A shard \in AllShards : ~SendShard(i, shard)
      BY <3>2 DEF SendShard, Pending
    <3> QED BY <3>3, <3>4 DEF Splicer
  <2>2. CASE splicer[i] \in {"running", "failed"}
    <3>1. ASSUME splicer'[i] = "ended" PROVE JoinSplicer(i)
      BY <1>0, <2>2, <3>1
         DEF Splicer, CommonInput, SpliceShard, EndOfChunk, EndOfProgram, CarryNothing,
             ExtendTouched, TakeSplice, SendShard, SpliceFails
    <3>2. ASSUME JoinSplicer(i) PROVE Pending(i)' = {}
      <4>1. queue'[i] = <<>> /\ sending'[i] = {}
        BY <3>2 DEF JoinSplicer
      <4>2. 1..Len(queue'[i]) = {}
        BY <4>1
      <4> QED BY <4>1, <4>2 DEF Pending, Queued
    <3> QED BY <2>2, <3>1, <3>2
  <2> QED BY <1>0, <2>1, <2>2
<1>5. thread'[i] = "ended" => thread[i] = "ended" \/ ExtendTouched(i)
  BY <1>0 DEF Splicer, CommonInput, SpliceShard, EndOfChunk, EndOfProgram, CarryNothing,
              TakeSplice, SendShard, JoinSplicer, SpliceFails, SendSplice
<1>6. channel' = channel \/ (ExtendTouched(i) /\ channel' = Append(channel, i))
  BY DEF Splicer, CommonInput, SpliceShard, EndOfChunk, EndOfProgram, CarryNothing,
         ExtendTouched, TakeSplice, SendShard, JoinSplicer, SpliceFails
<1>7. /\ channel' \in Seq(Chunks)
      /\ \A j \in Chunks : thread'[j] = "ended"
             => j \in merged \/ \E k \in 1..Len(channel') : channel'[k] = j
  <2>1. CASE channel' = channel /\ ~ExtendTouched(i)
    <3>1. \A j \in Chunks : thread'[j] = "ended" => thread[j] = "ended"
      BY <1>2, <1>5, <2>1
    <3> QED BY <2>1, <3>1 DEF CompleteInv
  <2>2. CASE ExtendTouched(i)
    <3>1. channel' = Append(channel, i) /\ channel \in Seq(Chunks)
      BY <2>2 DEF ExtendTouched, CompleteInv
    <3>2. /\ Len(channel) \in Nat /\ Len(channel') = Len(channel) + 1
          /\ \A k \in 1..Len(channel) : channel'[k] = channel[k]
          /\ channel'[Len(channel) + 1] = i
          /\ channel' \in Seq(Chunks)
      BY <3>1
    <3>3. ASSUME NEW j \in Chunks, thread'[j] = "ended"
          PROVE  j \in merged \/ \E k \in 1..Len(channel') : channel'[k] = j
      <4>1. CASE j = i
        BY <3>2, <4>1
      <4>2. CASE j # i
        <5>1. j \in merged \/ \E k \in 1..Len(channel) : channel[k] = j
          BY <1>2, <3>3, <4>2 DEF CompleteInv
        <5>2. \A k \in 1..Len(channel) : k \in 1..Len(channel')
          BY <3>2
        <5> QED BY <3>2, <5>1, <5>2
      <4> QED BY <4>1, <4>2
    <3> QED BY <3>2, <3>3
  <2> QED BY <1>6, <2>1, <2>2
<1>8. memory \notin {"merging", "failed"} => channel' = <<>>
  <2>1. ASSUME memory \notin {"merging", "failed"} PROVE thread[i] = "ended" /\ channel = <<>>
    BY <2>1, AllEnded DEF CompleteInv
  <2>2. ASSUME ExtendTouched(i) PROVE thread[i] # "ended"
    BY <2>2 DEF ExtendTouched
  <2> QED BY <1>6, <2>1, <2>2
<1>9. thread'[NumChunks] \in {"extending", "ended"} => start'[NumChunks] = ProgramEnd
  <2>1. CASE i # NumChunks
    BY <1>2, <2>1, ChunksFacts DEF CompleteInv
  <2>2. CASE i = NumChunks
    <3> SUFFICES ASSUME thread'[i] \in {"extending", "ended"} PROVE start'[i] = ProgramEnd
      BY <2>2
    <3>1. CASE CarryNothing(i)
      BY <3>1 DEF CarryNothing
    <3>2. CASE ~CarryNothing(i)
      <4>1. thread[i] \in {"extending", "ended"} /\ start'[i] = start[i]
        BY <1>0, <2>2, <3>2, ChunksFacts
           DEF Splicer, CommonInput, SpliceShard, EndOfChunk, EndOfProgram, SendSplice,
               ExtendTouched, TakeSplice, SendShard, JoinSplicer, SpliceFails
      <4> QED BY <2>2, <4>1 DEF CompleteInv
    <3> QED BY <3>1, <3>2
  <2> QED BY <2>1, <2>2
<1>10. /\ \A j \in Chunks : splicer'[j] = "ended" => Pending(j)' = {}
       /\ collector = "ended" => \A j \in Chunks : splicer'[j] \in {"none", "ended"}
  BY <1>2, <1>3, <1>4 DEF CompleteInv
<1> QED BY <1>1, <1>7, <1>8, <1>9, <1>10 DEF CompleteInv

(* A step outside the splicers that the parts about them do not see.       *)
LEMMA CompleteKept ==
    ASSUME CompleteInv, UNCHANGED splicerVars,
           collector' = "ended" => \A i \in Chunks : splicer[i] \in {"none", "ended"},
           channel' = channel /\ merged' = merged,
           memory' \notin {"merging", "failed"} =>
               channel = <<>> /\ executor' = "ended" /\ collector' = "ended",
           memory' = "ended" => memorySent' = Len(memoryShards'),
           result' = "ok" => memory' = "ended"
    PROVE  CompleteInv'
<1>1. \A i \in Chunks : Pending(i)' = Pending(i)
  BY DEF splicerVars, Pending, Queued
<1>2. \A i \in Chunks : splicer'[i] = splicer[i] /\ thread'[i] = thread[i] /\ start'[i] = start[i]
  BY DEF splicerVars
<1> QED BY <1>1, <1>2, ChunksFacts DEF CompleteInv

(* Every step keeps the invariant.                                         *)
LEMMA CompleteStep ==
    ASSUME KillInv, ShardInv, CompleteInv, KillInv', ShardInv', [Next]_vars
    PROVE  CompleteInv'
<1> USE DEF executorVars, emissionVars
<1>1. CASE PullChunk \/ ChildIsKilled \/ StopExecutor \/ ExecutionFails \/ EndExecutor
  <2>1. executor # "ended" /\ UNCHANGED <<splicerVars, collector, memoryVars, result>>
    BY <1>1 DEF PullChunk, ChildIsKilled, StopExecutor, ExecutionFails, EndExecutor
  <2> QED BY <2>1, CompleteKept DEF CompleteInv, memoryVars
<1>2. CASE TakeCarry \/ SubmitSplicer
  <2> USE DEF KillInv, Types
  <2>1. /\ executor # "ended" /\ collector # "ended" /\ chunk \in Chunks
        /\ UNCHANGED <<queue, sending, collector, memoryVars, result>>
    BY <1>2, ChunksFacts DEF TakeCarry, SubmitSplicer, EndsInOrder, ExecutorGone, Submitted, Chunks
  <2>2. thread[chunk] = "none"
    BY <1>2, <2>1 DEF TakeCarry, SubmitSplicer, ShardInv, OneAfterAnother
  <2>3. \A i \in Chunks : Pending(i)' = Pending(i)
    BY <2>1 DEF Pending, Queued
  <2>4. /\ \A i \in Chunks : splicer'[i] = "ended" => splicer[i] = "ended"
        /\ \A i \in Chunks : thread'[i] \in {"extending", "ended"} =>
               thread[i] = thread'[i] /\ start'[i] = start[i]
    <3>1. CASE TakeCarry
      BY <2>1, <2>2, <3>1 DEF TakeCarry
    <3>2. CASE SubmitSplicer
      BY <2>1, <2>2, <3>2 DEF SubmitSplicer
    <3> QED BY <1>2, <3>1, <3>2
  <2> QED BY <2>1, <2>3, <2>4, ChunksFacts DEF CompleteInv, memoryVars
<1>3. CASE \E i \in Chunks : Splicer(i) \/ SpliceFails(i)
  BY <1>3, CompleteSplicer
<1>4. CASE Collect
  <2>1. UNCHANGED <<executor, splicerVars, memoryVars, result>> /\ collector = "running"
    BY <1>4 DEF Collect
  <2>2. collector' = "ended" => \A i \in Chunks : splicer[i] \in {"none", "ended"}
    BY <1>4 DEF Collect
  <2> QED BY <2>1, <2>2, CompleteKept DEF CompleteInv, memoryVars
<1>5. CASE MergeTouched
  <2>1. /\ memory = "merging" /\ channel # <<>> /\ channel \in Seq(Chunks)
        /\ merged' = merged \cup {Head(channel)} /\ channel' = Tail(channel)
        /\ UNCHANGED <<executor, splicerVars, collector, memory, memorySent, memoryShards, result>>
    BY <1>5 DEF MergeTouched, CompleteInv
  <2>2. /\ Head(channel) = channel[1] /\ Head(channel) \in Chunks
        /\ Len(channel) \in Nat /\ Len(channel) > 0
        /\ channel' \in Seq(Chunks) /\ Len(channel') = Len(channel) - 1
        /\ \A k \in 1..(Len(channel) - 1) : channel'[k] = channel[k + 1]
    BY <2>1, TailFacts
  <2>3. ASSUME NEW i \in Chunks, thread[i] = "ended"
        PROVE  i \in merged' \/ \E k \in 1..Len(channel') : channel'[k] = i
    <3>1. CASE i \in merged
      BY <2>1, <3>1
    <3>2. CASE \E k \in 1..Len(channel) : channel[k] = i
      <4>1. PICK k \in 1..Len(channel) : channel[k] = i
        BY <3>2
      <4>2. CASE k = 1
        BY <2>1, <2>2, <4>1, <4>2
      <4>3. CASE k # 1
        <5>1. k - 1 \in 1..(Len(channel) - 1) /\ (k - 1) + 1 = k
          BY <2>2, <4>3
        <5>2. channel'[k - 1] = i
          BY <2>2, <4>1, <5>1
        <5> QED BY <2>2, <5>1, <5>2
      <4> QED BY <4>2, <4>3
    <3> QED BY <2>3, <3>1, <3>2 DEF CompleteInv
  <2>4. \A i \in Chunks : Pending(i)' = Pending(i)
    BY <2>1 DEF Pending, Queued, splicerVars
  <2>5. merged' \subseteq Chunks
    BY <2>1, <2>2 DEF CompleteInv
  <2> QED BY <2>1, <2>2, <2>3, <2>4, <2>5 DEF CompleteInv, splicerVars
<1>6. CASE ReceiveFinalState
  <2>1. /\ memory = "merging" /\ channel = <<>>
        /\ UNCHANGED <<executor, splicerVars, collector, channel, merged, result>>
        /\ \/ memory' = "failed"
           \/ memory' = "emitting" /\ executor = "ended" /\ collector = "ended"
    BY <1>6 DEF ReceiveFinalState, ChannelClosed
  <2> QED BY <2>1, CompleteKept DEF CompleteInv
<1>7. CASE EmitAddress \/ EmitRest \/ EmitPages \/ SendMemoryShard \/ EndMemory
  <2>1. /\ result = "running" /\ memory \in {"emitting", "pages", "emitted"}
        /\ UNCHANGED <<executor, splicerVars, collector, channel, merged, result>>
    BY <1>7 DEF EmitAddress, EmitRest, EmitPages, SendMemoryShard, EndMemory
  <2>2. memory' = "ended" => memorySent' = Len(memoryShards')
    BY <1>7 DEF EmitAddress, EmitRest, EmitPages, SendMemoryShard, EndMemory
  <2> QED BY <2>1, <2>2, CompleteKept DEF CompleteInv
<1>8. CASE Return
  <2>1. /\ UNCHANGED <<executor, splicerVars, collector, memoryVars>>
        /\ result' = "ok" => memory = "ended"
    BY <1>8 DEF Return
  <2> QED BY <2>1, CompleteKept DEF CompleteInv, memoryVars
<1>9. CASE UNCHANGED vars
  BY <1>9, CompleteKept DEF CompleteInv, vars, memoryVars
<1> QED BY <1>1, <1>2, <1>3, <1>4, <1>5, <1>6, <1>7, <1>8, <1>9 DEF Next, Progress

(* The parts of the argument, together.                                    *)
LEMMA CompleteAlways == Spec => [](KillInv /\ ShardInv /\ CompleteInv)
<1>1. Init => CompleteInv
  <2> SUFFICES ASSUME Init PROVE CompleteInv
    OBVIOUS
  <2>1. /\ \A i \in Chunks : splicer[i] = "none" /\ thread[i] = "none"
        /\ channel = <<>> /\ merged = {} /\ memory = "merging" /\ collector = "running"
        /\ result = "running"
    BY DEF Init
  <2> QED BY <2>1, ChunksFacts DEF CompleteInv
<1>2. KillInv /\ ShardInv /\ CompleteInv /\ KillInv' /\ ShardInv' /\ [Next]_vars => CompleteInv'
  BY CompleteStep
<1> QED BY <1>1, <1>2, ShardAlways, PTL DEF Spec

(* An execution that returns its output has sent every shard of the        *)
(* program once, has merged what every chunk touched, and has sent every   *)
(* memory shard: no splicer's failure is lost because its carry had been   *)
(* handed on before.                                                       *)
THEOREM CompleteCorrect == Spec => []OkIsComplete
<1>1. KillInv /\ ShardInv /\ CompleteInv => OkIsComplete
  <2> SUFFICES ASSUME KillInv, ShardInv, CompleteInv, result = "ok"
               PROVE  /\ \A shard \in Reference : sent[shard] = 1
                      /\ merged = Chunks
                      /\ memorySent = Len(memoryShards)
    BY DEF OkIsComplete
  <2>1. memory = "ended" /\ executor = "ended" /\ collector = "ended" /\ channel = <<>>
    BY DEF CompleteInv
  <2>2. \A i \in Chunks : splicer[i] = "ended" /\ thread[i] = "ended" /\ Pending(i) = {}
    BY <2>1, AllEnded DEF CompleteInv
  <2>3. start[NumChunks] = ProgramEnd /\ Resumed(NumChunks)
    BY <2>2, ChunksFacts DEF CompleteInv, Resumed
  <2>4. ASSUME NEW shard \in Reference PROVE sent[shard] = 1
    <3>1. shard.start < ProgramEnd
      BY ReferenceFacts, ChunksFacts DEF AllShards
    <3>2. Cut(shard)
      BY <2>3, <3>1, ChunksFacts DEF Cut
    <3> QED BY <2>2, <3>2 DEF ShardInv, NoneLost
  <2>5. merged = Chunks
    <3>1. 1..Len(channel) = {}
      BY <2>1
    <3> QED BY <2>2, <3>1 DEF CompleteInv
  <2> QED BY <2>1, <2>4, <2>5 DEF CompleteInv
<1> QED BY <1>1, CompleteAlways, PTL

-----------------------------------------------------------------------------
(* The memory and page shards partition the addresses and the pages.       *)
(*                                                                         *)
(* The merge of bitmap and registers emits the least address left, so what *)
(* is left is above what was emitted (Emission), and the shards and the    *)
(* buffers after them list what was emitted.  The page shards are the      *)
(* chunks of the sorted pages.  The ranges differ because the last address *)
(* of a memory shard grows from shard to shard, the last page of a page    *)
(* shard too, and no memory shard starts and ends at the last address.     *)

(* The addresses or pages below x.                                         *)
Below(S, x) == {y \in S : y < x}

(* An element of a finite set of numbers is told by how many lie below it, *)
(* and there is one for each number up to the size of the set.             *)
LEMMA RankFacts ==
    ASSUME NEW S \in SUBSET Nat, IsFiniteSet(S)
    PROVE  /\ Cardinality(S) \in Nat
           /\ \A x \in S : Cardinality(Below(S, x)) \in 0..(Cardinality(S) - 1)
           /\ \A x, z \in S : x < z => Cardinality(Below(S, x)) < Cardinality(Below(S, z))
           /\ \A k \in 0..(Cardinality(S) - 1) : \E x \in S : Cardinality(Below(S, x)) = k
<1>1. Cardinality(S) \in Nat
  BY FS_CardinalityType
<1>2. ASSUME NEW x \in S
      PROVE  /\ IsFiniteSet(Below(S, x)) /\ Cardinality(Below(S, x)) \in Nat
             /\ Cardinality(Below(S, x)) < Cardinality(S)
  <2>1. Below(S, x) \in SUBSET S /\ x \notin Below(S, x)
    BY DEF Below
  <2>2. IsFiniteSet(Below(S, x)) /\ Cardinality(Below(S, x)) <= Cardinality(S)
        /\ Cardinality(S) # Cardinality(Below(S, x))
    BY <2>1, FS_Subset
  <2>3. Cardinality(Below(S, x)) \in Nat
    BY <2>2, FS_CardinalityType
  <2> QED BY <1>1, <2>2, <2>3
<1>3. ASSUME NEW x \in S, NEW z \in S, x < z
      PROVE  Cardinality(Below(S, x)) < Cardinality(Below(S, z))
  <2>0. \A y \in S : y \in Nat
    OBVIOUS
  <2>1. Below(S, x) \in SUBSET Below(S, z) /\ x \notin Below(S, x) /\ x \in Below(S, z)
    <3>1. \A y \in S : y < x => y < z
      BY <1>3, <2>0
    <3>2. ~(x < x)
      BY <2>0
    <3> QED BY <1>3, <3>1, <3>2 DEF Below
  <2>2. /\ Cardinality(Below(S, x)) <= Cardinality(Below(S, z))
        /\ Cardinality(Below(S, x)) # Cardinality(Below(S, z))
    BY <1>2, <2>1, FS_Subset
  <2> QED BY <1>2, <2>2
<1> DEFINE T == 0..(Cardinality(S) - 1)
           rank == [x \in S |-> Cardinality(Below(S, x))]
<1>4. \A x \in S : Cardinality(Below(S, x)) \in T
  BY <1>1, <1>2
<1>5. IsFiniteSet(T) /\ Cardinality(T) = Cardinality(S)
  <2>1. Cardinality(S) - 1 \in Int /\ 0 \in Int
    BY <1>1
  <2>2. /\ IsFiniteSet(T)
        /\ Cardinality(T) = IF 0 > Cardinality(S) - 1 THEN 0 ELSE (Cardinality(S) - 1) - 0 + 1
    BY <2>1, FS_Interval
  <2> QED BY <1>1, <2>2
<1>6. \A x, z \in S : Cardinality(Below(S, x)) = Cardinality(Below(S, z)) => x = z
  <2> SUFFICES ASSUME NEW x \in S, NEW z \in S, x # z
               PROVE  Cardinality(Below(S, x)) # Cardinality(Below(S, z))
    OBVIOUS
  <2>1. x < z \/ z < x
    OBVIOUS
  <2> QED BY <1>2, <1>3, <2>1
<1> HIDE DEF T
<1>7. rank \in Injection(S, T)
  BY <1>4, <1>6 DEF Injection, IsInjective
<1> HIDE DEF rank
<1>8. rank \in Surjection(S, T)
  BY <1>5, <1>7, FS_Injection
<1>9. \A k \in T : \E x \in S : Cardinality(Below(S, x)) = k
  BY <1>8 DEF Surjection, rank
<1> QED BY <1>1, <1>3, <1>4, <1>9 DEF T

(* Sorted lists the elements of a finite set in ascending order.           *)
LEMMA SortedFacts ==
    ASSUME NEW S \in SUBSET Nat, IsFiniteSet(S)
    PROVE  /\ Sorted(S) \in Seq(Nat) /\ Len(Sorted(S)) = Cardinality(S)
           /\ \A i \in 1..Len(Sorted(S)) : Sorted(S)[i] \in S
           /\ \A i, j \in 1..Len(Sorted(S)) : i < j => Sorted(S)[i] < Sorted(S)[j]
           /\ \A x \in S : \E i \in 1..Len(Sorted(S)) : Sorted(S)[i] = x
<1> DEFINE n == Cardinality(S)
           At(k) == CHOOSE x \in S : Cardinality(Below(S, x)) = k - 1
<1>1. n \in Nat
  BY RankFacts
<1>2. Sorted(S) = [k \in 1..n |-> At(k)]
  BY DEF Sorted, Below
<1>3. ASSUME NEW k \in 1..n PROVE At(k) \in S /\ Cardinality(Below(S, At(k))) = k - 1
  <2>1. k - 1 \in 0..(Cardinality(S) - 1)
    BY <1>1
  <2>2. \E x \in S : Cardinality(Below(S, x)) = k - 1
    BY <2>1, RankFacts
  <2> QED BY <2>2
<1> HIDE DEF At
<1>4. /\ Sorted(S) \in Seq(Nat) /\ Len(Sorted(S)) = n
      /\ \A i \in 1..n : Sorted(S)[i] = At(i)
  <2>1. \A k \in 1..n : At(k) \in Nat
    BY <1>3
  <2> HIDE DEF n
  <2> QED BY <1>1, <1>2, <2>1
<1>5. ASSUME NEW i \in 1..n, NEW j \in 1..n, i < j PROVE At(i) < At(j)
  <2>1. At(i) \in Nat /\ At(j) \in Nat
    BY <1>3
  <2>2. CASE At(i) = At(j)
    <3>1. i - 1 = j - 1
      BY <1>3, <2>2
    <3> QED BY <1>1, <1>5, <3>1
  <2>3. CASE At(j) < At(i)
    <3>1. j - 1 < i - 1
      BY <1>3, <2>3, RankFacts
    <3> QED BY <1>1, <1>5, <3>1
  <2> QED BY <2>1, <2>2, <2>3
<1>6. ASSUME NEW x \in S PROVE \E i \in 1..n : At(i) = x
  <2>1. Cardinality(Below(S, x)) \in 0..(n - 1)
    BY RankFacts
  <2>2. PICK i \in 1..n : Cardinality(Below(S, x)) = i - 1
    <3>1. Cardinality(Below(S, x)) + 1 \in 1..n
      BY <1>1, <2>1
    <3>2. Cardinality(Below(S, x)) = (Cardinality(Below(S, x)) + 1) - 1
      BY <1>1, <2>1
    <3> QED BY <3>1, <3>2
  <2>3. At(i) \in S /\ Cardinality(Below(S, At(i))) = Cardinality(Below(S, x))
    BY <1>3, <2>2
  <2>4. Cardinality(Below(S, x)) \in Nat /\ At(i) \in Nat /\ x \in Nat
    <3>1. Cardinality(Below(S, x)) \in Nat
      BY <1>1, <2>1
    <3>2. At(i) \in Nat /\ x \in Nat
      BY <2>3
    <3> QED BY <3>1, <3>2
  <2>5. ~(At(i) < x) /\ ~(x < At(i))
    BY <2>3, <2>4, RankFacts
  <2> QED BY <2>4, <2>5
<1> QED BY <1>3, <1>4, <1>5, <1>6

(* Min is what it says, of a set of numbers that is not empty.             *)
LEMMA MinFacts ==
    ASSUME NEW S \in SUBSET Nat, S # {}
    PROVE  Min(S) \in S /\ \A y \in S : Min(S) <= y
<1>1. PICK z \in S : TRUE
  OBVIOUS
<1> DEFINE T == {y \in S : y <= z}
<1>2. T \in SUBSET (0..z) /\ T \in SUBSET Nat /\ z \in T
  <2>1. \A y \in S : y \in Nat
    OBVIOUS
  <2>2. \A y \in S : y <= z => y \in 0..z
    BY <2>1
  <2>3. z <= z
    BY <2>1
  <2> QED BY <2>1, <2>2, <2>3, Zenon
<1>3. IsFiniteSet(0..z)
  BY FS_Interval
<1>4. IsFiniteSet(T)
  BY <1>2, <1>3, FS_Subset
<1> HIDE DEF T
<1>5. Cardinality(T) \in Nat /\ Cardinality(T) # 0
  BY <1>2, <1>4, FS_EmptySet, RankFacts
<1>6. PICK x \in T : Cardinality(Below(T, x)) = 0
  <2>1. 0 \in 0..(Cardinality(T) - 1)
    BY <1>5
  <2> QED BY <1>2, <1>4, <2>1, RankFacts
<1>7. Below(T, x) = {}
  <2>1. Below(T, x) \in SUBSET T
    BY DEF Below
  <2> QED BY <1>4, <1>6, <2>1, FS_Subset, FS_EmptySet
<1>8. \A y \in T : x <= y
  BY <1>2, <1>7 DEF Below
<1>9. x \in S /\ \A y \in S : x <= y
  BY <1>2, <1>8 DEF T
<1> QED BY <1>9 DEF Min

(* The lesser of two numbers.                                              *)
LEMMA LesserFacts ==
    ASSUME NEW a \in Nat, NEW b \in Nat
    PROVE  Min({a, b}) = IF a <= b THEN a ELSE b
<1>1. {a, b} \in SUBSET Nat /\ {a, b} # {}
  OBVIOUS
<1>2. Min({a, b}) \in {a, b} /\ \A y \in {a, b} : Min({a, b}) <= y
  BY <1>1, MinFacts
<1> QED BY <1>2

(* Chunk k of a sequence holds what follows the k - 1 chunks before it, up *)
(* to the threshold.                                                       *)
LEMMA ChunkFacts ==
    ASSUME NEW s \in Seq(Nat), NEW k \in Nat, k > 0
    PROVE  /\ ChunkOf(s, k) \in Seq(Nat) /\ Len(ChunkOf(s, k)) <= MemoryThreshold
           /\ \A i \in 1..Len(ChunkOf(s, k)) :
                 /\ (k - 1) * MemoryThreshold + i \in 1..Len(s)
                 /\ ChunkOf(s, k)[i] = s[(k - 1) * MemoryThreshold + i]
           /\ \A i \in 1..MemoryThreshold :
                 (k - 1) * MemoryThreshold + i \in 1..Len(s) => i \in 1..Len(ChunkOf(s, k))
<1> DEFINE T == MemoryThreshold
           lo == (k - 1) * T
           hi == IF lo + T <= Len(s) THEN lo + T ELSE Len(s)
           c == ChunkOf(s, k)
<1>1. T \in Nat /\ T > 0 /\ Len(s) \in Nat
  BY SizesAssumption
<1>2. lo \in Nat /\ k * T = lo + T
  <2>1. k - 1 \in Nat /\ (k - 1) + 1 = k
    OBVIOUS
  <2> QED BY <1>1, <2>1, TimesNext
<1> HIDE DEF lo
<1>3. hi \in Nat /\ hi <= Len(s) /\ hi <= lo + T
  BY <1>1, <1>2
<1>4. c = SubSeq(s, lo + 1, hi)
  <2>1. lo + T \in Nat
    BY <1>1, <1>2
  <2>2. Min({k * T, Len(s)}) = hi
    BY <1>1, <1>2, <2>1, LesserFacts
  <2> QED BY <2>2 DEF ChunkOf, lo
<1>5. \A i \in 1..Len(s) : s[i] \in Nat
  OBVIOUS
<1> HIDE DEF hi, c
<1>6. \A i \in (lo + 1)..hi : s[i] \in Nat
  BY <1>1, <1>2, <1>3, <1>5
<1>7. lo + 1 \in Int /\ hi \in Int
  BY <1>2, <1>3
<1>8. /\ c \in Seq(Nat)
      /\ Len(c) = IF lo + 1 <= hi THEN hi - (lo + 1) + 1 ELSE 0
      /\ \A i \in 1..(hi - (lo + 1) + 1) : c[i] = s[(lo + 1) + i - 1]
  BY <1>4, <1>6, <1>7, SubSeqProperties
<1>9. Len(c) <= T
  BY <1>1, <1>2, <1>3, <1>8
<1>10. ASSUME NEW i \in 1..Len(c) PROVE lo + i \in 1..Len(s) /\ c[i] = s[lo + i]
  <2>1. i \in 1..(hi - (lo + 1) + 1) /\ (lo + 1) + i - 1 = lo + i /\ lo + i \in 1..Len(s)
    BY <1>1, <1>2, <1>3, <1>8
  <2> QED BY <1>8, <2>1
<1>11. ASSUME NEW i \in 1..T, lo + i \in 1..Len(s) PROVE i \in 1..Len(c)
  BY <1>1, <1>2, <1>3, <1>8, <1>11 DEF hi
<1> QED BY <1>8, <1>9, <1>10, <1>11 DEF c, lo

(* The last element before chunk k, if there is one.                       *)
LEMMA BeforeFacts ==
    ASSUME NEW s \in Seq(Nat), NEW k \in Nat, k > 0
    PROVE  LET m == IF (k - 1) * MemoryThreshold <= Len(s)
                    THEN (k - 1) * MemoryThreshold ELSE Len(s)
           IN  m \in 0..Len(s) /\ BeforeChunk(s, k) = IF m = 0 THEN 0 ELSE s[m]
<1> DEFINE lo == (k - 1) * MemoryThreshold
           m == IF lo <= Len(s) THEN lo ELSE Len(s)
           c == SubSeq(s, 1, m)
<1>1. MemoryThreshold \in Nat /\ Len(s) \in Nat
  BY SizesAssumption
<1>2. lo \in Nat
  <2>1. k - 1 \in Nat
    OBVIOUS
  <2> QED BY <1>1, <2>1, TimesNext
<1> HIDE DEF lo
<1>3. m \in 0..Len(s)
  BY <1>1, <1>2
<1>4. BeforeChunk(s, k) = LastOr(c, 0)
  BY <1>1, <1>2, LesserFacts DEF BeforeChunk, lo
<1> HIDE DEF m
<1>5. \A i \in 1..m : s[i] \in Nat
  BY <1>1, <1>3
<1>6. m \in Int /\ 1 \in Int
  BY <1>3
<1>7. /\ c \in Seq(Nat) /\ Len(c) = IF 1 <= m THEN m - 1 + 1 ELSE 0
      /\ \A i \in 1..(m - 1 + 1) : c[i] = s[1 + i - 1]
  BY <1>5, <1>6, SubSeqProperties
<1> HIDE DEF c
<1>8. CASE m = 0
  <2>1. c = <<>>
    BY <1>7, <1>8
  <2> QED BY <1>3, <1>4, <1>8, <2>1 DEF LastOr, m, lo
<1>9. CASE m # 0
  <2>1. Len(c) = m /\ m \in 1..(m - 1 + 1) /\ 1 + m - 1 = m
    BY <1>3, <1>7, <1>9
  <2>2. c # <<>> /\ c[m] = s[m]
    BY <1>3, <1>7, <1>9, <2>1
  <2> QED BY <1>3, <1>4, <1>9, <2>1, <2>2 DEF LastOr, Last, m, lo
<1> QED BY <1>8, <1>9

(* How many chunks it takes: as many as hold the sequence, none empty.     *)
LEMMA ChunkCount ==
    ASSUME NEW length \in Nat
    PROVE  LET n == (length + MemoryThreshold - 1) \div MemoryThreshold IN
           /\ n \in Nat
           /\ length <= n * MemoryThreshold
           /\ \A k \in 1..n : (k - 1) * MemoryThreshold \in Nat
                              /\ (k - 1) * MemoryThreshold < length
                              /\ k * MemoryThreshold = (k - 1) * MemoryThreshold + MemoryThreshold
<1> DEFINE T == MemoryThreshold
           n == (length + T - 1) \div T
<1>1. T \in Nat /\ T > 0
  BY SizesAssumption
<1>2. length + T - 1 \in Nat
  BY <1>1
<1>3. n \in Nat /\ n * T <= length + T - 1 /\ length + T - 1 < n * T + T
  BY <1>1, <1>2, DivFacts
<1> HIDE DEF n
<1>4. n * T \in Nat
  BY <1>1, <1>3, TimesNext
<1>5. length <= n * T
  BY <1>1, <1>3, <1>4
<1>6. ASSUME NEW k \in 1..n
      PROVE (k - 1) * T \in Nat /\ (k - 1) * T < length /\ k * T = (k - 1) * T + T
  <2>1. k - 1 \in Nat /\ k - 1 < n /\ (k - 1) + 1 = k
    BY <1>3
  <2>2. (k - 1) * T \in Nat /\ k * T = (k - 1) * T + T
    BY <1>1, <2>1, TimesNext
  <2>3. (k - 1) * T + T <= n * T
    BY <1>1, <1>3, <2>1, TimesMonotone
  <2> QED BY <1>1, <1>3, <1>4, <2>2, <2>3
<1> QED BY <1>3, <1>5, <1>6 DEF n

(* The chunks of a sorted sequence list its elements.                      *)
LEMMA ChunksList ==
    ASSUME NEW S \in SUBSET Nat, IsFiniteSet(S), NEW n \in Nat, NEW N \in Nat, NEW seqs,
           \A k \in 1..N : seqs[n + k] = ChunkOf(Sorted(S), k),
           Cardinality(S) <= N * MemoryThreshold
    PROVE  Lists(seqs, (n + 1)..(n + N), S)
<1> DEFINE T == MemoryThreshold
           s == Sorted(S)
<1>1. T \in Nat /\ T > 0
  BY SizesAssumption
<1>2. /\ s \in Seq(Nat) /\ Len(s) \in Nat /\ Len(s) <= N * T
      /\ \A i \in 1..Len(s) : s[i] \in S
      /\ \A i, j \in 1..Len(s) : i < j => s[i] < s[j]
      /\ \A x \in S : \E i \in 1..Len(s) : s[i] = x
  BY SortedFacts
<1> HIDE DEF s
<1>3. \A k \in (n + 1)..(n + N) : k - n \in 1..N /\ n + (k - n) = k
  OBVIOUS
<1>4. ASSUME NEW k \in (n + 1)..(n + N)
      PROVE  /\ k - n \in Nat /\ k - n > 0 /\ (k - n) - 1 \in Nat /\ (k - n - 1) * T \in Nat
             /\ DOMAIN seqs[k] = 1..Len(seqs[k])
             /\ \A i \in 1..Len(seqs[k]) :
                   /\ i \in 1..T
                   /\ (k - n - 1) * T + i \in 1..Len(s)
                   /\ seqs[k][i] = s[(k - n - 1) * T + i]
             /\ \A i \in 1..T : (k - n - 1) * T + i \in 1..Len(s) => i \in 1..Len(seqs[k])
  <2>1. k - n \in 1..N /\ n + (k - n) = k
    BY <1>3
  <2>2. seqs[k] = ChunkOf(s, k - n)
    BY <2>1 DEF s
  <2>3. k - n \in Nat /\ k - n > 0 /\ (k - n) - 1 \in Nat
    BY <2>1
  <2>4. (k - n - 1) * T \in Nat
    BY <1>1, <2>3, TimesNext
  <2>5. /\ seqs[k] \in Seq(Nat) /\ Len(seqs[k]) <= T
        /\ \A i \in 1..Len(seqs[k]) :
              /\ (k - n - 1) * T + i \in 1..Len(s)
              /\ seqs[k][i] = s[(k - n - 1) * T + i]
        /\ \A i \in 1..T : (k - n - 1) * T + i \in 1..Len(s) => i \in 1..Len(seqs[k])
    <3> DEFINE c == k - n
    <3>1. c \in Nat /\ c > 0 /\ seqs[k] = ChunkOf(s, c)
      BY <2>2, <2>3
    <3> HIDE DEF c
    <3>2. /\ seqs[k] \in Seq(Nat) /\ Len(seqs[k]) <= T
          /\ \A i \in 1..Len(seqs[k]) : (c - 1) * T + i \in 1..Len(s) /\ seqs[k][i] = s[(c - 1) * T + i]
          /\ \A i \in 1..T : (c - 1) * T + i \in 1..Len(s) => i \in 1..Len(seqs[k])
      BY <1>2, <3>1, ChunkFacts
    <3> QED BY <3>2 DEF c
  <2>6. Len(seqs[k]) \in Nat /\ DOMAIN seqs[k] = 1..Len(seqs[k])
    BY <2>5
  <2>7. \A i \in 1..Len(seqs[k]) : i \in 1..T
    BY <1>1, <2>5, <2>6
  <2> QED BY <2>3, <2>4, <2>5, <2>6, <2>7
<1>5. ASSUME NEW x \in S
      PROVE  \E k \in (n + 1)..(n + N) : \E i \in DOMAIN seqs[k] : seqs[k][i] = x
  <2>1. PICK m \in 1..Len(s) : s[m] = x
    BY <1>2
  <2> DEFINE q == (m - 1) \div T
             i == (m - 1) - q * T + 1
  <2>2. m - 1 \in Nat /\ m \in Nat /\ m <= Len(s)
    BY <1>2
  <2>3. q \in Nat /\ q * T <= m - 1 /\ m - 1 < q * T + T
    BY <1>1, <2>2, DivFacts
  <2> HIDE DEF q
  <2>4. q * T \in Nat /\ N * T \in Nat
    BY <1>1, <2>3, TimesNext
  <2>5. q < N
    <3> SUFFICES ASSUME N <= q PROVE FALSE
      BY <2>3
    <3>1. N * T <= q * T
      <4>1. CASE N = q
        BY <2>4, <4>1
      <4>2. CASE N < q
        <5>1. N * T + T <= q * T
          BY <1>1, <2>3, <4>2, TimesMonotone
        <5> QED BY <1>1, <2>4, <5>1
      <4> QED BY <2>3, <4>1, <4>2
    <3> QED BY <1>2, <2>2, <2>3, <2>4, <3>1
  <2>6. n + q + 1 \in (n + 1)..(n + N) /\ (n + q + 1) - n - 1 = q
    BY <2>3, <2>5
  <2>7. i \in 1..T /\ q * T + i = m
    BY <1>1, <2>2, <2>3, <2>4
  <2>8. i \in 1..Len(seqs[n + q + 1]) /\ seqs[n + q + 1][i] = s[m]
    <3> DEFINE k == n + q + 1
    <3>1. k \in (n + 1)..(n + N) /\ (k - n - 1) * T = q * T
      BY <2>6
    <3> HIDE DEF k
    <3>2. i \in 1..T /\ (k - n - 1) * T + i = m
      BY <2>7, <3>1
    <3> HIDE DEF i
    <3> QED BY <1>4, <3>1, <3>2 DEF k
  <2> QED BY <1>4, <2>1, <2>6, <2>8
<1>6. ASSUME NEW k \in (n + 1)..(n + N), NEW l \in (n + 1)..(n + N),
             NEW i \in DOMAIN seqs[k], NEW j \in DOMAIN seqs[l], k < l \/ (k = l /\ i < j)
      PROVE  seqs[k][i] < seqs[l][j]
  <2>0. i \in 1..Len(seqs[k]) /\ j \in 1..Len(seqs[l])
    BY <1>4
  <2>1. /\ i \in 1..T /\ j \in 1..T
        /\ (k - n - 1) * T + i \in 1..Len(s) /\ seqs[k][i] = s[(k - n - 1) * T + i]
        /\ (l - n - 1) * T + j \in 1..Len(s) /\ seqs[l][j] = s[(l - n - 1) * T + j]
        /\ (k - n - 1) * T \in Nat /\ (l - n - 1) * T \in Nat
    BY <1>4, <2>0
  <2>2. (k - n - 1) * T + i < (l - n - 1) * T + j
    <3>1. CASE k = l /\ i < j
      BY <1>1, <2>1, <3>1
    <3>2. CASE k < l
      <4>1. k - n - 1 \in Nat /\ l - n - 1 \in Nat /\ k - n - 1 < l - n - 1
        <5>1. k \in Int /\ l \in Int /\ k >= n + 1 /\ l >= n + 1
          OBVIOUS
        <5> QED BY <3>2, <5>1
      <4>2. (k - n - 1) * T + T <= (l - n - 1) * T
        BY <1>1, <4>1, TimesMonotone
      <4>3. ASSUME NEW a \in Nat, NEW b \in Nat, a + T <= b PROVE a + i < b + j
        BY <1>1, <2>1, <4>3
      <4> QED BY <2>1, <4>2, <4>3, Zenon
    <3> QED BY <1>6, <3>1, <3>2
  <2> QED BY <1>2, <2>1, <2>2
<1>7. ASSUME NEW k \in (n + 1)..(n + N), NEW i \in DOMAIN seqs[k] PROVE seqs[k][i] \in S
  BY <1>2, <1>4
<1> QED BY <1>5, <1>6, <1>7 DEF Lists

(* Lists does not depend on sequences that are not asked for.              *)
LEMMA ListsSame ==
    ASSUME NEW K, NEW set, NEW s, NEW t, \A k \in K : s[k] = t[k], Lists(s, K, set)
    PROVE  Lists(t, K, set)
BY DEF Lists

(* A greater element at the end of the last sequence.                      *)
LEMMA ListsExtend ==
    ASSUME NEW n \in Nat, NEW s, NEW t, NEW set \in SUBSET Nat, NEW a \in Nat,
           \A k \in 1..(n + 1) : s[k] \in Seq(Nat),
           Lists(s, 1..(n + 1), set),
           \A x \in set : x < a,
           \A k \in 1..n : t[k] = s[k],
           t[n + 1] = Append(s[n + 1], a)
    PROVE  Lists(t, 1..(n + 1), set \cup {a})
<1> DEFINE m == Len(s[n + 1])
<1>0. n + 1 \in 1..(n + 1) /\ \A k \in 1..(n + 1) : k = n + 1 \/ k \in 1..n
  OBVIOUS
<1>1. /\ m \in Nat /\ DOMAIN s[n + 1] = 1..m /\ DOMAIN t[n + 1] = 1..(m + 1)
      /\ \A i \in 1..m : t[n + 1][i] = s[n + 1][i]
      /\ t[n + 1][m + 1] = a
      /\ \A i \in 1..(m + 1) : i = m + 1 \/ i \in 1..m
      /\ \A i \in 1..m : i \in 1..(m + 1)
  BY <1>0
<1> HIDE DEF m
<1>2. \A k \in 1..(n + 1) : \A i \in DOMAIN s[k] : i \in DOMAIN t[k] /\ t[k][i] = s[k][i]
  BY <1>0, <1>1
<1>3. \A k \in 1..(n + 1) : \A i \in DOMAIN t[k] :
          (i \in DOMAIN s[k] /\ t[k][i] = s[k][i]) \/ (k = n + 1 /\ i = m + 1 /\ t[k][i] = a)
  BY <1>0, <1>1
<1>4. ASSUME NEW x \in set \cup {a}
      PROVE  \E k \in 1..(n + 1) : \E i \in DOMAIN t[k] : t[k][i] = x
  <2>1. CASE x = a
    <3>1. m + 1 \in DOMAIN t[n + 1]
      BY <1>1
    <3> QED BY <1>0, <1>1, <2>1, <3>1
  <2>2. CASE x \in set
    <3>1. PICK k \in 1..(n + 1) : \E i \in DOMAIN s[k] : s[k][i] = x
      BY <2>2 DEF Lists
    <3> QED BY <1>2, <3>1
  <2> QED BY <2>1, <2>2
<1>5. \A k \in 1..(n + 1) : \A i \in DOMAIN t[k] : t[k][i] \in set \cup {a}
  BY <1>3 DEF Lists
<1>6. ASSUME NEW k \in 1..(n + 1), NEW l \in 1..(n + 1),
             NEW i \in DOMAIN t[k], NEW j \in DOMAIN t[l], k < l \/ (k = l /\ i < j)
      PROVE  t[k][i] < t[l][j]
  <2>1. CASE i \in DOMAIN s[k] /\ t[k][i] = s[k][i]
    <3>1. CASE j \in DOMAIN s[l] /\ t[l][j] = s[l][j]
      BY <1>6, <2>1, <3>1 DEF Lists
    <3>2. CASE t[l][j] = a
      BY <2>1, <3>2 DEF Lists
    <3> QED BY <1>3, <3>1, <3>2
  <2>2. CASE k = n + 1 /\ i = m + 1
    <3>1. l = n + 1 /\ i < j
      BY <1>6, <2>2
    <3>2. j \in 1..(m + 1)
      BY <1>1, <3>1
    <3> QED BY <1>1, <2>2, <3>1, <3>2
  <2> QED BY <1>3, <2>1, <2>2
<1> QED BY <1>4, <1>5, <1>6 DEF Lists

(* An empty sequence at the end adds nothing.                              *)
LEMMA ListsEmpty ==
    ASSUME NEW n \in Nat, NEW s, NEW t, NEW set,
           \A k \in 1..n : t[k] = s[k],
           t[n + 1] = <<>>
    PROVE  Lists(s, 1..n, set) <=> Lists(t, 1..(n + 1), set)
<1>1. DOMAIN t[n + 1] = {}
  OBVIOUS
<1>2. /\ \A k \in 1..(n + 1) : k = n + 1 \/ k \in 1..n
      /\ \A k \in 1..n : k \in 1..(n + 1)
  OBVIOUS
<1>3. ASSUME Lists(s, 1..n, set) PROVE Lists(t, 1..(n + 1), set)
  <2>1. \A x \in set : \E k \in 1..(n + 1) : \E i \in DOMAIN t[k] : t[k][i] = x
    BY <1>2, <1>3 DEF Lists
  <2>2. \A k \in 1..(n + 1) : \A i \in DOMAIN t[k] : t[k][i] \in set
    BY <1>1, <1>2, <1>3 DEF Lists
  <2>3. ASSUME NEW k \in 1..(n + 1), NEW l \in 1..(n + 1),
               NEW i \in DOMAIN t[k], NEW j \in DOMAIN t[l], k < l \/ (k = l /\ i < j)
        PROVE  t[k][i] < t[l][j]
    <3>1. k \in 1..n /\ l \in 1..n
      BY <1>1, <1>2
    <3> QED BY <1>3, <2>3, <3>1 DEF Lists
  <2> QED BY <2>1, <2>2, <2>3 DEF Lists
<1>4. ASSUME Lists(t, 1..(n + 1), set) PROVE Lists(s, 1..n, set)
  <2>1. \A x \in set : \E k \in 1..n : \E i \in DOMAIN s[k] : s[k][i] = x
    <3> SUFFICES ASSUME NEW x \in set PROVE \E k \in 1..n : \E i \in DOMAIN s[k] : s[k][i] = x
      OBVIOUS
    <3>1. PICK k \in 1..(n + 1) : \E i \in DOMAIN t[k] : t[k][i] = x
      BY <1>4 DEF Lists
    <3>2. k \in 1..n
      BY <1>1, <1>2, <3>1
    <3> QED BY <3>1, <3>2
  <2>2. \A k \in 1..n : \A i \in DOMAIN s[k] : s[k][i] \in set
    BY <1>2, <1>4 DEF Lists
  <2>3. ASSUME NEW k \in 1..n, NEW l \in 1..n,
               NEW i \in DOMAIN s[k], NEW j \in DOMAIN s[l], k < l \/ (k = l /\ i < j)
        PROVE  s[k][i] < s[l][j]
    <3>1. k \in 1..(n + 1) /\ l \in 1..(n + 1) /\ i \in DOMAIN t[k] /\ j \in DOMAIN t[l]
      BY <1>2
    <3>2. t[k][i] < t[l][j]
      BY <1>4, <2>3, <3>1 DEF Lists
    <3> QED BY <3>2
  <2> QED BY <2>1, <2>2, <2>3 DEF Lists
<1> QED BY <1>3, <1>4

-----------------------------------------------------------------------------
(* Where a shard's ranges start or end, and a shard.                       *)
Mark == [init : Nat, final : Nat, initPage : Nat, finalPage : Nat]
MemoryShard == [init : Seq(Nat), final : Seq(Nat), from : Mark, to : Mark]
Origin == [init |-> 0, final |-> 0, initPage |-> 0, finalPage |-> 0]

(* Memory shards, none empty, none too long, each from where the one       *)
(* before it ends to its last address.                                     *)
InARow(shards) ==
    \A k \in 1..Len(shards) :
        /\ Len(shards[k].init) <= MemoryThreshold
        /\ Len(shards[k].final) > 0 /\ Len(shards[k].final) <= MemoryThreshold
        /\ shards[k].from = IF k = 1 THEN Origin ELSE shards[k - 1].to
        /\ shards[k].to.final = shards[k].final[Len(shards[k].final)]
        /\ shards[k].to.initPage = 0 /\ shards[k].to.finalPage = 0

(* Previous is where the last shard ends.                                  *)
LEMMA PreviousFacts ==
    ASSUME memoryShards \in Seq(MemoryShard), InARow(memoryShards)
    PROVE  /\ Previous \in Mark /\ Previous.initPage = 0 /\ Previous.finalPage = 0
           /\ Previous = IF Len(memoryShards) = 0 THEN Origin
                         ELSE memoryShards[Len(memoryShards)].to
<1>1. CASE memoryShards = <<>>
  BY <1>1 DEF Previous, Mark, Origin
<1>2. CASE memoryShards # <<>>
  <2>1. Len(memoryShards) \in 1..Len(memoryShards) /\ Len(memoryShards) # 0
    BY <1>2
  <2>2. Previous = memoryShards[Len(memoryShards)].to
    BY <1>2 DEF Previous, Last
  <2>3. memoryShards[Len(memoryShards)] \in MemoryShard
    BY <2>1
  <2> QED BY <2>1, <2>2, <2>3 DEF InARow, MemoryShard
<1> QED BY <1>1, <1>2

(* flush_memory_shard! makes the next shard of the row.                    *)
LEMMA FlushFacts ==
    ASSUME memoryShards \in Seq(MemoryShard), InARow(memoryShards),
           NEW init \in Seq(Nat), NEW final \in Seq(Nat), Len(final) > 0,
           Len(init) <= MemoryThreshold, Len(final) <= MemoryThreshold
    PROVE  LET shards == FlushMemoryShard(init, final) IN
           /\ shards \in Seq(MemoryShard) /\ InARow(shards)
           /\ Len(shards) = Len(memoryShards) + 1
           /\ \A k \in 1..Len(memoryShards) : shards[k] = memoryShards[k]
           /\ shards[Len(memoryShards) + 1].init = init
           /\ shards[Len(memoryShards) + 1].final = final
<1> DEFINE to == [Previous EXCEPT !.init = LastOr(init, @), !.final = LastOr(final, @)]
           new == [init |-> init, final |-> final, from |-> Previous, to |-> to]
           shards == FlushMemoryShard(init, final)
           n == Len(memoryShards)
<1>1. /\ Previous \in Mark /\ Previous.initPage = 0 /\ Previous.finalPage = 0
      /\ Previous = IF n = 0 THEN Origin ELSE memoryShards[n].to
  BY PreviousFacts
<1>2. \A d \in Nat : LastOr(init, d) \in Nat /\ LastOr(final, d) = final[Len(final)]
                     /\ final[Len(final)] \in Nat
  BY DEF LastOr, Last
<1>3. /\ to \in Mark /\ to.final = final[Len(final)] /\ to.initPage = 0 /\ to.finalPage = 0
  <2>1. Previous.init \in Nat /\ Previous.final \in Nat
    BY <1>1 DEF Mark
  <2>2. /\ LastOr(init, Previous.init) \in Nat /\ final[Len(final)] \in Nat
        /\ LastOr(final, Previous.final) = final[Len(final)]
    BY <1>2, <2>1
  <2>3. to = [Previous EXCEPT !.init = LastOr(init, Previous.init), !.final = final[Len(final)]]
    BY <1>1, <2>2 DEF Mark
  <2>4. \E prev \in Mark, a \in Nat, b \in Nat :
            /\ to = [prev EXCEPT !.init = a, !.final = b]
            /\ prev.initPage = 0 /\ prev.finalPage = 0 /\ b = final[Len(final)]
    BY <1>1, <2>2, <2>3
  <2> HIDE DEF to
  <2>5. PICK prev \in Mark, a \in Nat, b \in Nat :
            /\ to = [prev EXCEPT !.init = a, !.final = b]
            /\ prev.initPage = 0 /\ prev.finalPage = 0 /\ b = final[Len(final)]
    BY <2>4
  <2>6. /\ [prev EXCEPT !.init = a, !.final = b] \in Mark
        /\ [prev EXCEPT !.init = a, !.final = b].final = b
        /\ [prev EXCEPT !.init = a, !.final = b].initPage = prev.initPage
        /\ [prev EXCEPT !.init = a, !.final = b].finalPage = prev.finalPage
    BY DEF Mark
  <2>7. to \in Mark
    BY <2>5, <2>6, Zenon
  <2>8. /\ to.final = b /\ to.initPage = prev.initPage /\ to.finalPage = prev.finalPage
    BY <2>5, <2>6, Zenon
  <2> QED BY <2>5, <2>7, <2>8
<1> HIDE DEF to
<1>4. new \in MemoryShard
  BY <1>1, <1>3 DEF MemoryShard
<1>5. shards = Append(memoryShards, new)
  BY DEF FlushMemoryShard, to
<1>6. /\ new.init = init /\ new.final = final /\ new.from = Previous /\ new.to = to
  OBVIOUS
<1> HIDE DEF new, shards
<1>7. /\ shards \in Seq(MemoryShard) /\ Len(shards) = n + 1 /\ n \in Nat
      /\ \A k \in 1..n : shards[k] = memoryShards[k]
      /\ shards[n + 1] = new
  BY <1>4, <1>5
<1>8. ASSUME NEW k \in 1..(n + 1)
      PROVE  /\ Len(shards[k].init) <= MemoryThreshold
             /\ Len(shards[k].final) > 0 /\ Len(shards[k].final) <= MemoryThreshold
             /\ shards[k].from = IF k = 1 THEN Origin ELSE shards[k - 1].to
             /\ shards[k].to.final = shards[k].final[Len(shards[k].final)]
             /\ shards[k].to.initPage = 0 /\ shards[k].to.finalPage = 0
  <2>1. CASE k \in 1..n
    <3>1. k # 1 => k - 1 \in 1..n
      BY <1>7, <2>1
    <3>2. /\ shards[k] = memoryShards[k]
          /\ k # 1 => shards[k - 1] = memoryShards[k - 1]
      BY <1>7, <2>1, <3>1
    <3> HIDE DEF n
    <3> QED BY <2>1, <3>2 DEF InARow, n
  <2>2. CASE k = n + 1
    <3>0. n \in Nat
      BY <1>7
    <3> HIDE DEF n
    <3>1. shards[k] = new /\ (k = 1 <=> n = 0) /\ k - 1 = n
      BY <1>7, <2>2, <3>0
    <3>2. n # 0 => shards[n] = memoryShards[n]
      <4>1. n # 0 => n \in 1..n
        BY <3>0
      <4> QED BY <1>7, <4>1
    <3> QED BY <1>1, <1>3, <1>6, <3>1, <3>2
  <2> QED BY <1>7, <2>1, <2>2
<1>9. InARow(shards)
  BY <1>7, <1>8 DEF InARow
<1> QED BY <1>6, <1>7, <1>9 DEF shards

(* What the shards finalize and initialize, and after them the buffers.    *)
FinalsOf(shards, last) ==
    [k \in 1..(Len(shards) + 1) |-> IF k <= Len(shards) THEN shards[k].final ELSE last]
InitsOf(shards, last) ==
    [k \in 1..(Len(shards) + 1) |-> IF k <= Len(shards) THEN shards[k].init ELSE last]

Left == left.bits \cup left.registers

(* In the middle of the merge: what is left is above what was emitted, and *)
(* is a register where it was one from the start.                          *)
Emission ==
    /\ Left \subseteq AllAddresses
    /\ left.registers = Left \cap plan.registers
    /\ \A x \in AllAddresses \ Left : \A y \in Left : x < y
    /\ Lists(FinalsOf(memoryShards, finalBuffer), 1..(Len(memoryShards) + 1),
             AllAddresses \ Left)
    /\ Lists(InitsOf(memoryShards, initBuffer), 1..(Len(memoryShards) + 1),
             (AllAddresses \ Left) \ (plan.image \ plan.registers))

MemoryTypes ==
    /\ memoryShards \in Seq(MemoryShard)
    /\ initBuffer \in Seq(Nat) /\ finalBuffer \in Seq(Nat)
    /\ Len(initBuffer) <= Len(finalBuffer) /\ Len(finalBuffer) < MemoryThreshold
    /\ memorySent \in 0..Len(memoryShards)
    /\ left \in [bits : SUBSET Nat, registers : SUBSET Nat]

MemoryInv ==
    /\ MemoryTypes
    /\ memory = "merging" => memoryShards = <<>> /\ initBuffer = <<>> /\ finalBuffer = <<>>
    /\ memory \in {"emitting", "pages", "emitted"} => plan \in MemoryPlans
    /\ memory \in {"emitting", "pages"} => InARow(memoryShards)
    /\ memory = "emitting" => Emission
    /\ memory = "pages" =>
          Covers(1..Len(memoryShards), AllAddresses, plan.image \ plan.registers)
    /\ MemoryShardsPartition

(* The fields of a shard.                                                  *)
LEMMA ShardFields ==
    ASSUME NEW shards \in Seq(MemoryShard), NEW k \in 1..Len(shards)
    PROVE  /\ shards[k].init \in Seq(Nat) /\ shards[k].final \in Seq(Nat)
           /\ shards[k].from \in Mark /\ shards[k].to \in Mark
<1>1. shards[k] \in MemoryShard
  OBVIOUS
<1> QED BY <1>1 DEF MemoryShard

(* The addresses are numbers.                                              *)
LEMMA AddressFacts ==
    ASSUME plan \in MemoryPlans
    PROVE  AllAddresses \in SUBSET Nat /\ \E a \in AllAddresses : a > 0
<1>1. /\ plan \in [hints : SUBSET Nat, image : SUBSET Nat, registers : SUBSET Nat]
      /\ \E a \in plan.image : a > 0
      /\ \A i \in Chunks : TouchedBy[i] \in SUBSET Nat
  BY MemoryAssumption
<1>2. plan.hints \in SUBSET Nat /\ plan.image \in SUBSET Nat /\ plan.registers \in SUBSET Nat
  BY <1>1
<1>3. UNION {TouchedBy[i] : i \in Chunks} \in SUBSET Nat
  BY <1>1
<1>4. AllAddresses \in SUBSET Nat
  <2> DEFINE U == UNION {TouchedBy[i] : i \in Chunks}
  <2> HIDE DEF U
  <2>1. AllAddresses = U \cup plan.hints \cup plan.image \cup plan.registers
    BY DEF AllAddresses, U
  <2> QED BY <1>2, <1>3, <2>1 DEF U
<1> QED BY <1>1, <1>4 DEF AllAddresses

(* The next address is the least of those left, and one of a register when *)
(* it is a register's.                                                     *)
LEMMA NextAddress ==
    ASSUME left.bits \in SUBSET Nat, left.registers \in SUBSET Nat, Left # {},
           NEW a, a = IF UseRegister THEN Min(left.registers) ELSE Min(left.bits)
    PROVE  /\ a \in Left /\ \A y \in Left : a <= y
           /\ UseRegister <=> a \in left.registers
<1> DEFINE B == left.bits
           R == left.registers
<1>1. /\ B # {} => Min(B) \in B /\ \A y \in B : Min(B) <= y
      /\ R # {} => Min(R) \in R /\ \A y \in R : Min(R) <= y
  BY MinFacts
<1>2. /\ \A x \in B : x \in Nat
      /\ \A x \in R : x \in Nat
      /\ Left = B \cup R
  BY DEF Left
<1>3. UseRegister <=> R # {} /\ (B # {} => Min(R) <= Min(B))
  BY DEF UseRegister
<1> HIDE DEF B, R
<1>4. CASE UseRegister
  <2>1. R # {} /\ a = Min(R) /\ (B # {} => a <= Min(B))
    BY <1>3, <1>4 DEF R, B
  <2>2. a \in R /\ a \in Nat /\ \A y \in R : a <= y
    BY <1>1, <1>2, <2>1
  <2>3. \A y \in B : a <= y
    BY <1>1, <1>2, <2>1, <2>2
  <2> QED BY <1>2, <1>4, <2>2, <2>3 DEF R
<1>5. CASE ~UseRegister
  <2>1. a = Min(B) /\ (R = {} \/ (B # {} /\ ~(Min(R) <= Min(B))))
    BY <1>3, <1>5 DEF R, B
  <2>2. B # {}
    BY <1>2, <2>1
  <2>3. a \in B /\ a \in Nat /\ \A y \in B : a <= y
    BY <1>1, <1>2, <2>1, <2>2
  <2>4. \A y \in R : a < y
    BY <1>1, <1>2, <2>1, <2>3
  <2>5. a \notin R
    BY <2>3, <2>4
  <2> QED BY <1>2, <1>5, <2>3, <2>4, <2>5 DEF R
<1> QED BY <1>4, <1>5

(* The step keeps the merge.                                               *)
LEMMA MemoryEmit ==
    ASSUME MemoryInv, EmitAddress
    PROVE  MemoryInv'
<1> DEFINE a == IF UseRegister THEN Min(left.registers) ELSE Min(left.bits)
           init == IF UseRegister \/ a \notin plan.image
                   THEN Append(initBuffer, a) ELSE initBuffer
           final == Append(finalBuffer, a)
           full == Len(init) >= MemoryThreshold \/ Len(final) >= MemoryThreshold
           n == Len(memoryShards)
           E == AllAddresses \ Left
           I == plan.image \ plan.registers
<1>1. /\ memory = "emitting" /\ (left.bits # {} \/ left.registers # {})
      /\ left' = IF UseRegister
                 THEN [bits |-> left.bits \ {a}, registers |-> left.registers \ {a}]
                 ELSE [left EXCEPT !.bits = @ \ {a}]
      /\ initBuffer' = IF full THEN <<>> ELSE init
      /\ finalBuffer' = IF full THEN <<>> ELSE final
      /\ memoryShards' = IF full THEN FlushMemoryShard(init, final) ELSE memoryShards
      /\ UNCHANGED <<memory, plan, memorySent>>
  BY DEF EmitAddress
<1>2. /\ memoryShards \in Seq(MemoryShard) /\ InARow(memoryShards) /\ n \in Nat
      /\ initBuffer \in Seq(Nat) /\ finalBuffer \in Seq(Nat)
      /\ Len(initBuffer) <= Len(finalBuffer) /\ Len(finalBuffer) < MemoryThreshold
      /\ memorySent \in 0..n /\ Emission /\ plan \in MemoryPlans
      /\ left \in [bits : SUBSET Nat, registers : SUBSET Nat]
      /\ MemoryThreshold \in Nat
  BY <1>1, SizesAssumption DEF MemoryInv, MemoryTypes
<1>3. /\ a \in Left /\ (\A y \in Left : a <= y)
      /\ UseRegister <=> a \in left.registers
  BY <1>1, <1>2, NextAddress DEF Left
<1>4. /\ left' \in [bits : SUBSET Nat, registers : SUBSET Nat]
      /\ left'.bits = left.bits \ {a} /\ left'.registers = left.registers \ {a}
  BY <1>1, <1>2, <1>3
<1> HIDE DEF a
<1>5. /\ Left' = Left \ {a}
      /\ Left' \cap plan.registers = left'.registers
  BY <1>2, <1>4 DEF Left, Emission
<1>6. /\ AllAddresses' = AllAddresses /\ AllAddresses \in SUBSET Nat
      /\ a \in AllAddresses /\ a \in Nat
  BY <1>1, <1>2, <1>3, AddressFacts DEF AllAddresses, Emission
<1>7. /\ AllAddresses \ Left' = E \cup {a} /\ (\A x \in E : x < a)
      /\ Left' \subseteq AllAddresses
  BY <1>2, <1>3, <1>5, <1>6 DEF Emission
<1>8. \A x \in AllAddresses \ Left' : \A y \in Left' : x < y
  <2>1. ASSUME NEW y \in Left' PROVE a < y
    <3>1. y \in Left /\ y # a /\ y \in Nat
      BY <1>5, <1>6, <1>7
    <3> QED BY <1>3, <1>6, <3>1
  <2>2. \A x \in E : \A y \in Left' : x < y
    BY <1>2, <1>5 DEF Emission
  <2> QED BY <1>7, <2>1, <2>2
<1>9. /\ final \in Seq(Nat) /\ Len(final) = Len(finalBuffer) + 1 /\ Len(final) \in Nat
      /\ init \in Seq(Nat) /\ Len(init) <= Len(final) /\ Len(init) \in Nat
  BY <1>2, <1>6
<1>10. Lists(FinalsOf(memoryShards, final), 1..(n + 1), AllAddresses \ Left')
  <2> DEFINE s == FinalsOf(memoryShards, finalBuffer)
             t == FinalsOf(memoryShards, final)
  <2>1. \A k \in 1..(n + 1) : s[k] \in Seq(Nat)
    <3>1. \A k \in 1..n : memoryShards[k].final \in Seq(Nat)
      BY <1>2, ShardFields
    <3> QED BY <1>2, <3>1 DEF FinalsOf
  <2>2. Lists(s, 1..(n + 1), E)
    BY <1>2 DEF Emission
  <2>3. (\A k \in 1..n : t[k] = s[k]) /\ t[n + 1] = Append(s[n + 1], a)
    BY <1>2 DEF FinalsOf
  <2>4. E \in SUBSET Nat
    BY <1>6
  <2> HIDE DEF s, t, E
  <2>5. Lists(t, 1..(n + 1), E \cup {a})
    BY <1>2, <1>6, <1>7, <2>1, <2>2, <2>3, <2>4, ListsExtend
  <2> QED BY <1>7, <2>5 DEF t
<1>11. Lists(InitsOf(memoryShards, init), 1..(n + 1), (AllAddresses \ Left') \ I)
  <2> DEFINE s == InitsOf(memoryShards, initBuffer)
             t == InitsOf(memoryShards, init)
  <2>1. \A k \in 1..(n + 1) : s[k] \in Seq(Nat)
    <3>1. \A k \in 1..n : memoryShards[k].init \in Seq(Nat)
      BY <1>2, ShardFields
    <3> QED BY <1>2, <3>1 DEF InitsOf
  <2>2. Lists(s, 1..(n + 1), E \ I)
    BY <1>2 DEF Emission
  <2>3. a \in left.registers <=> a \in plan.registers
    BY <1>2, <1>3 DEF Emission
  <2>4. CASE UseRegister \/ a \notin plan.image
    <3>1. init = Append(initBuffer, a)
      BY <2>4
    <3>2. (AllAddresses \ Left') \ I = (E \ I) \cup {a}
      BY <1>3, <1>7, <2>3, <2>4
    <3>3. (\A k \in 1..n : t[k] = s[k]) /\ t[n + 1] = Append(s[n + 1], a)
      BY <1>2, <3>1 DEF InitsOf
    <3>4. E \ I \in SUBSET Nat /\ \A x \in E \ I : x < a
      BY <1>6, <1>7
    <3> HIDE DEF s, t, E, I
    <3>5. Lists(t, 1..(n + 1), (E \ I) \cup {a})
      BY <1>2, <1>6, <2>1, <2>2, <3>3, <3>4, ListsExtend
    <3> QED BY <3>2, <3>5 DEF t, I
  <2>5. CASE ~(UseRegister \/ a \notin plan.image)
    <3>1. init = initBuffer
      BY <2>5
    <3>2. (AllAddresses \ Left') \ I = E \ I
      BY <1>3, <1>7, <2>3, <2>5
    <3> QED BY <2>2, <3>1, <3>2
  <2> QED BY <2>4, <2>5
<1>12. CASE full
  <2> DEFINE shards == FlushMemoryShard(init, final)
  <2>1. Len(final) > 0 /\ Len(final) <= MemoryThreshold /\ Len(init) <= MemoryThreshold
    BY <1>2, <1>9
  <2>2. memoryShards' = shards /\ initBuffer' = <<>> /\ finalBuffer' = <<>>
    BY <1>1, <1>12
  <2> HIDE DEF init, final, full
  <2>3. /\ shards \in Seq(MemoryShard) /\ InARow(shards) /\ Len(shards) = n + 1
        /\ \A k \in 1..n : shards[k] = memoryShards[k]
        /\ shards[n + 1].init = init /\ shards[n + 1].final = final
    BY <1>2, <1>9, <2>1, FlushFacts
  <2> HIDE DEF shards
  <2>4. Lists(FinalsOf(shards, <<>>), 1..(n + 1 + 1), AllAddresses \ Left')
    <3> DEFINE s == FinalsOf(memoryShards, final)
               t == FinalsOf(shards, <<>>)
    <3>1. (\A k \in 1..(n + 1) : t[k] = s[k]) /\ t[n + 1 + 1] = <<>> /\ n + 1 \in Nat
      BY <1>2, <2>3 DEF FinalsOf
    <3> HIDE DEF s, t
    <3> QED BY <1>10, <3>1, ListsEmpty DEF s, t
  <2>5. Lists(InitsOf(shards, <<>>), 1..(n + 1 + 1), (AllAddresses \ Left') \ I)
    <3> DEFINE s == InitsOf(memoryShards, init)
               t == InitsOf(shards, <<>>)
    <3>1. (\A k \in 1..(n + 1) : t[k] = s[k]) /\ t[n + 1 + 1] = <<>> /\ n + 1 \in Nat
      BY <1>2, <2>3 DEF InitsOf
    <3> HIDE DEF s, t
    <3> QED BY <1>11, <3>1, ListsEmpty DEF s, t
  <2>6. Emission'
    BY <1>1, <1>5, <1>6, <1>7, <1>8, <2>2, <2>3, <2>4, <2>5 DEF Emission
  <2>7. MemoryTypes'
    <3>1. Len(<<>>) <= Len(<<>>) /\ Len(<<>>) < MemoryThreshold /\ <<>> \in Seq(Nat)
      BY SizesAssumption
    <3>2. memorySent' \in 0..Len(memoryShards')
      BY <1>1, <1>2, <2>2, <2>3
    <3> QED BY <1>4, <2>2, <2>3, <3>1, <3>2 DEF MemoryTypes
  <2> QED BY <1>1, <1>2, <2>2, <2>3, <2>6, <2>7 DEF MemoryInv, MemoryShardsPartition
<1>13. CASE ~full
  <2>1. UNCHANGED memoryShards /\ initBuffer' = init /\ finalBuffer' = final
    BY <1>1, <1>13
  <2>2. Len(final) < MemoryThreshold
    BY <1>2, <1>9, <1>13
  <2> HIDE DEF init, final, full
  <2>3. Emission'
    BY <1>1, <1>5, <1>6, <1>7, <1>8, <1>10, <1>11, <2>1 DEF Emission
  <2>4. MemoryTypes'
    BY <1>1, <1>2, <1>4, <1>9, <2>1, <2>2 DEF MemoryTypes
  <2> QED BY <1>1, <1>2, <2>1, <2>3, <2>4 DEF MemoryInv, MemoryShardsPartition
<1> QED BY <1>12, <1>13

(* The page shards: chunks of the sorted pages, each from where the one    *)
(* before it ends; the first from the end of the memory shards.            *)
LEMMA PageShardsFacts ==
    ASSUME memoryShards \in Seq(MemoryShard), InARow(memoryShards), NEW p \in PagePlans
    PROVE  LET all == p.touched \cup p.image
               shards == PageShards(all, p.image)
           IN  /\ all \in SUBSET Nat /\ IsFiniteSet(all) /\ IsFiniteSet(all \ p.image)
               /\ shards \in Seq(MemoryShard)
               /\ Cardinality(all) <= Len(shards) * MemoryThreshold
               /\ Cardinality(all \ p.image) <= Len(shards) * MemoryThreshold
               /\ \A k \in 1..Len(shards) :
                     /\ shards[k].final = ChunkOf(Sorted(all), k)
                     /\ shards[k].init = ChunkOf(Sorted(all \ p.image), k)
                     /\ shards[k].from = IF k = 1 THEN Previous ELSE shards[k - 1].to
                     /\ shards[k].from.final = Previous.final
                     /\ shards[k].to.final = Previous.final
               /\ \A j, k \in 1..Len(shards) :
                     j < k => shards[j].to.finalPage < shards[k].to.finalPage
<1> DEFINE T == MemoryThreshold
           all == p.touched \cup p.image
           shards == PageShards(all, p.image)
           inits == Sorted(all \ p.image)
           finals == Sorted(all)
           At(k) == [Previous EXCEPT !.initPage = BeforeChunk(inits, k),
                                     !.finalPage = BeforeChunk(finals, k)]
           N == (Len(finals) + T - 1) \div T
           Page(k) == [init |-> ChunkOf(inits, k), final |-> ChunkOf(finals, k),
                       from |-> At(k), to |-> At(k + 1)]
<1>1. /\ all \in SUBSET Nat /\ IsFiniteSet(all)
      /\ all \ p.image \in SUBSET Nat /\ all \ p.image \in SUBSET all
  <2>1. p \in [touched : SUBSET Nat, image : SUBSET Nat]
        /\ IsFiniteSet(p.touched) /\ IsFiniteSet(p.image)
    BY MemoryAssumption
  <2>2. p.touched \in SUBSET Nat /\ p.image \in SUBSET Nat
    BY <2>1
  <2> QED BY <2>1, <2>2, FS_Union
<1>2. /\ IsFiniteSet(all \ p.image) /\ Cardinality(all \ p.image) <= Cardinality(all)
      /\ Cardinality(all) \in Nat /\ Cardinality(all \ p.image) \in Nat
  BY <1>1, FS_Subset, FS_CardinalityType
<1>3. /\ inits \in Seq(Nat) /\ Len(inits) = Cardinality(all \ p.image)
      /\ finals \in Seq(Nat) /\ Len(finals) = Cardinality(all) /\ Len(finals) \in Nat
      /\ \A i, j \in 1..Len(finals) : i < j => finals[i] < finals[j]
  BY <1>1, <1>2, SortedFacts
<1>4. shards = [k \in 1..N |-> Page(k)]
  BY DEF PageShards
<1> HIDE DEF shards, inits, finals, all
<1>5. /\ N \in Nat /\ Len(finals) <= N * T
      /\ \A k \in 1..N : /\ (k - 1) * T \in Nat /\ (k - 1) * T < Len(finals)
                         /\ k * T = (k - 1) * T + T
  BY <1>3, ChunkCount
<1> HIDE DEF N
<1>6. Previous \in Mark /\ Previous.initPage = 0 /\ Previous.finalPage = 0
  BY PreviousFacts
<1>7. ASSUME NEW k \in Nat, k > 0
      PROVE  BeforeChunk(inits, k) \in Nat /\ BeforeChunk(finals, k) \in Nat
  <2>1. ASSUME NEW s \in Seq(Nat) PROVE BeforeChunk(s, k) \in Nat
    <3>1. PICK m \in 0..Len(s) : BeforeChunk(s, k) = IF m = 0 THEN 0 ELSE s[m]
      BY <1>7, BeforeFacts
    <3>2. m # 0 => m \in 1..Len(s)
      OBVIOUS
    <3> QED BY <3>1, <3>2
  <2> QED BY <1>3, <2>1
<1>8. ASSUME NEW k \in Nat, k > 0
      PROVE  /\ At(k) \in Mark /\ At(k).final = Previous.final
             /\ At(k).finalPage = BeforeChunk(finals, k)
  BY <1>6, <1>7, <1>8 DEF Mark
<1>9. At(1) = Previous
  <2>1. (1 - 1) * T = 0
    BY SizesAssumption
  <2>2. BeforeChunk(inits, 1) = 0 /\ BeforeChunk(finals, 1) = 0
    BY <1>3, <2>1, BeforeFacts
  <2> QED BY <1>6, <2>2 DEF Mark
<1> HIDE DEF At
<1>10. ASSUME NEW k \in 1..N
       PROVE  /\ Page(k) \in MemoryShard
              /\ Page(k).final = ChunkOf(finals, k) /\ Page(k).init = ChunkOf(inits, k)
              /\ Page(k).from = At(k) /\ Page(k).to = At(k + 1)
  <2>1. k \in Nat /\ k > 0 /\ k + 1 \in Nat /\ k + 1 > 0
    BY <1>5
  <2>2. At(k) \in Mark /\ At(k + 1) \in Mark
    BY <1>8, <2>1
  <2>3. ChunkOf(inits, k) \in Seq(Nat) /\ ChunkOf(finals, k) \in Seq(Nat)
    BY <1>3, <2>1, ChunkFacts
  <2> QED BY <2>2, <2>3 DEF MemoryShard
<1> HIDE DEF Page
<1>11. /\ shards \in Seq(MemoryShard) /\ Len(shards) = N
       /\ \A k \in 1..N : shards[k] = Page(k)
  BY <1>4, <1>5, <1>10
<1>12. ASSUME NEW k \in 1..N
       PROVE  /\ shards[k].from = IF k = 1 THEN Previous ELSE shards[k - 1].to
              /\ shards[k].from.final = Previous.final
              /\ shards[k].to.final = Previous.final
              /\ shards[k].to.finalPage = BeforeChunk(finals, k + 1)
  <2>1. k \in Nat /\ k > 0 /\ k + 1 \in Nat /\ k + 1 > 0
    BY <1>5
  <2>2. CASE k = 1
    BY <1>8, <1>9, <1>10, <1>11, <2>1, <2>2
  <2>3. CASE k # 1
    <3>1. k - 1 \in 1..N /\ (k - 1) + 1 = k
      BY <1>5, <2>1, <2>3
    <3>2. shards[k - 1].to = At(k)
      BY <1>10, <1>11, <3>1
    <3> QED BY <1>8, <1>10, <1>11, <2>1, <2>3, <3>2
  <2> QED BY <2>2, <2>3
<1>13. ASSUME NEW k \in 1..N
       PROVE  LET m == IF k * T <= Len(finals) THEN k * T ELSE Len(finals)
              IN  m \in 1..Len(finals) /\ BeforeChunk(finals, k + 1) = finals[m]
  <2>1. k + 1 \in Nat /\ k + 1 > 0 /\ (k + 1) - 1 = k
    BY <1>5
  <2>2. k * T \in Nat /\ k * T > 0 /\ Len(finals) > 0
    BY <1>3, <1>5, SizesAssumption
  <2>3. BeforeChunk(finals, k + 1) =
           LET m == IF k * T <= Len(finals) THEN k * T ELSE Len(finals)
           IN  IF m = 0 THEN 0 ELSE finals[m]
    BY <1>3, <2>1, BeforeFacts
  <2> QED BY <1>3, <2>2, <2>3
<1>14. ASSUME NEW j \in 1..N, NEW k \in 1..N, j < k
       PROVE  shards[j].to.finalPage < shards[k].to.finalPage
  <2> DEFINE mj == IF j * T <= Len(finals) THEN j * T ELSE Len(finals)
             mk == IF k * T <= Len(finals) THEN k * T ELSE Len(finals)
  <2>1. /\ mj \in 1..Len(finals) /\ mk \in 1..Len(finals)
        /\ shards[j].to.finalPage = finals[mj] /\ shards[k].to.finalPage = finals[mk]
    BY <1>12, <1>13
  <2>2. j \in Nat /\ k - 1 \in Nat /\ j <= k - 1 /\ T \in Nat /\ T > 0
    BY <1>5, <1>14, SizesAssumption
  <2>3. j * T <= (k - 1) * T /\ j * T \in Nat
    <3>1. CASE j = k - 1
      <4>1. j * T \in Nat
        BY <2>2, TimesNext
      <4> QED BY <3>1, <4>1
    <3>2. CASE j < k - 1
      <4>1. j * T + T <= (k - 1) * T
        BY <2>2, <3>2, TimesMonotone
      <4>2. j * T \in Nat /\ (k - 1) * T \in Nat
        BY <2>2, TimesNext
      <4> QED BY <2>2, <4>1, <4>2
    <3> QED BY <2>2, <3>1, <3>2
  <2>4. mj < mk
    <3>1. (k - 1) * T \in Nat /\ (k - 1) * T < Len(finals) /\ k * T = (k - 1) * T + T
      BY <1>5
    <3>2. ASSUME NEW a \in Nat, NEW b \in Nat, a <= b, b < Len(finals)
          PROVE  (IF a <= Len(finals) THEN a ELSE Len(finals))
                   < (IF b + T <= Len(finals) THEN b + T ELSE Len(finals))
      BY <1>3, <2>2, <3>2
    <3> QED BY <2>3, <3>1, <3>2
  <2> HIDE DEF mj, mk
  <2> QED BY <1>3, <2>1, <2>4
<1>15. Cardinality(all) <= N * T /\ Cardinality(all \ p.image) <= N * T
  <2>1. N * T \in Nat
    BY <1>5, SizesAssumption, TimesNext
  <2> QED BY <1>2, <1>3, <1>5, <2>1
<1>16. \A k \in 1..N : shards[k].final = ChunkOf(finals, k) /\ shards[k].init = ChunkOf(inits, k)
  BY <1>10, <1>11
<1> QED BY <1>1, <1>2, <1>11, <1>12, <1>14, <1>15, <1>16 DEF all, shards, inits, finals

(* The trailing shard completes the memory shards.                         *)
LEMMA MemoryRest ==
    ASSUME MemoryInv, EmitRest
    PROVE  MemoryInv'
<1> DEFINE n == Len(memoryShards)
           I == plan.image \ plan.registers
           fs == [k \in 1..Len(memoryShards') |-> memoryShards'[k].final]
           is == [k \in 1..Len(memoryShards') |-> memoryShards'[k].init]
<1>1. /\ memory = "emitting" /\ left.bits = {} /\ left.registers = {}
      /\ memoryShards' = FlushMemoryShard(initBuffer, finalBuffer)
      /\ initBuffer' = <<>> /\ finalBuffer' = <<>> /\ memory' = "pages"
      /\ UNCHANGED <<plan, left, memorySent>>
  BY DEF EmitRest
<1>2. /\ memoryShards \in Seq(MemoryShard) /\ InARow(memoryShards) /\ n \in Nat
      /\ initBuffer \in Seq(Nat) /\ finalBuffer \in Seq(Nat)
      /\ Len(initBuffer) <= Len(finalBuffer) /\ Len(finalBuffer) < MemoryThreshold
      /\ Len(initBuffer) \in Nat /\ Len(finalBuffer) \in Nat
      /\ memorySent \in 0..n /\ Emission /\ plan \in MemoryPlans
      /\ left \in [bits : SUBSET Nat, registers : SUBSET Nat]
      /\ MemoryThreshold \in Nat /\ MemoryThreshold > 0
  BY <1>1, SizesAssumption DEF MemoryInv, MemoryTypes
<1>3. /\ Lists(FinalsOf(memoryShards, finalBuffer), 1..(n + 1), AllAddresses)
      /\ Lists(InitsOf(memoryShards, initBuffer), 1..(n + 1), AllAddresses \ I)
  <2>1. Left = {} /\ AllAddresses \ Left = AllAddresses
    BY <1>1 DEF Left
  <2> QED BY <1>2, <2>1 DEF Emission
<1>4. /\ memoryShards' \in Seq(MemoryShard) /\ InARow(memoryShards')
      /\ n <= Len(memoryShards') /\ Len(memoryShards') \in Nat
      /\ Lists(fs, 1..Len(memoryShards'), AllAddresses)
      /\ Lists(is, 1..Len(memoryShards'), AllAddresses \ I)
  <2>1. CASE finalBuffer = <<>>
    <3>1. initBuffer = <<>>
      BY <1>2, <2>1
    <3>2. memoryShards' = memoryShards
      BY <1>1, <2>1, <3>1 DEF FlushMemoryShard
    <3>3. /\ \A k \in 1..n : FinalsOf(memoryShards, finalBuffer)[k] = fs[k]
          /\ \A k \in 1..n : InitsOf(memoryShards, initBuffer)[k] = is[k]
          /\ FinalsOf(memoryShards, finalBuffer)[n + 1] = <<>>
          /\ InitsOf(memoryShards, initBuffer)[n + 1] = <<>>
      BY <1>2, <2>1, <3>1, <3>2 DEF FinalsOf, InitsOf
    <3> HIDE DEF fs, is
    <3>4. Lists(fs, 1..n, AllAddresses) /\ Lists(is, 1..n, AllAddresses \ I)
      BY <1>2, <1>3, <3>3, ListsEmpty
    <3> QED BY <1>2, <3>2, <3>4
  <2>2. CASE finalBuffer # <<>>
    <3>1. Len(finalBuffer) > 0 /\ Len(finalBuffer) <= MemoryThreshold
          /\ Len(initBuffer) <= MemoryThreshold
      BY <1>2, <2>2
    <3>2. /\ memoryShards' \in Seq(MemoryShard) /\ InARow(memoryShards')
          /\ Len(memoryShards') = n + 1
          /\ \A k \in 1..n : memoryShards'[k] = memoryShards[k]
          /\ memoryShards'[n + 1].init = initBuffer
          /\ memoryShards'[n + 1].final = finalBuffer
      BY <1>1, <1>2, <3>1, FlushFacts
    <3>3. /\ \A k \in 1..(n + 1) : FinalsOf(memoryShards, finalBuffer)[k] = fs[k]
          /\ \A k \in 1..(n + 1) : InitsOf(memoryShards, initBuffer)[k] = is[k]
      BY <1>2, <3>2 DEF FinalsOf, InitsOf
    <3> HIDE DEF fs, is
    <3>4. Lists(fs, 1..(n + 1), AllAddresses) /\ Lists(is, 1..(n + 1), AllAddresses \ I)
      BY <1>3, <3>3, ListsSame
    <3> QED BY <1>2, <3>2, <3>4
  <2> QED BY <2>1, <2>2
<1>5. AllAddresses' = AllAddresses
  BY <1>1 DEF AllAddresses
<1>6. Covers(1..Len(memoryShards), AllAddresses, plan.image \ plan.registers)'
  BY <1>1, <1>4, <1>5 DEF Covers
<1>7. MemoryTypes'
  <2>1. Len(<<>>) <= Len(<<>>) /\ Len(<<>>) < MemoryThreshold /\ <<>> \in Seq(Nat)
    BY <1>2
  <2>2. memorySent' \in 0..Len(memoryShards')
    BY <1>1, <1>2, <1>4
  <2> QED BY <1>1, <1>2, <1>4, <2>1, <2>2 DEF MemoryTypes
<1> QED BY <1>1, <1>2, <1>4, <1>6, <1>7 DEF MemoryInv, MemoryShardsPartition

(* The memory shards end at ever greater addresses, the last above 0.      *)
LEMMA RowFacts ==
    ASSUME memoryShards \in Seq(MemoryShard), InARow(memoryShards), plan \in MemoryPlans,
           Covers(1..Len(memoryShards), AllAddresses, plan.image \ plan.registers)
    PROVE  /\ \A j, k \in 1..Len(memoryShards) :
                 j < k => memoryShards[j].to.final < memoryShards[k].to.final
           /\ Len(memoryShards) > 0
           /\ memoryShards[Len(memoryShards)].to.final > 0
<1> DEFINE M == memoryShards
           n == Len(M)
           fs == [k \in 1..n |-> M[k].final]
<1>1. Lists(fs, 1..n, AllAddresses)
  BY DEF Covers
<1>2. n \in Nat /\ \A k \in 1..n : fs[k] = M[k].final
  OBVIOUS
<1>3. ASSUME NEW k \in 1..n
      PROVE  /\ M[k].final \in Seq(Nat) /\ DOMAIN M[k].final = 1..Len(M[k].final)
             /\ Len(M[k].final) \in 1..Len(M[k].final) /\ Len(M[k].final) \in Nat
             /\ M[k].to.final = M[k].final[Len(M[k].final)] /\ M[k].to.final \in Nat
  <2>1. M[k].final \in Seq(Nat) /\ M[k].to \in Mark
    BY ShardFields
  <2>2. Len(M[k].final) > 0 /\ M[k].to.final = M[k].final[Len(M[k].final)]
    BY DEF InARow
  <2> QED BY <2>1, <2>2 DEF Mark
<1> HIDE DEF n, fs
<1>4. ASSUME NEW j \in 1..n, NEW k \in 1..n, j < k PROVE M[j].to.final < M[k].to.final
  <2>1. /\ Len(M[j].final) \in DOMAIN fs[j] /\ Len(M[k].final) \in DOMAIN fs[k]
    BY <1>2, <1>3
  <2>2. fs[j][Len(M[j].final)] < fs[k][Len(M[k].final)]
    BY <1>1, <1>4, <2>1 DEF Lists
  <2> QED BY <1>2, <1>3, <2>2
<1>5. PICK a \in AllAddresses : a > 0 /\ a \in Nat
  BY AddressFacts
<1>6. PICK k \in 1..n : \E i \in 1..Len(M[k].final) : M[k].final[i] = a
  BY <1>1, <1>2, <1>3, <1>5 DEF Lists
<1>7. n > 0 /\ n \in 1..n
  BY <1>2, <1>6
<1>8. a <= M[k].to.final
  <2>0. PICK i \in 1..Len(M[k].final) : M[k].final[i] = a
    BY <1>6
  <2>1. CASE i = Len(M[k].final)
    BY <1>3, <1>5, <2>0, <2>1
  <2>2. CASE i # Len(M[k].final)
    <3>1. i < Len(M[k].final) /\ i \in DOMAIN fs[k] /\ Len(M[k].final) \in DOMAIN fs[k]
      BY <1>2, <1>3, <2>0, <2>2
    <3>2. fs[k][i] < fs[k][Len(M[k].final)]
      BY <1>1, <3>1 DEF Lists
    <3> QED BY <1>2, <1>3, <1>5, <2>0, <3>2
  <2> QED BY <2>1, <2>2
<1>9. M[k].to.final <= M[n].to.final
  <2>1. k = n \/ k < n
    BY <1>2
  <2> QED BY <1>3, <1>4, <1>7, <2>1
<1>10. M[n].to.final > 0
  BY <1>3, <1>5, <1>7, <1>8, <1>9
<1> QED BY <1>4, <1>7, <1>10 DEF n

(* The page shards complete the shards: together they are a partition.     *)
LEMMA MemoryPages ==
    ASSUME MemoryInv, EmitPages
    PROVE  MemoryInv'
<1> DEFINE p == pages'
           all == p.touched \cup p.image
           P == PageShards(all, p.image)
           M == memoryShards
           W == memoryShards'
           n == Len(memoryShards)
           N == Len(P)
           I == plan.image \ plan.registers
<1>1. /\ memory = "pages" /\ p \in PagePlans /\ W = M \o P /\ memory' = "emitted"
      /\ UNCHANGED <<plan, left, initBuffer, finalBuffer, memorySent>>
  BY DEF EmitPages
<1>2. /\ M \in Seq(MemoryShard) /\ InARow(M) /\ n \in Nat /\ memorySent \in 0..n
      /\ plan \in MemoryPlans /\ Covers(1..n, AllAddresses, I)
  BY <1>1 DEF MemoryInv, MemoryTypes
<1>2a. PICK m \in Nat : m = n
  BY <1>2
<1>3. /\ all \in SUBSET Nat /\ IsFiniteSet(all) /\ IsFiniteSet(all \ p.image)
      /\ P \in Seq(MemoryShard)
      /\ Cardinality(all) <= N * MemoryThreshold
      /\ Cardinality(all \ p.image) <= N * MemoryThreshold
      /\ \A k \in 1..N :
            /\ P[k].final = ChunkOf(Sorted(all), k)
            /\ P[k].init = ChunkOf(Sorted(all \ p.image), k)
            /\ P[k].from = IF k = 1 THEN Previous ELSE P[k - 1].to
            /\ P[k].from.final = Previous.final
            /\ P[k].to.final = Previous.final
      /\ \A j, k \in 1..N : j < k => P[j].to.finalPage < P[k].to.finalPage
  BY <1>1, <1>2, PageShardsFacts
<1> HIDE DEF P
<1>4. /\ n > 0 /\ M[n].to.final > 0 /\ Previous = M[n].to
      /\ \A j, k \in 1..n : j < k => M[j].to.final < M[k].to.final
  BY <1>2, RowFacts, PreviousFacts
<1>5. /\ W \in Seq(MemoryShard) /\ Len(W) = n + N /\ N \in Nat
      /\ \A k \in 1..n : W[k] = M[k]
      /\ \A k \in 1..N : W[n + k] = P[k]
  <2>1. N \in Nat
    BY <1>3
  <2>2. /\ W \in Seq(MemoryShard) /\ Len(W) = n + N
        /\ \A k \in 1..(n + N) : W[k] = IF k <= n THEN M[k] ELSE P[k - n]
    BY <1>1, <1>2, <1>3, ConcatProperties
  <2> HIDE DEF N, n
  <2>3. ASSUME NEW k \in 1..n PROVE W[k] = M[k]
    BY <1>2, <2>1, <2>2
  <2>4. ASSUME NEW k \in 1..N PROVE W[n + k] = P[k]
    <3>1. n + k \in 1..(n + N) /\ ~(n + k <= n) /\ (n + k) - n = k
      BY <1>2, <2>1
    <3> QED BY <2>2, <3>1
  <2> QED BY <2>1, <2>2, <2>3, <2>4
<1>6. \A k \in 1..(n + N) : k \in 1..n \/ (k - n \in 1..N /\ n + (k - n) = k)
  BY <1>2, <1>5
<1> HIDE DEF N, n, all
<1>7. Covers(1..m, AllAddresses, plan.image \ plan.registers)'
  <2>1. /\ Lists([k \in 1..m |-> M[k].final], 1..m, AllAddresses)
        /\ Lists([k \in 1..m |-> M[k].init], 1..m, AllAddresses \ I)
    BY <1>2a, <1>2 DEF Covers
  <2>2. /\ [k \in 1..m |-> W[k].final] = [k \in 1..m |-> M[k].final]
        /\ [k \in 1..m |-> W[k].init] = [k \in 1..m |-> M[k].init]
    BY <1>2a, <1>5
  <2>3. AllAddresses' = AllAddresses /\ UNCHANGED plan
    BY <1>1 DEF AllAddresses
  <2> QED BY <2>1, <2>2, <2>3 DEF Covers
<1>8. Covers((m + 1)..Len(memoryShards), pages.touched \cup pages.image, pages.image)'
  <2> DEFINE fs == [k \in (m + 1)..(m + N) |-> W[k].final]
             is == [k \in (m + 1)..(m + N) |-> W[k].init]
  <2>1. \A k \in 1..N : m + k \in (m + 1)..(m + N)
    BY <1>5
  <2>2. \A k \in 1..N : /\ fs[m + k] = ChunkOf(Sorted(all), k)
                       /\ is[m + k] = ChunkOf(Sorted(all \ p.image), k)
    BY <1>2a, <1>3, <1>5, <2>1
  <2> HIDE DEF fs, is
  <2>3. all \ p.image \in SUBSET Nat
    BY <1>3
  <2>4. Lists(fs, (m + 1)..(m + N), all) /\ Lists(is, (m + 1)..(m + N), all \ p.image)
    BY <1>3, <1>5, <2>2, <2>3, ChunksList
  <2>5. Len(W) = m + N
    BY <1>2a, <1>5
  <2> QED BY <2>4, <2>5 DEF Covers, fs, is, all
<1>9. ASSUME NEW k \in 1..Len(W)
      PROVE  /\ Len(W[k].init) <= MemoryThreshold /\ Len(W[k].final) <= MemoryThreshold
             /\ k > 1 => W[k].from = W[k - 1].to
  <2>1. CASE k \in 1..n
    <3>1. k > 1 => k - 1 \in 1..n
      BY <1>2, <2>1
    <3>2. W[k] = M[k] /\ (k > 1 => W[k - 1] = M[k - 1])
      BY <1>5, <2>1, <3>1
    <3>3. /\ Len(M[k].init) <= MemoryThreshold /\ Len(M[k].final) <= MemoryThreshold
          /\ M[k].from = IF k = 1 THEN Origin ELSE M[k - 1].to
      BY <1>2, <2>1 DEF InARow, n
    <3> QED BY <3>2, <3>3
  <2>2. CASE k - n \in 1..N /\ n + (k - n) = k
    <3> DEFINE q == k - n
    <3>1. q \in 1..N /\ n + q = k /\ q \in Nat /\ q > 0
      BY <1>5, <2>2
    <3> HIDE DEF q
    <3>2. W[k] = P[q]
      BY <1>5, <3>1
    <3>3. Len(P[q].init) <= MemoryThreshold /\ Len(P[q].final) <= MemoryThreshold
      <4>1. all \ p.image \in SUBSET Nat
        BY <1>3
      <4>2. Sorted(all) \in Seq(Nat) /\ Sorted(all \ p.image) \in Seq(Nat)
        BY <1>3, <4>1, SortedFacts
      <4> QED BY <1>3, <3>1, <4>2, ChunkFacts
    <3>4. W[k].from = W[k - 1].to
      <4>1. CASE q = 1
        <5>1. k - 1 = n /\ n \in 1..n
          BY <1>2, <1>4, <3>1, <4>1
        <5>2. W[k - 1] = M[n]
          BY <1>5, <5>1
        <5> QED BY <1>3, <1>4, <3>1, <3>2, <4>1, <5>2
      <4>2. CASE q # 1
        <5>1. q - 1 \in 1..N /\ n + (q - 1) = k - 1
          BY <1>2, <1>5, <3>1, <4>2
        <5>2. W[k - 1] = P[q - 1]
          BY <1>5, <5>1
        <5> QED BY <1>3, <3>1, <3>2, <4>2, <5>2
      <4> QED BY <4>1, <4>2
    <3> QED BY <3>2, <3>3, <3>4
  <2> QED BY <1>5, <1>6, <2>1, <2>2
<1>10. ASSUME NEW k \in 1..Len(W), NEW j \in 1..(k - 1)
       PROVE  W[k].from # W[j].from \/ W[k].to # W[j].to
  <2>1. j \in 1..(n + N) /\ k \in 1..(n + N) /\ j < k
    BY <1>5
  <2>2. CASE k \in 1..n
    <3>1. j \in 1..n
      BY <2>1, <2>2, <1>2
    <3>2. M[j].to.final < M[k].to.final /\ W[j] = M[j] /\ W[k] = M[k]
      BY <1>4, <1>5, <2>1, <2>2, <3>1
    <3>3. M[j].to.final \in Nat
      BY <1>2, <3>1, ShardFields DEF Mark, n
    <3> QED BY <3>2, <3>3
  <2>3. CASE j \in 1..n /\ k - n \in 1..N /\ n + (k - n) = k
    <3>1. W[j] = M[j] /\ W[k] = P[k - n]
      BY <1>5, <2>3
    <3>2. W[k].from.final = M[n].to.final /\ W[k].to.final = M[n].to.final
      BY <1>3, <1>4, <2>3, <3>1
    <3>3. \A i \in 1..n : M[i].to.final \in Nat
      BY <1>2, ShardFields DEF Mark, n
    <3>4. n \in 1..n
      BY <1>2, <1>4
    <3>5. CASE j # n
      <4>1. j < n
        BY <1>2, <2>3, <3>5
      <4>2. M[j].to.final < M[n].to.final
        BY <1>4, <2>3, <3>4, <4>1
      <4> QED BY <2>3, <3>1, <3>2, <3>3, <4>2
    <3>6. CASE j = n
      <4>1. M[n].from = IF n = 1 THEN Origin ELSE M[n - 1].to
        BY <1>2, <3>4 DEF InARow, n
      <4>2. M[n].from.final # M[n].to.final
        <5>1. CASE n = 1
          BY <1>4, <4>1, <5>1 DEF Origin
        <5>2. CASE n # 1
          <6>1. n - 1 \in 1..n /\ n - 1 < n
            BY <1>2, <1>4, <5>2
          <6>2. M[n - 1].to.final < M[n].to.final
            BY <1>4, <3>4, <6>1
          <6> QED BY <3>3, <4>1, <5>2, <6>1, <6>2
        <5> QED BY <5>1, <5>2
      <4> QED BY <3>1, <3>2, <3>6, <4>2
    <3> QED BY <3>5, <3>6
  <2>4. CASE j - n \in 1..N /\ n + (j - n) = j /\ k - n \in 1..N /\ n + (k - n) = k
    <3>1. W[j] = P[j - n] /\ W[k] = P[k - n] /\ j - n < k - n
      BY <1>2, <1>5, <2>1, <2>4
    <3>2. P[j - n].to.finalPage < P[k - n].to.finalPage
      BY <1>3, <2>4, <3>1
    <3>3. P[j - n].to.finalPage \in Nat
      BY <1>3, <2>4, ShardFields DEF Mark, N
    <3> QED BY <3>1, <3>2, <3>3
  <2> QED BY <1>6, <2>1, <2>2, <2>3, <2>4
<1>11. MemoryShardsPartition'
  <2>1. m \in 0..Len(W)
    BY <1>2a, <1>5
  <2>2. \E i \in 0..Len(W) :
           /\ Covers(1..i, AllAddresses, plan.image \ plan.registers)'
           /\ Covers((i + 1)..Len(memoryShards), pages.touched \cup pages.image, pages.image)'
    BY <1>7, <1>8, <2>1
  <2>3. \A k \in 1..Len(W) : \A j \in 1..(k - 1) : <<W[k].from, W[k].to>> # <<W[j].from, W[j].to>>
    BY <1>10
  <2> QED BY <1>9, <2>2, <2>3 DEF MemoryShardsPartition
<1>12. MemoryTypes'
  <2>1. memorySent' \in 0..Len(W)
    BY <1>1, <1>2, <1>5
  <2> QED BY <1>1, <1>5, <2>1 DEF MemoryInv, MemoryTypes
<1> QED BY <1>1, <1>2, <1>11, <1>12 DEF MemoryInv

(* The merge starts when every chunk's addresses are in the bitmap.        *)
LEMMA MemoryStart ==
    ASSUME KillInv, ShardInv, CompleteInv, MemoryInv, ReceiveFinalState
    PROVE  MemoryInv'
<1>1. /\ memory = "merging" /\ channel = <<>>
      /\ UNCHANGED <<initBuffer, finalBuffer, memoryShards, memorySent, merged>>
  BY DEF ReceiveFinalState, ChannelClosed
<1>2. /\ memoryShards = <<>> /\ initBuffer = <<>> /\ finalBuffer = <<>> /\ MemoryTypes
  BY <1>1 DEF MemoryInv
<1>3. CASE memory' = "failed" /\ UNCHANGED left
  BY <1>1, <1>2, <1>3 DEF MemoryInv, MemoryTypes, MemoryShardsPartition
<1>4. ASSUME executor = "ended", collector = "ended", memory' = "emitting",
             NEW p \in MemoryPlans, plan' = p,
             left' = [bits |-> (UNION {TouchedBy[i] : i \in merged}) \cup p.hints \cup p.image,
                      registers |-> p.registers]
      PROVE  MemoryInv'
  <2>1. merged = Chunks
    <3>1. \A i \in Chunks : thread[i] = "ended"
      BY <1>4, AllEnded
    <3>2. 1..Len(channel) = {}
      BY <1>1
    <3> QED BY <3>1, <3>2 DEF CompleteInv
  <2> DEFINE U == UNION {TouchedBy[i] : i \in Chunks}
  <2>2. U \in SUBSET Nat
    <3>1. \A i \in Chunks : TouchedBy[i] \in SUBSET Nat
      BY MemoryAssumption
    <3> QED BY <3>1
  <2>3. left' = [bits |-> U \cup p.hints \cup p.image, registers |-> p.registers]
    BY <1>4, <2>1
  <2>4. AllAddresses' = U \cup p.hints \cup p.image \cup p.registers
    BY <1>4 DEF AllAddresses
  <2> HIDE DEF U
  <2>5. /\ p.hints \in SUBSET Nat /\ p.image \in SUBSET Nat /\ p.registers \in SUBSET Nat
    <3>1. p \in [hints : SUBSET Nat, image : SUBSET Nat, registers : SUBSET Nat]
      BY MemoryAssumption
    <3> QED BY <3>1
  <2>6. left' \in [bits : SUBSET Nat, registers : SUBSET Nat]
    BY <2>2, <2>3, <2>5
  <2>7. /\ Left' = AllAddresses' /\ left'.registers = Left' \cap plan'.registers
    BY <1>4, <2>3, <2>4 DEF Left
  <2>8. /\ Lists(FinalsOf(<<>>, <<>>), 1..(Len(<<>>) + 1), {})
        /\ Lists(InitsOf(<<>>, <<>>), 1..(Len(<<>>) + 1), {})
    <3>1. \A k \in 1..(Len(<<>>) + 1) : FinalsOf(<<>>, <<>>)[k] = <<>> /\ InitsOf(<<>>, <<>>)[k] = <<>>
      BY DEF FinalsOf, InitsOf
    <3>2. DOMAIN <<>> = {}
      OBVIOUS
    <3> QED BY <3>1, <3>2 DEF Lists
  <2>9. Emission'
    <3>1. /\ AllAddresses' \ Left' = {}
          /\ {} \ (plan'.image \ plan'.registers) = {}
      BY <2>7
    <3> QED BY <1>1, <1>2, <2>7, <2>8, <3>1 DEF Emission
  <2>10. MemoryTypes'
    BY <1>1, <1>2, <2>6 DEF MemoryTypes
  <2>11. InARow(memoryShards')
    <3>1. 1..Len(memoryShards') = {}
      BY <1>1, <1>2
    <3> QED BY <3>1 DEF InARow
  <2> QED BY <1>4, <2>9, <2>10, <2>11 DEF MemoryInv, MemoryShardsPartition
<1> QED BY <1>3, <1>4 DEF ReceiveFinalState

(* What depends on the plan and the shards only.                           *)
LEMMA ShardsSame ==
    ASSUME UNCHANGED <<plan, pages, left, initBuffer, finalBuffer, memoryShards>>
    PROVE  /\ Emission => Emission'
           /\ Covers(1..Len(memoryShards), AllAddresses, plan.image \ plan.registers) =>
                 Covers(1..Len(memoryShards), AllAddresses, plan.image \ plan.registers)'
           /\ MemoryShardsPartition /\ memory' \in {memory, "failed", "ended"} =>
                 MemoryShardsPartition'
<1>1. AllAddresses' = AllAddresses /\ Left' = Left
  BY DEF AllAddresses, Left
<1>2. Emission => Emission'
  BY <1>1 DEF Emission
<1>3. Covers(1..Len(memoryShards), AllAddresses, plan.image \ plan.registers) =>
          Covers(1..Len(memoryShards), AllAddresses, plan.image \ plan.registers)'
  BY <1>1 DEF Covers
<1>4. ASSUME MemoryShardsPartition, memory' \in {memory, "failed", "ended"}
      PROVE  MemoryShardsPartition'
  BY <1>1, <1>4 DEF MemoryShardsPartition, Covers
<1> QED BY <1>2, <1>3, <1>4

(* A step that is not the memory handler's.                                *)
LEMMA MemoryKept ==
    ASSUME MemoryInv, UNCHANGED <<memory, emissionVars>>
    PROVE  MemoryInv'
<1>1. UNCHANGED <<memory, plan, pages, left, initBuffer, finalBuffer, memoryShards, memorySent>>
  BY DEF emissionVars
<1>2. MemoryTypes' /\ (InARow(memoryShards) => InARow(memoryShards'))
  BY <1>1 DEF MemoryInv, MemoryTypes
<1>3. MemoryShardsPartition'
  BY <1>1, ShardsSame DEF MemoryInv
<1> QED BY <1>1, <1>2, <1>3, ShardsSame DEF MemoryInv

(* Every step keeps the invariant.                                         *)
LEMMA MemoryStep ==
    ASSUME KillInv, ShardInv, CompleteInv, MemoryInv, [Next]_vars
    PROVE  MemoryInv'
<1>1. CASE PullChunk \/ ChildIsKilled \/ StopExecutor \/ ExecutionFails \/ EndExecutor
           \/ TakeCarry \/ SubmitSplicer \/ Collect \/ Return
  <2>1. UNCHANGED memoryVars
    BY <1>1 DEF PullChunk, ChildIsKilled, StopExecutor, ExecutionFails, EndExecutor,
                TakeCarry, SubmitSplicer, Collect, Return
  <2> QED BY <2>1, MemoryKept DEF memoryVars, emissionVars
<1>2. CASE \E i \in Chunks : Splicer(i) \/ SpliceFails(i)
  <2>1. UNCHANGED <<memory, emissionVars>>
    BY <1>2 DEF Splicer, CommonInput, SpliceShard, EndOfChunk, EndOfProgram, CarryNothing,
                ExtendTouched, TakeSplice, SendShard, JoinSplicer, SpliceFails,
                memoryVars, emissionVars
  <2> QED BY <2>1, MemoryKept
<1>3. CASE MergeTouched
  BY <1>3, MemoryKept DEF MergeTouched
<1>4. CASE SendMemoryShard
  <2>1. UNCHANGED <<plan, pages, left, initBuffer, finalBuffer, memoryShards>>
    BY <1>4 DEF SendMemoryShard
  <2>2. /\ Len(memoryShards) \in Nat /\ memorySent \in 0..Len(memoryShards)
        /\ memorySent < Len(memoryShards)
    BY <1>4 DEF SendMemoryShard, MemoryInv, MemoryTypes
  <2>3. /\ memorySent' \in 0..Len(memoryShards)
        /\ memory' = memory \/ memory' = "failed"
    <3>1. \/ memorySent' = memorySent + 1 /\ memory' = memory
          \/ memorySent' = memorySent /\ memory' = "failed"
      BY <1>4 DEF SendMemoryShard
    <3> QED BY <2>2, <3>1
  <2>4. MemoryTypes'
    BY <2>1, <2>3 DEF MemoryInv, MemoryTypes
  <2>5. MemoryShardsPartition'
    BY <2>1, <2>3, ShardsSame DEF MemoryInv
  <2> QED BY <2>1, <2>3, <2>4, <2>5, ShardsSame DEF MemoryInv
<1>5. CASE EndMemory
  BY <1>5 DEF EndMemory, emissionVars, MemoryInv, MemoryTypes, MemoryShardsPartition
<1>6. CASE UNCHANGED vars
  BY <1>6, MemoryKept DEF vars, memoryVars, emissionVars
<1> QED BY <1>1, <1>2, <1>3, <1>4, <1>5, <1>6, MemoryStart, MemoryEmit, MemoryRest, MemoryPages
        DEF Next, Progress

(* The bitmap starts empty.                                                *)
LEMMA MemoryInit == Init => MemoryInv
<1> SUFFICES ASSUME Init PROVE MemoryInv
  OBVIOUS
<1>1. /\ memory = "merging" /\ memoryShards = <<>> /\ initBuffer = <<>> /\ finalBuffer = <<>>
      /\ memorySent = 0 /\ left = [bits |-> {}, registers |-> {}]
  BY DEF Init
<1>2. MemoryTypes
  BY <1>1, SizesAssumption DEF MemoryTypes
<1> QED BY <1>1, <1>2 DEF MemoryInv, MemoryShardsPartition

(* The parts of the argument, together.                                    *)
LEMMA MemoryAlways == Spec => [](KillInv /\ ShardInv /\ CompleteInv /\ MemoryInv)
<1>1. KillInv /\ ShardInv /\ CompleteInv /\ MemoryInv /\ [Next]_vars => MemoryInv'
  BY MemoryStep
<1> QED BY <1>1, MemoryInit, CompleteAlways, PTL DEF Spec

(* The memory and page shards that emit_global_memory_shards creates       *)
(* initialize and finalize every address and page once and in order, in    *)
(* shards of bounded size whose ranges follow one another and differ, for  *)
(* all sets of touched addresses, hints, images, registers and pages.      *)
THEOREM MemoryCorrect == Spec => []MemoryShardsPartition
<1>1. MemoryInv => MemoryShardsPartition
  BY DEF MemoryInv
<1> QED BY <1>1, MemoryAlways, PTL

-----------------------------------------------------------------------------
(* The bounds of the channels and of the send workers.                     *)

Bounds ==
    /\ faults \subseteq Faults \ {"kill"}
    /\ \A i \in Chunks : start[i] <= ProgramEnd
    /\ \A i \in Chunks : Len(queue[i]) <= ChannelSize
    /\ \A i \in Chunks : IsFiniteSet(sending[i]) /\ Cardinality(sending[i]) <= SendWorkers
    /\ Len(channel) <= MemoryBuffer
    /\ memory \in {"merging", "emitting", "pages", "emitted", "ended", "failed"}
    /\ plan \in MemoryPlans \cup {NoPlan}
    /\ pages \in PagePlans \cup {NoPages}

(* The chunks end within the program.                                      *)
LEMMA EndsWithin == \A i \in Chunks : ChunkEnds[i] \in Nat /\ ChunkEnds[i] <= ProgramEnd
BY ChunksFacts

LEMMA BoundsInit == Init => Bounds
<1> SUFFICES ASSUME Init PROVE Bounds
  OBVIOUS
<1>1. \A i \in Chunks : start[i] <= ProgramEnd
  <2> SUFFICES ASSUME NEW i \in Chunks PROVE start[i] <= ProgramEnd
    OBVIOUS
  <2>1. start[i] = IF i = 1 THEN 0 ELSE ChunkEnds[i - 1]
    BY DEF Init
  <2>2. i # 1 => i > 1
    BY ChunksFacts DEF Chunks
  <2> QED BY <2>1, <2>2, ChunksFacts, EndsWithin
<1>2. \A i \in Chunks : queue[i] = <<>> /\ sending[i] = {}
  BY DEF Init
<1>3. /\ \A i \in Chunks : Len(queue[i]) <= ChannelSize
      /\ \A i \in Chunks : IsFiniteSet(sending[i]) /\ Cardinality(sending[i]) <= SendWorkers
  <2>1. Len(<<>>) <= ChannelSize
    BY SizesAssumption
  <2>2. IsFiniteSet({}) /\ Cardinality({}) = 0 /\ 0 <= SendWorkers
    BY SizesAssumption, FS_EmptySet
  <2>3. IsFiniteSet({}) /\ Cardinality({}) <= SendWorkers
    BY <2>2
  <2> QED BY <1>2, <2>1, <2>3, Zenon
<1>4. channel = <<>> /\ Len(channel) <= MemoryBuffer
  BY SizesAssumption DEF Init
<1> QED BY <1>1, <1>3, <1>4 DEF Init, Bounds

(* The splicers' steps.                                                    *)
LEMMA BoundsSplicer ==
    ASSUME KillInv, ShardInv, CompleteInv, Bounds, NEW i \in Chunks, Splicer(i) \/ SpliceFails(i)
    PROVE  Bounds'
<1> USE DEF executorVars, memoryVars
<1>0. /\ splicer \in [Chunks -> {"none", "running", "ended", "failed"}]
      /\ start \in [Chunks -> Nat]
      /\ queue \in [Chunks -> Seq(AllShards)]
      /\ sending \in [Chunks -> SUBSET AllShards]
      /\ channel \in Seq(Chunks)
      /\ ChannelSize \in Nat /\ SendWorkers \in Nat /\ MemoryBuffer \in Nat
  BY SizesAssumption DEF KillInv, Types, ShardInv, ShardTypes, CompleteInv
<1>1. UNCHANGED <<memory, plan, pages>>
  BY DEF Splicer, CommonInput, SpliceShard, EndOfChunk, EndOfProgram, CarryNothing,
         ExtendTouched, TakeSplice, SendShard, JoinSplicer, SpliceFails
<1>2. faults' \subseteq Faults \ {"kill"}
  <2>1. \/ faults' = faults
        \/ "input" \in Faults /\ faults' = faults \cup {"input"}
        \/ "send" \in Faults /\ faults' = faults \cup {"send"}
        \/ "splice" \in Faults /\ faults' = faults \cup {"splice"}
    BY DEF Splicer, CommonInput, SpliceShard, EndOfChunk, EndOfProgram, CarryNothing,
           ExtendTouched, TakeSplice, SendShard, JoinSplicer, SpliceFails
  <2> QED BY <2>1 DEF Bounds
<1>3. Len(channel') <= MemoryBuffer
  <2>1. channel' = channel \/ (Len(channel) < MemoryBuffer /\ channel' = Append(channel, i))
    BY DEF Splicer, CommonInput, SpliceShard, EndOfChunk, EndOfProgram, CarryNothing,
           ExtendTouched, TakeSplice, SendShard, JoinSplicer, SpliceFails
  <2> QED BY <1>0, <2>1 DEF Bounds
<1>4. \A j \in Chunks : start'[j] <= ProgramEnd
  <2>1. ASSUME SpliceShard(i) PROVE Boundary(start[i]) <= ProgramEnd
    BY <1>0, <2>1, EndsWithin, SizesAssumption, ChunksFacts DEF SpliceShard, Boundary
  <2>2. \/ start' = start
        \/ \E e : e <= ProgramEnd /\ start' = [start EXCEPT ![i] = e]
    <3>1. CASE SpliceShard(i)
      BY <2>1, <3>1 DEF SpliceShard, SendSplice, Shard
    <3>2. CASE EndOfProgram(i)
      BY <3>2, ChunksFacts DEF EndOfProgram, SendSplice, Shard
    <3>3. CASE ~SpliceShard(i) /\ ~EndOfProgram(i)
      BY <3>3 DEF Splicer, CommonInput, EndOfChunk, CarryNothing,
                  ExtendTouched, TakeSplice, SendShard, JoinSplicer, SpliceFails
    <3> QED BY <3>1, <3>2, <3>3
  <2> QED BY <1>0, <2>2 DEF Bounds
<1>5. \A j \in Chunks : Len(queue'[j]) <= ChannelSize
  <2>1. \/ queue' = queue
        \/ \E shard : Len(queue[i]) < ChannelSize
                      /\ queue' = [queue EXCEPT ![i] = Append(@, shard)]
        \/ queue[i] # <<>> /\ queue' = [queue EXCEPT ![i] = Tail(@)]
        \/ queue' = [queue EXCEPT ![i] = <<>>]
    BY DEF Splicer, CommonInput, SpliceShard, EndOfChunk, EndOfProgram, CarryNothing,
           ExtendTouched, TakeSplice, SendShard, JoinSplicer, SpliceFails, SendSplice
  <2>2. queue[i] \in Seq(AllShards) /\ Len(queue[i]) <= ChannelSize /\ Len(queue[i]) \in Nat
    BY <1>0 DEF Bounds
  <2>3. ASSUME NEW shard, Len(queue[i]) < ChannelSize,
               queue' = [queue EXCEPT ![i] = Append(@, shard)]
        PROVE  Len(queue'[i]) <= ChannelSize
    <3>1. queue'[i] = Append(queue[i], shard)
      BY <1>0, <2>3
    <3>2. Len(Append(queue[i], shard)) = Len(queue[i]) + 1
      BY <2>2
    <3> QED BY <1>0, <2>2, <2>3, <3>1, <3>2
  <2>4. ASSUME queue[i] # <<>>, queue' = [queue EXCEPT ![i] = Tail(@)]
        PROVE  Len(queue'[i]) <= ChannelSize
    <3>1. queue'[i] = Tail(queue[i]) /\ Len(Tail(queue[i])) = Len(queue[i]) - 1
      BY <1>0, <2>2, <2>4, TailFacts
    <3> QED BY <1>0, <2>2, <3>1
  <2>5. ASSUME queue' = [queue EXCEPT ![i] = <<>>] PROVE Len(queue'[i]) <= ChannelSize
    BY <1>0, <2>5
  <2>6. Len(queue'[i]) <= ChannelSize
    BY <2>1, <2>2, <2>3, <2>4, <2>5
  <2>7. \A j \in Chunks : j # i => queue'[j] = queue[j]
    BY <1>0, <2>1
  <2> QED BY <2>6, <2>7 DEF Bounds
<1>6. \A j \in Chunks : IsFiniteSet(sending'[j]) /\ Cardinality(sending'[j]) <= SendWorkers
  <2>1. \/ sending' = sending
        \/ \E shard : Cardinality(sending[i]) < SendWorkers
                      /\ sending' = [sending EXCEPT ![i] = @ \cup {shard}]
        \/ \E shard : sending' = [sending EXCEPT ![i] = @ \ {shard}]
    BY DEF Splicer, CommonInput, SpliceShard, EndOfChunk, EndOfProgram, CarryNothing,
           ExtendTouched, TakeSplice, SendShard, JoinSplicer, SpliceFails
  <2>2. /\ IsFiniteSet(sending[i]) /\ Cardinality(sending[i]) <= SendWorkers
        /\ Cardinality(sending[i]) \in Nat
    BY FS_CardinalityType DEF Bounds
  <2>3. ASSUME NEW shard, Cardinality(sending[i]) < SendWorkers,
               sending' = [sending EXCEPT ![i] = @ \cup {shard}]
        PROVE  IsFiniteSet(sending'[i]) /\ Cardinality(sending'[i]) <= SendWorkers
    <3>1. sending'[i] = sending[i] \cup {shard}
      BY <1>0, <2>3
    <3>2. /\ IsFiniteSet(sending[i] \cup {shard})
          /\ Cardinality(sending[i] \cup {shard}) =
                IF shard \in sending[i] THEN Cardinality(sending[i]) ELSE Cardinality(sending[i]) + 1
      BY <2>2, FS_AddElement
    <3> QED BY <1>0, <2>2, <2>3, <3>1, <3>2
  <2>4. ASSUME NEW shard, sending' = [sending EXCEPT ![i] = @ \ {shard}]
        PROVE  IsFiniteSet(sending'[i]) /\ Cardinality(sending'[i]) <= SendWorkers
    <3>1. sending'[i] = sending[i] \ {shard}
      BY <1>0, <2>4
    <3>2. /\ IsFiniteSet(sending[i] \ {shard})
          /\ Cardinality(sending[i] \ {shard}) =
                IF shard \in sending[i] THEN Cardinality(sending[i]) - 1 ELSE Cardinality(sending[i])
      BY <2>2, FS_RemoveElement
    <3> QED BY <1>0, <2>2, <3>1, <3>2
  <2>5. IsFiniteSet(sending'[i]) /\ Cardinality(sending'[i]) <= SendWorkers
    BY <2>1, <2>2, <2>3, <2>4
  <2>6. \A j \in Chunks : j # i => sending'[j] = sending[j]
    BY <1>0, <2>1
  <2> QED BY <2>5, <2>6 DEF Bounds
<1> QED BY <1>1, <1>2, <1>3, <1>4, <1>5, <1>6 DEF Bounds

(* Every step keeps the bounds.                                            *)
LEMMA BoundsStep ==
    ASSUME KillInv, ShardInv, CompleteInv, Bounds, [Next]_vars
    PROVE  Bounds'
<1> USE DEF executorVars, splicerVars, emissionVars
<1>1. CASE PullChunk \/ ChildIsKilled \/ StopExecutor \/ EndExecutor \/ SubmitSplicer
           \/ Collect \/ Return \/ UNCHANGED vars
  <2>1. UNCHANGED <<faults, start, queue, sending, memoryVars>>
    BY <1>1 DEF PullChunk, ChildIsKilled, StopExecutor, EndExecutor, SubmitSplicer, Collect,
                Return, vars
  <2> QED BY <2>1 DEF Bounds, memoryVars
<1>2. CASE ExecutionFails
  <2>1. /\ "error" \in Faults /\ faults' = faults \cup {"error"}
        /\ UNCHANGED <<start, queue, sending, memoryVars>>
    BY <1>2 DEF ExecutionFails
  <2>2. faults' \subseteq Faults \ {"kill"}
    BY <2>1 DEF Bounds
  <2> QED BY <2>1, <2>2 DEF Bounds, memoryVars
<1>3. CASE TakeCarry
  <2>1. UNCHANGED <<faults, queue, sending, memoryVars>> /\ chunk \in Chunks
    BY <1>3, ChunksFacts DEF TakeCarry, KillInv, Types, Submitted, Chunks
  <2>2. \/ start' = start
        \/ chunk - 1 \in Chunks /\ start' = [start EXCEPT ![chunk] = start[chunk - 1]]
    BY <1>3, <2>1, ChunksFacts DEF TakeCarry
  <2>3. \A i \in Chunks : start'[i] <= ProgramEnd
    BY <2>1, <2>2 DEF Bounds, KillInv, Types
  <2> QED BY <2>1, <2>3 DEF Bounds, memoryVars
<1>4. CASE \E i \in Chunks : Splicer(i) \/ SpliceFails(i)
  BY <1>4, BoundsSplicer
<1>5. CASE MergeTouched
  <2>1. /\ channel \in Seq(Chunks) /\ channel # <<>> /\ channel' = Tail(channel)
        /\ UNCHANGED <<faults, start, queue, sending, memory, plan, pages>>
    BY <1>5 DEF MergeTouched, CompleteInv
  <2>2. Len(channel') = Len(channel) - 1 /\ Len(channel) \in Nat
    BY <2>1, TailFacts
  <2>3. Len(channel') <= MemoryBuffer
    BY <2>2, SizesAssumption DEF Bounds
  <2> QED BY <2>1, <2>3 DEF Bounds
<1>6. CASE ReceiveFinalState
  <2>1. /\ UNCHANGED <<faults, start, queue, sending, channel, pages>>
        /\ memory' \in {"emitting", "failed"}
        /\ plan' \in MemoryPlans \/ plan' = plan
    BY <1>6 DEF ReceiveFinalState
  <2> QED BY <2>1 DEF Bounds
<1>7. CASE EmitAddress \/ EmitRest \/ EndMemory
  <2>1. /\ UNCHANGED <<faults, start, queue, sending, channel, plan, pages>>
        /\ memory' \in {memory, "pages", "ended"}
    BY <1>7 DEF EmitAddress, EmitRest, EndMemory
  <2> QED BY <2>1 DEF Bounds
<1>8. CASE EmitPages
  <2>1. /\ UNCHANGED <<faults, start, queue, sending, channel, plan>>
        /\ memory' = "emitted" /\ pages' \in PagePlans
    BY <1>8 DEF EmitPages
  <2> QED BY <2>1 DEF Bounds
<1>9. CASE SendMemoryShard
  <2>1. /\ UNCHANGED <<start, queue, sending, channel, plan, pages>>
        /\ memory' \in {memory, "failed"}
        /\ faults' = faults \/ ("send" \in Faults /\ faults' = faults \cup {"send"})
    BY <1>9 DEF SendMemoryShard
  <2>2. faults' \subseteq Faults \ {"kill"}
    BY <2>1 DEF Bounds
  <2> QED BY <2>1, <2>2 DEF Bounds
<1> QED BY <1>1, <1>2, <1>3, <1>4, <1>5, <1>6, <1>7, <1>8, <1>9 DEF Next, Progress

(* Every variable keeps its type, and every channel, buffer and pool of    *)
(* workers its bound: splicing_tx, the senders of a splicer, the channel   *)
(* of touched addresses and the buffers of the memory handler.             *)
THEOREM ExecutionTypes == Spec => []TypeOK
<1>1. KillInv /\ ShardInv /\ CompleteInv /\ Bounds /\ [Next]_vars => Bounds'
  BY BoundsStep
<1>2. KillInv /\ ShardInv /\ CompleteInv /\ MemoryInv /\ Bounds => TypeOK
  <2> SUFFICES ASSUME KillInv, ShardInv, CompleteInv, MemoryInv, Bounds PROVE TypeOK
    OBVIOUS
  <2>1. start \in [Chunks -> 0..ProgramEnd]
    <3>1. start \in [Chunks -> Nat] /\ ProgramEnd \in Nat
      BY ChunksFacts DEF KillInv, Types
    <3>2. \A i \in Chunks : start[i] \in 0..ProgramEnd
      BY <3>1 DEF Bounds
    <3> QED BY <3>1, <3>2
  <2>2. ASSUME NEW i \in Chunks
        PROVE  /\ queue[i] \in Seq(AllShards) /\ Len(queue[i]) <= ChannelSize
               /\ sending[i] \subseteq AllShards /\ Cardinality(sending[i]) <= SendWorkers
    BY DEF ShardInv, ShardTypes, Bounds
  <2>3. sent \in [AllShards -> Nat]
    BY DEF ShardInv, ShardTypes
  <2>4. channel \in Seq(Chunks) /\ merged \subseteq Chunks
    BY DEF CompleteInv
  <2>5. /\ Len(initBuffer) <= Len(finalBuffer) /\ Len(finalBuffer) < MemoryThreshold
        /\ memorySent \in 0..Len(memoryShards)
    BY DEF MemoryInv, MemoryTypes
  <2> QED BY <2>1, <2>2, <2>3, <2>4, <2>5 DEF TypeOK, KillInv, Types, Bounds
<1> QED BY <1>1, <1>2, BoundsInit, MemoryAlways, PTL DEF Spec

=============================================================================
