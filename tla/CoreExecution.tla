--------------------------- MODULE CoreExecution ---------------------------
(***************************************************************************)
(* SP1CoreExecutor::execute: how one execution becomes shards.             *)
(*                                                                         *)
(* The executor thread pulls trace chunks from the child and submits a     *)
(* splicer per chunk.  A splicer cuts its chunk into shards and sends them *)
(* to be proven; the shard that is still open at the end of the chunk is   *)
(* carried to the next chunk's splicer, for which the executor waits.      *)
(* Every splicer gives the addresses its chunk touched to the global       *)
(* memory handler, which emits the memory shards when the splicers have    *)
(* ended and the final state is known.  A task collects the splicers'      *)
(* results.  execute joins these tasks and returns at the first error.     *)
(*                                                                         *)
(* Time is the clk of the program, 0..ProgramEnd; a shard that starts at s *)
(* is full at s + ShardLength.  (Precompile shards: DeferredRecords.  The  *)
(* trace ring: ShmTraceRing.)                                              *)
(***************************************************************************)
EXTENDS Integers, Sequences, FiniteSets, FiniteSetsExt, SequencesExt

CONSTANTS
    ChunkEnds,          \* the clk at the end of each trace chunk
    ShardLength,        \* the cycles of a full shard
    ChannelSize,        \* the capacity of splicing_tx
    SendWorkers,        \* number_of_send_splice_workers
    MemoryBuffer,       \* global_memory_buffer_size
    Faults,             \* what may go wrong: "kill", "error", "splice", "send", "input"
    TouchedBy,          \* the addresses each chunk touches
    MemoryPlans,        \* hints, memory image and registers that may be found
    PagePlans,          \* touched pages and page image that may be found
    MemoryThreshold     \* split_opts.memory, and split_opts.page_prot

NumChunks == Len(ChunkEnds)
Chunks == 1..NumChunks
ProgramEnd == ChunkEnds[NumChunks]

ASSUME ChunksAssumption ==
    /\ ChunkEnds \in Seq(Nat \ {0}) /\ NumChunks > 0
    /\ \A i, j \in 1..NumChunks : i < j => ChunkEnds[i] < ChunkEnds[j]
ASSUME SizesAssumption ==
    /\ ShardLength \in Nat \ {0}
    /\ ChannelSize \in Nat \ {0}
    /\ SendWorkers \in Nat \ {0}
    /\ MemoryBuffer \in Nat \ {0}
    /\ MemoryThreshold \in Nat \ {0}
    /\ Faults \subseteq {"kill", "error", "splice", "send", "input"}
(* An ELF without instructions is refused, and so is a segment below the   *)
(* top of the stack: the memory image holds an address other than 0.       *)
ASSUME MemoryAssumption ==
    /\ TouchedBy \in [Chunks -> SUBSET Nat]
    /\ MemoryPlans \subseteq [hints : SUBSET Nat, image : SUBSET Nat, registers : SUBSET Nat]
    /\ \A p \in MemoryPlans : \E address \in p.image : address > 0
    /\ PagePlans \subseteq [touched : SUBSET Nat, image : SUBSET Nat]
    /\ \A p \in PagePlans : IsFiniteSet(p.touched) /\ IsFiniteSet(p.image)

VARIABLES
    \* The executor thread.
    executor,       \* where it is
    chunk,          \* the chunk it is at
    childKilled,    \* child_killed
    faults,         \* the failures other than a kill that have happened
    \* The splicers.
    thread,         \* per chunk: where its splicing thread is
    splicer,        \* per chunk: the result of splice_chunk
    start,          \* per chunk: where its next shard starts
    queue,          \* per chunk: splicing_tx
    sending,        \* per chunk: the shards the send workers have
    carry,          \* per chunk: what carry_tx was given
    sent,           \* how often each shard was sent to be proven
    finalState,     \* final_vm_state, as its clk, or -1
    \* The task that waits for the splicers.
    collector,      \* its result
    \* The global memory handler.
    channel,        \* the touched addresses on their way: a sequence of chunks
    merged,         \* the chunks whose addresses were merged
    memory,         \* where the handler is
    plan,           \* the registers, hints and memory image it found
    pages,          \* the touched pages and the page image it found
    left,           \* the addresses it has still to emit
    initBuffer,     \* init_buffer
    finalBuffer,    \* final_buffer
    memoryShards,   \* the memory and page shards, in order
    memorySent,     \* how many of them have been sent to be proven
    \* execute.
    result

executorVars == <<executor, chunk, childKilled>>
splicerVars == <<thread, splicer, start, queue, sending, carry, sent, finalState>>
memoryVars == <<channel, merged, memory, plan, pages, left, initBuffer,
                finalBuffer, memoryShards, memorySent>>
vars == <<executorVars, faults, splicerVars, collector, memoryVars, result>>

-----------------------------------------------------------------------------
Shard(s, e) == [start |-> s, end |-> e]

(* The shards of the program when it runs as one chunk.                    *)
LastIndex == (ProgramEnd - 1) \div ShardLength
Reference ==
    {Shard(k * ShardLength, IF k = LastIndex THEN ProgramEnd
                                             ELSE (k + 1) * ShardLength) :
        k \in 0..LastIndex}

AllShards == {shard \in [start : 0..ProgramEnd, end : 0..ProgramEnd] :
                  shard.start < shard.end}
NoPages == [touched |-> {}, image |-> {}]
NoPlan == [hints |-> {}, image |-> {}, registers |-> {}]

Init ==
    /\ executor = "pulling"
    /\ chunk = 1
    /\ childKilled = FALSE
    /\ faults = {}
    /\ thread = [i \in Chunks |-> "none"]
    /\ splicer = [i \in Chunks |-> "none"]
    /\ start = [i \in Chunks |-> IF i = 1 THEN 0 ELSE ChunkEnds[i - 1]]
    /\ queue = [i \in Chunks |-> <<>>]
    /\ sending = [i \in Chunks |-> {}]
    /\ carry = [i \in Chunks |-> "none"]
    /\ sent = [s \in AllShards |-> 0]
    /\ finalState = -1
    /\ collector = "running"
    /\ channel = <<>>
    /\ merged = {}
    /\ memory = "merging"
    /\ plan = NoPlan
    /\ pages = NoPages
    /\ left = [bits |-> {}, registers |-> {}]
    /\ initBuffer = <<>>
    /\ finalBuffer = <<>>
    /\ memoryShards = <<>>
    /\ memorySent = 0
    /\ result = "running"

-----------------------------------------------------------------------------
(* The executor thread.                                                    *)

PullChunk ==
    /\ executor = "pulling"
    /\ executor' = IF chunk <= NumChunks THEN "carry" ELSE "last"
    /\ UNCHANGED <<chunk, childKilled, faults, splicerVars, collector, memoryVars,
                   result>>

(* A killed child is noted before the thread ends and drops its channels.  *)
ChildIsKilled ==
    /\ "kill" \in Faults
    /\ executor = "pulling"
    /\ childKilled' = TRUE
    /\ executor' = "stopping"
    /\ UNCHANGED <<chunk, faults, splicerVars, collector, memoryVars, result>>

StopExecutor ==
    /\ executor = "stopping"
    /\ executor' = "failed"
    /\ UNCHANGED <<chunk, childKilled, faults, splicerVars, collector, memoryVars,
                   result>>

(* Any other error of the program, or the cycle limit.                     *)
ExecutionFails ==
    /\ "error" \in Faults
    /\ executor = "pulling"
    /\ executor' = "failed"
    /\ faults' = faults \cup {"error"}
    /\ UNCHANGED <<chunk, childKilled, splicerVars, collector, memoryVars, result>>

(* carry_rx: given, or its sender is gone with a splicer that failed.      *)
CarryDropped(i) == carry[i] = "none" /\ thread[i] = "failed"
CarryKnown(i) == carry[i] # "none" \/ CarryDropped(i)

FaultyTakeCarryNever ==
    /\ executor = "carry"
    /\ executor' = "submit"
    /\ UNCHANGED start
    /\ UNCHANGED <<chunk, childKilled, faults, thread, splicer, queue, sending,
                   carry, sent, finalState, collector, memoryVars, result>>

(* The next chunk resumes the previous chunk's open shard, if it left one. *)
TakeCarry ==
    /\ executor = "carry"
    /\ chunk > 1 => CarryKnown(chunk - 1)
    /\ IF chunk > 1 /\ CarryDropped(chunk - 1)
       THEN executor' = "failed" /\ UNCHANGED start
       ELSE /\ executor' = "submit"
            /\ start' = IF chunk > 1 /\ carry[chunk - 1] = "open"
                        THEN [start EXCEPT ![chunk] = start[chunk - 1]]
                        ELSE start
    /\ UNCHANGED <<chunk, childKilled, faults, thread, splicer, queue, sending,
                   carry, sent, finalState, collector, memoryVars, result>>

(* Submit the splicer and hand its handle to the collector, whose end is   *)
(* an error.                                                               *)
SubmitSplicer ==
    /\ executor = "submit"
    /\ thread' = [thread EXCEPT ![chunk] = "waiting"]
    /\ splicer' = [splicer EXCEPT ![chunk] = "running"]
    /\ IF collector = "running" /\ result = "running"
       THEN executor' = "pulling" /\ chunk' = chunk + 1
       ELSE executor' = "failed" /\ UNCHANGED chunk
    /\ UNCHANGED <<childKilled, faults, start, queue, sending, carry, sent,
                   finalState, collector, memoryVars, result>>

(* After the last chunk: no shard may be open.  A last splicer that failed *)
(* is left to the collector.  Then the output and the executor are handed  *)
(* on, to receivers that live until execute returns.                       *)
EndExecutor ==
    /\ executor = "last"
    /\ CarryKnown(NumChunks)
    /\ executor' = IF carry[NumChunks] = "open" \/ result # "running"
                   THEN "failed" ELSE "ended"
    /\ UNCHANGED <<chunk, childKilled, faults, splicerVars, collector, memoryVars,
                   result>>

-----------------------------------------------------------------------------
(* A splicer: its thread, its send workers and its result.                 *)

(* The common input is there, or the wait for it fails.                    *)
CommonInput(i) ==
    /\ thread[i] = "waiting"
    /\ \/ /\ thread' = [thread EXCEPT ![i] = "splicing"]
          /\ UNCHANGED <<splicer, faults>>
       \/ /\ "input" \in Faults
          /\ thread' = [thread EXCEPT ![i] = "failed"]
          /\ splicer' = [splicer EXCEPT ![i] = "failed"]
          /\ faults' = faults \cup {"input"}
    /\ UNCHANGED <<executorVars, start, queue, sending, carry, sent, finalState,
                   collector, memoryVars, result>>

(* The clk at which the shard that starts at s is full.                    *)
Boundary(s) == s + ShardLength

(* send_splice: wait for room, or fail when the receiver is gone.          *)
SendSplice(i, shard) ==
    IF splicer[i] = "failed"
    THEN /\ thread' = [thread EXCEPT ![i] = "failed"]
         /\ UNCHANGED <<queue, start>>
    ELSE /\ Len(queue[i]) < ChannelSize
         /\ queue' = [queue EXCEPT ![i] = Append(@, shard)]
         /\ start' = [start EXCEPT ![i] = shard.end]
         /\ UNCHANGED thread

(* A shard boundary inside the chunk.                                      *)
SpliceShard(i) ==
    /\ thread[i] = "splicing"
    /\ Boundary(start[i]) < ChunkEnds[i]
    /\ SendSplice(i, Shard(start[i], Boundary(start[i])))
    /\ UNCHANGED <<executorVars, faults, splicer, sending, carry, sent, finalState,
                   collector, memoryVars, result>>

(* The chunk ends inside a shard, or exactly at its boundary: the shard is *)
(* carried on.                                                             *)
EndOfChunk(i) ==
    /\ thread[i] = "splicing"
    /\ Boundary(start[i]) >= ChunkEnds[i]
    /\ i < NumChunks
    /\ carry' = [carry EXCEPT ![i] = "open"]
    /\ thread' = [thread EXCEPT ![i] = "extending"]
    /\ UNCHANGED <<executorVars, faults, splicer, start, queue, sending, sent,
                   finalState, collector, memoryVars, result>>

(* The program is done: the final state is set once, the last shard goes   *)
(* out, and nothing is carried.                                            *)
EndOfProgram(i) ==
    /\ thread[i] = "splicing"
    /\ Boundary(start[i]) >= ChunkEnds[i]
    /\ i = NumChunks
    /\ start[i] < ProgramEnd
    /\ SendSplice(i, Shard(start[i], ProgramEnd))
    /\ finalState' = ProgramEnd
    /\ UNCHANGED <<executorVars, faults, splicer, sending, carry, sent, collector,
                   memoryVars, result>>

CarryNothing(i) ==
    /\ thread[i] = "splicing"
    /\ start[i] = ProgramEnd
    /\ carry' = [carry EXCEPT ![i] = "closed"]
    /\ thread' = [thread EXCEPT ![i] = "extending"]
    /\ UNCHANGED <<executorVars, faults, splicer, start, queue, sending, sent,
                   finalState, collector, memoryVars, result>>

(* The splicing VM fails, a shard with a commit outgrew its room, say.     *)
SpliceFails(i) ==
    /\ "splice" \in Faults
    /\ thread[i] = "splicing"
    /\ thread' = [thread EXCEPT ![i] = "failed"]
    /\ splicer' = [splicer EXCEPT ![i] = "failed"]
    /\ queue' = [queue EXCEPT ![i] = <<>>]
    /\ faults' = faults \cup {"splice"}
    /\ UNCHANGED <<executorVars, start, sending, carry, sent, finalState, collector,
                   memoryVars, result>>

FaultyExtendTouchedUnbounded(i) ==
    /\ thread[i] = "extending"
    /\ channel' = Append(channel, i)
    /\ thread' = [thread EXCEPT ![i] = "ended"]
    /\ UNCHANGED <<executorVars, faults, splicer, start, queue, sending, carry,
                   sent, finalState, collector, merged, memory, plan, pages, left,
                   initBuffer, finalBuffer, memoryShards, memorySent, result>>

(* blocking_extend: the touched addresses, through a bounded channel.      *)
ExtendTouched(i) ==
    /\ thread[i] = "extending"
    /\ Len(channel) < MemoryBuffer
    /\ channel' = Append(channel, i)
    /\ thread' = [thread EXCEPT ![i] = "ended"]
    /\ UNCHANGED <<executorVars, faults, splicer, start, queue, sending, carry,
                   sent, finalState, collector, merged, memory, plan, pages, left,
                   initBuffer, finalBuffer, memoryShards, memorySent, result>>

TakeSplice(i) ==
    /\ splicer[i] = "running"
    /\ queue[i] # <<>>
    /\ Cardinality(sending[i]) < SendWorkers
    /\ sending' = [sending EXCEPT ![i] = @ \cup {Head(queue[i])}]
    /\ queue' = [queue EXCEPT ![i] = Tail(@)]
    /\ UNCHANGED <<executorVars, faults, thread, splicer, start, carry, sent,
                   finalState, collector, memoryVars, result>>

(* A send worker submits a shard, or fails and with it the splicer.        *)
SendShard(i, shard) ==
    /\ shard \in sending[i]
    /\ sending' = [sending EXCEPT ![i] = @ \ {shard}]
    /\ \/ /\ sent' = [sent EXCEPT ![shard] = @ + 1]
          /\ UNCHANGED <<faults, splicer, queue>>
       \/ /\ "send" \in Faults
          /\ faults' = faults \cup {"send"}
          /\ splicer' = [splicer EXCEPT ![i] = "failed"]
          /\ queue' = [queue EXCEPT ![i] = <<>>]
          /\ UNCHANGED sent
    /\ UNCHANGED <<executorVars, thread, start, carry, finalState, collector,
                   memoryVars, result>>

(* splice_chunk returns when its thread and its sends have ended.          *)
JoinSplicer(i) ==
    /\ splicer[i] = "running"
    /\ thread[i] = "ended"
    /\ queue[i] = <<>> /\ sending[i] = {}
    /\ splicer' = [splicer EXCEPT ![i] = "ended"]
    /\ UNCHANGED <<executorVars, faults, thread, start, queue, sending, carry,
                   sent, finalState, collector, memoryVars, result>>

-----------------------------------------------------------------------------
(* The collector of the splicers' results.                                 *)

ExecutorGone == executor \in {"ended", "failed"}

FaultyCollectIgnoring ==
    /\ result = "running"
    /\ collector = "running"
    /\ ExecutorGone
    /\ \A i \in Chunks : splicer[i] # "running"
    /\ collector' = IF finalState >= 0 THEN "ended" ELSE "failed"
    /\ UNCHANGED <<executorVars, faults, splicerVars, memoryVars, result>>

(* The first splicer that failed ends it; so does a missing final state    *)
(* when all of them have ended and the executor sends no more.             *)
Collect ==
    /\ result = "running"
    /\ collector = "running"
    /\ \/ /\ \E i \in Chunks : splicer[i] = "failed"
          /\ collector' = "failed"
       \/ /\ ExecutorGone
          /\ \A i \in Chunks : splicer[i] \in {"none", "ended"}
          /\ collector' = IF finalState >= 0 THEN "ended" ELSE "failed"
    /\ UNCHANGED <<executorVars, faults, splicerVars, memoryVars, result>>

-----------------------------------------------------------------------------
(* The global memory handler.                                              *)

emissionVars == <<plan, pages, left, initBuffer, finalBuffer, memoryShards,
                  memorySent>>

FaultyMergeTouchedLate ==
    /\ memory = "merging"
    /\ collector # "running"
    /\ channel # <<>>
    /\ merged' = merged \cup {Head(channel)}
    /\ channel' = Tail(channel)
    /\ UNCHANGED <<executorVars, faults, splicerVars, collector, memory,
                   emissionVars, result>>

MergeTouched ==
    /\ memory = "merging"
    /\ channel # <<>>
    /\ merged' = merged \cup {Head(channel)}
    /\ channel' = Tail(channel)
    /\ UNCHANGED <<executorVars, faults, splicerVars, collector, memory,
                   emissionVars, result>>

(* The senders are the executor thread and the splicing threads.           *)
ChannelClosed ==
    /\ channel = <<>>
    /\ ExecutorGone
    /\ \A i \in Chunks : thread[i] \in {"none", "ended", "failed"}

(* The executor and the final state arrive, or their senders are gone.     *)
(* What the bitmap then holds is what the chunks touched, the hints and    *)
(* the memory image of the program.                                        *)
ReceiveFinalState ==
    /\ memory = "merging"
    /\ ChannelClosed
    /\ \/ /\ executor = "ended"
          /\ collector = "ended"
          /\ \E p \in MemoryPlans :
                /\ plan' = p
                /\ left' = [bits |-> (UNION {TouchedBy[i] : i \in merged})
                                       \cup p.hints \cup p.image,
                            registers |-> p.registers]
          /\ memory' = "emitting"
       \/ /\ \/ executor = "failed"
             \/ collector = "failed"
             \/ collector = "running" /\ result # "running"
          /\ memory' = "failed"
          /\ UNCHANGED <<plan, left>>
    /\ UNCHANGED <<executorVars, faults, splicerVars, collector, channel, merged,
                   pages, initBuffer, finalBuffer, memoryShards, memorySent, result>>

LastOr(seq, default) == IF seq = <<>> THEN default ELSE Last(seq)

(* previous_init_addr ... previous_finalize_page_idx: where the ranges of  *)
(* the shard before it end.                                                *)
Previous == IF memoryShards = <<>>
            THEN [init |-> 0, final |-> 0, initPage |-> 0, finalPage |-> 0]
            ELSE Last(memoryShards).to

(* flush_memory_shard!                                                     *)
FlushMemoryShard(init, final) ==
    IF init = <<>> /\ final = <<>>
    THEN memoryShards
    ELSE Append(memoryShards,
                [init |-> init, final |-> final,
                 from |-> Previous,
                 to |-> [Previous EXCEPT !.init = LastOr(init, @),
                                         !.final = LastOr(final, @)]])

FaultyUseRegister ==
    /\ left.registers # {}
    /\ left.bits # {} => Min(left.registers) < Min(left.bits)

(* The next address is a register's when it is no greater than the next    *)
(* one of the bitmap.                                                      *)
UseRegister ==
    /\ left.registers # {}
    /\ left.bits # {} => Min(left.registers) <= Min(left.bits)

(* One step of the merge of bitmap and registers: a register hides the     *)
(* address of the bitmap it collides with, and an address of the memory    *)
(* image is finalized without being initialized.                           *)
EmitAddress ==
    LET address == IF UseRegister THEN Min(left.registers) ELSE Min(left.bits)
        init == IF UseRegister \/ address \notin plan.image
                THEN Append(initBuffer, address) ELSE initBuffer
        final == Append(finalBuffer, address)
        full == Len(init) >= MemoryThreshold \/ Len(final) >= MemoryThreshold
    IN  /\ result = "running"
        /\ memory = "emitting"
        /\ left.bits # {} \/ left.registers # {}
        /\ left' = IF UseRegister
                   THEN [bits |-> left.bits \ {address},
                         registers |-> left.registers \ {address}]
                   ELSE [left EXCEPT !.bits = @ \ {address}]
        /\ initBuffer' = IF full THEN <<>> ELSE init
        /\ finalBuffer' = IF full THEN <<>> ELSE final
        /\ memoryShards' = IF full THEN FlushMemoryShard(init, final) ELSE memoryShards
        /\ UNCHANGED <<executorVars, faults, splicerVars, collector, channel, merged,
                       memory, plan, pages, memorySent, result>>

(* The trailing partial shard.                                             *)
EmitRest ==
    /\ result = "running"
    /\ memory = "emitting"
    /\ left.bits = {} /\ left.registers = {}
    /\ memoryShards' = FlushMemoryShard(initBuffer, finalBuffer)
    /\ initBuffer' = <<>>
    /\ finalBuffer' = <<>>
    /\ memory' = "pages"
    /\ UNCHANGED <<executorVars, faults, splicerVars, collector, channel, merged,
                   plan, pages, left, memorySent, result>>

(* is_set: what the bitmap holds, in ascending order.                      *)
Sorted(set) ==
    [k \in 1..Cardinality(set) |->
        CHOOSE x \in set : Cardinality({y \in set : y < x}) = k - 1]

(* Page shards: chunk k of the pages to initialize goes with chunk k of    *)
(* the pages to finalize.                                                  *)
ChunkOf(seq, k) ==
    SubSeq(seq, (k - 1) * MemoryThreshold + 1, Min({k * MemoryThreshold, Len(seq)}))
BeforeChunk(seq, k) == LastOr(SubSeq(seq, 1, Min({(k - 1) * MemoryThreshold, Len(seq)})), 0)

PageShards(all, image) ==
    LET inits == Sorted(all \ image)
        finals == Sorted(all)
        At(k) == [Previous EXCEPT !.initPage = BeforeChunk(inits, k),
                                  !.finalPage = BeforeChunk(finals, k)]
    IN  [k \in 1..((Len(finals) + MemoryThreshold - 1) \div MemoryThreshold) |->
            [init |-> ChunkOf(inits, k), final |-> ChunkOf(finals, k),
             from |-> At(k), to |-> At(k + 1)]]

EmitPages ==
    /\ result = "running"
    /\ memory = "pages"
    /\ pages' \in PagePlans
    /\ memoryShards' = memoryShards \o
                         PageShards(pages'.touched \cup pages'.image, pages'.image)
    /\ memory' = "emitted"
    /\ UNCHANGED <<executorVars, faults, splicerVars, collector, channel, merged,
                   plan, left, initBuffer, finalBuffer, memorySent, result>>

(* The shards are created concurrently; the first that fails ends the      *)
(* handler.                                                                *)
SendMemoryShard ==
    /\ result = "running"
    /\ memory \in {"emitting", "pages", "emitted"}
    /\ memorySent < Len(memoryShards)
    /\ \/ /\ memorySent' = memorySent + 1
          /\ UNCHANGED <<memory, faults>>
       \/ /\ "send" \in Faults
          /\ memory' = "failed"
          /\ faults' = faults \cup {"send"}
          /\ UNCHANGED memorySent
    /\ UNCHANGED <<executorVars, splicerVars, collector, channel, merged, plan, pages,
                   left, initBuffer, finalBuffer, memoryShards, result>>

EndMemory ==
    /\ result = "running"
    /\ memory = "emitted"
    /\ memorySent = Len(memoryShards)
    /\ memory' = "ended"
    /\ UNCHANGED <<executorVars, faults, splicerVars, collector, channel, merged,
                   emissionVars, result>>

-----------------------------------------------------------------------------
(* execute joins its tasks.                                                *)

FaultyReturnFirst ==
    /\ result = "running"
    /\ \/ /\ "failed" \in {executor, collector, memory}
          /\ result' = IF childKilled /\ "failed" \notin {collector, memory}
                       THEN "retryable" ELSE "fatal"
       \/ /\ {executor, collector, memory} = {"ended"}
          /\ result' = "ok"
    /\ UNCHANGED <<executorVars, faults, splicerVars, collector, memoryVars>>

(* The first error is the result, unless the child was killed: the kill is *)
(* then the cause, whichever task failed first.                            *)
Return ==
    /\ result = "running"
    /\ \/ /\ "failed" \in {executor, collector, memory}
          /\ result' = IF childKilled THEN "retryable" ELSE "fatal"
       \/ /\ {executor, collector, memory} = {"ended"}
          /\ result' = "ok"
    /\ UNCHANGED <<executorVars, faults, splicerVars, collector, memoryVars>>

Splicer(i) ==
    \/ CommonInput(i)
    \/ SpliceShard(i)
    \/ EndOfChunk(i)
    \/ EndOfProgram(i)
    \/ CarryNothing(i)
    \/ ExtendTouched(i)
    \/ TakeSplice(i)
    \/ \E shard \in AllShards : SendShard(i, shard)
    \/ JoinSplicer(i)

Progress ==
    \/ PullChunk
    \/ StopExecutor
    \/ TakeCarry
    \/ SubmitSplicer
    \/ EndExecutor
    \/ \E i \in Chunks : Splicer(i)
    \/ Collect
    \/ MergeTouched
    \/ ReceiveFinalState
    \/ EmitAddress
    \/ EmitRest
    \/ EmitPages
    \/ SendMemoryShard
    \/ EndMemory
    \/ Return

Next ==
    \/ Progress
    \/ ChildIsKilled
    \/ ExecutionFails
    \/ \E i \in Chunks : SpliceFails(i)

Spec == Init /\ [][Next]_vars

(* Every thread and task runs on; no fault is promised.                    *)
FairSpec == Spec /\ WF_vars(Progress)

-----------------------------------------------------------------------------
(* Properties.                                                             *)

TypeOK ==
    /\ executor \in {"pulling", "stopping", "carry", "submit", "last", "ended", "failed"}
    /\ chunk \in 1..(NumChunks + 1)
    /\ childKilled \in BOOLEAN
    /\ faults \subseteq Faults \ {"kill"}
    /\ thread \in [Chunks -> {"none", "waiting", "splicing", "extending", "ended", "failed"}]
    /\ splicer \in [Chunks -> {"none", "running", "ended", "failed"}]
    /\ start \in [Chunks -> 0..ProgramEnd]
    /\ \A i \in Chunks :
          /\ queue[i] \in Seq(AllShards) /\ Len(queue[i]) <= ChannelSize
          /\ sending[i] \subseteq AllShards /\ Cardinality(sending[i]) <= SendWorkers
    /\ carry \in [Chunks -> {"none", "open", "closed"}]
    /\ sent \in [AllShards -> Nat]
    /\ finalState \in {-1, ProgramEnd}
    /\ collector \in {"running", "ended", "failed"}
    /\ channel \in Seq(Chunks) /\ Len(channel) <= MemoryBuffer
    /\ merged \subseteq Chunks
    /\ memory \in {"merging", "emitting", "pages", "emitted", "ended", "failed"}
    /\ plan \in MemoryPlans \cup {NoPlan}
    /\ pages \in PagePlans \cup {NoPages}
    /\ Len(initBuffer) <= Len(finalBuffer) /\ Len(finalBuffer) < MemoryThreshold
    /\ memorySent \in 0..Len(memoryShards)
    /\ result \in {"running", "ok", "retryable", "fatal"}

(* Wherever the trace was cut into chunks, and whatever fails, the shards  *)
(* sent to be proven are shards of the program run as one chunk, and none  *)
(* is sent twice: the promise of OpenShard.                                *)
ShardsAsOneChunk ==
    \A shard \in AllShards : sent[shard] <= IF shard \in Reference THEN 1 ELSE 0

(* An execution that returns its output has sent every shard: no splicer's *)
(* failure is lost because its carry had already been handed on.           *)
OkIsComplete ==
    result = "ok" =>
        /\ \A shard \in Reference : sent[shard] = 1
        /\ merged = Chunks
        /\ memorySent = Len(memoryShards)

(* A killed child alone never makes the execution's failure a fatal one,   *)
(* though the tasks that wait on the executor fail too, and maybe first.   *)
KillIsRetried == result = "fatal" => faults # {}

(* The sequences k of K hold the elements of `set`, each once and in order.*)
Lists(seqs, K, set) ==
    /\ \A x \in set : \E k \in K : \E i \in DOMAIN seqs[k] : seqs[k][i] = x
    /\ \A k \in K : \A i \in DOMAIN seqs[k] : seqs[k][i] \in set
    /\ \A k, l \in K : \A i \in DOMAIN seqs[k] : \A j \in DOMAIN seqs[l] :
          k < l \/ (k = l /\ i < j) => seqs[k][i] < seqs[l][j]

(* The shards k of K finalize `all`, and initialize what of it is not in   *)
(* the image.                                                              *)
Covers(K, all, image) ==
    /\ Lists([k \in K |-> memoryShards[k].final], K, all)
    /\ Lists([k \in K |-> memoryShards[k].init], K, all \ image)

(* The addresses any chunk touched, the hints, the memory image and the    *)
(* registers.                                                              *)
AllAddresses == (UNION {TouchedBy[i] : i \in Chunks})
                    \cup plan.hints \cup plan.image \cup plan.registers

(* The memory shards cover all addresses, the page shards after them all   *)
(* pages; no shard exceeds the threshold, each range starts where the one  *)
(* before it ends, and no two ranges are equal, for one of them would be   *)
(* dropped as a duplicate.                                                 *)
MemoryShardsPartition ==
    memory = "emitted" =>
        /\ \E n \in 0..Len(memoryShards) :
              /\ Covers(1..n, AllAddresses, plan.image \ plan.registers)
              /\ Covers((n + 1)..Len(memoryShards),
                        pages.touched \cup pages.image, pages.image)
        /\ \A k \in 1..Len(memoryShards) :
              LET s == memoryShards[k] IN
              /\ Len(s.init) <= MemoryThreshold /\ Len(s.final) <= MemoryThreshold
              /\ k > 1 => s.from = memoryShards[k - 1].to
              /\ \A j \in 1..(k - 1) :
                    <<s.from, s.to>> # <<memoryShards[j].from, memoryShards[j].to>>

(* execute returns: neither the bounded channels nor a failure anywhere    *)
(* leaves it waiting.                                                      *)
ExecuteReturns == <>(result # "running")

=============================================================================
