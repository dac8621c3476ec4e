------------------------ MODULE DeferredEventsProofs ------------------------
(***************************************************************************)
(* Every deferred event is in one precompile shard, shards are full, and   *)
(* the types of the module.                                                *)
(*                                                                         *)
(* That no event is in two shards follows from what DeferredRecordsProofs  *)
(* shows of the slices: they do not overlap, and of a core shard only      *)
(* those of one attempt are used.  That none is lost needs the other       *)
(* direction: once a core shard is no longer waited for, its events are in *)
(* slices, because its marker follows its list and the emitter waits for   *)
(* every marker.  The end of a failed proof prunes the lists, so this much *)
(* is claimed only until then.                                             *)
(***************************************************************************)
EXTENDS DeferredRecordsProofs

(* The event number k of chunk i of core shard s is in a slice.            *)
Holds(sl, s, i, k) ==
    sl.artifact[1] = s /\ sl.artifact[3] = i /\ sl.start <= k /\ k < sl.end
Covered(s, i, k) ==
    \/ \E j \in 1..Len(accumulator) : Holds(accumulator[j], s, i, k)
    \/ \E j \in 1..Len(cutting) : Holds(cutting[j], s, i, k)
    \/ \E l \in 1..Len(Cuts) : \E j \in 1..Len(Cuts[l]) : Holds(Cuts[l][j], s, i, k)

(* A core shard that is no longer waited for has all its events in slices. *)
NoneLost ==
    \A s \in Shards : ~Fresh(s) =>
        \A i \in 1..NumChunks(s) : \A k \in 0..(ChunkLen(s, i) - 1) : Covered(s, i, k)

(* The list of a core shard is there before its marker, and until it was   *)
(* appended.                                                               *)
ListsFirst ==
    /\ \A s \in Shards : Fresh(s) /\ s \in markers => wrappers[s] # 0
    /\ \A s \in Shards, n \in 1..MaxAttempts :
          Fresh(s) /\ upload[<<s, n>>] \in {"marker", "done"} => wrappers[s] # 0
    /\ emitter \in Fetching => current \in markers
    /\ emitter = "appending" => wrapper # 0

(* The stream has ended: nothing is to come, and in the end nothing is     *)
(* left.                                                                   *)
Ended == current = None /\ emitter # "waiting"
EndedEmpty ==
    /\ Ended => unsent = {} /\ messages = {} /\ dataMap = {}
    /\ emitter = "done" => current = None /\ accumulator = <<>> /\ cut = <<>>

CoverInv == ended \/ (NoneLost /\ ListsFirst /\ EndedEmpty)

(* While the proof has not ended, nothing is refused or reported as failed.*)
LEMMA StillOpen ==
    ASSUME [Next]_vars, ~ended'
    PROVE  /\ ~ended /\ ~ProofEnds /\ ~SubmitRefused
           /\ \A s \in Shards : ~ReceiveFailedMarker(s)
<1> USE DEF storeVars, workerVars, executorVars, listenVars, emitVars
<1>1. ~ProofEnds
  BY DEF ProofEnds
<1>2. ASSUME UNCHANGED EmitView PROVE UNCHANGED ended
  BY <1>2 DEF EmitView
<1>3. ASSUME NEW s \in Shards, SubmitCoreShard(s) PROVE UNCHANGED ended
  BY <1>3 DEF SubmitCoreShard
<1>4. ASSUME NEW s \in Shards, NEW n \in 1..MaxAttempts, UploadDeferred(s, n) PROVE UNCHANGED ended
  BY <1>4 DEF UploadDeferred
<1>5. ASSUME Emitter PROVE UNCHANGED ended
  BY <1>5 DEF Emitter, ListenerReceive, ReceiveMarker, ReceiveFailedMarker, DownloadWrapper,
              AppendEvents, EndOfStream, CutShard, AddSliceRef, DropControllerRef,
              SubmitPrecompileShard, SubmitRefused, AllSubmitted, EmitterFails
<1>6. ~ended
  BY <1>1, <1>2, <1>3, <1>4, <1>5, EmitFrame
<1> QED BY <1>1, <1>6 DEF SubmitRefused, TaskRefused, ReceiveFailedMarker

(* When split finds nothing to cut, the rest does not fill a shard, and    *)
(* with `last` there is no rest.                                           *)
LEMMA SplitEnd ==
    ASSUME EmitTypes, SplitPoints = {}
    PROVE  Count(accumulator) < Threshold /\ (LastSplit => accumulator = <<>>)
<1>1. accumulator \in Seq(Slice) /\ Len(accumulator) \in Nat /\ Threshold \in Nat /\ Threshold > 0
  BY LenProperties, BoundsAssumption DEF EmitTypes
<1>2. CASE accumulator = <<>>
  BY <1>1, <1>2, CountEmpty
<1>3. CASE accumulator # <<>>
  <2>1. Len(accumulator) \in 1..Len(accumulator)
    BY <1>1, <1>3, EmptySeq
  <2>2. SubSeq(accumulator, 1, Len(accumulator)) = accumulator
    BY <1>1
  <2>3. ~(Count(accumulator) >= Threshold) /\ ~LastSplit
    BY <2>1, <2>2 DEF SplitPoints
  <2>4. Count(accumulator) \in Nat
    BY <1>1, CountFinite
  <2> QED BY <1>1, <2>3, <2>4
<1> QED BY <1>2, <1>3

(* A step that moves slices covers what was covered.                       *)
LEMMA CoveredStep ==
    ASSUME EmitTypes, EmitPlaces, SlicesWhole, [Next]_vars,
           NEW s \in Shards, NEW i \in 1..NumChunks(s), NEW k \in 0..(ChunkLen(s, i) - 1),
           Covered(s, i, k)
    PROVE  Covered(s, i, k)'
<1> USE DEF Holds
<1>0. k \in Nat
  OBVIOUS
<1>1. CASE SlicesKept
  BY <1>1 DEF SlicesKept, Covered
<1>2. CASE SlicesAdded
  <2>1. /\ UNCHANGED <<cutting, Cuts>> /\ Len(accumulator) \in Nat /\ Len(accumulator') \in Nat
        /\ Len(accumulator) <= Len(accumulator')
        /\ \A j \in 1..Len(accumulator) : accumulator'[j] = accumulator[j]
    BY <1>2, AddedSlices, SliceFacts
  <2>2. \A j \in 1..Len(accumulator) : j \in 1..Len(accumulator')
    BY <2>1
  <2> QED BY <2>1, <2>2 DEF Covered
<1>3. ASSUME NEW index \in 1..Len(accumulator), NEW m \in Nat, SlicesCut(index, m)
      PROVE  Covered(s, i, k)'
  <2>1. Cuts' = Cuts
    BY <1>3 DEF SlicesCut
  <2>2. CASE \E l \in 1..Len(Cuts) : \E j \in 1..Len(Cuts[l]) : Holds(Cuts[l][j], s, i, k)
    BY <2>1, <2>2 DEF Covered
  <2>3. cutting = <<>>
    BY <1>3 DEF SlicesCut, EmitPlaces, Placed
  <2>4. ~\E j \in 1..Len(cutting) : Holds(cutting[j], s, i, k)
    BY <2>3
  <2>5. ASSUME NEW j \in 1..Len(accumulator), Holds(accumulator[j], s, i, k)
        PROVE  Covered(s, i, k)'
    <3>1. /\ Len(accumulator) \in Nat /\ accumulator[j].start \in Nat /\ accumulator[j].end \in Nat
          /\ accumulator[index].start \in Nat /\ accumulator[index].end \in Nat
      BY SliceFacts, SliceNumbers
    <3>2. CASE j < index \/ (j = index /\ k < m)
      <4>1. j \in 1..index /\ j \in 1..Len(cutting')
        BY <1>3, <3>1, <3>2 DEF SlicesCut
      <4>2. /\ cutting'[j].artifact = accumulator[j].artifact
            /\ cutting'[j].start = accumulator[j].start
            /\ cutting'[j].end = IF j = index THEN m ELSE accumulator[j].end
        BY <1>3, <4>1 DEF SlicesCut
      <4>3. k < cutting'[j].end
        BY <2>5, <3>1, <3>2, <4>2
      <4>4. Holds(cutting'[j], s, i, k)
        BY <2>5, <4>2, <4>3
      <4> QED BY <4>1, <4>4 DEF Covered
    <3>3. CASE j = index /\ ~(k < m)
      <4>1. m < accumulator[index].end
        BY <1>0, <2>5, <3>1, <3>3
      <4>2. /\ Len(accumulator') = Len(accumulator) - index + 1
            /\ accumulator'[1].artifact = accumulator[index].artifact
            /\ accumulator'[1].start = m
            /\ accumulator'[1].end = accumulator[index].end
        BY <1>3, <4>1 DEF SlicesCut
      <4>3. 1 \in 1..Len(accumulator')
        BY <3>1, <4>2
      <4>4. Holds(accumulator'[1], s, i, k)
        BY <1>0, <2>5, <3>3, <4>2
      <4> QED BY <4>3, <4>4 DEF Covered
    <3>4. CASE j > index
      <4>1. CASE m < accumulator[index].end
        <5>1. PICK q : q = j - index + 1
          OBVIOUS
        <5>2. Len(accumulator') = Len(accumulator) - index + 1
          BY <1>3, <4>1 DEF SlicesCut
        <5>3. q \in 2..Len(accumulator') /\ q \in 1..Len(accumulator') /\ index + q - 1 = j
          <6>1. q \in Nat /\ q >= 2 /\ index + q - 1 = j
            <7>1. index \in Nat /\ j \in Nat /\ j > index
              BY <3>4
            <7> QED BY <5>1, <7>1
          <6>2. q <= Len(accumulator') /\ Len(accumulator') \in Nat
            BY <3>1, <3>4, <5>1, <5>2
          <6> QED BY <6>1, <6>2
        <5>4. accumulator'[q] = accumulator[j]
          BY <1>3, <4>1, <5>3 DEF SlicesCut
        <5> QED BY <2>5, <5>3, <5>4 DEF Covered
      <4>2. CASE ~(m < accumulator[index].end)
        <5>1. PICK q : q = j - index
          OBVIOUS
        <5>0. m = accumulator[index].end
          BY <1>3, <3>1, <4>2 DEF SlicesCut
        <5>2. Len(accumulator') = Len(accumulator) - index
          BY <1>3, <5>0 DEF SlicesCut
        <5>3. q \in 1..Len(accumulator') /\ index + q = j
          BY <3>1, <3>4, <5>1, <5>2
        <5>4. accumulator'[q] = accumulator[j]
          BY <1>3, <5>0, <5>3 DEF SlicesCut
        <5> QED BY <2>5, <5>3, <5>4 DEF Covered
      <4> QED BY <4>1, <4>2
    <3> QED BY <3>1, <3>2, <3>3, <3>4
  <2> QED BY <2>2, <2>4, <2>5 DEF Covered
<1>4. CASE SlicesReady
  <2>1. /\ UNCHANGED accumulator /\ Len(Cuts) \in Nat /\ Len(Cuts') = Len(Cuts) + 1
        /\ \A l \in 1..Len(Cuts) : Cuts'[l] = Cuts[l]
        /\ Cuts'[Len(Cuts) + 1] = cutting
    BY <1>4, ReadySlices
  <2>2. Len(Cuts) + 1 \in 1..Len(Cuts') /\ \A l \in 1..Len(Cuts) : l \in 1..Len(Cuts')
    BY <2>1
  <2>3. CASE \E j \in 1..Len(accumulator) : Holds(accumulator[j], s, i, k)
    BY <2>1, <2>3 DEF Covered
  <2>4. CASE \E j \in 1..Len(cutting) : Holds(cutting[j], s, i, k)
    BY <2>1, <2>2, <2>4 DEF Covered
  <2>5. CASE \E l \in 1..Len(Cuts) : \E j \in 1..Len(Cuts[l]) : Holds(Cuts[l][j], s, i, k)
    BY <2>1, <2>2, <2>5 DEF Covered
  <2> QED BY <2>3, <2>4, <2>5 DEF Covered
<1> QED BY <1>1, <1>2, <1>3, <1>4, SlicesMove

(* Only AppendEvents ends the wait for a core shard, until the proof ends, *)
(* and it puts all the events of the list in hand into slices.             *)
LEMMA FreshEnds ==
    ASSUME EmitTypes, EmitPlaces, [Next]_vars, ~ended',
           NEW s \in Shards, Fresh(s), ~Fresh(s)'
    PROVE  AppendEvents /\ s = current
<1> USE DEF Fresh, Placed, Fetching, EmitPlaces
<1>1. CASE UNCHANGED EmitView
  BY <1>1 DEF EmitView, executorVars, listenVars, emitVars
<1>2. ASSUME NEW u \in Shards, SubmitCoreShard(u) PROVE FALSE
  BY <1>2 DEF SubmitCoreShard, listenVars, emitVars
<1>3. ASSUME NEW u \in Shards, NEW n \in 1..MaxAttempts, UploadDeferred(u, n) PROVE FALSE
  BY <1>3 DEF UploadDeferred, executorVars, listenVars, emitVars
<1>4. ASSUME NEW u \in Shards, ListenerReceive(u) PROVE FALSE
  BY <1>4 DEF ListenerReceive, emitVars
<1>5. ASSUME NEW u \in Shards, ReceiveMarker(u) PROVE FALSE
  BY <1>5 DEF ReceiveMarker, executorVars
<1>6. CASE DownloadWrapper
  BY <1>6 DEF DownloadWrapper, executorVars, listenVars
<1>7. CASE AppendEvents
  BY <1>7 DEF AppendEvents, executorVars, listenVars
<1>8. CASE EndOfStream \/ AllSubmitted
  BY <1>8 DEF EndOfStream, AllSubmitted, executorVars, listenVars
<1>9. CASE CutShard
  <2>1. UNCHANGED <<executorVars, listenVars, current>> /\ emitter = "splitting"
    BY <1>9 DEF CutShard
  <2> QED BY <2>1 DEF executorVars, listenVars
<1>10. CASE SubmitPrecompileShard
  BY <1>10 DEF SubmitPrecompileShard, executorVars, listenVars
<1>11. CASE AddSliceRef \/ DropControllerRef
  <2>1. UNCHANGED <<executorVars, listenVars, current>> /\ emitter \in Placed
    BY <1>11 DEF AddSliceRef, DropControllerRef
  <2> QED BY <2>1 DEF executorVars, listenVars
<1> QED BY <1>1, <1>2, <1>3, <1>4, <1>5, <1>6, <1>7, <1>8, <1>9, <1>10, <1>11,
           EmitFrame, StillOpen DEF Emitter

(* Appending the list of a core shard covers all its events.               *)
LEMMA AppendCovers ==
    ASSUME EmitTypes, EmitPlaces, AppendEvents, wrapper # 0,
           NEW i \in 1..NumChunks(current), NEW k \in 0..(ChunkLen(current, i) - 1)
    PROVE  \E j \in 1..Len(accumulator') : Holds(accumulator'[j], current, i, k)
<1> DEFINE slices == DeferRecord(current, wrapper)
<1>1. emitter = "appending" /\ accumulator' = accumulator \o slices
  BY DEF AppendEvents
<1>2. current \in Shards /\ wrapper \in 1..MaxAttempts
  BY <1>1, AttemptsFacts DEF EmitTypes, EmitPlaces, Fetching
<1>3. /\ slices \in Seq(Slice) /\ Len(slices) = NumChunks(current)
      /\ slices[i].artifact = <<current, wrapper, i>>
      /\ slices[i].start = 0 /\ slices[i].end = ChunkLen(current, i)
  BY <1>2, DeferFacts
<1> HIDE DEF slices
<1>4. NumChunks(current) \in Nat /\ ChunkLen(current, i) \in Nat
  BY <1>2, ChunkFacts, BoundsAssumption
<1>5. accumulator \in Seq(Slice) /\ Len(accumulator) \in Nat
  BY LenProperties DEF EmitTypes
<1>6. PICK j : j = Len(accumulator) + i
  OBVIOUS
<1>7. j \in 1..(Len(accumulator) + Len(slices)) /\ ~(j <= Len(accumulator)) /\ j - Len(accumulator) = i
  BY <1>3, <1>4, <1>5, <1>6
<1>8. Len(accumulator') = Len(accumulator) + Len(slices) /\ accumulator'[j] = slices[i]
  BY <1>1, <1>3, <1>5, <1>7, ConcatProperties
<1>9. <<current, wrapper, i>>[1] = current /\ <<current, wrapper, i>>[3] = i
  OBVIOUS
<1>10. Holds(accumulator'[j], current, i, k)
  BY <1>3, <1>4, <1>8, <1>9 DEF Holds
<1> QED BY <1>7, <1>8, <1>10

(* A step loses no event of a shard whose list was appended.               *)
LEMMA NoneLostStep ==
    ASSUME EmitInv, NoneLost, ListsFirst, [Next]_vars, ~ended'
    PROVE  NoneLost'
<1>0. EmitTypes /\ EmitPlaces /\ SlicesWhole
  BY DEF EmitInv
<1> SUFFICES ASSUME NEW s \in Shards, ~Fresh(s)',
                    NEW i \in 1..NumChunks(s), NEW k \in 0..(ChunkLen(s, i) - 1)
             PROVE  Covered(s, i, k)'
  BY DEF NoneLost, NumChunks, ChunkLen
<1>1. CASE ~Fresh(s)
  BY <1>0, <1>1, CoveredStep DEF NoneLost
<1>2. CASE Fresh(s)
  <2>1. AppendEvents /\ s = current
    BY <1>0, <1>2, FreshEnds
  <2>2. wrapper # 0
    BY <1>0, <2>1 DEF AppendEvents, ListsFirst
  <2>3. \E j \in 1..Len(accumulator') : Holds(accumulator'[j], s, i, k)
    BY <1>0, <2>1, <2>2, AppendCovers
  <2> QED BY <2>3 DEF Covered, Holds
<1> QED BY <1>1, <1>2

(* The end of the stream is final, and until the proof ends only           *)
(* EndOfStream reaches it.                                                 *)
LEMMA EndedStays ==
    ASSUME EmitInv, [Next]_vars
    PROVE  /\ Ended => Ended'
           /\ emitter = "done" => UNCHANGED <<emitter, current, accumulator, cut>>
           /\ Ended' /\ ~ended' => Ended \/ EndOfStream
           /\ emitter' = "done" => emitter = "done" \/ (AllSubmitted /\ LastSplit)
<1> USE DEF Ended, storeVars, workerVars, executorVars, listenVars, emitVars
<1> DEFINE Still == UNCHANGED <<emitter, current, accumulator, cut>>
<1>0. EmitTypes /\ EmitPlaces /\ None \notin Shards
  BY ShardsAssumption DEF EmitInv
<1>1. CASE UNCHANGED EmitView
  BY <1>1 DEF EmitView
<1>2. ASSUME NEW u \in Shards, SubmitCoreShard(u) PROVE Still
  BY <1>2 DEF SubmitCoreShard
<1>3. ASSUME NEW u \in Shards, NEW n \in 1..MaxAttempts, UploadDeferred(u, n) PROVE Still
  BY <1>3 DEF UploadDeferred
<1>4. ASSUME NEW u \in Shards, ListenerReceive(u) PROVE Still
  BY <1>4 DEF ListenerReceive
<1>5. ASSUME NEW u \in Shards, ReceiveMarker(u)
      PROVE  /\ emitter = "waiting" /\ ~Ended'
             /\ emitter' # "done"
  BY <1>0, <1>5 DEF ReceiveMarker, EmitPlaces
<1>6. CASE DownloadWrapper \/ AppendEvents
  <2>1. emitter \in Fetching /\ emitter' \in {"appending", "splitting"} /\ UNCHANGED current
    BY <1>6 DEF DownloadWrapper, AppendEvents, Fetching
  <2>2. current # None
    BY <1>0, <2>1 DEF EmitPlaces
  <2> QED BY <2>1, <2>2 DEF Fetching
<1>7. CASE EndOfStream
  BY <1>7 DEF EndOfStream
<1>8. CASE AllSubmitted
  BY <1>8 DEF AllSubmitted, LastSplit
<1>9. CASE CutShard
  BY <1>9 DEF CutShard
<1>10. CASE SubmitPrecompileShard
  BY <1>10 DEF SubmitPrecompileShard
<1>11. CASE AddSliceRef \/ DropControllerRef
  <2>1. /\ UNCHANGED current /\ emitter \in {"referencing", "unreferencing"}
        /\ emitter' \in {"referencing", "unreferencing", "splitting"}
    BY <1>11 DEF AddSliceRef, DropControllerRef, NextPosition
  <2> QED BY <2>1
<1>12. ASSUME EmitterFails, ended, emitter # "done"
       PROVE  emitter' = "failed" /\ UNCHANGED current /\ ended'
  BY <1>12 DEF EmitterFails
<1>13. CASE ProofEnds
  BY <1>13 DEF ProofEnds
<1>14. CASE SubmitRefused \/ \E u \in Shards : ReceiveFailedMarker(u)
  <2>1. EmitterFails /\ ended /\ emitter # "done"
    BY <1>14 DEF SubmitRefused, TaskRefused, ReceiveFailedMarker
  <2> QED BY <1>12, <2>1
<1> QED BY <1>1, <1>2, <1>3, <1>4, <1>5, <1>6, <1>7, <1>8, <1>9, <1>10, <1>11, <1>13,
           <1>14, EmitFrame DEF Emitter

(* A list precedes its marker.                                             *)
LEMMA ListsFirstStep ==
    ASSUME EmitInv, WorkerInv, ListsFirst, [Next]_vars, ~ended'
    PROVE  ListsFirst'
<1> USE DEF storeVars, workerVars, executorVars, listenVars, emitVars
<1>0. EmitTypes /\ EmitPlaces /\ WorkerTypes
  BY DEF EmitInv, WorkerInv
<1>1. \A s \in Shards : Fresh(s)' => Fresh(s)
  BY <1>0, FreshStep
<1>2. CASE UNCHANGED vars
  BY <1>1, <1>2 DEF vars, ListsFirst
<1>3. ASSUME NEW s \in Shards, SubmitCoreShard(s) \/ ListenerReceive(s) PROVE ListsFirst'
  BY <1>1, <1>3 DEF SubmitCoreShard, ListenerReceive, ListsFirst
<1>4. ASSUME NEW t \in Tasks, ReleasePermit(t) \/ Redeliver(t) PROVE ListsFirst'
  BY <1>1, <1>4 DEF ReleasePermit, Redeliver, ListsFirst
<1>5. CASE DropGate
  BY <1>1, <1>5 DEF DropGate, ListsFirst
<1>6. ASSUME NEW t \in Tasks, NEW n \in 1..MaxAttempts, Worker(t, n) PROVE ListsFirst'
  <2>1. UNCHANGED <<wrappers, wrapper, markers, emitter, current>>
    BY <1>6 DEF Worker, Start, TraceFails, DownloadEvents, Prove, DropSliceRef, FreeSlice,
                Finish, JoinFails, Fail
  <2>2. UNCHANGED upload \/ upload' = [upload EXCEPT ![<<t, n>>] = "events"]
    BY <1>6 DEF Worker, Start, StartCore, StartPrecompile, TraceFails, DownloadEvents, Prove,
                DropSliceRef, FreeSlice, Finish, JoinFails, Fail
  <2>3. \A s \in Shards, k \in 1..MaxAttempts : upload'[<<s, k>>] \in {"marker", "done"} =>
            upload[<<s, k>>] \in {"marker", "done"}
    BY <1>0, <2>2 DEF WorkerTypes
  <2> QED BY <1>1, <2>1, <2>3 DEF ListsFirst
<1>7. ASSUME NEW s \in Shards, NEW n \in 1..MaxAttempts, UploadDeferred(s, n) PROVE ListsFirst'
  <2>1. /\ wrappers' = [wrappers EXCEPT ![s] = n]
        /\ upload' = [upload EXCEPT ![<<s, n>>] = "marker"]
        /\ UNCHANGED <<wrapper, markers, emitter, current>>
    BY <1>7 DEF UploadDeferred
  <2>2. n # 0 /\ wrappers'[s] = n /\ \A u \in Shards : u # s => wrappers'[u] = wrappers[u]
    BY <1>0, <2>1, AttemptsFacts DEF EmitTypes
  <2>3. \A u \in Shards, k \in 1..MaxAttempts : u # s => upload'[<<u, k>>] = upload[<<u, k>>]
    BY <1>0, <2>1 DEF WorkerTypes
  <2>4. ASSUME NEW u \in Shards, Fresh(u), u \in markers \/ \E k \in 1..MaxAttempts :
                  upload'[<<u, k>>] \in {"marker", "done"}
        PROVE  wrappers'[u] # 0
    BY <2>2, <2>3, <2>4 DEF ListsFirst
  <2> QED BY <1>1, <2>1, <2>4 DEF ListsFirst
<1>8. ASSUME NEW s \in Shards, NEW n \in 1..MaxAttempts, CompleteMarker(s, n) PROVE ListsFirst'
  <2>1. /\ upload[<<s, n>>] = "marker" /\ markers' = markers \cup {s}
        /\ upload' = [upload EXCEPT ![<<s, n>>] = "done"]
        /\ UNCHANGED <<wrappers, wrapper, emitter, current>>
    BY <1>8 DEF CompleteMarker
  <2>2. \A u \in Shards, k \in 1..MaxAttempts : upload'[<<u, k>>] \in {"marker", "done"} =>
            upload[<<u, k>>] \in {"marker", "done"}
    BY <1>0, <2>1 DEF WorkerTypes
  <2>3. Fresh(s) => wrappers[s] # 0
    BY <2>1 DEF ListsFirst
  <2> QED BY <1>1, <2>1, <2>2, <2>3 DEF ListsFirst
<1>9. ASSUME NEW s \in Shards, ReceiveMarker(s) PROVE ListsFirst'
  <2>1. /\ UNCHANGED <<wrappers, wrapper, markers, upload>>
        /\ s \in markers
        /\ (emitter' = "downloading" /\ current' = s) \/ emitter' = "waiting"
    BY <1>9 DEF ReceiveMarker
  <2> QED BY <1>1, <2>1 DEF ListsFirst, Fetching
<1>10. CASE DownloadWrapper
  <2>1. /\ UNCHANGED <<wrappers, current, markers, upload>>
        /\ emitter = "downloading" /\ emitter' = "appending" /\ wrapper' = wrappers[current]
    BY <1>10 DEF DownloadWrapper
  <2>2. current \in Shards /\ Fresh(current) /\ current \in markers
    BY <1>0, <2>1 DEF EmitPlaces, Fresh, Fetching, ListsFirst
  <2> QED BY <1>1, <2>1, <2>2 DEF ListsFirst
<1>11. CASE AppendEvents
  <2>1. /\ wrappers' = [wrappers EXCEPT ![current] = 0] /\ emitter' = "splitting"
        /\ UNCHANGED <<markers, upload>>
    BY <1>11 DEF AppendEvents
  <2>2. ASSUME NEW u \in Shards, Fresh(u)' PROVE Fresh(u) /\ wrappers'[u] = wrappers[u]
    <3>1. Fresh(u) /\ u # current
      BY <1>0, <1>11, <2>2, FreshStep
    <3> QED BY <1>0, <2>1, <3>1 DEF EmitTypes
  <2> QED BY <2>1, <2>2 DEF ListsFirst, Fetching
<1>12. CASE EndOfStream \/ AllSubmitted
  <2>1. UNCHANGED <<wrappers, markers, upload>> /\ emitter' \in {"splitting", "waiting", "done"}
    BY <1>12 DEF EndOfStream, AllSubmitted
  <2> QED BY <1>1, <2>1 DEF ListsFirst, Fetching
<1>13. CASE CutShard
  <2>1. UNCHANGED <<wrappers, markers, upload>> /\ emitter' = "referencing"
    BY <1>13 DEF CutShard
  <2> QED BY <1>1, <2>1 DEF ListsFirst, Fetching
<1>14. CASE SubmitPrecompileShard
  <2>1. UNCHANGED <<wrappers, markers, upload>> /\ emitter = "splitting" /\ emitter' = "splitting"
    BY <1>14 DEF SubmitPrecompileShard
  <2> QED BY <1>1, <2>1 DEF ListsFirst, Fetching
<1>15. CASE AddSliceRef \/ DropControllerRef
  <2>1. /\ UNCHANGED <<wrappers, markers, upload>>
        /\ emitter' \in {"referencing", "unreferencing", "splitting"}
    BY <1>15 DEF AddSliceRef, DropControllerRef, NextPosition
  <2> QED BY <1>1, <2>1 DEF ListsFirst, Fetching
<1>16. CASE Emitter
  BY <1>3, <1>9, <1>10, <1>11, <1>12, <1>13, <1>14, <1>15, <1>16, StillOpen DEF Emitter
<1>17. ASSUME NEW s \in Shards, NEW n \in 1..MaxAttempts, UploadFails(s, n) PROVE ListsFirst'
  <2>1. /\ upload' = [upload EXCEPT ![<<s, n>>] = "failed"]
        /\ UNCHANGED <<wrappers, wrapper, markers, emitter, current>>
    BY <1>17 DEF UploadFails
  <2>2. \A u \in Shards, k \in 1..MaxAttempts : upload'[<<u, k>>] \in {"marker", "done"} =>
            upload[<<u, k>>] \in {"marker", "done"}
    BY <1>0, <2>1 DEF WorkerTypes
  <2> QED BY <1>1, <2>1, <2>2 DEF ListsFirst
<1> QED BY <1>2, <1>3, <1>4, <1>5, <1>6, <1>7, <1>8, <1>16, <1>17, StillOpen
        DEF Next, Progress, DeferredUpload, RequestFails

(* The emitter ends with nothing left to cut or to submit.                 *)
LEMMA EndedEmptyStep ==
    ASSUME EmitInv, EndedEmpty, [Next]_vars, ~ended'
    PROVE  EndedEmpty'
<1>0. EmitTypes /\ EmitPlaces
  BY DEF EmitInv
<1>1. ASSUME Ended' PROVE (unsent = {} /\ messages = {} /\ dataMap = {})'
  <2>1. CASE EndOfStream
    <3>1. unsent = {} /\ messages = {} /\ subscribed = {} /\ UNCHANGED <<executorVars, listenVars>>
      BY <2>1 DEF EndOfStream
    <3> QED BY <1>0, <3>1 DEF executorVars, listenVars, EmitPlaces
  <2>2. CASE ~EndOfStream
    <3>1. Ended /\ unsent = {} /\ messages = {} /\ dataMap = {}
      BY <1>1, <2>2, EndedStays DEF EndedEmpty
    <3>2. \A s \in Shards : ~Fresh(s)
      BY <1>0, <3>1, ShardsAssumption DEF Fresh, Ended, EmitPlaces, EmitTypes, Fetching
    <3>3. \A s \in Shards : ~Fresh(s)'
      BY <1>0, <3>2, FreshStep
    <3>4. EmitTypes'
      BY EmitStep DEF EmitInv
    <3> QED BY <3>3, <3>4 DEF Fresh, EmitTypes
  <2> QED BY <2>1, <2>2
<1>2. ASSUME emitter' = "done" PROVE (current = None /\ accumulator = <<>> /\ cut = <<>>)'
  <2>1. CASE emitter = "done"
    BY <2>1, EndedStays DEF EndedEmpty
  <2>2. CASE AllSubmitted /\ LastSplit
    <3>1. SplitPoints = {} /\ cut = <<>> /\ current' = None /\ UNCHANGED <<accumulator, cut>>
      BY <2>2 DEF AllSubmitted
    <3>2. accumulator = <<>>
      BY <1>0, <2>2, <3>1, SplitEnd
    <3> QED BY <3>1, <3>2
  <2> QED BY <1>2, <2>1, <2>2, EndedStays
<1> QED BY <1>1, <1>2 DEF EndedEmpty

(* Nothing is appended at the start.                                       *)
LEMMA CoverInitial == Init => CoverInv
<1> SUFFICES ASSUME Init PROVE CoverInv
  OBVIOUS
<1>1. /\ unsent = Shards /\ emitter = "waiting" /\ current = None /\ markers = {}
      /\ upload = [a \in Shards \X (1..MaxAttempts) |-> "none"]
  BY DEF Init
<1>2. NoneLost
  BY <1>1 DEF NoneLost, Fresh
<1>3. ListsFirst
  BY <1>1 DEF ListsFirst, Fetching
<1>4. EndedEmpty
  BY <1>1 DEF EndedEmpty, Ended
<1> QED BY <1>2, <1>3, <1>4 DEF CoverInv

(* Every step keeps CoverInv.                                              *)
LEMMA CoverStep ==
    ASSUME EmitInv, WorkerInv, CoverInv, [Next]_vars
    PROVE  CoverInv'
<1> SUFFICES ASSUME ~ended' PROVE (NoneLost /\ ListsFirst /\ EndedEmpty)'
  BY DEF CoverInv
<1>1. NoneLost /\ ListsFirst /\ EndedEmpty
  BY StillOpen DEF CoverInv
<1> QED BY <1>1, NoneLostStep, ListsFirstStep, EndedEmptyStep

-----------------------------------------------------------------------------
(* Every event is in one shard.                                            *)

(* The slices that are kept: those of the shards, of the one that is being *)
(* cut, and the rest.                                                      *)
LEMMA KeptFacts ==
    ASSUME EmitTypes
    PROVE  /\ Kept \in Seq(Seq(Slice)) /\ Len(Cuts) \in Nat
           /\ Len(Kept) = Len(Cuts) + 2
           /\ \A k \in 1..Len(Cuts) : Kept[k] = Cuts[k]
           /\ Kept[Len(Cuts) + 1] = cutting
           /\ Kept[Len(Cuts) + 2] = accumulator
<1> DEFINE q == <<cutting, accumulator>>
<1>1. Cuts \in Seq(Seq(Slice)) /\ Len(Cuts) \in Nat
  BY CutsFacts, LenProperties
<1>2. cutting \in Seq(Slice) /\ accumulator \in Seq(Slice)
  BY DEF EmitTypes
<1>3. q \in Seq(Seq(Slice)) /\ Len(q) = 2 /\ q[1] = cutting /\ q[2] = accumulator
  BY <1>2
<1>4. Kept = Cuts \o q
  BY DEF Kept, Cuts
<1> HIDE DEF q
<1>5. /\ Kept \in Seq(Seq(Slice)) /\ Len(Kept) = Len(Cuts) + 2
      /\ \A k \in 1..(Len(Cuts) + 2) : Kept[k] =
            IF k <= Len(Cuts) THEN Cuts[k] ELSE q[k - Len(Cuts)]
  <2>1. /\ Cuts \o q \in Seq(Seq(Slice)) /\ Len(Cuts \o q) = Len(Cuts) + Len(q)
        /\ \A k \in 1..(Len(Cuts) + Len(q)) : (Cuts \o q)[k] =
              IF k <= Len(Cuts) THEN Cuts[k] ELSE q[k - Len(Cuts)]
    BY <1>1, <1>3, ConcatProperties
  <2>2. Len(q) = 2
    BY <1>3
  <2> QED BY <1>4, <2>1, <2>2
<1>6. /\ Len(Cuts) + 1 \in 1..(Len(Cuts) + 2) /\ ~(Len(Cuts) + 1 <= Len(Cuts))
      /\ Len(Cuts) + 1 - Len(Cuts) = 1
      /\ Len(Cuts) + 2 \in 1..(Len(Cuts) + 2) /\ ~(Len(Cuts) + 2 <= Len(Cuts))
      /\ Len(Cuts) + 2 - Len(Cuts) = 2
  BY <1>1
<1>7. \A k \in 1..Len(Cuts) : Kept[k] = Cuts[k]
  BY <1>1, <1>5
<1> QED BY <1>1, <1>3, <1>5, <1>6, <1>7

(* Two slices of the same core shard that do not overlap have no event in  *)
(* common, if they are of one attempt.                                     *)
LEMMA EventsApart ==
    ASSUME NEW x \in Slice, NEW y \in Slice, Disjoint(x, y),
           x.artifact[1] = y.artifact[1] => x.artifact[2] = y.artifact[2]
    PROVE  EventsIn(x) \cap EventsIn(y) = {}
<1> SUFFICES ASSUME NEW e, e \in EventsIn(x), e \in EventsIn(y) PROVE FALSE
  OBVIOUS
<1>1. /\ x.artifact \in ArtifactIds /\ x.start \in Nat /\ x.end \in Nat
      /\ y.artifact \in ArtifactIds /\ y.start \in Nat /\ y.end \in Nat
  BY SliceNumbers
<1>2. PICK k \in x.start..(x.end - 1) : e = <<x.artifact[1], x.artifact[3], k>>
  BY DEF EventsIn
<1>3. PICK l \in y.start..(y.end - 1) : e = <<y.artifact[1], y.artifact[3], l>>
  BY DEF EventsIn
<1>4. x.artifact[1] = y.artifact[1] /\ x.artifact[3] = y.artifact[3] /\ k = l
  BY <1>2, <1>3
<1>5. x.artifact = y.artifact
  <2>1. /\ x.artifact = <<x.artifact[1], x.artifact[2], x.artifact[3]>>
        /\ y.artifact = <<y.artifact[1], y.artifact[2], y.artifact[3]>>
    BY <1>1, ArtifactFacts
  <2> QED BY <1>4, <2>1
<1>6. x.end <= y.start \/ y.end <= x.start
  BY <1>5 DEF Disjoint
<1> QED BY <1>1, <1>4, <1>6

(* Slices in different places hold different events.                       *)
LEMMA KeptApart ==
    ASSUME EmitInv,
           NEW k \in 1..Len(Kept), NEW l \in 1..Len(Kept),
           NEW i \in 1..Len(Kept[k]), NEW j \in 1..Len(Kept[l]), <<k, i>> # <<l, j>>
    PROVE  EventsIn(Kept[k][i]) \cap EventsIn(Kept[l][j]) = {}
<1> DEFINE n == Len(Cuts)
<1>0. EmitTypes /\ EmitPlaces /\ SlicesWhole /\ SlicesApart /\ OneAttempt
  BY DEF EmitInv
<1>1. /\ n \in Nat /\ Len(Kept) = n + 2
      /\ \A c \in 1..n : Kept[c] = Cuts[c]
      /\ Kept[n + 1] = cutting /\ Kept[n + 2] = accumulator
  BY <1>0, KeptFacts
<1> HIDE DEF n
<1>2. ASSUME NEW c \in 1..Len(Kept)
      PROVE  c \in 1..n \/ c = n + 1 \/ c = n + 2
  BY <1>1
<1>3. ASSUME NEW c \in 1..Len(Kept), NEW d \in 1..Len(Kept[c])
      PROVE  Kept[c][d] \in Slice /\ Used(Kept[c][d].artifact) /\ Kept[c][d].artifact \in ArtifactIds
  <2>1. Kept[c][d] \in Slice /\ Used(Kept[c][d].artifact)
    BY <1>0, <1>1, <1>2, SliceFacts DEF Used, n
  <2> QED BY <2>1, SliceNumbers
<1>4. Disjoint(Kept[k][i], Kept[l][j])
  <2>1. CASE k \in 1..n /\ l \in 1..n
    BY <1>0, <1>1, <2>1 DEF SlicesApart, CutsApart, n
  <2>2. CASE k \in 1..n /\ l \notin 1..n
    BY <1>0, <1>1, <1>2, <2>2 DEF SlicesApart, RestApart, n
  <2>3. CASE k \notin 1..n /\ l \in 1..n
    <3>1. Disjoint(Kept[l][j], Kept[k][i])
      BY <1>0, <1>1, <1>2, <2>3 DEF SlicesApart, RestApart, n
    <3> QED BY <3>1 DEF Disjoint
  <2>4. CASE k \notin 1..n /\ l = k
    <3>1. i # j
      BY <2>4
    <3> QED BY <1>0, <1>1, <1>2, <2>4, <3>1 DEF SlicesApart, CuttingApart, AccumulatorApart, Disjoint
  <2>5. CASE k = n + 1 /\ l = n + 2
    BY <1>0, <1>1, <2>5 DEF SlicesApart, RemainderApart, Disjoint
  <2>6. CASE k = n + 2 /\ l = n + 1
    BY <1>0, <1>1, <2>6 DEF SlicesApart, RemainderApart, Disjoint
  <2> QED BY <1>2, <2>1, <2>2, <2>3, <2>4, <2>5, <2>6
<1>5. Kept[k][i].artifact[1] = Kept[l][j].artifact[1] =>
         Kept[k][i].artifact[2] = Kept[l][j].artifact[2]
  BY <1>0, <1>3 DEF OneAttempt
<1> QED BY <1>3, <1>4, <1>5, EventsApart

(* The events of the submitted shards, and all events.                     *)
LEMMA SubmittedEvents ==
    ASSUME EmitTypes, NEW e
    PROVE  e \in UNION {EventsIn(sl) : sl \in SlicesIn(submitted)} <=>
              \E k \in 1..Len(submitted) : \E i \in 1..Len(submitted[k]) :
                  e \in EventsIn(submitted[k][i])
<1>1. /\ DOMAIN submitted = 1..Len(submitted)
      /\ \A k \in 1..Len(submitted) : DOMAIN submitted[k] = 1..Len(submitted[k])
  <2>1. submitted \in Seq(Seq(Slice))
    BY DEF EmitTypes
  <2>2. \A k \in 1..Len(submitted) : submitted[k] \in Seq(Slice)
    BY <2>1, ElementOfSeq
  <2> QED BY <2>1, <2>2, LenProperties
<1>2. ASSUME NEW sl \in SlicesIn(submitted)
      PROVE  \E k \in 1..Len(submitted) : \E i \in 1..Len(submitted[k]) : sl = submitted[k][i]
  <2>1. PICK k \in 1..Len(submitted) : sl \in Range(submitted[k])
    BY <1>1 DEF SlicesIn
  <2>2. PICK i \in 1..Len(submitted[k]) : sl = submitted[k][i]
    BY <1>1, <2>1 DEF Range
  <2> QED BY <2>2
<1>3. ASSUME NEW k \in 1..Len(submitted), NEW i \in 1..Len(submitted[k])
      PROVE  submitted[k][i] \in SlicesIn(submitted)
  <2>1. submitted[k][i] \in Range(submitted[k])
    BY <1>1 DEF Range
  <2> QED BY <1>1, <2>1 DEF SlicesIn
<1>4. ASSUME e \in UNION {EventsIn(sl) : sl \in SlicesIn(submitted)}
      PROVE  \E k \in 1..Len(submitted) : \E i \in 1..Len(submitted[k]) :
                 e \in EventsIn(submitted[k][i])
  <2>1. PICK sl \in SlicesIn(submitted) : e \in EventsIn(sl)
    BY <1>4
  <2> QED BY <1>2, <2>1
<1>5. ASSUME NEW k \in 1..Len(submitted), NEW i \in 1..Len(submitted[k]),
             e \in EventsIn(submitted[k][i])
      PROVE  e \in UNION {EventsIn(sl) : sl \in SlicesIn(submitted)}
  BY <1>3, <1>5
<1> QED BY <1>4, <1>5

(* The events of the slices are events of the core shards.                 *)
LEMMA AllEventsFacts ==
    ASSUME NEW e
    PROVE  e \in AllEvents <=>
              \E s \in Shards : \E i \in 1..NumChunks(s) : \E k \in 0..(ChunkLen(s, i) - 1) :
                  e = <<s, i, k>>
<1> DEFINE Chunk(s, i) == {<<s, i, k>> : k \in 0..(ChunkLen(s, i) - 1)}
           Of(s) == UNION {Chunk(s, i) : i \in 1..NumChunks(s)}
<1>1. ASSUME e \in AllEvents
      PROVE  \E s \in Shards : \E i \in 1..NumChunks(s) : \E k \in 0..(ChunkLen(s, i) - 1) :
                 e = <<s, i, k>>
  <2>1. PICK s \in Shards : e \in Of(s)
    BY <1>1 DEF AllEvents
  <2>2. PICK i \in 1..NumChunks(s) : e \in Chunk(s, i)
    BY <2>1
  <2> QED BY <2>2
<1>2. ASSUME NEW s \in Shards, NEW i \in 1..NumChunks(s), NEW k \in 0..(ChunkLen(s, i) - 1),
             e = <<s, i, k>>
      PROVE  e \in AllEvents
  <2>1. e \in Chunk(s, i)
    BY <1>2
  <2> HIDE DEF Chunk
  <2>2. e \in Of(s)
    BY <2>1
  <2> HIDE DEF Of
  <2>3. e \in UNION {Of(u) : u \in Shards}
    BY <2>2
  <2> QED BY <2>3 DEF AllEvents, Of, Chunk
<1> QED BY <1>1, <1>2

(* EachEventOnce follows from the invariants.                              *)
LEMMA EventsOnce ==
    ASSUME EmitInv, CoverInv
    PROVE  EachEventOnce
<1>0. /\ EmitTypes /\ EmitPlaces /\ SlicesWhole
      /\ ~ended => NoneLost /\ EndedEmpty
  BY DEF EmitInv, CoverInv
<1>1. /\ DOMAIN Kept = 1..Len(Kept)
      /\ \A k \in 1..Len(Kept) : DOMAIN Kept[k] = 1..Len(Kept[k])
  <2>1. Kept \in Seq(Seq(Slice))
    BY <1>0, KeptFacts
  <2>2. \A k \in 1..Len(Kept) : Kept[k] \in Seq(Slice)
    BY <2>1, ElementOfSeq
  <2> QED BY <2>1, <2>2, LenProperties
<1>2. \A k, l \in DOMAIN Kept : \A i \in DOMAIN Kept[k], j \in DOMAIN Kept[l] :
          <<k, i>> # <<l, j>> => EventsIn(Kept[k][i]) \cap EventsIn(Kept[l][j]) = {}
  BY <1>1, KeptApart
<1>3. ASSUME emitter = "done", ~ended
      PROVE  UNION {EventsIn(sl) : sl \in SlicesIn(submitted)} = AllEvents
  <2>1. /\ accumulator = <<>> /\ cutting = <<>> /\ cut = <<>> /\ current = None
        /\ unsent = {} /\ messages = {} /\ dataMap = {}
    BY <1>0, <1>3 DEF EndedEmpty, Ended, EmitPlaces, Placed
  <2>2. \A s \in Shards : ~Fresh(s)
    BY <1>3, <2>1 DEF Fresh, Fetching
  <2>3. Len(Cuts) = Len(submitted) /\ \A k \in 1..Len(submitted) : Cuts[k] = submitted[k]
    BY <1>0, <2>1, CutsFacts
  <2>4. ASSUME NEW k \in 1..Len(submitted), NEW i \in 1..Len(submitted[k]),
               NEW e \in EventsIn(submitted[k][i])
        PROVE  e \in AllEvents
    <3>1. PICK sl : sl = submitted[k][i]
      OBVIOUS
    <3>2. sl \in Slice /\ Whole(sl)
      BY <1>0, <2>3, <3>1, SliceFacts DEF SlicesWhole
    <3>3. /\ sl.start \in Nat /\ sl.end \in Nat /\ sl.artifact \in ArtifactIds
          /\ ChunkLen(sl.artifact[1], sl.artifact[3]) \in Nat
      BY <3>2, SliceNumbers
    <3>4. sl.artifact[1] \in Shards /\ sl.artifact[3] \in 1..NumChunks(sl.artifact[1])
      BY <3>3, ArtifactFacts
    <3>5. PICK m \in sl.start..(sl.end - 1) : e = <<sl.artifact[1], sl.artifact[3], m>>
      BY <2>4, <3>1 DEF EventsIn
    <3>6. m \in 0..(ChunkLen(sl.artifact[1], sl.artifact[3]) - 1)
      BY <3>2, <3>3 DEF Whole
    <3> QED BY <3>4, <3>5, <3>6, AllEventsFacts
  <2>5. ASSUME NEW e \in AllEvents
        PROVE  \E k \in 1..Len(submitted) : \E i \in 1..Len(submitted[k]) :
                   e \in EventsIn(submitted[k][i])
    <3>1. PICK s \in Shards : \E i \in 1..NumChunks(s) : \E k \in 0..(ChunkLen(s, i) - 1) :
              e = <<s, i, k>>
      BY AllEventsFacts
    <3>2. PICK i \in 1..NumChunks(s) : \E k \in 0..(ChunkLen(s, i) - 1) : e = <<s, i, k>>
      BY <3>1
    <3>3. PICK k \in 0..(ChunkLen(s, i) - 1) : e = <<s, i, k>>
      BY <3>2
    <3>4. Covered(s, i, k)
      BY <1>0, <1>3, <2>2 DEF NoneLost
    <3>5. Len(accumulator) = 0 /\ Len(cutting) = 0
      BY <2>1
    <3>6. PICK l \in 1..Len(Cuts) : \E j \in 1..Len(Cuts[l]) : Holds(Cuts[l][j], s, i, k)
      BY <3>4, <3>5 DEF Covered
    <3>7. PICK j \in 1..Len(Cuts[l]) : Holds(Cuts[l][j], s, i, k)
      BY <3>6
    <3>8. Cuts[l][j].start \in Nat /\ Cuts[l][j].end \in Nat
      BY <1>0, SliceFacts, SliceNumbers
    <3>9. k \in Cuts[l][j].start..(Cuts[l][j].end - 1)
      BY <3>7, <3>8 DEF Holds
    <3>10. e \in EventsIn(Cuts[l][j])
      BY <3>3, <3>7, <3>9 DEF EventsIn, Holds
    <3> QED BY <2>3, <3>10
  <2>6. \A e : e \in UNION {EventsIn(sl) : sl \in SlicesIn(submitted)} <=> e \in AllEvents
    BY <1>0, <2>4, <2>5, SubmittedEvents
  <2> QED BY <2>6
<1> QED BY <1>2, <1>3 DEF EachEventOnce

(* Every deferred event is in one precompile shard when                    *)
(* emit_precompile_shards returns and the proof has not ended, and never   *)
(* in two, however often a core shard was tried or delivered and whichever *)
(* of its attempts wrote the list that the emitter read.                   *)
THEOREM OnceCorrect == Spec => []EachEventOnce
<1>1. EmitInv /\ WorkerInv /\ [Next]_vars => WorkerInv'
  BY WorkerStep
<1>2. EmitInv /\ WorkerInv /\ CoverInv /\ [Next]_vars => CoverInv'
  BY CoverStep
<1>3. EmitInv /\ CoverInv => EachEventOnce
  BY EventsOnce
<1> QED BY <1>1, <1>2, <1>3, EmitAlways, WorkerInitial, CoverInitial, PTL DEF Spec

-----------------------------------------------------------------------------
(* Shards are full.                                                        *)

(* The rest of the events: the last shard, cut when nothing is to come and *)
(* nothing is left, may hold fewer.                                        *)
LastOnly(slices) == Ended /\ accumulator = <<>> /\ Count(slices) \in 1..Threshold
CutsFull ==
    \A k \in 1..Len(Cuts) :
        \/ Count(Cuts[k]) = Threshold
        \/ k = Len(Cuts) /\ LastOnly(Cuts[k]) /\ cutting = <<>>
CuttingFull ==
    cutting # <<>> => Count(cutting) = Threshold \/ LastOnly(cutting)
FullInv ==
    /\ CutsFull /\ CuttingFull
    /\ emitter = "waiting" => Count(accumulator) < Threshold

(* The emitter waits only after a split that found nothing to cut.         *)
LEMMA WaitingStep ==
    ASSUME EmitInv, [Next]_vars, emitter = "waiting" => Count(accumulator) < Threshold
    PROVE  (emitter = "waiting" => Count(accumulator) < Threshold)'
<1> USE DEF storeVars, workerVars, executorVars, listenVars, emitVars
<1> SUFFICES ASSUME emitter' = "waiting" PROVE Count(accumulator') < Threshold
  BY DEF Count, Events
<1>0. EmitTypes /\ EmitPlaces
  BY DEF EmitInv
<1>1. CASE emitter = "waiting"
  <2>1. UNCHANGED accumulator
    <3>1. ~SlicesAdded /\ ~SlicesReady /\ \A index, m : ~SlicesCut(index, m)
      BY <1>1 DEF SlicesAdded, SlicesCut, SlicesReady, Placed
    <3>2. SlicesKept
      BY <3>1, SlicesMove DEF EmitInv
    <3> QED BY <3>2 DEF SlicesKept
  <2> QED BY <1>1, <2>1
<1>2. CASE emitter # "waiting"
  <2>1. AllSubmitted
    <3>1. CASE UNCHANGED EmitView
      BY <1>2, <3>1 DEF EmitView
    <3>2. ASSUME NEW s \in Shards, SubmitCoreShard(s) \/ ListenerReceive(s) PROVE FALSE
      BY <1>2, <3>2 DEF SubmitCoreShard, ListenerReceive
    <3>3. ASSUME NEW s \in Shards, NEW n \in 1..MaxAttempts, UploadDeferred(s, n) PROVE FALSE
      BY <1>2, <3>3 DEF UploadDeferred
    <3>4. ASSUME NEW s \in Shards, ReceiveMarker(s) PROVE FALSE
      BY <1>2, <3>4 DEF ReceiveMarker
    <3>5. ~(DownloadWrapper \/ AppendEvents \/ EndOfStream)
      BY DEF DownloadWrapper, AppendEvents, EndOfStream
    <3>6. ~CutShard
      BY DEF CutShard
    <3>7. ~SubmitPrecompileShard
      BY <1>2 DEF SubmitPrecompileShard
    <3>8. ~(AddSliceRef \/ DropControllerRef)
      BY <1>2 DEF AddSliceRef, DropControllerRef, NextPosition
    <3>9. ~EmitterFails /\ ~ProofEnds
      BY <1>2 DEF EmitterFails, ProofEnds
    <3> QED BY <3>1, <3>2, <3>3, <3>4, <3>5, <3>6, <3>7, <3>8, <3>9, EmitFrame
            DEF Emitter, ReceiveFailedMarker, SubmitRefused
  <2>2. SplitPoints = {} /\ UNCHANGED accumulator
    BY <2>1 DEF AllSubmitted
  <2>3. Count(accumulator) < Threshold
    BY <1>0, <2>2, SplitEnd
  <2> QED BY <2>2, <2>3
<1> QED BY <1>1, <1>2

(* Every step keeps FullInv.                                               *)
LEMMA FullStep ==
    ASSUME EmitInv, FullInv, [Next]_vars
    PROVE  FullInv'
<1>0. EmitTypes /\ EmitPlaces /\ SlicesWhole /\ CutsFull /\ CuttingFull /\ None \notin Shards
  BY ShardsAssumption DEF EmitInv, FullInv
<1>1. Ended => Ended'
  BY EndedStays
<1>2. (emitter = "waiting" => Count(accumulator) < Threshold)'
  BY WaitingStep DEF FullInv
<1>3. CASE SlicesKept
  <2>1. UNCHANGED <<accumulator, cutting>> /\ Cuts' = Cuts
    BY <1>3 DEF SlicesKept
  <2>2. CutsFull'
    BY <1>0, <1>1, <2>1 DEF CutsFull, LastOnly
  <2>3. CuttingFull'
    BY <1>0, <1>1, <2>1 DEF CuttingFull, LastOnly
  <2> QED BY <1>2, <2>2, <2>3 DEF FullInv
<1>4. CASE SlicesAdded
  <2>1. UNCHANGED cutting /\ Cuts' = Cuts /\ emitter = "appending"
    BY <1>4 DEF SlicesAdded
  <2>2. ~Ended
    BY <1>0, <2>1 DEF Ended, EmitPlaces, Fetching
  <2>3. CutsFull'
    BY <1>0, <2>1, <2>2 DEF CutsFull, LastOnly
  <2>4. cutting = <<>>
    BY <1>0, <2>1 DEF EmitPlaces, Placed
  <2>5. CuttingFull'
    BY <2>1, <2>4 DEF CuttingFull
  <2> QED BY <1>2, <2>3, <2>5 DEF FullInv
<1>5. ASSUME NEW index \in 1..Len(accumulator), NEW m \in Nat, SlicesCut(index, m)
      PROVE  FullInv'
  <2>1. accumulator # <<>>
    <3>1. Len(<<>>) = 0 /\ Len(accumulator) \in Nat
      BY <1>0, SliceFacts
    <3> QED BY <3>1
  <2>2. /\ Cuts' = Cuts /\ emitter = "splitting"
        /\ \/ Count(cutting') = Threshold
           \/ LastSplit /\ accumulator' = <<>> /\ Count(cutting') \in 1..Threshold
    BY <1>5 DEF SlicesCut
  <2>3. CutsFull'
    BY <1>0, <2>1, <2>2 DEF CutsFull, LastOnly
  <2>4. LastSplit => Ended
    BY <2>2 DEF LastSplit, Ended
  <2>5. CuttingFull'
    BY <1>1, <2>2, <2>4 DEF CuttingFull, LastOnly
  <2> QED BY <1>2, <2>3, <2>5 DEF FullInv
<1>6. CASE SlicesReady
  <2>1. /\ cutting # <<>> /\ UNCHANGED accumulator
        /\ Len(Cuts) \in Nat /\ Len(Cuts') = Len(Cuts) + 1
        /\ \A k \in 1..Len(Cuts) : Cuts'[k] = Cuts[k]
        /\ Cuts'[Len(Cuts) + 1] = cutting
    BY <1>0, <1>6, ReadySlices
  <2>2. cutting' = <<>>
    BY <1>6 DEF SlicesReady
  <2>3. \A k \in 1..Len(Cuts) : Count(Cuts[k]) = Threshold
    BY <1>0, <2>1 DEF CutsFull
  <2>4. Count(cutting) = Threshold \/ LastOnly(cutting)
    BY <1>0, <2>1 DEF CuttingFull
  <2>5. ASSUME NEW k \in 1..Len(Cuts')
        PROVE  \/ Count(Cuts'[k]) = Threshold
               \/ k = Len(Cuts') /\ Ended' /\ accumulator' = <<>> /\ Count(Cuts'[k]) \in 1..Threshold
    <3>1. CASE k \in 1..Len(Cuts)
      BY <2>1, <2>3, <3>1
    <3>2. CASE k = Len(Cuts) + 1
      BY <1>1, <2>1, <2>4, <3>2 DEF LastOnly
    <3> QED BY <2>1, <3>1, <3>2
  <2>6. CutsFull'
    BY <2>2, <2>5 DEF CutsFull, LastOnly
  <2>7. CuttingFull'
    BY <2>2 DEF CuttingFull
  <2> QED BY <1>2, <2>6, <2>7 DEF FullInv
<1> QED BY <1>0, <1>3, <1>4, <1>5, <1>6, SlicesMove

(* There is no shard at the start.                                         *)
LEMMA FullInitial == Init => FullInv
<1> SUFFICES ASSUME Init PROVE FullInv
  OBVIOUS
<1>1. accumulator = <<>> /\ cutting = <<>> /\ submitted = <<>> /\ cut = <<>>
  BY DEF Init
<1>2. Len(Cuts) = 0
  BY <1>1, EmitInitial, CutsFacts DEF EmitInv
<1>3. Count(accumulator) < Threshold
  BY <1>1, CountEmpty, BoundsAssumption
<1> QED BY <1>1, <1>2, <1>3 DEF FullInv, CutsFull, CuttingFull

(* Precompile shards are full: split cuts at Threshold events, all but the *)
(* very last shard hold that many and none holds more or nothing, and the  *)
(* emitter never waits with a full shard in hand.                          *)
THEOREM FullCorrect == Spec => []ShardsFull
<1>1. EmitInv /\ FullInv /\ [Next]_vars => FullInv'
  BY FullStep
<1>2. ASSUME EmitInv, FullInv PROVE ShardsFull
  <2>0. Len(Cuts) \in Nat
    BY <1>2, CutsFacts, LenProperties DEF EmitInv
  <2>1. DOMAIN Cuts = 1..Len(Cuts)
    BY <1>2, CutsFacts, LenProperties DEF EmitInv
  <2>2. Threshold \in 1..Threshold
    BY BoundsAssumption
  <2>3. ASSUME NEW i \in 1..Len(Cuts)
        PROVE  IF i < Len(Cuts) THEN Count(Cuts[i]) = Threshold
                                ELSE Count(Cuts[i]) \in 1..Threshold
    <3>1. Count(Cuts[i]) = Threshold \/ (i = Len(Cuts) /\ Count(Cuts[i]) \in 1..Threshold)
      BY <1>2 DEF FullInv, CutsFull, LastOnly
    <3> QED BY <2>0, <2>2, <3>1
  <2> QED BY <1>2, <2>1, <2>3 DEF ShardsFull, FullInv, Cuts
<1>3. EmitInv /\ FullInv => ShardsFull
  BY <1>2
<1> QED BY <1>1, <1>3, EmitAlways, FullInitial, PTL DEF Spec

-----------------------------------------------------------------------------
(* The types, and how often a task is delivered.                           *)

StoreTypes ==
    /\ records \subseteq Tasks /\ held \subseteq Tasks
    /\ redeliveries \subseteq Tasks /\ markers \subseteq Shards
    /\ events \subseteq ArtifactIds
    /\ refs \subseteq ArtifactIds \X Keys
    /\ retries \in [Tasks -> 0..MaxRetries]

(* The artifacts of an attempt, and the keys of references.                *)
LEMMA StoredIds ==
    /\ \A s \in Shards, n \in 1..MaxAttempts : EventArtifacts(s, n) \subseteq ArtifactIds
    /\ \A sl \in Slice : <<sl.artifact, ControllerRef>> \in ArtifactIds \X Keys
    /\ \A sl \in Slice : <<sl.artifact, SliceRef(sl)>> \in ArtifactIds \X Keys
<1>1. ASSUME NEW s \in Shards, NEW n \in 1..MaxAttempts
      PROVE  EventArtifacts(s, n) \subseteq ArtifactIds
  BY DEF ArtifactIds
<1>2. ASSUME NEW sl \in Slice
      PROVE  /\ sl.artifact \in ArtifactIds
             /\ SliceRef(sl) \in (0..Threshold) \X (0..Threshold)
  BY DEF Slice, SliceRef
<1>3. ControllerRef \in Keys /\ (0..Threshold) \X (0..Threshold) \subseteq Keys
  BY DEF Keys
<1> HIDE DEF Keys
<1>4. ASSUME NEW sl \in Slice
      PROVE  /\ <<sl.artifact, ControllerRef>> \in ArtifactIds \X Keys
             /\ <<sl.artifact, SliceRef(sl)>> \in ArtifactIds \X Keys
  <2>1. sl.artifact \in ArtifactIds /\ SliceRef(sl) \in Keys
    BY <1>2, <1>3
  <2> QED BY <1>3, <2>1
<1> QED BY <1>1, <1>4

(* Every step keeps StoreTypes.                                            *)
LEMMA StoreTypesStep ==
    ASSUME EmitInv, WorkerInv, StoreTypes, [Next]_vars
    PROVE  StoreTypes'
<1> USE DEF storeVars, workerVars, executorVars, listenVars, emitVars
<1>0. EmitTypes /\ EmitPlaces
  BY DEF EmitInv
<1> DEFINE Quiet == UNCHANGED <<records, held, redeliveries, markers, events, refs, retries>>
<1>1. ASSUME Quiet PROVE StoreTypes'
  BY <1>1 DEF StoreTypes
<1>2. CASE UNCHANGED vars
  BY <1>1, <1>2 DEF vars
<1>3. ASSUME NEW t \in Tasks, CreateCoreProvingTask(t),
             UNCHANGED <<redeliveries, markers, events, refs, retries>>
      PROVE  StoreTypes'
  <2>1. records' = records \cup {t} /\ held' = held \cup {t}
    BY <1>3 DEF CreateCoreProvingTask
  <2> QED BY <1>3, <2>1 DEF StoreTypes
<1>4. ASSUME NEW s \in Shards, SubmitCoreShard(s) PROVE StoreTypes'
  BY <1>3, <1>4, TaskFacts DEF SubmitCoreShard
<1>5. CASE SubmitPrecompileShard
  <2>1. Len(submitted) + 1 \in Tasks
    BY <1>5, NextTask, TaskFacts DEF SubmitPrecompileShard
  <2> QED BY <1>3, <1>5, <2>1 DEF SubmitPrecompileShard
<1>6. ASSUME held' \subseteq held, UNCHANGED <<records, redeliveries, markers, events, refs, retries>>
      PROVE  StoreTypes'
  BY <1>6 DEF StoreTypes
<1>7. ASSUME NEW t \in Tasks, ReleasePermit(t) PROVE StoreTypes'
  BY <1>6, <1>7 DEF ReleasePermit
<1>8. CASE DropGate
  BY <1>6, <1>8 DEF DropGate
<1>9. ASSUME NEW t \in Tasks, NEW n \in 1..MaxAttempts,
             \/ Start(t, n) \/ TraceFails(t, n) \/ DownloadEvents(t, n)
             \/ Prove(t, n) \/ JoinFails(t, n)
      PROVE  StoreTypes'
  BY <1>1, <1>9 DEF Start, TraceFails, DownloadEvents, Prove, JoinFails
<1>10. ASSUME NEW t \in Tasks, NEW n \in 1..MaxAttempts, DropSliceRef(t, n) \/ FreeSlice(t, n)
       PROVE  StoreTypes'
  <2>1. /\ refs' \subseteq refs /\ events' \subseteq events
        /\ UNCHANGED <<records, held, redeliveries, markers, retries>>
    BY <1>10 DEF DropSliceRef, FreeSlice
  <2> QED BY <2>1 DEF StoreTypes
<1>11. ASSUME NEW t \in Tasks, NEW n \in 1..MaxAttempts, Finish(t, n) PROVE StoreTypes'
  <2>1. records' \subseteq records /\ UNCHANGED <<held, redeliveries, markers, events, refs, retries>>
    BY <1>11 DEF Finish, Post
  <2> QED BY <2>1 DEF StoreTypes
<1>12. ASSUME NEW t \in Tasks, NEW n \in 1..MaxAttempts, Fail(t, n) PROVE StoreTypes'
  <2>1. UNCHANGED <<records, held, redeliveries, markers, events, refs>>
    BY <1>12 DEF Fail
  <2>2. \/ UNCHANGED retries
        \/ ~(retries[t] >= MaxRetries) /\ retries' = [retries EXCEPT ![t] = @ + 1]
    BY <1>12 DEF Fail, Post, Resubmit, NotResubmitted
  <2>3. CASE UNCHANGED retries
    BY <1>1, <2>1, <2>3
  <2>4. CASE ~(retries[t] >= MaxRetries) /\ retries' = [retries EXCEPT ![t] = @ + 1]
    <3>1. retries \in [Tasks -> 0..MaxRetries] /\ MaxRetries \in Nat
      BY BoundsAssumption DEF StoreTypes
    <3>2. retries[t] + 1 \in 0..MaxRetries
      BY <2>4, <3>1
    <3>3. retries' \in [Tasks -> 0..MaxRetries]
      BY <2>4, <3>1, <3>2
    <3> QED BY <2>1, <3>3 DEF StoreTypes
  <2> QED BY <2>2, <2>3, <2>4
<1>13. ASSUME NEW s \in Shards, NEW n \in 1..MaxAttempts, UploadDeferred(s, n) PROVE StoreTypes'
  <2>1. /\ events' = events \cup EventArtifacts(s, n)
        /\ UNCHANGED <<records, held, redeliveries, markers, refs, retries>>
    BY <1>13 DEF UploadDeferred
  <2>2. EventArtifacts(s, n) \subseteq ArtifactIds
    BY StoredIds
  <2> QED BY <2>1, <2>2 DEF StoreTypes
<1>14. ASSUME NEW s \in Shards, NEW n \in 1..MaxAttempts, CompleteMarker(s, n) PROVE StoreTypes'
  <2>1. /\ markers' = markers \cup {s}
        /\ UNCHANGED <<records, held, redeliveries, events, refs, retries>>
    BY <1>14 DEF CompleteMarker
  <2> QED BY <2>1 DEF StoreTypes
<1>15. ASSUME NEW t \in Tasks, Redeliver(t) PROVE StoreTypes'
  <2>1. /\ redeliveries' = redeliveries \cup {t}
        /\ UNCHANGED <<records, held, markers, events, refs, retries>>
    BY <1>15 DEF Redeliver
  <2> QED BY <2>1 DEF StoreTypes
<1>16. ASSUME NEW s \in Shards, ListenerReceive(s) \/ ReceiveMarker(s) PROVE StoreTypes'
  BY <1>1, <1>16 DEF ListenerReceive, ReceiveMarker
<1>17. CASE DownloadWrapper \/ EndOfStream \/ AllSubmitted
  BY <1>1, <1>17 DEF DownloadWrapper, EndOfStream, AllSubmitted
<1>18. CASE AppendEvents
  <2> DEFINE slices == IF wrapper = 0 THEN <<>> ELSE DeferRecord(current, wrapper)
  <2>1. /\ refs' = refs \cup {<<slices[i].artifact, ControllerRef>> : i \in DOMAIN slices}
        /\ emitter = "appending"
        /\ UNCHANGED <<records, held, redeliveries, markers, events, retries>>
    BY <1>18 DEF AppendEvents
  <2>2. slices \in Seq(Slice)
    BY <1>0, <2>1, AddedFacts
  <2> HIDE DEF slices
  <2>3. \A i \in DOMAIN slices : slices[i] \in Slice
    BY <2>2, LenProperties, ElementOfSeq
  <2>4. refs' \subseteq ArtifactIds \X Keys
    BY <2>1, <2>3, StoredIds DEF StoreTypes
  <2> QED BY <2>1, <2>4 DEF StoreTypes
<1>19. CASE CutShard
  BY <1>1, <1>19 DEF CutShard
<1>20. CASE AddSliceRef
  <2> DEFINE sl == cutting[position]
  <2>1. /\ refs' = refs \cup {<<sl.artifact, SliceRef(sl)>>} /\ emitter \in Placed
        /\ UNCHANGED <<records, held, redeliveries, markers, events, retries>>
    BY <1>20 DEF AddSliceRef, Placed
  <2>2. sl \in Slice
    BY <1>0, <2>1, SliceFacts DEF EmitPlaces
  <2> HIDE DEF sl
  <2>3. refs' \subseteq ArtifactIds \X Keys
    BY <2>1, <2>2, StoredIds DEF StoreTypes
  <2> QED BY <2>1, <2>3 DEF StoreTypes
<1>21. CASE DropControllerRef
  <2>1. /\ refs' \subseteq refs /\ events' \subseteq events
        /\ UNCHANGED <<records, held, redeliveries, markers, retries>>
    BY <1>21 DEF DropControllerRef
  <2> QED BY <2>1 DEF StoreTypes
<1>22. CASE EmitterFails
  BY <1>1, <1>22 DEF EmitterFails
<1>23. CASE Emitter
  BY <1>5, <1>16, <1>17, <1>18, <1>19, <1>20, <1>21, <1>22, <1>23
     DEF Emitter, ReceiveFailedMarker, SubmitRefused
<1>24. ASSUME NEW s \in Shards, NEW n \in 1..MaxAttempts, UploadFails(s, n) PROVE StoreTypes'
  BY <1>1, <1>24 DEF UploadFails
<1>25. CASE ProofEnds
  <2>1. records' = {} /\ UNCHANGED <<held, redeliveries, markers, events, refs, retries>>
    BY <1>25 DEF ProofEnds
  <2> QED BY <2>1 DEF StoreTypes
<1> QED BY <1>2, <1>4, <1>7, <1>8, <1>9, <1>10, <1>11, <1>12, <1>13, <1>14, <1>15, <1>23,
           <1>24, <1>25 DEF Next, Progress, Worker, DeferredUpload, RequestFails

(* A failed verification is retried once, and a task is redelivered once:  *)
(* every delivery but the first has its fault.                             *)
Retryable(t) == {n \in 1..MaxAttempts : attempt[<<t, n>>].pc = "retryable"}
FaultsBounded ==
    /\ failures \in Nat /\ IsFiniteSet(redeliveries)
    /\ failures + Cardinality(redeliveries) <= MaxFaults
DeliveriesPaid ==
    \A t \in Tasks :
        delivered[t] + Cardinality(Retryable(t)) <= 1 + failures + Cardinality(redeliveries)

(* A place in a shard is kept only while slices are referenced or dropped, *)
(* or where that failed.                                                   *)
SlotsReset ==
    \A t \in Tasks, n \in 1..MaxAttempts :
        attempt[<<t, n>>].pc \notin {"dropping", "freeing"} => attempt[<<t, n>>].slice = 0
PositionReset ==
    /\ emitter \notin Placed \cup {"failed"} => position = 0
    /\ emitter = "failed" => position \in 0..Len(cutting)

TypesInv == StoreTypes /\ FaultsBounded /\ DeliveriesPaid /\ SlotsReset /\ PositionReset

RetriesKept == \A u \in Tasks : Retryable(u)' \subseteq Retryable(u)

(* One attempt moves.                                                      *)
LEMMA MoveCounts ==
    ASSUME WorkerTypes, SlotsReset, NEW t, NEW n, NEW v,
           attempt' = [attempt EXCEPT ![<<t, n>>] = v],
           v.pc \in {"dropping", "freeing"} \/ v.slice = 0
    PROVE  SlotsReset' /\ (v.pc # "retryable" => RetriesKept)
<1>1. ASSUME NEW u \in Tasks, NEW k \in 1..MaxAttempts
      PROVE  attempt'[<<u, k>>] = IF <<u, k>> = <<t, n>> THEN v ELSE attempt[<<u, k>>]
  <2>1. <<u, k>> \in Attempts
    BY DEF Attempts
  <2> QED BY <2>1 DEF WorkerTypes
<1>2. SlotsReset'
  BY <1>1 DEF SlotsReset
<1>3. ASSUME v.pc # "retryable", NEW u \in Tasks, NEW k \in 1..MaxAttempts,
             attempt'[<<u, k>>].pc = "retryable"
      PROVE  attempt[<<u, k>>].pc = "retryable"
  BY <1>1, <1>3
<1> QED BY <1>2, <1>3 DEF RetriesKept, Retryable

(* One attempt goes to a place without a slice.                            *)
LEMMA GotoCounts ==
    ASSUME WorkerTypes, SlotsReset, NEW t, NEW n, NEW x \in Places, Goto(t, n, x)
    PROVE  SlotsReset' /\ (x # "retryable" => RetriesKept)
<1>1. At(x).pc = x /\ At(x).slice = 0
  BY AtFacts
<1> QED BY <1>1, MoveCounts DEF Goto

(* One attempt goes to the next slice, or ends its shard.                  *)
LEMMA NextCounts ==
    ASSUME WorkerTypes, SlotsReset, NEW t, NEW n, NextSlice(t, n)
    PROVE  SlotsReset' /\ RetriesKept
<1> DEFINE w == IF attempt[<<t, n>>].slice < Len(SlicesOf(t))
                THEN [pc |-> "dropping", slice |-> attempt[<<t, n>>].slice + 1]
                ELSE At("finishing")
<1>1. attempt' = [attempt EXCEPT ![<<t, n>>] = w]
  BY DEF NextSlice
<1>2. w.pc = "dropping" \/ (w.pc = "finishing" /\ w.slice = 0)
  BY AtFacts DEF Places
<1> HIDE DEF w
<1> QED BY <1>1, <1>2, MoveCounts

(* A task has finitely many attempts to retry.                             *)
LEMMA RetryFinite ==
    ASSUME NEW t
    PROVE  IsFiniteSet(Retryable(t)) /\ Cardinality(Retryable(t)) \in Nat
<1>1. IsFiniteSet(1..MaxAttempts)
  BY AttemptsFacts, FS_Interval
<1>2. Retryable(t) \in SUBSET (1..MaxAttempts)
  BY DEF Retryable
<1>3. IsFiniteSet(Retryable(t))
  BY <1>1, <1>2, FS_Subset
<1> QED BY <1>3, FS_CardinalityType

(* The deliveries stay paid when no attempt fails and none is delivered.   *)
LEMMA PaidKept ==
    ASSUME WorkerTypes, FaultsBounded, DeliveriesPaid, RetriesKept,
           UNCHANGED <<delivered, failures, redeliveries>>
    PROVE  FaultsBounded' /\ DeliveriesPaid'
<1>1. FaultsBounded'
  BY DEF FaultsBounded
<1>2. ASSUME NEW t \in Tasks
      PROVE  delivered[t] + Cardinality(Retryable(t)') <= 1 + failures + Cardinality(redeliveries)
  <2>1. Retryable(t)' \in SUBSET Retryable(t)
    BY DEF RetriesKept
  <2>2. IsFiniteSet(Retryable(t)) /\ Cardinality(Retryable(t)) \in Nat
    BY RetryFinite
  <2>3. Cardinality(Retryable(t)') <= Cardinality(Retryable(t)) /\ IsFiniteSet(Retryable(t)')
    BY <2>1, <2>2, FS_Subset
  <2>4. Cardinality(Retryable(t)') \in Nat
    BY <2>3, FS_CardinalityType
  <2>5. delivered[t] \in Nat /\ failures \in Nat /\ Cardinality(redeliveries) \in Nat
    BY FS_CardinalityType DEF WorkerTypes, FaultsBounded
  <2>6. delivered[t] + Cardinality(Retryable(t)) <= 1 + failures + Cardinality(redeliveries)
    BY DEF DeliveriesPaid
  <2> QED BY <2>2, <2>3, <2>4, <2>5, <2>6
<1> QED BY <1>1, <1>2 DEF DeliveriesPaid

(* A task is delivered for the first time.                                 *)
LEMMA PaidFirst ==
    ASSUME WorkerInv, FaultsBounded, DeliveriesPaid, SlotsReset, NEW t \in Tasks,
           CreateCoreProvingTask(t), delivered[t] = 0, UNCHANGED <<failures, redeliveries>>
    PROVE  FaultsBounded' /\ DeliveriesPaid' /\ SlotsReset'
<1>0. WorkerTypes /\ AttemptsPlaced
  BY DEF WorkerInv
<1>1. /\ delivered' = [delivered EXCEPT ![t] = 1]
      /\ attempt' = [attempt EXCEPT ![<<t, 1>>] = At("queued")]
  BY DEF CreateCoreProvingTask
<1>2. At("queued").pc = "queued" /\ At("queued").slice = 0
  BY AtFacts DEF Places
<1>3. SlotsReset' /\ RetriesKept
  BY <1>0, <1>1, <1>2, MoveCounts
<1>4. FaultsBounded'
  BY DEF FaultsBounded
<1>5. ASSUME NEW u \in Tasks
      PROVE  delivered'[u] + Cardinality(Retryable(u)') <= 1 + failures + Cardinality(redeliveries)
  <2>1. Retryable(u)' \in SUBSET Retryable(u)
    BY <1>3 DEF RetriesKept
  <2>2. IsFiniteSet(Retryable(u)) /\ Cardinality(Retryable(u)) \in Nat
    BY RetryFinite
  <2>3. Cardinality(Retryable(u)') <= Cardinality(Retryable(u)) /\ IsFiniteSet(Retryable(u)')
    BY <2>1, <2>2, FS_Subset
  <2>4. Cardinality(Retryable(u)') \in Nat
    BY <2>3, FS_CardinalityType
  <2>5. delivered[u] \in Nat /\ failures \in Nat /\ Cardinality(redeliveries) \in Nat
    BY <1>0, FS_CardinalityType DEF WorkerTypes, FaultsBounded
  <2>6. delivered[u] + Cardinality(Retryable(u)) <= 1 + failures + Cardinality(redeliveries)
    BY DEF DeliveriesPaid
  <2>7. CASE u # t
    <3>1. delivered'[u] = delivered[u]
      BY <1>0, <1>1, <2>7 DEF WorkerTypes
    <3> QED BY <2>2, <2>3, <2>4, <2>5, <2>6, <3>1
  <2>8. CASE u = t
    <3>1. delivered'[u] = 1
      BY <1>0, <1>1, <2>8 DEF WorkerTypes
    <3>2. \A k \in 1..MaxAttempts : attempt[<<u, k>>].pc = "none"
      <4> SUFFICES ASSUME NEW k \in 1..MaxAttempts, attempt[<<u, k>>].pc # "none" PROVE FALSE
        OBVIOUS
      <4>1. k <= delivered[u]
        BY <1>0 DEF AttemptsPlaced
      <4> QED BY <2>8, <4>1
    <3>3. Retryable(u) = {}
      BY <3>2 DEF Retryable
    <3>4. Cardinality(Retryable(u)') = 0
      BY <2>1, <3>3, FS_EmptySet
    <3> QED BY <2>5, <3>1, <3>4
  <2> QED BY <2>7, <2>8
<1> QED BY <1>3, <1>4, <1>5 DEF DeliveriesPaid

(* A fault of one task, a failed verification or a redelivery: what it     *)
(* pays for grows by one.                                                  *)
LEMMA PaidFault ==
    ASSUME WorkerTypes, FaultsBounded, DeliveriesPaid, NEW t \in Tasks, NEW n,
           \A u \in Tasks : u # t => delivered'[u] = delivered[u]
                                     /\ Retryable(u)' \subseteq Retryable(u),
           \/ /\ delivered'[t] = delivered[t]
              /\ Retryable(t)' \subseteq Retryable(t) \cup {n}
           \/ /\ delivered'[t] = delivered[t] + 1
              /\ Retryable(t)' \subseteq Retryable(t),
           NEW b \in Nat, b = failures + Cardinality(redeliveries) + 1
    PROVE  \A u \in Tasks : delivered'[u] + Cardinality(Retryable(u)') <= 1 + b
<1> SUFFICES ASSUME NEW u \in Tasks
             PROVE  delivered'[u] + Cardinality(Retryable(u)') <= 1 + b
  OBVIOUS
<1>1. IsFiniteSet(Retryable(u)) /\ Cardinality(Retryable(u)) \in Nat
  BY RetryFinite
<1>2. delivered[u] \in Nat /\ failures \in Nat /\ Cardinality(redeliveries) \in Nat
  BY FS_CardinalityType DEF WorkerTypes, FaultsBounded
<1>3. delivered[u] + Cardinality(Retryable(u)) <= 1 + failures + Cardinality(redeliveries)
  BY DEF DeliveriesPaid
<1>4. ASSUME Retryable(u)' \subseteq Retryable(u)
      PROVE  Cardinality(Retryable(u)') \in Nat /\ Cardinality(Retryable(u)') <= Cardinality(Retryable(u))
  <2>1. Retryable(u)' \in SUBSET Retryable(u)
    BY <1>4
  <2>2. IsFiniteSet(Retryable(u)') /\ Cardinality(Retryable(u)') <= Cardinality(Retryable(u))
    BY <1>1, <2>1, FS_Subset
  <2> QED BY <2>2, FS_CardinalityType
<1>5. ASSUME Retryable(u)' \subseteq Retryable(u) \cup {n}
      PROVE  Cardinality(Retryable(u)') \in Nat /\ Cardinality(Retryable(u)') <= Cardinality(Retryable(u)) + 1
  <2>1. /\ IsFiniteSet(Retryable(u) \cup {n})
        /\ Cardinality(Retryable(u) \cup {n}) = IF n \in Retryable(u) THEN Cardinality(Retryable(u))
                                                 ELSE Cardinality(Retryable(u)) + 1
    BY <1>1, FS_AddElement
  <2>2. Retryable(u)' \in SUBSET (Retryable(u) \cup {n})
    BY <1>5
  <2>3. IsFiniteSet(Retryable(u)') /\ Cardinality(Retryable(u)') <= Cardinality(Retryable(u) \cup {n})
    BY <2>1, <2>2, FS_Subset
  <2>4. Cardinality(Retryable(u)') \in Nat
    BY <2>3, FS_CardinalityType
  <2> QED BY <1>1, <2>1, <2>3, <2>4
<1>6. CASE u # t
  BY <1>1, <1>2, <1>3, <1>4, <1>6
<1>7. CASE u = t
  BY <1>1, <1>2, <1>3, <1>4, <1>5, <1>7
<1> QED BY <1>6, <1>7

(* A step that fails for good pays for no delivery.                        *)
LEMMA PaidFatal ==
    ASSUME WorkerTypes, FaultsBounded, DeliveriesPaid, RetriesKept, FaultsLeft,
           failures' = failures + 1, UNCHANGED <<delivered, redeliveries>>
    PROVE  FaultsBounded' /\ DeliveriesPaid'
<1>1. /\ failures \in Nat /\ Cardinality(redeliveries) \in Nat /\ MaxFaults \in Nat
      /\ failures + Cardinality(redeliveries) < MaxFaults
  BY FS_CardinalityType, BoundsAssumption DEF FaultsBounded, FaultsLeft
<1>2. FaultsBounded'
  BY <1>1 DEF FaultsBounded
<1>3. ASSUME NEW t \in Tasks
      PROVE  delivered[t] + Cardinality(Retryable(t)') <= 1 + failures' + Cardinality(redeliveries)
  <2>1. Retryable(t)' \in SUBSET Retryable(t)
    BY DEF RetriesKept
  <2>2. IsFiniteSet(Retryable(t)) /\ Cardinality(Retryable(t)) \in Nat
    BY RetryFinite
  <2>3. Cardinality(Retryable(t)') <= Cardinality(Retryable(t)) /\ IsFiniteSet(Retryable(t)')
    BY <2>1, <2>2, FS_Subset
  <2>4. Cardinality(Retryable(t)') \in Nat
    BY <2>3, FS_CardinalityType
  <2>5. delivered[t] \in Nat
    BY DEF WorkerTypes
  <2>6. delivered[t] + Cardinality(Retryable(t)) <= 1 + failures + Cardinality(redeliveries)
    BY DEF DeliveriesPaid
  <2> QED BY <1>1, <2>2, <2>3, <2>4, <2>5, <2>6
<1> QED BY <1>2, <1>3 DEF DeliveriesPaid

(* resubmit_task: the failed attempt makes room for the one it starts.     *)
LEMMA PaidRetry ==
    ASSUME WorkerTypes, FaultsBounded, DeliveriesPaid, SlotsReset,
           NEW t \in Tasks, NEW n \in 1..MaxAttempts,
           attempt[<<t, n>>].pc = "retryable",
           delivered' = [delivered EXCEPT ![t] = @ + 1],
           attempt' = [attempt EXCEPT ![<<t, n>>] = At("ended"),
                                      ![<<t, delivered[t] + 1>>] = At("queued")],
           UNCHANGED <<failures, redeliveries>>
    PROVE  FaultsBounded' /\ DeliveriesPaid' /\ SlotsReset'
<1>1. /\ At("ended").pc = "ended" /\ At("ended").slice = 0
      /\ At("queued").pc = "queued" /\ At("queued").slice = 0
  BY AtFacts DEF Places
<1>2. ASSUME NEW u \in Tasks, NEW k \in 1..MaxAttempts
      PROVE  attempt'[<<u, k>>] = IF <<u, k>> = <<t, delivered[t] + 1>> THEN At("queued")
                                  ELSE IF <<u, k>> = <<t, n>> THEN At("ended")
                                  ELSE attempt[<<u, k>>]
  <2>1. <<u, k>> \in Attempts
    BY DEF Attempts
  <2> QED BY <2>1 DEF WorkerTypes
<1>3. SlotsReset'
  <2> SUFFICES ASSUME NEW u \in Tasks, NEW k \in 1..MaxAttempts,
                      attempt'[<<u, k>>].pc \notin {"dropping", "freeing"}
               PROVE  attempt'[<<u, k>>].slice = 0
    BY DEF SlotsReset
  <2>1. CASE attempt'[<<u, k>>] = attempt[<<u, k>>]
    BY <2>1 DEF SlotsReset
  <2> QED BY <1>1, <1>2, <2>1
<1>4. FaultsBounded'
  BY DEF FaultsBounded
<1>5. ASSUME NEW u \in Tasks, NEW k \in 1..MaxAttempts, attempt'[<<u, k>>].pc = "retryable"
      PROVE  attempt[<<u, k>>].pc = "retryable" /\ <<u, k>> # <<t, n>>
  BY <1>1, <1>2, <1>5
<1>6. ASSUME NEW u \in Tasks
      PROVE  delivered'[u] + Cardinality(Retryable(u)') <= 1 + failures + Cardinality(redeliveries)
  <2>1. Retryable(u)' \in SUBSET Retryable(u)
    BY <1>5 DEF Retryable
  <2>2. IsFiniteSet(Retryable(u)) /\ Cardinality(Retryable(u)) \in Nat
    BY RetryFinite
  <2>3. Cardinality(Retryable(u)') <= Cardinality(Retryable(u)) /\ IsFiniteSet(Retryable(u)')
    BY <2>1, <2>2, FS_Subset
  <2>4. Cardinality(Retryable(u)') \in Nat
    BY <2>3, FS_CardinalityType
  <2>5. delivered[u] \in Nat /\ failures \in Nat /\ Cardinality(redeliveries) \in Nat
    BY FS_CardinalityType DEF WorkerTypes, FaultsBounded
  <2>6. delivered[u] + Cardinality(Retryable(u)) <= 1 + failures + Cardinality(redeliveries)
    BY DEF DeliveriesPaid
  <2>7. CASE u # t
    <3>1. delivered'[u] = delivered[u]
      BY <2>7 DEF WorkerTypes
    <3> QED BY <2>2, <2>3, <2>4, <2>5, <2>6, <3>1
  <2>8. CASE u = t
    <3>1. delivered'[u] = delivered[u] + 1
      BY <2>8 DEF WorkerTypes
    <3>2. n \in Retryable(u)
      BY <2>8 DEF Retryable
    <3>3. /\ IsFiniteSet(Retryable(u) \ {n})
          /\ Cardinality(Retryable(u) \ {n}) = Cardinality(Retryable(u)) - 1
      BY <2>2, <3>2, FS_RemoveElement
    <3>4. Retryable(u)' \in SUBSET (Retryable(u) \ {n})
      BY <1>5, <2>8 DEF Retryable
    <3>5. Cardinality(Retryable(u)') <= Cardinality(Retryable(u) \ {n})
      BY <3>3, <3>4, FS_Subset
    <3> QED BY <2>2, <2>4, <2>5, <2>6, <3>1, <3>3, <3>5
  <2> QED BY <2>7, <2>8
<1> QED BY <1>3, <1>4, <1>6 DEF DeliveriesPaid
(* What a step does to the deliveries and their faults.                    *)
LEMMA DeliveriesStep ==
    ASSUME EmitInv, WorkerInv, FaultsBounded, DeliveriesPaid, SlotsReset, [Next]_vars
    PROVE  FaultsBounded' /\ DeliveriesPaid' /\ SlotsReset'
<1> USE DEF storeVars, workerVars, executorVars, listenVars, emitVars
<1> DEFINE Goal == FaultsBounded' /\ DeliveriesPaid' /\ SlotsReset'
<1>0. WorkerTypes /\ DeliveredOnly /\ AttemptsPlaced
  BY DEF WorkerInv
<1>1. ASSUME UNCHANGED <<attempt, delivered, failures, redeliveries>> PROVE Goal
  <2>1. RetriesKept /\ SlotsReset'
    BY <1>1 DEF RetriesKept, Retryable, SlotsReset
  <2> QED BY <1>0, <1>1, <2>1, PaidKept
<1>2. ASSUME RetriesKept, SlotsReset', UNCHANGED <<delivered, failures, redeliveries>> PROVE Goal
  BY <1>0, <1>2, PaidKept
<1> HIDE DEF Goal
<1>3. CASE UNCHANGED vars
  BY <1>1, <1>3 DEF vars, Goal
<1>4. ASSUME NEW s \in Shards, SubmitCoreShard(s) PROVE Goal
  <2>1. s \in Tasks /\ delivered[s] = 0 /\ CreateCoreProvingTask(s) /\ UNCHANGED <<failures, redeliveries>>
    BY <1>0, <1>4, TaskFacts DEF SubmitCoreShard, DeliveredOnly
  <2> QED BY <2>1, PaidFirst DEF Goal
<1>5. CASE SubmitPrecompileShard
  <2> DEFINE p == Len(submitted) + 1
  <2>1. p \in Precompiles /\ Len(submitted) \in Nat
    BY <1>5, NextTask, LenProperties DEF SubmitPrecompileShard, EmitInv, EmitTypes
  <2>2. p \in Tasks /\ p > Len(submitted)
    BY <2>1, TaskFacts
  <2>3. CreateCoreProvingTask(p) /\ UNCHANGED <<failures, redeliveries>>
    BY <1>5 DEF SubmitPrecompileShard
  <2> HIDE DEF p
  <2>4. delivered[p] = 0
    BY <1>0, <2>1, <2>2 DEF DeliveredOnly
  <2> QED BY <2>2, <2>3, <2>4, PaidFirst DEF Goal
<1>6. ASSUME NEW t \in Tasks, ReleasePermit(t) PROVE Goal
  BY <1>1, <1>6 DEF ReleasePermit
<1>7. CASE DropGate
  BY <1>1, <1>7 DEF DropGate, Goal
<1>8. ASSUME NEW t \in Tasks, NEW n \in 1..MaxAttempts, NEW x \in Places, x # "retryable",
             Goto(t, n, x), UNCHANGED <<delivered, failures, redeliveries>>
      PROVE  Goal
  BY <1>0, <1>2, <1>8, GotoCounts
<1>23. ASSUME NEW t \in Tasks, NEW n \in 1..MaxAttempts, Goto(t, n, "fatal"), FaultsLeft,
              failures' = failures + 1, UNCHANGED <<delivered, redeliveries>>
       PROVE  Goal
  <2>1. SlotsReset' /\ RetriesKept
    BY <1>0, <1>23, GotoCounts DEF Places
  <2> QED BY <1>0, <1>23, <2>1, PaidFatal DEF Goal
<1>24. ASSUME NEW t \in Tasks, NEW n \in 1..MaxAttempts, TraceFails(t, n) PROVE Goal
  BY <1>23, <1>24 DEF TraceFails
<1>25. ASSUME NEW t \in Tasks, NEW n \in 1..MaxAttempts, JoinFails(t, n) PROVE Goal
  <2>1. Goto(t, n, "fatal") /\ UNCHANGED <<delivered, failures, redeliveries>>
    BY <1>25 DEF JoinFails
  <2> QED BY <1>8, <2>1 DEF Places
<1>26. ASSUME NEW s \in Shards, NEW n \in 1..MaxAttempts, UploadFails(s, n) PROVE Goal
  <2>1. CASE UNCHANGED failures
    BY <1>1, <1>26, <2>1 DEF UploadFails
  <2>2. CASE FaultsLeft /\ failures' = failures + 1
    <3>1. UNCHANGED <<attempt, delivered, redeliveries>>
      BY <1>26 DEF UploadFails
    <3>2. RetriesKept /\ SlotsReset'
      BY <3>1 DEF RetriesKept, Retryable, SlotsReset
    <3> QED BY <1>0, <2>2, <3>1, <3>2, PaidFatal DEF Goal
  <2> QED BY <1>26, <2>1, <2>2 DEF UploadFails
<1>9. ASSUME NEW t \in Tasks, NEW n \in 1..MaxAttempts, Start(t, n) PROVE Goal
  <2>1. Goto(t, n, "proving") \/ Goto(t, n, "downloading") \/ Goto(t, n, "fatal")
    BY <1>9 DEF Start, StartCore, StartPrecompile
  <2>2. UNCHANGED <<delivered, failures, redeliveries>>
    BY <1>9 DEF Start
  <2> QED BY <1>8, <2>1, <2>2 DEF Places
<1>10. ASSUME NEW t \in Tasks, NEW n \in 1..MaxAttempts, DownloadEvents(t, n) PROVE Goal
  <2>1. Goto(t, n, "proving") \/ Goto(t, n, "fatal")
    BY <1>10 DEF DownloadEvents
  <2>2. UNCHANGED <<delivered, failures, redeliveries>>
    BY <1>10 DEF DownloadEvents
  <2> QED BY <1>8, <2>1, <2>2 DEF Places
<1>11. ASSUME NEW t \in Tasks, NEW n \in 1..MaxAttempts, Prove(t, n) PROVE Goal
  <2> DEFINE v == IF t \in Precompiles THEN [pc |-> "dropping", slice |-> 1] ELSE At("finishing")
  <2>1. CASE attempt' = [attempt EXCEPT ![<<t, n>>] = v] /\ UNCHANGED failures
    <3>1. v.pc = "dropping" \/ (v.pc = "finishing" /\ v.slice = 0)
      BY AtFacts DEF Places
    <3>2. UNCHANGED <<delivered, redeliveries>>
      BY <1>11 DEF Prove
    <3> HIDE DEF v
    <3>3. SlotsReset' /\ RetriesKept
      BY <1>0, <2>1, <3>1, MoveCounts
    <3> QED BY <1>2, <2>1, <3>2, <3>3
  <2>2. CASE FaultsLeft /\ failures' = failures + 1 /\ Goto(t, n, "retryable")
    <3>1. UNCHANGED <<delivered, redeliveries>>
      BY <1>11 DEF Prove
    <3>2. SlotsReset'
      BY <1>0, <2>2, GotoCounts DEF Places
    <3>3. /\ failures \in Nat /\ Cardinality(redeliveries) \in Nat /\ MaxFaults \in Nat
          /\ failures + Cardinality(redeliveries) < MaxFaults
      BY <2>2, FS_CardinalityType, BoundsAssumption DEF FaultsBounded, FaultsLeft
    <3>4. ASSUME NEW u \in Tasks, NEW k \in 1..MaxAttempts, <<u, k>> # <<t, n>>
          PROVE  attempt'[<<u, k>>] = attempt[<<u, k>>]
      <4>1. <<u, k>> \in Attempts
        BY DEF Attempts
      <4> QED BY <1>0, <2>2, <3>4, <4>1 DEF WorkerTypes, Goto
    <3>5. /\ \A u \in Tasks : u # t => Retryable(u)' \subseteq Retryable(u)
          /\ Retryable(t)' \subseteq Retryable(t) \cup {n}
      BY <3>4 DEF Retryable
    <3> DEFINE b == failures + Cardinality(redeliveries) + 1
    <3>6. b \in Nat /\ b = failures' + Cardinality(redeliveries')
      BY <2>2, <3>1, <3>3
    <3>7. \A u \in Tasks : delivered'[u] + Cardinality(Retryable(u)') <= 1 + b
      <4>1. b = failures + Cardinality(redeliveries) + 1
        OBVIOUS
      <4> HIDE DEF b
      <4> QED BY <1>0, <3>1, <3>5, <3>6, <4>1, PaidFault
    <3>8. DeliveriesPaid'
      <4>1. 1 + b = 1 + failures' + Cardinality(redeliveries')
        BY <2>2, <3>1, <3>3
      <4> HIDE DEF b
      <4> QED BY <3>7, <4>1 DEF DeliveriesPaid
    <3>9. FaultsBounded'
      BY <2>2, <3>1, <3>3 DEF FaultsBounded
    <3> QED BY <3>2, <3>8, <3>9 DEF Goal
  <2>3. CASE FaultsLeft /\ failures' = failures + 1 /\ Goto(t, n, "fatal")
    <3>1. UNCHANGED <<delivered, redeliveries>>
      BY <1>11 DEF Prove
    <3> QED BY <1>23, <2>3, <3>1
  <2> QED BY <1>11, <2>1, <2>2, <2>3 DEF Prove
<1>12. ASSUME NEW t \in Tasks, NEW n \in 1..MaxAttempts, DropSliceRef(t, n) PROVE Goal
  <2>1. UNCHANGED <<delivered, failures, redeliveries>>
    BY <1>12 DEF DropSliceRef
  <2>2. attempt' = [attempt EXCEPT ![<<t, n>>].pc = "freeing"] \/ NextSlice(t, n)
    BY <1>12 DEF DropSliceRef
  <2>3. CASE NextSlice(t, n)
    BY <1>0, <1>2, <2>1, <2>3, NextCounts
  <2>4. CASE attempt' = [attempt EXCEPT ![<<t, n>>].pc = "freeing"]
    <3> DEFINE v == [attempt[<<t, n>>] EXCEPT !.pc = "freeing"]
    <3>1. <<t, n>> \in Attempts
      BY DEF Attempts
    <3>2. attempt[<<t, n>>] \in [pc : Places, slice : Nat]
      BY <1>0, <3>1 DEF WorkerTypes
    <3>3. v.pc = "freeing" /\ attempt' = [attempt EXCEPT ![<<t, n>>] = v]
      BY <2>4, <3>2
    <3> HIDE DEF v
    <3>4. SlotsReset' /\ RetriesKept
      BY <1>0, <3>3, MoveCounts
    <3> QED BY <1>2, <2>1, <3>4
  <2> QED BY <2>2, <2>3, <2>4
<1>13. ASSUME NEW t \in Tasks, NEW n \in 1..MaxAttempts, FreeSlice(t, n) PROVE Goal
  <2>1. NextSlice(t, n) /\ UNCHANGED <<delivered, failures, redeliveries>>
    BY <1>13 DEF FreeSlice
  <2> QED BY <1>0, <1>2, <2>1, NextCounts
<1>14. ASSUME NEW t \in Tasks, NEW n \in 1..MaxAttempts, NEW st, Post(t, n, st),
              UNCHANGED <<failures, redeliveries>>
       PROVE  Goal
  <2>1. Goto(t, n, "ended") /\ UNCHANGED delivered
    BY <1>14 DEF Post
  <2> QED BY <1>8, <1>14, <2>1 DEF Places
<1>15. ASSUME NEW t \in Tasks, NEW n \in 1..MaxAttempts, Finish(t, n) PROVE Goal
  BY <1>14, <1>15 DEF Finish
<1>16. ASSUME NEW t \in Tasks, NEW n \in 1..MaxAttempts, Fail(t, n) PROVE Goal
  <2>1. UNCHANGED <<failures, redeliveries>>
    BY <1>16 DEF Fail
  <2>2. \/ \E st \in {"succeeded", "failed"} : Post(t, n, st)
        \/ Goto(t, n, "ended") /\ UNCHANGED delivered
        \/ /\ attempt[<<t, n>>].pc = "retryable"
           /\ delivered' = [delivered EXCEPT ![t] = @ + 1]
           /\ attempt' = [attempt EXCEPT ![<<t, n>>] = At("ended"),
                                         ![<<t, delivered[t] + 1>>] = At("queued")]
    BY <1>16 DEF Fail, Resubmit, NotResubmitted
  <2>3. CASE Goto(t, n, "ended") /\ UNCHANGED delivered
    BY <1>8, <2>1, <2>3 DEF Places
  <2> QED BY <1>0, <1>14, <2>1, <2>2, <2>3, PaidRetry DEF Goal
<1>17. ASSUME NEW s \in Shards, NEW n \in 1..MaxAttempts, DeferredUpload(s, n) PROVE Goal
  BY <1>1, <1>17, <1>26 DEF DeferredUpload, UploadDeferred, CompleteMarker
<1>18. ASSUME NEW t \in Tasks, Redeliver(t) PROVE Goal
  <2>1. /\ t \notin redeliveries /\ FaultsLeft
        /\ redeliveries' = redeliveries \cup {t}
        /\ delivered' = [delivered EXCEPT ![t] = @ + 1]
        /\ Goto(t, delivered[t] + 1, "queued") /\ UNCHANGED failures
    BY <1>18 DEF Redeliver
  <2>2. SlotsReset' /\ RetriesKept
    BY <1>0, <2>1, GotoCounts DEF Places
  <2>3. /\ failures \in Nat /\ Cardinality(redeliveries) \in Nat /\ MaxFaults \in Nat
        /\ failures + Cardinality(redeliveries) < MaxFaults
    BY <2>1, FS_CardinalityType, BoundsAssumption DEF FaultsBounded, FaultsLeft
  <2>4. IsFiniteSet(redeliveries') /\ Cardinality(redeliveries') = Cardinality(redeliveries) + 1
    <3>1. IsFiniteSet(redeliveries)
      BY DEF FaultsBounded
    <3> QED BY <2>1, <3>1, FS_AddElement
  <2> DEFINE b == failures + Cardinality(redeliveries) + 1
  <2>5. /\ b \in Nat /\ b = failures + Cardinality(redeliveries) + 1
        /\ 1 + b = 1 + failures' + Cardinality(redeliveries')
    BY <2>1, <2>3, <2>4
  <2>6. /\ \A u \in Tasks : u # t => delivered'[u] = delivered[u]
        /\ delivered'[t] = delivered[t] + 1
    BY <1>0, <2>1 DEF WorkerTypes
  <2>7. \A u \in Tasks : delivered'[u] + Cardinality(Retryable(u)') <= 1 + b
    <3> HIDE DEF b
    <3>1. \A u \in Tasks : Retryable(u)' \subseteq Retryable(u)
      BY <2>2 DEF RetriesKept
    <3> QED BY <1>0, <2>5, <2>6, <3>1, PaidFault
  <2>8. DeliveriesPaid'
    <3> HIDE DEF b
    <3> QED BY <2>5, <2>7 DEF DeliveriesPaid
  <2>9. FaultsBounded'
    BY <2>1, <2>3, <2>4 DEF FaultsBounded
  <2> QED BY <2>2, <2>8, <2>9 DEF Goal
<1>19. ASSUME NEW s \in Shards, ListenerReceive(s) \/ ReceiveMarker(s) PROVE Goal
  BY <1>1, <1>19 DEF ListenerReceive, ReceiveMarker
<1>20. CASE DownloadWrapper \/ AppendEvents \/ EndOfStream \/ AllSubmitted
  BY <1>1, <1>20 DEF DownloadWrapper, AppendEvents, EndOfStream, AllSubmitted, Goal
<1>21. CASE CutShard \/ AddSliceRef \/ DropControllerRef
  BY <1>1, <1>21 DEF CutShard, AddSliceRef, DropControllerRef, Goal
<1>27. CASE EmitterFails \/ ProofEnds
  BY <1>1, <1>27 DEF EmitterFails, ProofEnds, Goal
<1>22. CASE Emitter
  BY <1>5, <1>19, <1>20, <1>21, <1>22, <1>27
     DEF Emitter, ReceiveFailedMarker, SubmitRefused, Goal
<1> QED BY <1>3, <1>4, <1>6, <1>7, <1>9, <1>10, <1>11, <1>12, <1>13, <1>15, <1>16, <1>17, <1>18, <1>22,
           <1>24, <1>25, <1>27
        DEF Next, Progress, Worker, RequestFails, Goal

(* Every step keeps PositionReset.                                         *)
LEMMA PositionStep ==
    ASSUME EmitInv, PositionReset, [Next]_vars
    PROVE  PositionReset'
<1> USE DEF storeVars, workerVars, executorVars, listenVars, emitVars, Placed, PositionReset
<1>0. EmitPlaces /\ Len(cutting) \in Nat
  BY LenProperties DEF EmitInv, EmitTypes
<1>1. ASSUME UNCHANGED <<emitter, position, cutting>> PROVE PositionReset'
  BY <1>1
<1>2. CASE UNCHANGED vars
  BY <1>1, <1>2 DEF vars
<1>3. ASSUME NEW s \in Shards, SubmitCoreShard(s) PROVE PositionReset'
  BY <1>1, <1>3 DEF SubmitCoreShard
<1>4. ASSUME NEW t \in Tasks, ReleasePermit(t) \/ Redeliver(t) PROVE PositionReset'
  BY <1>1, <1>4 DEF ReleasePermit, Redeliver
<1>5. CASE DropGate
  BY <1>1, <1>5 DEF DropGate
<1>6. ASSUME NEW t \in Tasks, NEW n \in 1..MaxAttempts, Worker(t, n) PROVE PositionReset'
  BY <1>1, <1>6 DEF Worker, Start, TraceFails, DownloadEvents, Prove, DropSliceRef, FreeSlice,
                    Finish, JoinFails, Fail
<1>7. ASSUME NEW s \in Shards, NEW n \in 1..MaxAttempts, DeferredUpload(s, n) PROVE PositionReset'
  BY <1>1, <1>7 DEF DeferredUpload, UploadDeferred, CompleteMarker, UploadFails
<1>8. ASSUME NEW s \in Shards, ListenerReceive(s) \/ ReceiveMarker(s) PROVE PositionReset'
  BY <1>8 DEF ListenerReceive, ReceiveMarker
<1>9. CASE DownloadWrapper \/ AppendEvents \/ EndOfStream \/ AllSubmitted \/ SubmitPrecompileShard
  BY <1>9 DEF DownloadWrapper, AppendEvents, EndOfStream, AllSubmitted, SubmitPrecompileShard
<1>10. CASE CutShard
  BY <1>10 DEF CutShard
<1>11. CASE AddSliceRef
  BY <1>11 DEF AddSliceRef, NextPosition
<1>12. CASE DropControllerRef
  BY <1>12 DEF DropControllerRef, NextPosition
<1>13. ASSUME EmitterFails, emitter # "failed" PROVE PositionReset'
  <2>1. emitter' = "failed" /\ UNCHANGED <<position, cutting>>
    BY <1>13 DEF EmitterFails
  <2>2. position \in 0..Len(cutting)
    <3>1. CASE emitter \in Placed
      BY <1>0, <3>1 DEF EmitPlaces
    <3>2. CASE emitter \notin Placed
      BY <1>0, <1>13, <3>2
    <3> QED BY <3>1, <3>2
  <2> QED BY <2>1, <2>2
<1>14. CASE SubmitRefused \/ \E s \in Shards : ReceiveFailedMarker(s)
  <2>1. EmitterFails /\ emitter # "failed"
    BY <1>14 DEF SubmitRefused, ReceiveFailedMarker
  <2> QED BY <1>13, <2>1
<1>15. CASE ProofEnds
  BY <1>1, <1>15 DEF ProofEnds
<1>16. CASE Emitter
  BY <1>8, <1>9, <1>10, <1>11, <1>12, <1>14, <1>16 DEF Emitter
<1> QED BY <1>2, <1>3, <1>4, <1>5, <1>6, <1>7, <1>15, <1>16 DEF Next, Progress, RequestFails

(* TypesInv holds at the start.                                            *)
LEMMA TypesInitial == Init => TypesInv
<1> SUFFICES ASSUME Init PROVE TypesInv
  OBVIOUS
<1>1. StoreTypes /\ PositionReset
  <2>1. retries \in [Tasks -> 0..MaxRetries]
    BY BoundsAssumption DEF Init
  <2> QED BY <2>1 DEF Init, StoreTypes, PositionReset
<1>2. SlotsReset
  BY DEF Init, SlotsReset, Attempts, Idle
<1>3. FaultsBounded
  BY FS_EmptySet, BoundsAssumption DEF Init, FaultsBounded
<1>4. DeliveriesPaid
  <2>1. \A t \in Tasks : Retryable(t) = {} /\ delivered[t] = 0
    BY DEF Init, Retryable, Attempts, Idle
  <2>2. failures = 0 /\ Cardinality(redeliveries) = 0 /\ Cardinality({}) = 0
    BY FS_EmptySet DEF Init
  <2> QED BY <2>1, <2>2 DEF DeliveriesPaid
<1> QED BY <1>1, <1>2, <1>3, <1>4 DEF TypesInv

(* TypeOK follows from the invariants.                                     *)
LEMMA TypesFacts ==
    ASSUME EmitInv, WorkerInv, TypesInv
    PROVE  TypeOK
<1>0. EmitTypes /\ EmitPlaces /\ WorkerTypes /\ AttemptsPlaced
  BY DEF EmitInv, WorkerInv
<1>1. failures \in 0..MaxFaults /\ delivered \in [Tasks -> 0..MaxAttempts]
  <2>1. /\ failures \in Nat /\ Cardinality(redeliveries) \in Nat /\ MaxFaults \in Nat
        /\ failures + Cardinality(redeliveries) <= MaxFaults
    BY FS_CardinalityType, BoundsAssumption DEF TypesInv, FaultsBounded
  <2>2. ASSUME NEW t \in Tasks PROVE delivered[t] \in 0..MaxAttempts
    <3>1. delivered[t] + Cardinality(Retryable(t)) <= 1 + failures + Cardinality(redeliveries)
      BY DEF TypesInv, DeliveriesPaid
    <3>2. Cardinality(Retryable(t)) \in Nat /\ delivered[t] \in Nat
      BY <1>0, RetryFinite DEF WorkerTypes
    <3> QED BY <2>1, <3>1, <3>2 DEF MaxAttempts
  <2>3. delivered \in [Tasks -> 0..MaxAttempts]
    BY <1>0, <2>2 DEF WorkerTypes
  <2> QED BY <2>1, <2>3
<1>2. ASSUME NEW a \in Attempts
      PROVE  attempt[a].pc \in Places /\ attempt[a].slice \in 0..TotalEvents
  <2>1. PICK t \in Tasks, n \in 1..MaxAttempts : a = <<t, n>>
    BY DEF Attempts
  <2>2. attempt[a] \in [pc : Places, slice : Nat] /\ TotalEvents \in Nat
    BY <1>0, ShardEventsFinite DEF WorkerTypes
  <2>3. CASE attempt[a].pc \in {"dropping", "freeing"}
    <3>1. t \in 1..Len(submitted) /\ attempt[a].slice \in 1..Len(submitted[t])
      BY <1>0, <2>1, <2>3 DEF AttemptsPlaced
    <3>2. t \in 1..Len(Cuts) /\ Cuts[t] = submitted[t]
      BY <1>0, <3>1, CutsFacts
    <3>3. Len(submitted[t]) <= TotalEvents /\ Len(submitted[t]) \in Nat
      BY <1>0, <3>2, CutsBounded, SliceFacts
    <3> QED BY <2>2, <3>1, <3>3
  <2>4. CASE attempt[a].pc \notin {"dropping", "freeing"}
    <3>1. attempt[a].slice = 0
      BY <2>1, <2>4 DEF TypesInv, SlotsReset
    <3> QED BY <2>2, <3>1
  <2> QED BY <2>3, <2>4
<1>3. /\ \A sl \in Range(accumulator) \cup Range(cutting) : sl \in Slice
      /\ \A sh \in Range(cut) \cup Range(submitted) : \A sl \in Range(sh) : sl \in Slice
  <2>1. ASSUME NEW S, NEW q \in Seq(S), NEW x \in Range(q) PROVE x \in S
    <3>1. PICK i \in DOMAIN q : x = q[i]
      BY <2>1 DEF Range
    <3> QED BY <3>1, ElementOfSeq, LenProperties
  <2>2. \A sl \in Range(accumulator) \cup Range(cutting) : sl \in Slice
    BY <1>0, <2>1 DEF EmitTypes
  <2>3. \A sh \in Range(cut) \cup Range(submitted) : sh \in Seq(Slice)
    BY <1>0, <2>1 DEF EmitTypes
  <2> QED BY <2>1, <2>2, <2>3
<1>4. position \in 0..Len(cutting)
  <2>1. position \in Nat /\ Len(cutting) \in Nat
    BY <1>0, LenProperties DEF EmitTypes
  <2>2. emitter \in Placed => position \in 1..Len(cutting)
    BY <1>0 DEF EmitPlaces
  <2>3. /\ emitter \notin Placed \cup {"failed"} => position = 0
        /\ emitter = "failed" => position \in 0..Len(cutting)
    BY DEF TypesInv, PositionReset
  <2> QED BY <2>1, <2>2, <2>3
<1>5. StoreTypes
  BY DEF TypesInv
<1> QED BY <1>0, <1>1, <1>2, <1>3, <1>4, <1>5
        DEF TypeOK, StoreTypes, EmitTypes, WorkerTypes, Places

(* Every variable keeps its type.  What is not plain: no task is delivered *)
(* more often than the faults allow (resubmit_task answers one failed      *)
(* attempt each time), there is room for every shard that is cut, and a    *)
(* worker's and the emitter's place is inside the shard at hand.           *)
THEOREM TypesCorrect == Spec => []TypeOK
<1>1. EmitInv /\ WorkerInv /\ TypesInv /\ [Next]_vars => TypesInv'
  BY StoreTypesStep, DeliveriesStep, PositionStep DEF TypesInv
<1>2. WorkerInv /\ EmitInv /\ [Next]_vars => WorkerInv'
  BY WorkerStep
<1>3. EmitInv /\ WorkerInv /\ TypesInv => TypeOK
  BY TypesFacts
<1> QED BY <1>1, <1>2, <1>3, TypesInitial, WorkerInitial, EmitAlways, PTL DEF Spec


=============================================================================
