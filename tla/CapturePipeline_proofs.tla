---------------------- MODULE CapturePipeline_proofs ----------------------
(***************************************************************************)
(* Proofs about the capture program, for every length of the run, every    *)
(* capacity of its queues and every flush threshold.                       *)
(***************************************************************************)
EXTENDS CapturePipeline, SequenceTheorems, TLAPS

-----------------------------------------------------------------------------
(* Types, one conjunct per thread, so that a step is concerned with the    *)
(* one or two it can disturb.  A thread between two queues has a frame in  *)
(* its hand, and the dispatcher remembers the first and the last it took.  *)

R5fTypes ==
    /\ sent \in 0 .. NFrames
    /\ rpmsg \in Seq([id : Frames, kind : {"ok", "malformed", "short"}])

TransportTypes ==
    /\ tRunning \in BOOLEAN
    /\ tPc \in {"off", "check", "poll", "read", "push", "done"}
    /\ tFrame \in Frames \cup {None}
    /\ tPc = "push" => tFrame \in Frames
    /\ received \in Nat /\ malformed \in Nat /\ droppedIngress \in Nat /\ lostShort \in Nat

DispatcherTypes ==
    /\ dRunning \in BOOLEAN
    /\ dPc \in {"off", "check", "size", "pop", "dsp", "persist", "done"}
    /\ dFrame \in Frames \cup {None} /\ firstFrame \in Frames \cup {None}
    /\ dispatched \in Nat /\ droppedDsp \in Nat /\ droppedPersist \in Nat /\ gaps \in Nat
    /\ haveLast \in BOOLEAN /\ lastSeq \in 0 .. SeqMod - 1
    /\ dPc \in {"dsp", "persist"} => haveLast
    /\ haveLast => dFrame \in Frames /\ firstFrame \in Frames

DspTypes ==
    /\ sRunning \in BOOLEAN
    /\ sPc \in {"off", "check", "pop", "post", "done"}
    /\ sFrame \in Frames \cup {None} /\ posted \in Frames \cup {None}
    /\ sPc = "post" => sFrame \in Frames
    /\ nPosted \in Nat

PersistTypes ==
    /\ pRunning \in BOOLEAN
    /\ pPc \in {"off", "check", "size", "pop", "flush", "done"}
    /\ pFrame \in Frames \cup {None}
    /\ cache \in Seq(Frames) /\ disk \in Seq(Frames) /\ ioFailed \in BOOLEAN

QueueTypes ==
    /\ ingress \in Seq(Frames) /\ Len(ingress) <= IngressCap
    /\ dspQ \in Seq(Frames) /\ Len(dspQ) <= RingCap
    /\ persistQ \in Seq(Frames) /\ Len(persistQ) <= RingCap

MainTypes ==
    mPc \in {"initialize", "startPersist", "startTransport", "startDispatcher", "startDsp",
             "exec", "joinTransport", "joinDispatcher", "joinDsp", "joinPersist",
             "drain", "drainFlush", "finalFlush", "exited"}

Typed ==
    /\ R5fTypes /\ TransportTypes /\ DispatcherTypes /\ DspTypes /\ PersistTypes
    /\ QueueTypes /\ MainTypes

(* The parts cover the type invariant. *)
LEMMA TypedTypeOK == Typed => TypeOK
BY DEF Typed, R5fTypes, TransportTypes, DispatcherTypes, DspTypes, PersistTypes, QueueTypes,
   MainTypes, TypeOK, None, Frames

(* Every initial state and every step, one thread at a time, keeps the     *)
(* types.                                                                  *)
LEMMA InitTyped == Init => Typed
<1> SUFFICES ASSUME Init PROVE Typed
  OBVIOUS
<1> USE PipelineAssumption DEF Init, None
<1>1. R5fTypes
  BY DEF R5fTypes
<1>2. TransportTypes
  BY DEF TransportTypes
<1>3. DispatcherTypes
  <2>1. lastSeq \in 0 .. SeqMod - 1 /\ dFrame = None
    BY DEF IngressQ!Init
  <2> QED BY <2>1 DEF DispatcherTypes
<1>4. DspTypes
  BY DEF DspTypes, DspQ!Init
<1>5. PersistTypes
  <2>1. pFrame = None
    BY DEF PersistQ!Init
  <2>2. cache \in Seq(Frames) /\ disk \in Seq(Frames)
    OBVIOUS
  <2> QED BY <2>1, <2>2 DEF PersistTypes
<1>6. QueueTypes
  BY DEF QueueTypes, IngressQ!Init, DspQ!Init, PersistQ!Init
<1>7. MainTypes
  BY DEF MainTypes
<1> QED BY <1>1, <1>2, <1>3, <1>4, <1>5, <1>6, <1>7 DEF Typed

(* What a step does not touch keeps its types. *)
LEMMA UntouchedTypes ==
    ASSUME Typed
    PROVE  /\ UNCHANGED r5f => R5fTypes'
           /\ UNCHANGED transport => TransportTypes'
           /\ UNCHANGED dispatcher => DispatcherTypes'
           /\ UNCHANGED dsp => DspTypes'
           /\ UNCHANGED persist => PersistTypes'
           /\ UNCHANGED queues => QueueTypes'
           /\ UNCHANGED mPc => MainTypes'
<1> USE DEF Typed
<1>1. UNCHANGED r5f => R5fTypes'
  BY DEF r5f, R5fTypes
<1>2. UNCHANGED transport => TransportTypes'
  BY DEF transport, tCounts, TransportTypes
<1>3. UNCHANGED dispatcher => DispatcherTypes'
  BY DEF dispatcher, dCounts, dSeq, DispatcherTypes
<1>4. UNCHANGED dsp => DspTypes'
  BY DEF dsp, DspTypes
<1>5. UNCHANGED persist => PersistTypes'
  BY DEF persist, PersistTypes
<1>6. UNCHANGED queues => QueueTypes'
  BY DEF queues, QueueTypes
<1>7. UNCHANGED mPc => MainTypes'
  BY DEF MainTypes
<1> QED BY <1>1, <1>2, <1>3, <1>4, <1>5, <1>6, <1>7

(* What push and pop do to the types of a queue of frames. *)
LEMMA QueueStepTypes ==
    ASSUME NEW q \in Seq(Frames), NEW cap \in Nat, Len(q) <= cap
    PROVE  /\ \A f \in Frames : Len(q) # cap =>
                  Append(q, f) \in Seq(Frames) /\ Len(Append(q, f)) <= cap
           /\ q # <<>> => /\ Head(q) \in Frames
                          /\ Tail(q) \in Seq(Frames) /\ Len(Tail(q)) <= cap
<1>1. Len(q) \in Nat
  OBVIOUS
<1>2. \A f \in Frames : Append(q, f) \in Seq(Frames) /\ Len(Append(q, f)) = Len(q) + 1
  OBVIOUS
<1>3. q # <<>> => /\ Head(q) \in Frames
                  /\ Tail(q) \in Seq(Frames) /\ Len(Tail(q)) = Len(q) - 1
  OBVIOUS
<1> QED BY <1>1, <1>2, <1>3

(* A remainder is below its modulus. *)
LEMMA ModRange ==
    ASSUME NEW m \in Nat \ {0}, NEW x \in Nat
    PROVE  x % m \in 0 .. m - 1
OBVIOUS

(* A sequence number fits its field. *)
LEMMA SequenceInField == ASSUME NEW f \in Frames PROVE SeqOf(f) \in 0 .. SeqMod - 1
<1> DEFINE n == SeqStart + f
<1>1. n \in Nat /\ SeqMod \in Nat \ {0}
  BY PipelineAssumption DEF Frames
<1>2. SeqOf(f) = n % SeqMod
  BY DEF SeqOf
<1> HIDE DEF n
<1> QED BY <1>1, <1>2, ModRange

-----------------------------------------------------------------------------
LEMMA R5fTyped ==
    ASSUME Typed, NEW kind \in {"ok", "malformed", "short"}, R5fSend(kind)
    PROVE  Typed'
<1>1. R5fTypes'
  <2>1. sent' \in 0 .. NFrames /\ sent + 1 \in Frames
    BY PipelineAssumption DEF Typed, R5fTypes, R5fSend, Frames
  <2>2. [id |-> sent + 1, kind |-> kind] \in [id : Frames, kind : {"ok", "malformed", "short"}]
    BY <2>1
  <2> QED BY <2>1, <2>2 DEF Typed, R5fTypes, R5fSend
<1> QED BY <1>1, UntouchedTypes DEF R5fSend, Typed

LEMMA TransportTyped == ASSUME Typed, Transport PROVE Typed'
<1>0. DispatcherTypes' /\ DspTypes' /\ PersistTypes' /\ MainTypes'
  BY UntouchedTypes DEF Transport, TransportCheck, TransportPoll, TransportReadFails,
     TransportRead, TransportPush, TransportOthers
<1>1. sent' = sent
  BY DEF Transport, TransportCheck, TransportPoll, TransportReadFails, TransportRead,
     TransportPush, TransportOthers
<1>2. R5fTypes'
  <2>1. rpmsg' = rpmsg \/ (rpmsg # <<>> /\ rpmsg' = Tail(rpmsg))
    BY DEF Transport, TransportCheck, TransportPoll, TransportReadFails, TransportRead,
       TransportPush
  <2> QED BY <1>1, <2>1 DEF Typed, R5fTypes
<1>3. TransportTypes'
  <2> USE DEF Typed, TransportTypes, tCounts
  <2>1. CASE TransportCheck
    BY <2>1 DEF TransportCheck
  <2>2. CASE TransportPoll
    BY <2>2 DEF TransportPoll
  <2>3. CASE TransportReadFails
    BY <2>3 DEF TransportReadFails
  <2>4. CASE TransportRead
    <3>1. Head(rpmsg).id \in Frames
      <4>1. rpmsg # <<>> /\ rpmsg \in Seq([id : Frames, kind : {"ok", "malformed", "short"}])
        BY <2>4 DEF TransportRead, R5fTypes
      <4>2. Head(rpmsg) \in [id : Frames, kind : {"ok", "malformed", "short"}]
        BY <4>1, HeadTailProperties
      <4> QED BY <4>2
    <3> QED BY <2>4, <3>1 DEF TransportRead
  <2>5. CASE TransportPush
    BY <2>5 DEF TransportPush
  <2> QED BY <2>1, <2>2, <2>3, <2>4, <2>5 DEF Transport
<1>4. QueueTypes'
  <2>1. CASE UNCHANGED queues
    BY <2>1, UntouchedTypes
  <2>2. CASE TransportPush /\ IngressQ!Push(tFrame)
    BY <2>2, QueueStepTypes, PipelineAssumption
       DEF TransportPush, IngressQ!Push, IngressQ!Full, Typed, QueueTypes, TransportTypes
  <2> QED BY <2>1, <2>2 DEF Transport, TransportCheck, TransportPoll, TransportReadFails,
          TransportRead, TransportPush, queues
<1> QED BY <1>0, <1>2, <1>3, <1>4 DEF Typed

LEMMA DispatcherTyped == ASSUME Typed, Dispatcher PROVE Typed'
<1>0. R5fTypes' /\ TransportTypes' /\ DspTypes' /\ PersistTypes' /\ MainTypes'
  BY UntouchedTypes DEF Dispatcher, DispatchCheck, DispatchSize, DispatchEmpty, DispatchPop,
     DispatchToDsp, DispatchToPersist, DispatcherOthers
<1>1. CASE DispatchCheck \/ DispatchSize \/ DispatchEmpty
  <2>1. DispatcherTypes' /\ UNCHANGED queues
    BY <1>1 DEF DispatchCheck, DispatchSize, DispatchEmpty, Typed, DispatcherTypes, dCounts, dSeq
  <2> QED BY <1>0, <2>1, UntouchedTypes DEF Typed
<1>2. CASE DispatchPop
  <2>1. ingress # <<>> /\ dFrame' = Head(ingress) /\ ingress' = Tail(ingress)
    BY <1>2 DEF DispatchPop, IngressQ!Pop, IngressQ!Empty
  <2>2. dFrame' \in Frames /\ QueueTypes'
    BY <1>2, <2>1, QueueStepTypes, PipelineAssumption DEF DispatchPop, Typed, QueueTypes
  <2>3. lastSeq' \in 0 .. SeqMod - 1
    <3>1. lastSeq' = SeqOf(dFrame')
      BY <1>2 DEF DispatchPop
    <3>2. \A f \in Frames : SeqOf(f) \in 0 .. SeqMod - 1
      BY SequenceInField
    <3> QED BY <2>2, <3>1, <3>2
  <2>4. DispatcherTypes'
    BY <1>2, <2>2, <2>3 DEF DispatchPop, Typed, DispatcherTypes
  <2> QED BY <1>0, <2>2, <2>4 DEF Typed
<1>3. CASE DispatchToDsp
  <2>1. DispatcherTypes' /\ dFrame \in Frames
    BY <1>3 DEF DispatchToDsp, Typed, DispatcherTypes, dSeq
  <2>2. QueueTypes'
    BY <1>3, <2>1, QueueStepTypes, PipelineAssumption
       DEF DispatchToDsp, DspQ!Push, DspQ!Full, Typed, QueueTypes
  <2> QED BY <1>0, <2>1, <2>2 DEF Typed
<1>4. CASE DispatchToPersist
  <2>1. DispatcherTypes' /\ dFrame \in Frames
    BY <1>4 DEF DispatchToPersist, Typed, DispatcherTypes, dSeq
  <2>2. QueueTypes'
    BY <1>4, <2>1, QueueStepTypes, PipelineAssumption
       DEF DispatchToPersist, PersistQ!Push, PersistQ!Full, Typed, QueueTypes
  <2> QED BY <1>0, <2>1, <2>2 DEF Typed
<1> QED BY <1>1, <1>2, <1>3, <1>4 DEF Dispatcher

LEMMA DspTyped == ASSUME Typed, DspWorker PROVE Typed'
<1>0. R5fTypes' /\ TransportTypes' /\ DispatcherTypes' /\ PersistTypes' /\ MainTypes'
  BY UntouchedTypes DEF DspWorker, DspCheck, DspPop, DspPost, DspOthers
<1>1. CASE DspCheck \/ DspPost \/ (DspPop /\ UNCHANGED <<dspQ, sFrame>> /\ sPc' = "check")
  <2>1. DspTypes'
    BY <1>1 DEF DspCheck, DspPost, DspPop, Typed, DspTypes
  <2>2. UNCHANGED queues
    BY <1>1 DEF DspCheck, DspPost, DspPop, DspOthers, queues
  <2> QED BY <1>0, <2>1, <2>2, UntouchedTypes DEF Typed
<1>2. CASE DspPop /\ DspQ!Pop /\ sPc' = "post"
  <2>1. dspQ # <<>> /\ sFrame' = Head(dspQ) /\ dspQ' = Tail(dspQ) /\ UNCHANGED <<ingress, persistQ>>
    BY <1>2 DEF DspPop, DspQ!Pop, DspQ!Empty, DspOthers
  <2>2. sFrame' \in Frames /\ QueueTypes'
    BY <2>1, QueueStepTypes, PipelineAssumption DEF Typed, QueueTypes
  <2>3. DspTypes'
    BY <1>2, <2>2 DEF DspPop, Typed, DspTypes
  <2> QED BY <1>0, <2>2, <2>3 DEF Typed
<1> QED BY <1>1, <1>2 DEF DspWorker, DspPop

(* flush_cache leaves two sequences of frames, whether it fails or not. *)
LEMMA FlushTyped ==
    ASSUME Typed, FlushOk \/ FlushFails
    PROVE  cache' \in Seq(Frames) /\ disk' \in Seq(Frames) /\ ioFailed' \in BOOLEAN
<1>1. cache \in Seq(Frames) /\ disk \in Seq(Frames) /\ ioFailed \in BOOLEAN
  BY DEF Typed, PersistTypes
<1>2. CASE FlushOk
  BY <1>1, <1>2 DEF FlushOk
<1>3. CASE FlushFails
  <2>1. PICK k \in 0 .. Len(cache) : disk' = disk \o SubSeq(cache, 1, k)
    BY <1>3 DEF FlushFails
  <2>2. SubSeq(cache, 1, k) \in Seq(Frames)
    BY <1>1, <2>1
  <2>3. disk' \in Seq(Frames)
    BY <1>1, <2>1, <2>2
  <2> QED BY <1>1, <1>3, <2>3 DEF FlushFails
<1> QED BY <1>2, <1>3

(* A frame taken from the persistence queue, by the thread or by stop(). *)
LEMMA PersistPopTyped ==
    ASSUME Typed, PersistQ!Pop, cache' = Append(cache, pFrame'), UNCHANGED <<ingress, dspQ>>
    PROVE  /\ pFrame' \in Frames /\ cache' \in Seq(Frames)
           /\ QueueTypes'
<1>1. persistQ # <<>> /\ pFrame' = Head(persistQ) /\ persistQ' = Tail(persistQ)
  BY DEF PersistQ!Pop, PersistQ!Empty
<1>2. pFrame' \in Frames /\ QueueTypes'
  BY <1>1, QueueStepTypes, PipelineAssumption DEF Typed, QueueTypes
<1>3. cache' \in Seq(Frames)
  BY <1>2 DEF Typed, PersistTypes
<1> QED BY <1>2, <1>3

LEMMA PersistTyped == ASSUME Typed, PersistWorker PROVE Typed'
<1>0. R5fTypes' /\ TransportTypes' /\ DispatcherTypes' /\ DspTypes'
  BY UntouchedTypes DEF PersistWorker, PersistCheck, PersistSize, PersistPop, PersistFlush,
     PersistOthers
<1>1. MainTypes'
  BY UntouchedTypes DEF PersistWorker, PersistCheck, PersistSize, PersistPop, PersistFlush
<1>2. CASE PersistCheck \/ PersistSize
           \/ (PersistPop /\ UNCHANGED <<persistQ, pFrame, cache>> /\ pPc' = "check")
  <2>1. PersistTypes'
    BY <1>2 DEF PersistCheck, PersistSize, PersistPop, Typed, PersistTypes
  <2>2. UNCHANGED queues
    BY <1>2 DEF PersistCheck, PersistSize, PersistPop, PersistOthers, queues
  <2> QED BY <1>0, <1>1, <2>1, <2>2, UntouchedTypes DEF Typed
<1>3. CASE PersistPop /\ PersistQ!Pop /\ cache' = Append(cache, pFrame')
  <2>1. pFrame' \in Frames /\ cache' \in Seq(Frames) /\ QueueTypes'
    BY <1>3, PersistPopTyped DEF PersistPop, PersistOthers
  <2>2. pPc' \in {"flush", "check"}
    BY <1>3 DEF PersistPop, PersistQ!Pop
  <2>3. PersistTypes'
    BY <1>3, <2>1, <2>2 DEF PersistPop, Typed, PersistTypes
  <2> QED BY <1>0, <1>1, <2>1, <2>3 DEF Typed
<1>4. CASE PersistFlush
  <2>1. PersistTypes'
    BY <1>4, FlushTyped DEF PersistFlush, Typed, PersistTypes
  <2>2. UNCHANGED queues
    BY <1>4 DEF PersistFlush, PersistOthers, queues
  <2> QED BY <1>0, <1>1, <2>1, <2>2, UntouchedTypes DEF Typed
<1> QED BY <1>2, <1>3, <1>4 DEF PersistWorker, PersistPop

(* Starting, quitting and joining move no frame. *)
MainControl ==
    \/ MainStart \/ MainQuit \/ MainJoinTransport \/ MainJoinDispatcher \/ MainJoinDsp
    \/ MainJoinPersist

LEMMA ControlTyped == ASSUME Typed, MainControl PROVE Typed'
<1>0. /\ UNCHANGED <<r5f, queues, tFrame, tCounts, dFrame, dCounts, dSeq, sFrame, posted, nPosted>>
      /\ UNCHANGED <<pFrame, cache, disk, ioFailed>>
  BY DEF MainControl, MainStart, MainInitialize, MainStartPersist, MainStartTransport,
     MainStartDispatcher, MainStartDsp, MainQuit, MainJoinTransport, MainJoinDispatcher,
     MainJoinDsp, MainJoinPersist, MainOthers, persist
<1>1. R5fTypes' /\ QueueTypes'
  BY <1>0, UntouchedTypes
<1>2. /\ tRunning' \in {tRunning, TRUE, FALSE} /\ tPc' \in {tPc, "check"}
      /\ dRunning' \in {dRunning, TRUE, FALSE} /\ dPc' \in {dPc, "check"}
      /\ sRunning' \in {sRunning, TRUE, FALSE} /\ sPc' \in {sPc, "check"}
      /\ pRunning' \in {pRunning, TRUE, FALSE} /\ pPc' \in {pPc, "check"}
  BY DEF MainControl, MainStart, MainInitialize, MainStartPersist, MainStartTransport,
     MainStartDispatcher, MainStartDsp, MainQuit, MainJoinTransport, MainJoinDispatcher,
     MainJoinDsp, MainJoinPersist, tState, dState, sState, persist
<1>3. TransportTypes'
  BY <1>0, <1>2 DEF Typed, TransportTypes, tCounts
<1>4. DispatcherTypes'
  BY <1>0, <1>2 DEF Typed, DispatcherTypes, dCounts, dSeq
<1>5. DspTypes'
  BY <1>0, <1>2 DEF Typed, DspTypes
<1>6. PersistTypes'
  BY <1>0, <1>2 DEF Typed, PersistTypes
<1>7. MainTypes'
  BY DEF MainTypes, MainControl, MainStart, MainInitialize, MainStartPersist, MainStartTransport,
     MainStartDispatcher, MainStartDsp, MainQuit, MainJoinTransport, MainJoinDispatcher,
     MainJoinDsp, MainJoinPersist
<1> QED BY <1>1, <1>3, <1>4, <1>5, <1>6, <1>7 DEF Typed

(* The rest of stop(): the drain and its flushes. *)
MainEmptying == MainDrain \/ MainDrainFlush \/ MainFinalFlush

LEMMA EmptyingTyped == ASSUME Typed, MainEmptying PROVE Typed'
<1>0. /\ UNCHANGED <<r5f, transport, dispatcher, dsp, ingress, dspQ, pRunning, pPc>>
      /\ mPc' \in {"drain", "drainFlush", "finalFlush", "exited"}
  BY DEF MainEmptying, MainDrain, MainDrainFlush, MainFinalFlush, MainOthers, tState, dState,
     sState, transport, dispatcher, dsp, queues
<1>1. R5fTypes' /\ TransportTypes' /\ DispatcherTypes' /\ DspTypes' /\ MainTypes'
  BY <1>0, UntouchedTypes DEF MainTypes
<1>2. CASE MainDrain /\ UNCHANGED <<persistQ, pFrame, cache>>
  <2>1. UNCHANGED persist /\ UNCHANGED queues
    BY <1>2 DEF MainDrain, persist, queues
  <2> QED BY <1>1, <2>1, UntouchedTypes DEF Typed
<1>3. CASE MainDrain /\ PersistQ!Pop /\ cache' = Append(cache, pFrame')
  <2>1. pFrame' \in Frames /\ cache' \in Seq(Frames) /\ QueueTypes'
    BY <1>0, <1>3, PersistPopTyped
  <2>2. PersistTypes'
    BY <1>0, <1>3, <2>1 DEF MainDrain, Typed, PersistTypes
  <2> QED BY <1>1, <2>1, <2>2 DEF Typed
<1>4. CASE MainDrainFlush \/ MainFinalFlush
  <2>1. UNCHANGED queues /\ pFrame' = pFrame /\ (FlushOk \/ FlushFails)
    BY <1>4 DEF MainDrainFlush, MainFinalFlush, MainOthers
  <2>2. PersistTypes'
    BY <1>0, <2>1, FlushTyped DEF Typed, PersistTypes
  <2> QED BY <1>1, <2>1, <2>2, UntouchedTypes DEF Typed
<1> QED BY <1>2, <1>3, <1>4 DEF MainEmptying, MainDrain

LEMMA NextTyped == Typed /\ [Next]_vars => Typed'
<1> SUFFICES ASSUME Typed, [Next]_vars PROVE Typed'
  OBVIOUS
<1>1. CASE UNCHANGED vars
  BY <1>1, UntouchedTypes DEF vars, Typed
<1>2. CASE MainStop
  BY <1>2, ControlTyped, EmptyingTyped DEF MainStop, MainControl, MainEmptying
<1>3. CASE MainStart \/ MainQuit
  BY <1>3, ControlTyped DEF MainControl
<1> QED BY <1>1, <1>2, <1>3, R5fTyped, TransportTyped, DispatcherTyped, DspTyped, PersistTyped
        DEF Next, Exited

(* Every variable keeps its type, and no queue exceeds its capacity.       *)
THEOREM TypeCorrect == Spec => []TypeOK
<1>1. Spec => []Typed
  BY InitTyped, NextTyped, PTL DEF Spec
<1> QED BY <1>1, TypedTypeOK, PTL
-----------------------------------------------------------------------------
(* Who runs when: main starts the threads from the consumer to the         *)
(* producer and stops them the other way round, and a running_ flag that   *)
(* has been cleared tells the thread who has stopped before it.  The exit  *)
(* condition of a consumer reads running_ before the queue, so what it     *)
(* finds empty stays empty.                                                *)
NotStarted ==
    /\ mPc \in {"initialize", "startPersist"} => pPc = "off"
    /\ mPc \in {"initialize", "startPersist", "startTransport"} => tPc = "off"
    /\ mPc \in {"initialize", "startPersist", "startTransport", "startDispatcher"} => dPc = "off"
    /\ mPc \in {"initialize", "startPersist", "startTransport", "startDispatcher", "startDsp"} =>
           sPc = "off"

FlagsCleared ==
    /\ ~dRunning => dPc = "off" \/ tPc = "done"
    /\ ~sRunning => sPc = "off" \/ dPc = "done"
    /\ ~pRunning => pPc = "off" \/ dPc = "done" \/ ioFailed
    /\ dPc = "size" => ~dRunning
    /\ pPc = "size" => ~pRunning

Joined ==
    /\ mPc \in {"joinPersist", "drain", "drainFlush", "finalFlush"} => sPc = "done"
    /\ mPc \in {"drain", "drainFlush", "finalFlush"} => pPc = "done"
    /\ mPc = "exited" =>
           \/ tPc = "off"
           \/ sPc = "done" /\ pPc = "done" /\ (~ioFailed => cache = <<>>)

Lifecycle == NotStarted /\ FlagsCleared /\ Joined /\ ConsumersOutliveProducers

(* The life cycle, one thread at a time: only the steps of main depend on  *)
(* the types.                                                              *)
LEMMA InitLifecycle == Init => Lifecycle
BY DEF Init, Lifecycle, NotStarted, FlagsCleared, Joined, ConsumersOutliveProducers

LEMMA TransportLifecycle == ASSUME Lifecycle, Transport PROVE Lifecycle'
<1> USE DEF Lifecycle, NotStarted, FlagsCleared, Joined, ConsumersOutliveProducers
<1>1. /\ UNCHANGED <<dPc, dRunning, sPc, sRunning, pPc, pRunning, mPc, persistQ, ioFailed, cache>>
      /\ tPc \notin {"off", "done"} /\ tPc' # "off"
      /\ ingress' = ingress \/ tPc = "push"
  BY DEF Transport, TransportCheck, TransportPoll, TransportReadFails, TransportRead,
     TransportPush, TransportOthers, dispatcher, dsp, persist, queues
<1>2. dPc # "done"
  BY <1>1
<1> QED BY <1>1, <1>2

LEMMA DispatcherLifecycle == ASSUME Lifecycle, Dispatcher PROVE Lifecycle'
<1> USE DEF Lifecycle, NotStarted, FlagsCleared, Joined, ConsumersOutliveProducers
<1>1. /\ UNCHANGED <<tPc, dRunning, sPc, sRunning, pPc, pRunning, mPc, ioFailed, cache>>
      /\ dPc \notin {"off", "done"} /\ dPc' # "off"
      /\ dPc' = "size" => ~dRunning
      /\ dPc' = "done" => dPc = "size" /\ ingress = <<>> /\ ingress' = <<>>
  BY DEF Dispatcher, DispatchCheck, DispatchSize, DispatchEmpty, DispatchPop, DispatchToDsp,
     DispatchToPersist, DispatcherOthers, transport, dsp, persist, queues, IngressQ!Empty
<1> QED BY <1>1

LEMMA DspLifecycle == ASSUME Lifecycle, DspWorker PROVE Lifecycle'
<1> USE DEF Lifecycle, NotStarted, FlagsCleared, Joined, ConsumersOutliveProducers
<1>1. /\ UNCHANGED <<tPc, dPc, dRunning, sRunning, pPc, pRunning, mPc, ioFailed, cache, ingress,
                     persistQ>>
      /\ sPc \notin {"off", "done"} /\ sPc' # "off"
      /\ sPc' = "done" => ~sRunning
  BY DEF DspWorker, DspCheck, DspPop, DspPost, DspOthers, transport, dispatcher, persist
<1> QED BY <1>1

LEMMA PersistLifecycle == ASSUME Lifecycle, PersistWorker PROVE Lifecycle'
<1> USE DEF Lifecycle, NotStarted, FlagsCleared, Joined, ConsumersOutliveProducers
<1>1. /\ UNCHANGED <<tPc, dPc, dRunning, sPc, sRunning, mPc, ingress>>
      /\ pPc \notin {"off", "done"} /\ pPc' # "off"
      /\ pPc' = "size" => ~pRunning /\ pRunning' = pRunning
      /\ ~pRunning' => ~pRunning \/ ioFailed'
      /\ pPc' = "done" => ioFailed' \/ (pPc = "size" /\ persistQ' = <<>> /\ ~pRunning)
      /\ ioFailed => ioFailed'
  BY DEF PersistWorker, PersistCheck, PersistSize, PersistPop, PersistFlush, FlushOk, FlushFails,
     PersistOthers, transport, dispatcher, dsp, PersistQ!Empty
<1>2. mPc # "exited" \/ tPc = "off"
  BY <1>1
<1> QED BY <1>1, <1>2

LEMMA ControlLifecycle == ASSUME Typed, Lifecycle, MainControl PROVE Lifecycle'
<1> USE DEF Lifecycle, NotStarted, FlagsCleared, Joined, ConsumersOutliveProducers
<1>0. /\ UNCHANGED <<ingress, persistQ, cache, ioFailed>>
  BY DEF MainControl, MainStart, MainInitialize, MainStartPersist, MainStartTransport,
     MainStartDispatcher, MainStartDsp, MainQuit, MainJoinTransport, MainJoinDispatcher,
     MainJoinDsp, MainJoinPersist, MainOthers, queues, persist
<1> USE DEF tState, dState, sState, persist
<1>1. CASE MainInitialize \/ MainStartPersist
  BY <1>0, <1>1 DEF MainInitialize, MainStartPersist
<1>2. CASE MainStartTransport
  BY <1>0, <1>2 DEF MainStartTransport
<1>3. CASE MainStartDispatcher
  BY <1>0, <1>3 DEF MainStartDispatcher
<1>4. CASE MainStartDsp
  BY <1>0, <1>4 DEF MainStartDsp
<1>5. CASE MainQuit
  BY <1>0, <1>5 DEF MainQuit
<1>6. CASE MainJoinTransport
  BY <1>0, <1>6 DEF MainJoinTransport
<1>7. CASE MainJoinDispatcher
  BY <1>0, <1>7 DEF MainJoinDispatcher
<1>8. CASE MainJoinDsp
  BY <1>0, <1>8 DEF MainJoinDsp
<1>9. CASE MainJoinPersist
  BY <1>0, <1>9 DEF MainJoinPersist
<1> QED BY <1>1, <1>2, <1>3, <1>4, <1>5, <1>6, <1>7, <1>8, <1>9 DEF MainControl, MainStart

LEMMA EmptyingLifecycle == ASSUME Lifecycle, MainEmptying PROVE Lifecycle'
<1> USE DEF Lifecycle, NotStarted, FlagsCleared, Joined, ConsumersOutliveProducers
<1>1. /\ UNCHANGED <<tPc, dPc, dRunning, sPc, sRunning, pPc, pRunning, ingress>>
      /\ mPc \in {"drain", "drainFlush", "finalFlush"}
      /\ mPc' \in {"drain", "drainFlush", "finalFlush", "exited"}
      /\ ioFailed => ioFailed'
      /\ persistQ' = persistQ \/ persistQ # <<>>
      /\ mPc' = "exited" => ioFailed' \/ cache' = <<>>
  BY DEF MainEmptying, MainDrain, MainDrainFlush, MainFinalFlush, FlushOk, FlushFails, MainOthers,
     tState, dState, sState, transport, dispatcher, dsp, queues, PersistQ!Pop, PersistQ!Empty
<1> QED BY <1>1

LEMMA NextLifecycle == Typed /\ Lifecycle /\ [Next]_vars => Lifecycle'
<1> SUFFICES ASSUME Typed, Lifecycle, [Next]_vars PROVE Lifecycle'
  OBVIOUS
<1>1. CASE UNCHANGED vars \/ \E kind \in {"ok", "malformed", "short"} : R5fSend(kind)
  <2>1. UNCHANGED <<tPc, dPc, dRunning, sPc, sRunning, pPc, pRunning, mPc, ingress, persistQ,
                    ioFailed, cache>>
    BY <1>1 DEF R5fSend, vars, transport, dispatcher, dsp, persist, queues
  <2> QED BY <2>1 DEF Lifecycle, NotStarted, FlagsCleared, Joined, ConsumersOutliveProducers
<1>2. CASE MainStop
  BY <1>2, ControlLifecycle, EmptyingLifecycle DEF MainStop, MainControl, MainEmptying
<1>3. CASE MainStart \/ MainQuit
  BY <1>3, ControlLifecycle DEF MainControl
<1> QED BY <1>1, <1>2, <1>3, TransportLifecycle, DispatcherLifecycle, DspLifecycle,
           PersistLifecycle DEF Next, Exited
-----------------------------------------------------------------------------
(* The frames under way, and what a step does to them.                     *)

(* t is s without one of its items. *)
OneLost(s, t) ==
    \E k \in 1 .. Len(s) :
        /\ Len(t) = Len(s) - 1
        /\ \A i \in 1 .. Len(t) : t[i] = IF i < k THEN s[i] ELSE s[i + 1]

(* What the two threads hold upstream are sequences of at most one frame. *)
LEMMA HandFacts ==
    ASSUME Typed
    PROVE  /\ InTransport \in Seq(Frames)
           /\ InTransport = IF tPc = "push" THEN <<tFrame>> ELSE <<>>
           /\ InDispatcher \in Seq(Frames)
           /\ InDispatcher = IF dPc \in {"dsp", "persist"} THEN <<dFrame>> ELSE <<>>
           /\ Ids \in Seq(Frames) /\ Len(Ids) = Len(rpmsg) /\ Len(rpmsg) \in Nat
<1>1. InTransport \in Seq(Frames) /\ InTransport = IF tPc = "push" THEN <<tFrame>> ELSE <<>>
  BY DEF Typed, TransportTypes, InTransport, Hand
<1>2. InDispatcher \in Seq(Frames)
      /\ InDispatcher = IF dPc \in {"dsp", "persist"} THEN <<dFrame>> ELSE <<>>
  BY DEF Typed, DispatcherTypes, InDispatcher, Hand
<1>3. Len(rpmsg) \in Nat
  BY DEF Typed, R5fTypes
<1>4. \A i \in 1 .. Len(rpmsg) : rpmsg[i].id \in Frames
  <2> TAKE i \in 1 .. Len(rpmsg)
  <2>1. rpmsg[i] \in [id : Frames, kind : {"ok", "malformed", "short"}]
    BY ElementOfSeq DEF Typed, R5fTypes
  <2> QED BY <2>1
<1>5. Ids \in Seq(Frames) /\ Len(Ids) = Len(rpmsg)
  BY <1>3, <1>4 DEF Ids
<1> QED BY <1>1, <1>2, <1>3, <1>5

(* The frames on their way, as one sequence. *)
LEMMA UpstreamFacts ==
    ASSUME Typed
    PROVE  /\ Upstream \in Seq(Frames)
           /\ Len(Upstream) = Len(ingress) + Len(InTransport) + Len(rpmsg)
<1>1. ingress \in Seq(Frames) /\ InTransport \in Seq(Frames) /\ Ids \in Seq(Frames)
      /\ Len(Ids) = Len(rpmsg)
  BY HandFacts DEF Typed, QueueTypes
<1>2. ingress \o InTransport \in Seq(Frames)
      /\ Len(ingress \o InTransport) = Len(ingress) + Len(InTransport)
  BY <1>1
<1> QED BY <1>1, <1>2 DEF Upstream

UpstreamTyped == Upstream \in Seq(Frames)
LEMMA UpstreamType == Typed => UpstreamTyped
BY UpstreamFacts DEF UpstreamTyped

(* The R5F announces the next frame. *)
LEMMA UpstreamSend ==
    ASSUME Typed, NEW kind \in {"ok", "malformed", "short"}, R5fSend(kind)
    PROVE  Upstream' = Append(Upstream, sent + 1) /\ sent + 1 \in Frames
<1>1. sent + 1 \in Frames
  BY PipelineAssumption DEF Typed, R5fTypes, R5fSend, Frames
<1>2. Len(rpmsg') = Len(rpmsg) + 1
      /\ \A i \in 1 .. Len(rpmsg) + 1 : rpmsg'[i].id = IF i = Len(rpmsg) + 1 THEN sent + 1
                                                                      ELSE Ids[i]
  BY <1>1 DEF R5fSend, Typed, R5fTypes, Ids
<1>3. Ids' = Append(Ids, sent + 1)
  <2>1. Ids \in Seq(Frames) /\ Len(Ids) = Len(rpmsg) /\ Len(rpmsg) \in Nat
    BY HandFacts
  <2>2. \A i \in 1 .. Len(rpmsg') : rpmsg'[i].id \in Frames
    BY <1>1, <1>2, <2>1, ElementOfSeq
  <2>3. /\ Ids' \in Seq(Frames) /\ Len(Ids') = Len(rpmsg) + 1
        /\ \A i \in 1 .. Len(rpmsg) + 1 : Ids'[i] = rpmsg'[i].id
    BY <1>2, <2>1, <2>2 DEF Ids
  <2>4. /\ Append(Ids, sent + 1) \in Seq(Frames)
        /\ Len(Append(Ids, sent + 1)) = Len(rpmsg) + 1
        /\ \A i \in 1 .. Len(rpmsg) + 1 :
               Append(Ids, sent + 1)[i] = IF i = Len(rpmsg) + 1 THEN sent + 1 ELSE Ids[i]
    BY <1>1, <2>1, AppendProperties
  <2> QED BY <1>2, <2>3, <2>4, SeqEqual
<1>4. UNCHANGED <<ingress, InTransport>>
  BY DEF R5fSend, queues, transport, InTransport, Hand
<1>5. \A a, b \in Seq(Frames) : \A f \in Frames : a \o Append(b, f) = Append(a \o b, f)
  OBVIOUS
<1>6. ingress \o InTransport \in Seq(Frames)
  BY HandFacts DEF Typed, QueueTypes
<1> QED BY <1>1, <1>3, <1>4, <1>5, <1>6, HandFacts DEF Upstream

(* Reading a descriptor takes the oldest one out of the channel. *)
LEMMA IdsTail ==
    ASSUME Typed, rpmsg # <<>>, rpmsg' = Tail(rpmsg)
    PROVE  Ids # <<>> /\ Head(Ids) = Head(rpmsg).id /\ Ids' = Tail(Ids)
<1>1. /\ Len(rpmsg) \in Nat \ {0} /\ Len(rpmsg') = Len(rpmsg) - 1
      /\ Head(rpmsg) = rpmsg[1]
      /\ \A i \in 1 .. Len(rpmsg) - 1 : rpmsg'[i] = rpmsg[i + 1]
  BY HeadTailProperties DEF Typed, R5fTypes
<1>2. Ids # <<>> /\ Head(Ids) = Head(rpmsg).id
  BY <1>1, HandFacts DEF Ids
<1>3. Len(Ids') = Len(rpmsg) - 1 /\ \A i \in 1 .. Len(rpmsg) - 1 : Ids'[i] = Ids[i + 1]
  BY <1>1 DEF Ids
<1>4. /\ Tail(Ids) \in Seq(Frames) /\ Len(Tail(Ids)) = Len(rpmsg) - 1
      /\ \A i \in 1 .. Len(rpmsg) - 1 : Tail(Ids)[i] = Ids[i + 1]
  BY <1>2, HandFacts, HeadTailProperties
<1>5. Ids' \in Seq(Frames)
  <2>1. \A i \in 1 .. Len(rpmsg) - 1 : Ids[i + 1] \in Frames
    BY <1>1, HandFacts, ElementOfSeq
  <2>2. \A i \in 1 .. Len(rpmsg') : rpmsg'[i].id \in Frames
    BY <1>1, <2>1, HandFacts DEF Ids
  <2> QED BY <1>1, <2>2 DEF Ids
<1> QED BY <1>2, <1>3, <1>4, <1>5, SeqEqual
(* Moving an item from the head of one queue to the tail of the one below. *)
LEMMA MoveDown ==
    ASSUME NEW a \in Seq(Frames), NEW b \in Seq(Frames), b # <<>>
    PROVE  Append(a, Head(b)) \o Tail(b) = a \o b
OBVIOUS

(* Concatenation is associative. *)
LEMMA Regroup ==
    ASSUME NEW a \in Seq(Frames), NEW b \in Seq(Frames), NEW c \in Seq(Frames)
    PROVE  a \o b \o c = a \o (b \o c)
BY ConcatAssociative

(* Losing the item between two others. *)
LEMMA LoseMiddle ==
    ASSUME NEW a \in Seq(Frames), NEW b \in Seq(Frames), NEW f \in Frames
    PROVE  OneLost((a \o <<f>>) \o b, a \o b)
<1> DEFINE s == (a \o <<f>>) \o b
           t == a \o b
<1>1. Len(a) \in Nat /\ Len(b) \in Nat
  OBVIOUS
<1>2. a \o <<f>> \in Seq(Frames) /\ Len(a \o <<f>>) = Len(a) + 1
      /\ \A i \in 1 .. Len(a) + 1 : (a \o <<f>>)[i] = IF i <= Len(a) THEN a[i] ELSE f
  OBVIOUS
<1>3. Len(s) = Len(a) + 1 + Len(b) /\ Len(t) = Len(a) + Len(b)
  BY <1>2
<1>4. ASSUME NEW i \in 1 .. Len(t) PROVE t[i] = IF i < Len(a) + 1 THEN s[i] ELSE s[i + 1]
  BY <1>1, <1>2, <1>3
<1>5. Len(a) + 1 \in 1 .. Len(s)
  BY <1>1, <1>3
<1>6. Len(t) = Len(s) - 1
  BY <1>1, <1>3
<1> HIDE DEF s, t
<1>7. OneLost(s, t)
  BY <1>4, <1>5, <1>6 DEF OneLost
<1> QED BY <1>7 DEF s, t

(* A step of the transport thread loses at most one frame and never        *)
(* changes the order of the others.                                        *)
LEMMA UpstreamTransport ==
    ASSUME Typed, Transport
    PROVE  Upstream' = Upstream \/ OneLost(Upstream, Upstream')
<1>0. ingress \in Seq(Frames) /\ InTransport \in Seq(Frames) /\ Ids \in Seq(Frames)
  BY HandFacts DEF Typed, QueueTypes
<1>1. CASE UNCHANGED <<rpmsg, ingress>> /\ tPc # "push" /\ tPc' # "push"
  BY <1>1 DEF Upstream, InTransport, Hand, Ids
<1>2. CASE TransportReadFails /\ rpmsg # <<>> /\ rpmsg' = Tail(rpmsg)
  <2>1. tPc # "push" /\ tPc' # "push" /\ ingress' = ingress
    BY <1>2 DEF TransportReadFails, queues
  <2>2. Ids # <<>> /\ Ids' = Tail(Ids)
    BY <1>2, IdsTail
  <2>3. Upstream = ingress \o Ids /\ Upstream' = ingress \o Tail(Ids)
    BY <1>0, <2>1, <2>2 DEF Upstream, InTransport, Hand
  <2>4. Head(Ids) \in Frames /\ Tail(Ids) \in Seq(Frames)
        /\ ingress \o Ids = (ingress \o <<Head(Ids)>>) \o Tail(Ids)
    BY SMTT(60), <1>0, <2>2
  <2> QED BY <1>0, <2>3, <2>4, LoseMiddle
<1>3. CASE TransportRead
  <2>1. tPc = "read" /\ ingress' = ingress /\ rpmsg # <<>> /\ rpmsg' = Tail(rpmsg)
    BY <1>3 DEF TransportRead, queues
  <2>2. Ids # <<>> /\ Ids' = Tail(Ids) /\ Head(Ids) = Head(rpmsg).id
    BY <2>1, IdsTail
  <2>3. Upstream = ingress \o Ids
    BY <1>0, <2>1 DEF Upstream, InTransport, Hand
  <2>4. Head(Ids) \in Frames /\ Tail(Ids) \in Seq(Frames)
        /\ ingress \o Ids = (ingress \o <<Head(Ids)>>) \o Tail(Ids)
    BY <1>0, <2>2
  <2>5. CASE tPc' = "push" /\ tFrame' = Head(rpmsg).id
    <3>1. InTransport' = <<Head(Ids)>>
      BY <2>2, <2>5 DEF InTransport, Hand
    <3> QED BY <2>1, <2>2, <2>3, <2>4, <3>1 DEF Upstream
  <2>6. CASE tPc' = tPc
    <3>1. InTransport' = <<>>
      BY <2>1, <2>6 DEF InTransport, Hand
    <3>2. Upstream' = ingress \o Tail(Ids)
      BY <1>0, <2>1, <2>2, <3>1 DEF Upstream
    <3> QED BY <1>0, <2>3, <2>4, <3>2, LoseMiddle
  <2> QED BY <1>3, <2>5, <2>6 DEF TransportRead
<1>4. CASE TransportPush
  <2>1. InTransport = <<tFrame>> /\ tFrame \in Frames /\ InTransport' = <<>> /\ Ids' = Ids
    BY <1>4 DEF TransportPush, InTransport, Hand, Ids, Typed, TransportTypes
  <2>2. Upstream = (ingress \o <<tFrame>>) \o Ids
    BY <2>1 DEF Upstream
  <2>3. CASE IngressQ!Push(tFrame)
    <3>1. ingress' = ingress \o <<tFrame>> /\ ingress' \in Seq(Frames)
      BY <1>0, <2>1, <2>3 DEF IngressQ!Push
    <3>2. Upstream' = (ingress \o <<tFrame>>) \o Ids
      BY <2>1, <3>1 DEF Upstream
    <3> QED BY <2>2, <3>2
  <2>4. CASE ingress' = ingress
    <3>1. Upstream' = ingress \o Ids
      BY <1>0, <2>1, <2>4 DEF Upstream
    <3> QED BY <1>0, <2>1, <2>2, <3>1, LoseMiddle
  <2> QED BY <1>4, <2>3, <2>4 DEF TransportPush
<1> QED BY <1>1, <1>2, <1>3, <1>4 DEF Transport, TransportCheck, TransportPoll,
        TransportReadFails, queues

(* The dispatcher takes the oldest frame under way. *)
LEMMA UpstreamPop ==
    ASSUME Typed, DispatchPop
    PROVE  Upstream # <<>> /\ dFrame' = Head(Upstream) /\ Upstream' = Tail(Upstream)
<1>0. ingress \in Seq(Frames) /\ InTransport \in Seq(Frames) /\ Ids \in Seq(Frames)
  BY HandFacts DEF Typed, QueueTypes
<1>1. /\ ingress # <<>> /\ dFrame' = Head(ingress) /\ ingress' = Tail(ingress)
      /\ InTransport' = InTransport /\ Ids' = Ids
  BY DEF DispatchPop, IngressQ!Pop, IngressQ!Empty, DispatcherOthers, r5f, transport,
     InTransport, Hand, Ids
<1>2. \A a, b \in Seq(Frames) : a # <<>> =>
          /\ a \o b # <<>> /\ Head(a \o b) = Head(a) /\ Tail(a \o b) = Tail(a) \o b
          /\ a \o b \in Seq(Frames)
  OBVIOUS
<1>3. ingress \o InTransport # <<>> /\ Head(ingress \o InTransport) = Head(ingress)
      /\ Tail(ingress \o InTransport) = Tail(ingress) \o InTransport
      /\ ingress \o InTransport \in Seq(Frames)
  BY <1>0, <1>1, <1>2
<1>4. Upstream # <<>> /\ Head(Upstream) = Head(ingress)
      /\ Tail(Upstream) = Tail(ingress \o InTransport) \o Ids
  BY <1>0, <1>2, <1>3 DEF Upstream
<1>5. Upstream' = (Tail(ingress) \o InTransport) \o Ids
  BY <1>1 DEF Upstream
<1> QED BY <1>1, <1>3, <1>4, <1>5
-----------------------------------------------------------------------------
(* Order upstream of the dispatcher.  Frames in the channel, in the        *)
(* transport's hand and in the ingress queue are numbered upwards, none    *)
(* has been taken before and none is yet to be announced.  Spread is       *)
(* Increasing with the count of the frames in between: it says the same    *)
(* of a sequence of numbers but needs no induction to be counted with.     *)

Spread(s) == \A i, j \in 1 .. Len(s) : i < j => s[j] - s[i] >= j - i

UpstreamOrder ==
    /\ Spread(Upstream)
    /\ \A i \in 1 .. Len(Upstream) : Upstream[i] <= sent
    /\ haveLast => /\ dFrame <= sent
                   /\ \A i \in 1 .. Len(Upstream) : dFrame < Upstream[i]

(* Frames are numbers. *)
LEMMA FramesInt == Frames \subseteq Nat
BY PipelineAssumption DEF Frames

LEMMA ItemsNat ==
    ASSUME NEW s \in Seq(Frames)
    PROVE  Len(s) \in Nat /\ \A i \in 1 .. Len(s) : s[i] \in Nat
<1>1. Len(s) \in Nat
  OBVIOUS
<1>2. \A i \in 1 .. Len(s) : s[i] \in Frames
  BY ElementOfSeq
<1> QED BY <1>1, <1>2, FramesInt

(* A sequence whose items are as far apart as their places increases. *)
LEMMA SpreadIncreasing ==
    ASSUME NEW s \in Seq(Frames), Spread(s)
    PROVE  Increasing(s)
<1> SUFFICES ASSUME NEW i \in 1 .. Len(s), NEW j \in 1 .. Len(s), i < j
             PROVE  s[i] < s[j]
  BY DEF Increasing
<1>1. s[i] \in Nat /\ s[j] \in Nat
  BY FramesInt, ElementOfSeq
<1>2. s[j] - s[i] >= j - i
  BY DEF Spread
<1>3. i \in Int /\ j \in Int
  OBVIOUS
<1> QED BY <1>1, <1>2, <1>3

(* Losing an item only widens the gaps between the others. *)
LEMMA SpreadOneLost ==
    ASSUME NEW s \in Seq(Frames), NEW t \in Seq(Frames), OneLost(s, t), Spread(s)
    PROVE  /\ Spread(t)
           /\ \A j \in 1 .. Len(t) : \E i \in 1 .. Len(s) : t[j] = s[i]
<1>1. PICK k \in 1 .. Len(s) :
          /\ Len(t) = Len(s) - 1
          /\ \A i \in 1 .. Len(t) : t[i] = IF i < k THEN s[i] ELSE s[i + 1]
  BY DEF OneLost
<1>2. \A i \in 1 .. Len(s) : s[i] \in Nat
  BY FramesInt, ElementOfSeq
<1>3. Len(s) \in Nat /\ Len(t) \in Nat
  OBVIOUS
<1>4. ASSUME NEW i \in 1 .. Len(t), NEW j \in 1 .. Len(t), i < j
      PROVE  t[j] - t[i] >= j - i
  <2>1. i \in 1 .. Len(s) /\ j \in 1 .. Len(s) /\ i + 1 \in 1 .. Len(s) /\ j + 1 \in 1 .. Len(s)
    BY <1>1, <1>3
  <2>2. /\ s[j] - s[i] >= j - i
        /\ s[j + 1] - s[i] >= (j + 1) - i
        /\ s[j + 1] - s[i + 1] >= (j + 1) - (i + 1)
    BY <1>4, <2>1 DEF Spread
  <2>3. s[i] \in Nat /\ s[j] \in Nat /\ s[i + 1] \in Nat /\ s[j + 1] \in Nat
    BY <1>2, <2>1
  <2>4. i \in Int /\ j \in Int /\ k \in Int
    BY <1>3
  <2>5. t[i] = (IF i < k THEN s[i] ELSE s[i + 1]) /\ t[j] = (IF j < k THEN s[j] ELSE s[j + 1])
    BY <1>1
  <2> QED BY SMTT(60), <1>4, <2>2, <2>3, <2>4, <2>5
<1>5. \A j \in 1 .. Len(t) : \E i \in 1 .. Len(s) : t[j] = s[i]
  <2> TAKE j \in 1 .. Len(t)
  <2>1. j \in 1 .. Len(s) /\ j + 1 \in 1 .. Len(s)
    BY <1>1, <1>3
  <2> QED BY <1>1, <2>1
<1> QED BY <1>4, <1>5 DEF Spread

(* Such a sequence goes on with the number after the last that was sent, *)
LEMMA SpreadAppend ==
    ASSUME NEW s \in Seq(Frames), NEW n \in Nat, n + 1 \in Frames, Spread(s),
           \A i \in 1 .. Len(s) : s[i] <= n
    PROVE  Spread(Append(s, n + 1))
<1> DEFINE t == Append(s, n + 1)
<1>1. /\ Len(s) \in Nat /\ Len(t) = Len(s) + 1
      /\ \A i \in 1 .. Len(s) : t[i] = s[i]
      /\ t[Len(s) + 1] = n + 1
  BY AppendProperties
<1>2. \A i \in 1 .. Len(s) : s[i] \in Nat
  BY FramesInt, ElementOfSeq
<1> HIDE DEF t
<1>3. ASSUME NEW i \in 1 .. Len(t), NEW j \in 1 .. Len(t), i < j
      PROVE  t[j] - t[i] >= j - i
  <2>1. i \in 1 .. Len(s)
    BY <1>1, <1>3
  <2>2. CASE j = Len(s) + 1
    <3>1. i < Len(s) => s[Len(s)] - s[i] >= Len(s) - i
      BY <1>1, <2>1 DEF Spread
    <3>2. Len(s) \in 1 .. Len(s) /\ s[Len(s)] <= n
      BY <1>1, <2>1
    <3> QED BY <1>1, <1>2, <2>1, <2>2, <3>1, <3>2
  <2>3. CASE j # Len(s) + 1
    <3>1. j \in 1 .. Len(s)
      BY <1>1, <2>3
    <3> QED BY <1>1, <1>3, <2>1, <3>1 DEF Spread
  <2> QED BY <2>2, <2>3
<1>4. Spread(t)
  BY <1>3 DEF Spread
<1> QED BY <1>4 DEF t

(* and stays one without its head, which is below all the others. *)
LEMMA SpreadTail ==
    ASSUME NEW s \in Seq(Frames), s # <<>>, Spread(s)
    PROVE  /\ Spread(Tail(s))
           /\ Head(s) = s[1] /\ Len(s) \in Nat \ {0} /\ Len(Tail(s)) = Len(s) - 1
           /\ \A i \in 1 .. Len(s) - 1 : Tail(s)[i] = s[i + 1] /\ Head(s) < Tail(s)[i]
<1>1. /\ Len(s) \in Nat \ {0} /\ Len(Tail(s)) = Len(s) - 1 /\ Head(s) = s[1]
      /\ \A i \in 1 .. Len(s) - 1 : Tail(s)[i] = s[i + 1]
  BY HeadTailProperties
<1>2. \A i \in 1 .. Len(s) : s[i] \in Nat
  BY FramesInt, ElementOfSeq
<1>3. \A i \in 1 .. Len(s) - 1 : Head(s) < Tail(s)[i]
  <2> TAKE i \in 1 .. Len(s) - 1
  <2>1. i + 1 \in 1 .. Len(s) /\ 1 \in 1 .. Len(s) /\ 1 < i + 1
    BY <1>1
  <2>2. s[i + 1] - s[1] >= (i + 1) - 1
    BY <2>1 DEF Spread
  <2> QED BY <1>1, <1>2, <2>1, <2>2
<1>4. ASSUME NEW i \in 1 .. Len(s) - 1, NEW j \in 1 .. Len(s) - 1, i < j
      PROVE  Tail(s)[j] - Tail(s)[i] >= j - i
  <2>1. i + 1 \in 1 .. Len(s) /\ j + 1 \in 1 .. Len(s) /\ i + 1 < j + 1
    BY <1>1, <1>4
  <2>2. s[j + 1] - s[i + 1] >= (j + 1) - (i + 1)
    BY <2>1 DEF Spread
  <2> QED BY <1>1, <1>2, <2>1, <2>2
<1> QED BY <1>1, <1>3, <1>4 DEF Spread
(* Steps that leave the frames in the threads' hands where they are. *)
LEMMA ControlHands ==
    ASSUME Lifecycle, MainControl
    PROVE  /\ (tPc' = "push") = (tPc = "push")
           /\ (dPc' \in {"dsp", "persist"}) = (dPc \in {"dsp", "persist"})
           /\ (dPc' = "dsp") = (dPc = "dsp")
           /\ (dPc' = "persist") = (dPc = "persist")
           /\ (sPc' = "post") = (sPc = "post")
           /\ UNCHANGED <<r5f, queues, tFrame, tCounts, dFrame, dCounts, dSeq, sFrame, posted,
                          nPosted>>
           /\ UNCHANGED <<cache, disk, ioFailed>>
<1>1. /\ UNCHANGED <<r5f, queues, tFrame, tCounts, dFrame, dCounts, dSeq, sFrame, posted, nPosted>>
      /\ UNCHANGED <<cache, disk, ioFailed>>
  BY DEF MainControl, MainStart, MainInitialize, MainStartPersist, MainStartTransport,
     MainStartDispatcher, MainStartDsp, MainQuit, MainJoinTransport, MainJoinDispatcher,
     MainJoinDsp, MainJoinPersist, MainOthers, persist
<1>2. /\ tPc' = tPc \/ (tPc = "off" /\ tPc' = "check")
      /\ dPc' = dPc \/ (dPc = "off" /\ dPc' = "check")
      /\ sPc' = sPc \/ (sPc = "off" /\ sPc' = "check")
  BY DEF MainControl, MainStart, MainInitialize, MainStartPersist, MainStartTransport,
     MainStartDispatcher, MainStartDsp, MainQuit, MainJoinTransport, MainJoinDispatcher,
     MainJoinDsp, MainJoinPersist, tState, dState, sState, Lifecycle, NotStarted
<1> QED BY <1>1, <1>2

(* Nobody else touches what is upstream. *)
LEMMA UpstreamOthers ==
    ASSUME Lifecycle,
           \/ Dispatcher /\ ~DispatchPop
           \/ DspWorker \/ PersistWorker \/ MainControl \/ MainEmptying \/ UNCHANGED vars
    PROVE  UNCHANGED <<Upstream, sent, haveLast, dFrame, gaps>>
<1>1. CASE Dispatcher /\ ~DispatchPop
  BY <1>1 DEF Dispatcher, DispatchCheck, DispatchSize, DispatchEmpty, DispatchToDsp,
     DispatchToPersist, DispatcherOthers, r5f, transport, queues, dSeq, Upstream, InTransport,
     Hand, Ids
<1>2. CASE DspWorker
  BY <1>2 DEF DspWorker, DspCheck, DspPop, DspPost, DspOthers, r5f, transport, dispatcher, dSeq,
     Upstream, InTransport, Hand, Ids
<1>3. CASE PersistWorker
  BY <1>3 DEF PersistWorker, PersistCheck, PersistSize, PersistPop, PersistFlush, PersistOthers,
     r5f, transport, dispatcher, dSeq, Upstream, InTransport, Hand, Ids
<1>4. CASE MainControl
  BY <1>4, ControlHands DEF r5f, queues, dSeq, Upstream, InTransport, Hand, Ids
<1>5. CASE MainEmptying
  BY <1>5 DEF MainEmptying, MainDrain, MainDrainFlush, MainFinalFlush, MainOthers, tState, r5f,
     transport, dispatcher, queues, dSeq, Upstream, InTransport, Hand, Ids
<1>6. CASE UNCHANGED vars
  BY <1>6 DEF vars, r5f, transport, dispatcher, queues, dSeq, Upstream, InTransport, Hand, Ids
<1> QED BY <1>1, <1>2, <1>3, <1>4, <1>5, <1>6

(* The order of the frames between the R5F and the dispatcher. *)
LEMMA InitUpstream == Init => UpstreamOrder
<1> SUFFICES ASSUME Init PROVE UpstreamOrder
  OBVIOUS
<1>1. Upstream = <<>> \o <<>> \o Ids /\ Len(rpmsg) = 0 /\ Len(Ids) = 0 /\ ~haveLast
  BY DEF Init, IngressQ!Init, Upstream, InTransport, Hand, Ids
<1>2. Len(Upstream) = 0
  BY <1>1, InitTyped, UpstreamFacts, HandFacts DEF Init, IngressQ!Init, InTransport, Hand
<1> QED BY <1>1, <1>2 DEF UpstreamOrder, Spread

LEMMA NextUpstream ==
    Typed /\ Typed' /\ Lifecycle /\ UpstreamOrder /\ [Next]_vars => UpstreamOrder'
<1> SUFFICES ASSUME Typed, Typed', Lifecycle, UpstreamOrder, [Next]_vars PROVE UpstreamOrder'
  OBVIOUS
<1>0. /\ Upstream \in Seq(Frames) /\ Upstream' \in Seq(Frames)
      /\ Len(Upstream) \in Nat /\ sent \in Nat /\ (haveLast => dFrame \in Nat)
      /\ \A i \in 1 .. Len(Upstream) : Upstream[i] \in Nat
  <2>1. Upstream \in Seq(Frames)
    BY UpstreamFacts
  <2>2. UpstreamTyped'
    BY UpstreamType, PTL
  <2>3. sent \in Nat /\ (haveLast => dFrame \in Nat)
    BY FramesInt, PipelineAssumption DEF Typed, R5fTypes, DispatcherTypes
  <2>4. Len(Upstream) \in Nat /\ \A i \in 1 .. Len(Upstream) : Upstream[i] \in Nat
    BY <2>1, ItemsNat
  <2> QED BY <2>1, <2>2, <2>3, <2>4 DEF UpstreamTyped
<1>1. ASSUME NEW kind \in {"ok", "malformed", "short"}, R5fSend(kind) PROVE UpstreamOrder'
  <2>1. /\ Upstream' = Append(Upstream, sent + 1) /\ sent + 1 \in Frames /\ sent' = sent + 1
        /\ UNCHANGED <<haveLast, dFrame>>
    BY <1>1, UpstreamSend DEF R5fSend, dispatcher, dSeq
  <2>2. Spread(Upstream')
    BY <1>0, <2>1, SpreadAppend DEF UpstreamOrder
  <2>3. /\ Len(Upstream') = Len(Upstream) + 1
        /\ \A i \in 1 .. Len(Upstream') :
               Upstream'[i] = IF i = Len(Upstream) + 1 THEN sent + 1 ELSE Upstream[i]
    BY <1>0, <2>1, AppendProperties
  <2> QED BY <1>0, <2>1, <2>2, <2>3 DEF UpstreamOrder, Spread
<1>2. CASE Transport
  <2>1. UNCHANGED <<sent, haveLast, dFrame>>
    BY <1>2 DEF Transport, TransportCheck, TransportPoll, TransportReadFails, TransportRead,
       TransportPush, TransportOthers, dispatcher, dSeq
  <2>2. CASE Upstream' = Upstream
    BY <2>1, <2>2 DEF UpstreamOrder, Spread
  <2>3. CASE OneLost(Upstream, Upstream')
    <3>1. /\ Spread(Upstream')
          /\ \A j \in 1 .. Len(Upstream') : \E i \in 1 .. Len(Upstream) : Upstream'[j] = Upstream[i]
      BY <1>0, <2>3, SpreadOneLost DEF UpstreamOrder
    <3> QED BY <2>1, <3>1 DEF UpstreamOrder, Spread
  <2> QED BY <1>2, <2>2, <2>3, UpstreamTransport
<1>3. CASE DispatchPop
  <2>1. /\ Upstream # <<>> /\ dFrame' = Head(Upstream) /\ Upstream' = Tail(Upstream)
        /\ sent' = sent
    BY <1>3, UpstreamPop DEF DispatchPop, DispatcherOthers, r5f
  <2>2. /\ Spread(Upstream')
        /\ dFrame' = Upstream[1] /\ Len(Upstream) \in Nat \ {0} /\ Len(Upstream') = Len(Upstream) - 1
        /\ \A i \in 1 .. Len(Upstream) - 1 : Upstream'[i] = Upstream[i + 1] /\ dFrame' < Upstream'[i]
    BY <1>0, <2>1, SpreadTail DEF UpstreamOrder
  <2> QED BY <1>0, <2>1, <2>2 DEF UpstreamOrder, Spread
<1>4. CASE UNCHANGED <<Upstream, sent, haveLast, dFrame, gaps>>
  BY <1>4 DEF UpstreamOrder, Spread
<1> QED BY <1>1, <1>2, <1>3, <1>4, UpstreamOthers
        DEF Next, MainStop, MainControl, MainEmptying, Dispatcher, Exited
-----------------------------------------------------------------------------
(* Order downstream of the dispatcher.  Everything on its way to the disk  *)
(* or to the user interface is in order and no newer than the frame the    *)
(* dispatcher took last.                                                   *)

Written == disk \o cache \o persistQ \o InDispatcher
Kept == cache \o persistQ \o InDispatcher
Shown == Hand(posted # None, posted) \o Hand(sPc = "post", sFrame) \o dspQ
            \o Hand(dPc = "dsp", dFrame)

UpTo(s, taken, last) == Increasing(s) /\ \A i \in 1 .. Len(s) : taken /\ s[i] <= last

DownstreamOrder ==
    /\ ~ioFailed => UpTo(Written, haveLast, dFrame)
    /\ UpTo(Kept, haveLast, dFrame)
    /\ UpTo(Shown, haveLast, dFrame)

(* A part of an ordered sequence is ordered. *)
LEMMA UpToParts ==
    ASSUME NEW a \in Seq(Frames), NEW b \in Seq(Frames), NEW taken \in BOOLEAN, NEW last \in Nat,
           UpTo(a \o b, taken, last)
    PROVE  UpTo(a, taken, last) /\ UpTo(b, taken, last)
<1> DEFINE s == a \o b
<1>1. /\ Len(a) \in Nat /\ Len(b) \in Nat /\ Len(s) = Len(a) + Len(b)
      /\ \A i \in 1 .. Len(a) + Len(b) : s[i] = IF i <= Len(a) THEN a[i] ELSE b[i - Len(a)]
  BY ConcatProperties
<1>2. /\ \A i, j \in 1 .. Len(s) : i < j => s[i] < s[j]
      /\ \A i \in 1 .. Len(s) : taken /\ s[i] <= last
  BY DEF UpTo, Increasing
<1> HIDE DEF s
<1>3. \A i \in 1 .. Len(a) : i \in 1 .. Len(s) /\ s[i] = a[i]
  BY <1>1
<1>4. \A i \in 1 .. Len(b) : Len(a) + i \in 1 .. Len(s) /\ s[Len(a) + i] = b[i]
  <2> TAKE i \in 1 .. Len(b)
  <2>1. Len(a) + i \in 1 .. Len(s) /\ ~(Len(a) + i <= Len(a)) /\ (Len(a) + i) - Len(a) = i
    BY <1>1
  <2> QED BY <1>1, <2>1
<1>5. \A i, j \in 1 .. Len(a) : i < j => a[i] < a[j]
  BY <1>2, <1>3
<1>6. \A i, j \in 1 .. Len(b) : i < j => b[i] < b[j]
  <2> TAKE i, j \in 1 .. Len(b)
  <2> HAVE i < j
  <2>1. Len(a) + i < Len(a) + j
    BY <1>1
  <2> QED BY <1>2, <1>4, <2>1
<1> QED BY <1>2, <1>3, <1>4, <1>5, <1>6 DEF UpTo, Increasing

(* A newer item goes to the end. *)
LEMMA UpToAppend ==
    ASSUME NEW s \in Seq(Frames), NEW f \in Frames, NEW taken, NEW last \in Nat,
           UpTo(s, taken, last), taken => last < f
    PROVE  UpTo(s \o <<f>>, TRUE, f)
<1> DEFINE t == s \o <<f>>
<1>1. /\ Len(s) \in Nat /\ Len(t) = Len(s) + 1
      /\ \A i \in 1 .. Len(s) + 1 : t[i] = IF i <= Len(s) THEN s[i] ELSE f
  OBVIOUS
<1>2. f \in Nat /\ \A i \in 1 .. Len(s) : s[i] \in Nat /\ s[i] < f
  BY ItemsNat, FramesInt DEF UpTo
<1> HIDE DEF t
<1>3. \A i, j \in 1 .. Len(s) : i < j => s[i] < s[j]
  BY DEF UpTo, Increasing
<1>4. \A i, j \in 1 .. Len(t) : i < j => t[i] < t[j]
  BY <1>1, <1>2, <1>3
<1>5. \A i \in 1 .. Len(t) : t[i] <= f
  BY <1>1, <1>2
<1>6. UpTo(t, TRUE, f)
  BY <1>4, <1>5 DEF UpTo, Increasing
<1> QED BY <1>6 DEF t

(* What is upstream is newer than all of it. *)
LEMMA UpToConcat ==
    ASSUME NEW a \in Seq(Frames), NEW b \in Seq(Frames), NEW taken, NEW last \in Nat,
           UpTo(a, taken, last), Increasing(b), taken => \A i \in 1 .. Len(b) : last < b[i]
    PROVE  Increasing(a \o b)
<1> DEFINE s == a \o b
<1>1. /\ Len(a) \in Nat /\ Len(b) \in Nat /\ Len(s) = Len(a) + Len(b)
      /\ \A i \in 1 .. Len(a) + Len(b) : s[i] = IF i <= Len(a) THEN a[i] ELSE b[i - Len(a)]
  BY ConcatProperties
<1>2. /\ \A i, j \in 1 .. Len(a) : i < j => a[i] < a[j]
      /\ \A i, j \in 1 .. Len(b) : i < j => b[i] < b[j]
      /\ \A i \in 1 .. Len(a) : taken /\ a[i] <= last
  BY DEF UpTo, Increasing
<1>3. /\ \A i \in 1 .. Len(a) : a[i] \in Nat
      /\ \A i \in 1 .. Len(b) : b[i] \in Nat
  BY ItemsNat
<1> HIDE DEF s
<1>4. ASSUME NEW i \in 1 .. Len(s), NEW j \in 1 .. Len(s), i < j PROVE s[i] < s[j]
  <2>1. CASE j <= Len(a)
    <3>1. i \in 1 .. Len(a) /\ j \in 1 .. Len(a)
      BY <1>4, <2>1, <1>1
    <3> QED BY <1>1, <1>2, <1>4, <3>1
  <2>2. CASE i <= Len(a) /\ ~(j <= Len(a))
    <3>1. i \in 1 .. Len(a) /\ j - Len(a) \in 1 .. Len(b)
      BY <2>2, <1>1
    <3>2. s[i] = a[i] /\ s[j] = b[j - Len(a)]
      BY <1>1, <2>2
    <3>3. a[i] <= last /\ last < b[j - Len(a)]
      BY <1>2, <3>1
    <3> QED BY SMTT(60), <1>3, <3>1, <3>2, <3>3
  <2>3. CASE ~(i <= Len(a))
    <3>1. i - Len(a) \in 1 .. Len(b) /\ j - Len(a) \in 1 .. Len(b) /\ ~(j <= Len(a))
          /\ i - Len(a) < j - Len(a)
      BY <1>4, <2>3, <1>1
    <3> QED BY <1>1, <1>2, <2>3, <3>1
  <2> QED BY <2>1, <2>2, <2>3
<1>5. Increasing(s)
  BY <1>4 DEF Increasing
<1> QED BY <1>5 DEF s
LEMMA DownstreamTypes ==
    ASSUME Typed
    PROVE  /\ disk \in Seq(Frames) /\ cache \in Seq(Frames) /\ persistQ \in Seq(Frames)
           /\ dspQ \in Seq(Frames) /\ InDispatcher \in Seq(Frames)
           /\ Hand(posted # None, posted) \in Seq(Frames)
           /\ Hand(sPc = "post", sFrame) \in Seq(Frames)
           /\ Hand(dPc = "dsp", dFrame) \in Seq(Frames)
           /\ haveLast \in BOOLEAN /\ dFrame \in Nat
<1>1. dFrame \in Nat
  BY FramesInt DEF Typed, DispatcherTypes, None
<1>2. /\ Hand(posted # None, posted) \in Seq(Frames)
      /\ Hand(sPc = "post", sFrame) \in Seq(Frames)
  BY DEF Typed, DspTypes, Hand
<1>3. Hand(dPc = "dsp", dFrame) \in Seq(Frames)
  BY DEF Typed, DispatcherTypes, Hand
<1> QED BY <1>1, <1>2, <1>3, HandFacts DEF Typed, PersistTypes, QueueTypes, DispatcherTypes

(* The order of the frames behind the dispatcher, one thread at a time. *)
LEMMA InitDownstream == Init => DownstreamOrder
<1> SUFFICES ASSUME Init PROVE DownstreamOrder
  OBVIOUS
<1>1. Written = <<>> /\ Kept = <<>> /\ Shown = <<>>
  BY DEF Init, PersistQ!Init, DspQ!Init, Written, Kept, Shown, InDispatcher, Hand
<1> QED BY <1>1 DEF DownstreamOrder, UpTo, Increasing

(* Steps that move nothing downstream of the dispatcher. *)
LEMMA DownstreamUntouched ==
    ASSUME DownstreamOrder,
           UNCHANGED <<disk, cache, ioFailed, persistQ, dspQ, InDispatcher, posted>>,
           UNCHANGED <<Hand(sPc = "post", sFrame), Hand(dPc = "dsp", dFrame), haveLast, dFrame>>
    PROVE  DownstreamOrder'
<1>1. UNCHANGED <<Written, Kept>>
  BY DEF Written, Kept
<1>2. Shown' = Shown
  BY DEF Shown, Hand
<1> QED BY <1>1, <1>2 DEF DownstreamOrder, UpTo, Increasing

(* A frame taken by the dispatcher is the newest of all. *)
LEMMA DispatchPopDownstream ==
    ASSUME Typed, UpstreamOrder, DownstreamOrder, DispatchPop
    PROVE  DownstreamOrder'
<1>1. Upstream # <<>> /\ dFrame' = Head(Upstream)
  BY UpstreamPop
<1>2. dFrame' \in Frames /\ (haveLast => dFrame < dFrame')
  <2>1. Upstream \in Seq(Frames)
    BY UpstreamFacts
  <2>2. Head(Upstream) = Upstream[1] /\ 1 \in 1 .. Len(Upstream) /\ Head(Upstream) \in Frames
    BY <1>1, <2>1
  <2> QED BY <1>1, <2>2 DEF UpstreamOrder
<1>3. /\ dPc = "pop" /\ dPc' = "dsp" /\ haveLast' = TRUE
      /\ UNCHANGED <<disk, cache, ioFailed, persistQ, dspQ, posted, sPc, sFrame>>
  BY DEF DispatchPop, DispatcherOthers, dsp, persist
<1> DEFINE w == disk \o cache \o persistQ
           k == cache \o persistQ
           v == Hand(posted # None, posted) \o Hand(sPc = "post", sFrame) \o dspQ
<1>4. /\ w \in Seq(Frames) /\ k \in Seq(Frames) /\ v \in Seq(Frames)
      /\ haveLast \in BOOLEAN /\ dFrame \in Nat
  BY DownstreamTypes
<1>5. Written = w /\ Kept = k /\ Shown = v
  BY <1>3, DownstreamTypes DEF Written, Kept, Shown, InDispatcher, Hand
<1>6. Written' = w \o <<dFrame'>> /\ Kept' = k \o <<dFrame'>> /\ Shown' = v \o <<dFrame'>>
  BY <1>3 DEF Written, Kept, Shown, InDispatcher, Hand
<1> HIDE DEF w, k, v
<1>7. \A s \in Seq(Frames) : UpTo(s, haveLast, dFrame) => UpTo(s \o <<dFrame'>>, TRUE, dFrame')
  BY <1>2, <1>4, UpToAppend
<1> QED BY <1>3, <1>4, <1>5, <1>6, <1>7 DEF DownstreamOrder

(* Handing the frame to the DSP queue, or counting it as dropped. *)
LEMMA DispatchToDspDownstream ==
    ASSUME Typed, DownstreamOrder, DispatchToDsp
    PROVE  DownstreamOrder'
<1>1. /\ dPc = "dsp" /\ dPc' = "persist" /\ dFrame \in Frames
      /\ UNCHANGED <<disk, cache, ioFailed, persistQ, posted, sPc, sFrame, haveLast, dFrame>>
      /\ dspQ' = Append(dspQ, dFrame) \/ dspQ' = dspQ
  BY DEF DispatchToDsp, DispatcherOthers, dsp, persist, dSeq, DspQ!Push, Typed, DispatcherTypes
<1>2. UNCHANGED <<Written, Kept>>
  BY <1>1 DEF Written, Kept, InDispatcher, Hand
<1> DEFINE v == Hand(posted # None, posted) \o Hand(sPc = "post", sFrame)
<1>3. v \in Seq(Frames) /\ dspQ \in Seq(Frames) /\ haveLast \in BOOLEAN /\ dFrame \in Nat
  BY DownstreamTypes
<1>4. Shown = (v \o dspQ) \o <<dFrame>> /\ Shown' = v \o dspQ' \o <<>>
  BY <1>1 DEF Shown, Hand
<1> HIDE DEF v
<1>5. UpTo(v \o dspQ, haveLast, dFrame)
  <2>1. v \o dspQ \in Seq(Frames) /\ <<dFrame>> \in Seq(Frames)
    BY <1>1, <1>3
  <2> QED BY <1>3, <1>4, <2>1, UpToParts DEF DownstreamOrder
<1>6. Shown' = Shown \/ Shown' = v \o dspQ
  <2>1. Append(dspQ, dFrame) \in Seq(Frames)
        /\ v \o Append(dspQ, dFrame) \o <<>> = (v \o dspQ) \o <<dFrame>>
        /\ v \o dspQ \o <<>> = v \o dspQ
    BY SMTT(60), <1>1, <1>3
  <2> QED BY <1>1, <1>4, <2>1
<1> QED BY <1>1, <1>2, <1>5, <1>6 DEF DownstreamOrder
(* Handing the frame to the persistence queue, or counting it as dropped. *)
LEMMA DispatchToPersistDownstream ==
    ASSUME Typed, DownstreamOrder, DispatchToPersist
    PROVE  DownstreamOrder'
<1>1. /\ dPc = "persist" /\ dPc' = "check" /\ dFrame \in Frames
      /\ UNCHANGED <<disk, cache, ioFailed, dspQ, posted, sPc, sFrame, haveLast, dFrame>>
      /\ persistQ' = Append(persistQ, dFrame) \/ persistQ' = persistQ
  BY DEF DispatchToPersist, DispatcherOthers, dsp, persist, dSeq, PersistQ!Push, Typed,
     DispatcherTypes
<1>2. Shown' = Shown
  BY <1>1 DEF Shown, Hand
<1>3. /\ disk \in Seq(Frames) /\ cache \in Seq(Frames) /\ persistQ \in Seq(Frames)
      /\ haveLast \in BOOLEAN /\ dFrame \in Nat
  BY DownstreamTypes
<1>4. /\ Kept = (cache \o persistQ) \o <<dFrame>>
      /\ Kept' = cache \o persistQ' \o <<>>
      /\ Written = ((disk \o cache) \o persistQ) \o <<dFrame>>
      /\ Written' = (disk \o cache) \o persistQ' \o <<>>
  BY <1>1 DEF Written, Kept, InDispatcher, Hand
<1>5. ASSUME NEW a \in Seq(Frames), UpTo((a \o persistQ) \o <<dFrame>>, haveLast, dFrame)
      PROVE  UpTo(a \o persistQ' \o <<>>, haveLast, dFrame)
  <2>1. a \o persistQ \in Seq(Frames) /\ <<dFrame>> \in Seq(Frames)
        /\ a \o Append(persistQ, dFrame) \o <<>> = (a \o persistQ) \o <<dFrame>>
        /\ a \o persistQ \o <<>> = a \o persistQ
    BY <1>1, <1>3
  <2>2. UpTo(a \o persistQ, haveLast, dFrame)
    BY <1>3, <1>5, <2>1, UpToParts
  <2> QED BY <1>1, <1>5, <2>1, <2>2
<1>6. disk \o cache \in Seq(Frames)
  BY <1>3
<1>7. UpTo(Kept', haveLast, dFrame)
  BY <1>3, <1>4, <1>5 DEF DownstreamOrder
<1>8. ~ioFailed => UpTo(Written', haveLast, dFrame)
  BY <1>4, <1>5, <1>6 DEF DownstreamOrder
<1> QED BY <1>1, <1>2, <1>7, <1>8 DEF DownstreamOrder

(* The DSP thread: a block leaves the queue, then replaces the one shown. *)
LEMMA DspDownstream ==
    ASSUME Typed, DownstreamOrder, DspWorker
    PROVE  DownstreamOrder'
<1>0. /\ UNCHANGED <<disk, cache, ioFailed, persistQ, dPc, haveLast, dFrame>>
      /\ Hand(posted # None, posted) \in Seq(Frames) /\ dspQ \in Seq(Frames)
      /\ Hand(dPc = "dsp", dFrame) \in Seq(Frames)
      /\ haveLast \in BOOLEAN /\ dFrame \in Nat
  BY DownstreamTypes
     DEF DspWorker, DspCheck, DspPop, DspPost, DspOthers, dispatcher, dSeq, persist
<1>1. UNCHANGED <<Written, Kept>>
  BY <1>0 DEF Written, Kept, InDispatcher, Hand
<1> DEFINE p == Hand(posted # None, posted)
           d == Hand(dPc = "dsp", dFrame)
<1>2. CASE UNCHANGED <<posted, dspQ>> /\ sPc # "post" /\ sPc' # "post"
  <2>1. Shown' = Shown
    BY <1>0, <1>2 DEF Shown, Hand
  <2> QED BY <1>0, <1>1, <2>1 DEF DownstreamOrder
<1>3. CASE DspPop /\ DspQ!Pop /\ sPc' = "post"
  <2>1. /\ posted' = posted /\ sPc = "pop" /\ dspQ # <<>>
        /\ sFrame' = Head(dspQ) /\ dspQ' = Tail(dspQ)
    BY <1>3 DEF DspPop, DspQ!Pop, DspQ!Empty
  <2>2. Shown = (p \o <<>> \o dspQ) \o d /\ Shown' = (p \o <<Head(dspQ)>> \o Tail(dspQ)) \o d
    BY <1>0, <1>3, <2>1 DEF Shown, Hand
  <2> HIDE DEF p, d
  <2>3. p \in Seq(Frames)
    BY <1>0 DEF p
  <2>4. p \o <<>> \o dspQ = p \o <<Head(dspQ)>> \o Tail(dspQ)
    BY SMTT(60), <1>0, <2>1, <2>3
  <2> QED BY <1>0, <1>1, <2>2, <2>4 DEF DownstreamOrder
<1>4. CASE DspPost
  <2>1. /\ sPc = "post" /\ sPc' = "check" /\ posted' = sFrame /\ dspQ' = dspQ
        /\ sFrame \in Frames /\ sFrame # None
    BY <1>4, PipelineAssumption DEF DspPost, Typed, DspTypes, Frames, None
  <2>2. Shown = (p \o <<sFrame>> \o dspQ) \o d /\ Shown' = (<<sFrame>> \o <<>> \o dspQ) \o d
    BY <1>0, <2>1 DEF Shown, Hand
  <2> HIDE DEF p, d
  <2>3. p \in Seq(Frames) /\ d \in Seq(Frames)
    BY <1>0 DEF p, d
  <2> DEFINE t == (<<sFrame>> \o dspQ) \o d
  <2>4. t \in Seq(Frames) /\ (p \o <<sFrame>> \o dspQ) \o d = p \o t
        /\ (<<sFrame>> \o <<>> \o dspQ) \o d = t
    <3>1. <<sFrame>> \in Seq(Frames) /\ <<sFrame>> \o <<>> = <<sFrame>>
          /\ <<sFrame>> \o dspQ \in Seq(Frames)
      BY <1>0, <2>1
    <3>2. p \o <<sFrame>> \o dspQ = p \o (<<sFrame>> \o dspQ)
      BY SMTT(60), <1>0, <2>3, <3>1, Regroup
    <3>3. (p \o (<<sFrame>> \o dspQ)) \o d = p \o t
      BY <2>3, <3>1, Regroup
    <3> QED BY SMTT(60), <2>3, <3>1, <3>2, <3>3
  <2> HIDE DEF t
  <2>5. UpTo(t, haveLast, dFrame)
    <3>1. UpTo(p \o t, haveLast, dFrame)
      BY <2>2, <2>4 DEF DownstreamOrder
    <3> QED BY <1>0, <2>3, <2>4, <3>1, UpToParts
  <2> QED BY <1>0, <1>1, <2>2, <2>4, <2>5 DEF DownstreamOrder
<1> QED BY <1>2, <1>3, <1>4 DEF DspWorker, DspCheck, DspPop
(* The persistence thread, or stop() after it: a frame from the queue into *)
(* the cache.                                                              *)
LEMMA PersistPopDownstream ==
    ASSUME Typed, DownstreamOrder, PersistQ!Pop, cache' = Append(cache, pFrame'),
           UNCHANGED <<disk, ioFailed, dispatcher, dsp, dspQ>>
    PROVE  DownstreamOrder'
<1>1. persistQ # <<>> /\ cache' = Append(cache, Head(persistQ)) /\ persistQ' = Tail(persistQ)
      /\ InDispatcher' = InDispatcher
  BY DEF PersistQ!Pop, PersistQ!Empty, InDispatcher, Hand, dispatcher
<1>2. disk \in Seq(Frames) /\ cache \in Seq(Frames) /\ persistQ \in Seq(Frames)
  BY DownstreamTypes
<1>3. cache' \o persistQ' = cache \o persistQ
  BY <1>1, <1>2, MoveDown
<1>4. disk \o cache' \o persistQ' = disk \o cache \o persistQ
  <2>1. Head(persistQ) \in Frames
    BY <1>1, <1>2
  <2>2. cache' \in Seq(Frames) /\ persistQ' \in Seq(Frames)
    BY <1>1, <1>2, <2>1
  <2>3. disk \o cache' \o persistQ' = disk \o (cache' \o persistQ')
    BY SMTT(60), <1>2, <2>2, Regroup
  <2>4. disk \o cache \o persistQ = disk \o (cache \o persistQ)
    BY <1>2, Regroup
  <2> QED BY <1>3, <2>3, <2>4
<1>5. Kept' = Kept /\ Written' = Written
  BY <1>1, <1>3, <1>4 DEF Kept, Written
<1>6. Shown' = Shown
  BY DEF Shown, Hand, dsp, dispatcher
<1> QED BY <1>5, <1>6 DEF DownstreamOrder, dispatcher, dSeq

(* flush_cache, by the thread or by stop(). *)
LEMMA FlushDownstream ==
    ASSUME Typed, DownstreamOrder, FlushOk \/ FlushFails,
           UNCHANGED <<persistQ, dispatcher, dsp, dspQ>>
    PROVE  DownstreamOrder'
<1>0. /\ disk \in Seq(Frames) /\ cache \in Seq(Frames) /\ persistQ \in Seq(Frames)
      /\ InDispatcher \in Seq(Frames) /\ haveLast \in BOOLEAN /\ dFrame \in Nat
      /\ InDispatcher' = InDispatcher
  BY DownstreamTypes DEF InDispatcher, Hand, dispatcher
<1>1. Shown' = Shown /\ UNCHANGED <<haveLast, dFrame>>
  BY DEF Shown, Hand, dsp, dispatcher, dSeq
<1>2. CASE FlushFails
  <2>1. Kept' = Kept /\ ioFailed'
    BY <1>0, <1>2 DEF FlushFails, Kept
  <2> QED BY <1>1, <2>1 DEF DownstreamOrder
<1>3. CASE FlushOk
  <2>1. disk' = disk \o cache /\ cache' = <<>> /\ ioFailed' = ioFailed
    BY <1>3 DEF FlushOk
  <2>2. disk \o cache \in Seq(Frames) /\ (disk \o cache) \o <<>> = disk \o cache
    BY <1>0
  <2>3. Written' = Written
    BY <1>0, <2>1, <2>2 DEF Written
  <2> DEFINE t == persistQ \o InDispatcher
  <2>4. Kept = cache \o t /\ Kept' = t /\ t \in Seq(Frames)
    <3>1. <<>> \o persistQ = persistQ /\ t \in Seq(Frames)
      BY <1>0
    <3>2. Kept = cache \o t
      BY <1>0, Regroup DEF Kept
    <3> QED BY <1>0, <2>1, <3>1, <3>2 DEF Kept
  <2> HIDE DEF t
  <2>5. UpTo(t, haveLast, dFrame)
    <3>1. UpTo(cache \o t, haveLast, dFrame)
      BY <2>4 DEF DownstreamOrder
    <3> QED BY <1>0, <2>4, <3>1, UpToParts
  <2> QED BY <1>1, <2>1, <2>3, <2>4, <2>5 DEF DownstreamOrder
<1> QED BY <1>2, <1>3

LEMMA NextDownstream ==
    Typed /\ Lifecycle /\ UpstreamOrder /\ DownstreamOrder /\ [Next]_vars => DownstreamOrder'
<1> SUFFICES ASSUME Typed, Lifecycle, UpstreamOrder, DownstreamOrder, [Next]_vars
             PROVE  DownstreamOrder'
  OBVIOUS
<1>2. CASE UNCHANGED vars \/ Transport \/ \E kind \in {"ok", "malformed", "short"} : R5fSend(kind)
  <2>1. UNCHANGED <<dispatcher, dsp, persist, dspQ, persistQ>>
    BY <1>2 DEF vars, R5fSend, Transport, TransportCheck, TransportPoll, TransportReadFails,
       TransportRead, TransportPush, TransportOthers, queues
  <2> QED BY <2>1, DownstreamUntouched DEF dispatcher, dSeq, dsp, persist, InDispatcher, Hand
<1>3. CASE DispatchCheck \/ DispatchSize \/ DispatchEmpty
  <2>1. /\ UNCHANGED <<dsp, persist, queues, dFrame, haveLast>>
        /\ dPc \notin {"dsp", "persist"} /\ dPc' \notin {"dsp", "persist"}
    BY <1>3 DEF DispatchCheck, DispatchSize, DispatchEmpty, DispatcherOthers, dSeq
  <2> QED BY <2>1, DownstreamUntouched DEF dsp, persist, queues, InDispatcher, Hand
<1>4. CASE PersistWorker
  <2>1. UNCHANGED <<dispatcher, dsp, dspQ>>
    BY <1>4 DEF PersistWorker, PersistCheck, PersistSize, PersistPop, PersistFlush, PersistOthers
  <2>2. CASE UNCHANGED <<disk, cache, ioFailed, persistQ>>
    BY <2>1, <2>2, DownstreamUntouched DEF dispatcher, dSeq, dsp, InDispatcher, Hand
  <2>3. CASE PersistPop /\ PersistQ!Pop
    BY <2>1, <2>3, PersistPopDownstream DEF PersistPop, PersistQ!Pop
  <2>4. CASE PersistFlush
    BY <2>1, <2>4, FlushDownstream DEF PersistFlush
  <2> QED BY <1>4, <2>2, <2>3, <2>4 DEF PersistWorker, PersistCheck, PersistSize, PersistPop
<1>5. CASE MainEmptying
  <2>1. UNCHANGED <<dispatcher, dsp, dspQ>>
    BY <1>5 DEF MainEmptying, MainDrain, MainDrainFlush, MainFinalFlush, MainOthers, dState,
       sState, queues, dispatcher, dsp
  <2>2. CASE UNCHANGED <<disk, cache, ioFailed, persistQ>>
    BY <2>1, <2>2, DownstreamUntouched DEF dispatcher, dSeq, dsp, InDispatcher, Hand
  <2>3. CASE MainDrain /\ PersistQ!Pop
    BY <2>1, <2>3, PersistPopDownstream DEF MainDrain, PersistQ!Pop
  <2>4. CASE MainDrainFlush \/ MainFinalFlush
    BY <2>1, <2>4, FlushDownstream DEF MainDrainFlush, MainFinalFlush, MainOthers, queues
  <2> QED BY <1>5, <2>2, <2>3, <2>4 DEF MainEmptying, MainDrain
<1>6. CASE MainControl
  BY <1>6, ControlHands, DownstreamUntouched DEF queues, dSeq, InDispatcher, Hand
<1> QED BY <1>2, <1>3, <1>4, <1>5, <1>6, DispatchPopDownstream, DispatchToDspDownstream,
           DispatchToPersistDownstream, DspDownstream
        DEF Next, Dispatcher, MainStop, MainControl, MainEmptying, Exited
-----------------------------------------------------------------------------
(* Counting.                                                               *)

HeldByTransport == IF tPc = "push" THEN 1 ELSE 0
HeldByDispatcher == IF dPc \in {"dsp", "persist"} THEN 1 ELSE 0

(* The number of frames in the hand of a thread, before and after a step. *)
LEMMA HeldLen ==
    /\ Len(InTransport) = HeldByTransport /\ Len(InDispatcher) = HeldByDispatcher
    /\ HeldByTransport \in Nat /\ HeldByDispatcher \in Nat
BY DEF InTransport, InDispatcher, Hand, HeldByTransport, HeldByDispatcher

LEMMA HeldLenNext ==
    Len(InTransport)' = HeldByTransport' /\ Len(InDispatcher)' = HeldByDispatcher'
BY DEF InTransport, InDispatcher, Hand, HeldByTransport, HeldByDispatcher

Announced == sent = Len(rpmsg) + lostShort + received
Ingested ==
    received = malformed + droppedIngress + HeldByTransport + Len(ingress)
                 + HeldByDispatcher + dispatched
Stored == ~ioFailed => dispatched = droppedPersist + Len(persistQ) + Len(cache) + Len(disk)

HeldForDsp == IF dPc = "persist" THEN 1 ELSE 0
HeldByDsp == IF sPc = "post" THEN 1 ELSE 0
Offered == dispatched + HeldForDsp = droppedDsp + Len(dspQ) + HeldByDsp + nPosted

(* The four accounts are the property. *)
LEMMA AccountedParts == FramesAccountedFor <=> Announced /\ Ingested /\ Stored /\ Offered
<1>1. Len(Hand(dPc = "persist", dFrame)) = HeldForDsp /\ Len(InDsp) = HeldByDsp
  BY DEF InDsp, Hand, HeldForDsp, HeldByDsp
<1> QED BY <1>1, HeldLen DEF FramesAccountedFor, Announced, Ingested, Stored, Offered

(* All that is counted are natural numbers. *)
LEMMA Lengths ==
    ASSUME Typed
    PROVE  /\ Len(rpmsg) \in Nat /\ Len(ingress) \in Nat /\ Len(persistQ) \in Nat
           /\ Len(cache) \in Nat /\ Len(disk) \in Nat
           /\ sent \in Nat /\ received \in Nat /\ malformed \in Nat /\ droppedIngress \in Nat
           /\ lostShort \in Nat /\ dispatched \in Nat /\ droppedPersist \in Nat /\ gaps \in Nat
BY PipelineAssumption DEF Typed, R5fTypes, TransportTypes, DispatcherTypes, PersistTypes, QueueTypes

(* The lengths of the two ends of a queue operation. *)
LEMMA TailLen ==
    ASSUME NEW S, NEW s \in Seq(S), s # <<>>
    PROVE  Len(Tail(s)) = Len(s) - 1
OBVIOUS
LEMMA AppendLen ==
    ASSUME NEW S, NEW s \in Seq(S), NEW e
    PROVE  Len(Append(s, e)) = Len(s) + 1
OBVIOUS

(* Every frame is in some account, one thread at a time. *)
LEMMA InitAccounted == Init => Announced /\ Ingested /\ Stored
BY DEF Init, IngressQ!Init, PersistQ!Init, Announced, Ingested, Stored, HeldByTransport,
   HeldByDispatcher

(* An account is kept by a step that touches none of its entries. *)
LEMMA AccountedUntouched ==
    /\ Announced /\ UNCHANGED <<sent, rpmsg, lostShort, received>> => Announced'
    /\ Ingested /\ UNCHANGED <<received, malformed, droppedIngress, HeldByTransport, ingress,
                               HeldByDispatcher, dispatched>> => Ingested'
    /\ Stored /\ UNCHANGED <<ioFailed, dispatched, droppedPersist, persistQ, cache, disk>> => Stored'
BY DEF Announced, Ingested, Stored

LEMMA R5fAccounted ==
    ASSUME Typed, Announced, Ingested, Stored,
           NEW kind \in {"ok", "malformed", "short"}, R5fSend(kind)
    PROVE  Announced' /\ Ingested' /\ Stored'
<1>1. UNCHANGED <<transport, dispatcher, persist, queues>>
  BY DEF R5fSend
<1>2. Announced'
  <2>1. sent' = sent + 1 /\ Len(rpmsg') = Len(rpmsg) + 1
    BY AppendLen DEF R5fSend, Typed, R5fTypes
  <2>2. UNCHANGED <<lostShort, received>>
    BY <1>1 DEF transport, tCounts
  <2>3. sent \in Nat /\ Len(rpmsg) \in Nat /\ lostShort \in Nat /\ received \in Nat
    BY Lengths
  <2> QED BY <2>1, <2>2, <2>3 DEF Announced
<1> QED BY <1>1, <1>2, AccountedUntouched
        DEF transport, tCounts, dispatcher, dCounts, persist, queues, HeldByTransport,
            HeldByDispatcher

LEMMA TransportAccounted ==
    ASSUME Typed, Announced, Ingested, Stored, Transport
    PROVE  Announced' /\ Ingested' /\ Stored'
<1>0. /\ UNCHANGED <<sent, HeldByDispatcher, dispatched, droppedPersist, persistQ, cache, disk,
                     ioFailed>>
  BY DEF Transport, TransportCheck, TransportPoll, TransportReadFails, TransportRead,
     TransportPush, TransportOthers, dispatcher, dCounts, persist, queues, HeldByDispatcher
<1>1. Stored'
  BY <1>0, AccountedUntouched
<1>2. CASE UNCHANGED <<rpmsg, ingress, tCounts, HeldByTransport>>
  BY <1>0, <1>1, <1>2, AccountedUntouched DEF tCounts
<1>3. CASE TransportReadFails /\ rpmsg # <<>> /\ rpmsg' = Tail(rpmsg) /\ lostShort' = lostShort + 1
  <2>1. Len(rpmsg') = Len(rpmsg) - 1
    BY <1>3, TailLen DEF Typed, R5fTypes
  <2>2. UNCHANGED <<received, malformed, droppedIngress, ingress, HeldByTransport>>
    BY <1>3 DEF TransportReadFails, queues, HeldByTransport
  <2>3. Announced'
    BY <1>0, <1>3, <2>1, <2>2, Lengths DEF Announced
  <2> QED BY <1>0, <1>1, <2>2, <2>3, AccountedUntouched
<1>4. CASE TransportRead
  <2>1. Len(rpmsg') = Len(rpmsg) - 1
    BY <1>4, TailLen DEF TransportRead, Typed, R5fTypes
  <2>2. /\ received' = received + 1 /\ UNCHANGED <<ingress, droppedIngress, lostShort>>
        /\ HeldByTransport = 0
        /\ \/ malformed' = malformed + 1 /\ HeldByTransport' = 0
           \/ malformed' = malformed /\ HeldByTransport' = 1
    BY <1>4 DEF TransportRead, queues, HeldByTransport
  <2>3. Announced'
    BY SMTT(60), <1>0, <2>1, <2>2, Lengths DEF Announced
  <2>4. Ingested'
    <3>1. HeldByDispatcher \in Nat /\ HeldByDispatcher' = HeldByDispatcher
          /\ dispatched' = dispatched
      BY <1>0, HeldLen
    <3>2. /\ received \in Nat /\ malformed \in Nat /\ droppedIngress \in Nat
          /\ Len(ingress) \in Nat /\ dispatched \in Nat
      BY Lengths
    <3> QED BY <2>2, <3>1, <3>2 DEF Ingested
  <2> QED BY <1>1, <2>3, <2>4
<1>5. CASE TransportPush
  <2>1. /\ UNCHANGED <<rpmsg, received, malformed, lostShort>>
        /\ HeldByTransport = 1 /\ HeldByTransport' = 0
        /\ \/ Len(ingress') = Len(ingress) + 1 /\ droppedIngress' = droppedIngress
           \/ ingress' = ingress /\ droppedIngress' = droppedIngress + 1
    BY <1>5, AppendLen DEF TransportPush, IngressQ!Push, HeldByTransport, Typed, QueueTypes
  <2>2. Ingested'
    <3>1. HeldByDispatcher \in Nat /\ HeldByDispatcher' = HeldByDispatcher
          /\ dispatched' = dispatched
      BY <1>0, HeldLen
    <3>2. /\ received \in Nat /\ malformed \in Nat /\ droppedIngress \in Nat
          /\ Len(ingress) \in Nat /\ dispatched \in Nat
      BY Lengths
    <3>3. \/ Len(ingress') = Len(ingress) + 1 /\ droppedIngress' = droppedIngress
          \/ Len(ingress') = Len(ingress) /\ droppedIngress' = droppedIngress + 1
      BY <2>1
    <3>4. malformed' = malformed /\ received' = received
      BY <2>1
    <3>5. HeldByTransport = 1 /\ HeldByTransport' = 0
      BY <2>1
    <3>6. droppedIngress' + HeldByTransport' + Len(ingress')
              = droppedIngress + HeldByTransport + Len(ingress)
      BY <3>2, <3>3, <3>5
    <3>7. Len(ingress') \in Nat /\ droppedIngress' \in Nat /\ HeldByTransport \in Nat
          /\ HeldByTransport' \in Nat
      BY <3>2, <3>3, <3>5
    <3>8. received = malformed + droppedIngress + HeldByTransport + Len(ingress)
                         + HeldByDispatcher + dispatched
      BY DEF Ingested
    <3>9. received = malformed + (droppedIngress + HeldByTransport + Len(ingress))
                         + HeldByDispatcher + dispatched
      BY <3>1, <3>2, <3>7, <3>8
    <3>10. received' = malformed' + (droppedIngress' + HeldByTransport' + Len(ingress'))
                           + HeldByDispatcher' + dispatched'
      BY <3>1, <3>4, <3>6, <3>9
    <3>11. received' = malformed' + droppedIngress' + HeldByTransport' + Len(ingress')
                           + HeldByDispatcher' + dispatched'
      BY <3>1, <3>2, <3>4, <3>7, <3>10
    <3> QED BY <3>11 DEF Ingested
  <2> QED BY <1>0, <1>1, <2>1, <2>2, AccountedUntouched
<1> QED BY <1>2, <1>3, <1>4, <1>5 DEF Transport, TransportCheck, TransportPoll,
        TransportReadFails, tCounts, queues, HeldByTransport

LEMMA DispatcherAccounted ==
    ASSUME Typed, Announced, Ingested, Stored, Dispatcher
    PROVE  Announced' /\ Ingested' /\ Stored'
<1>0. /\ UNCHANGED <<sent, rpmsg, lostShort, received, malformed, droppedIngress,
                     HeldByTransport, cache, disk, ioFailed>>
  BY DEF Dispatcher, DispatchCheck, DispatchSize, DispatchEmpty, DispatchPop, DispatchToDsp,
     DispatchToPersist, DispatcherOthers, r5f, transport, tCounts, persist, HeldByTransport
<1>1. Announced'
  BY <1>0, AccountedUntouched
<1>2. /\ received \in Nat /\ malformed \in Nat /\ droppedIngress \in Nat
      /\ HeldByTransport \in Nat /\ Len(ingress) \in Nat /\ dispatched \in Nat
  BY Lengths, HeldLen
<1>3. CASE DispatchCheck \/ DispatchSize \/ DispatchEmpty \/ DispatchToDsp
  <2>1. UNCHANGED <<HeldByDispatcher, dispatched, droppedPersist, ingress, persistQ>>
    BY <1>3 DEF DispatchCheck, DispatchSize, DispatchEmpty, DispatchToDsp, queues, dCounts,
       HeldByDispatcher
  <2> QED BY <1>0, <1>1, <2>1, AccountedUntouched
<1>4. CASE DispatchPop
  <2>1. /\ Len(ingress') = Len(ingress) - 1
        /\ HeldByDispatcher = 0 /\ HeldByDispatcher' = 1
        /\ UNCHANGED <<dispatched, droppedPersist, persistQ>>
    BY <1>4, TailLen DEF DispatchPop, IngressQ!Pop, IngressQ!Empty, HeldByDispatcher, Typed,
       QueueTypes
  <2>2. Ingested'
    BY <1>0, <1>2, <2>1 DEF Ingested
  <2> QED BY <1>0, <1>1, <2>1, <2>2, AccountedUntouched
<1>5. CASE DispatchToPersist
  <2>1. /\ ingress' = ingress /\ dispatched' = dispatched + 1
        /\ HeldByDispatcher = 1 /\ HeldByDispatcher' = 0
        /\ \/ Len(persistQ') = Len(persistQ) + 1 /\ droppedPersist' = droppedPersist
           \/ persistQ' = persistQ /\ droppedPersist' = droppedPersist + 1
    BY <1>5, AppendLen DEF DispatchToPersist, PersistQ!Push, HeldByDispatcher, Typed, QueueTypes
  <2>2. Ingested'
    BY <1>0, <1>2, <2>1 DEF Ingested
  <2>3. Stored'
    <3>1. /\ droppedPersist \in Nat /\ Len(persistQ) \in Nat /\ Len(cache) \in Nat
          /\ Len(disk) \in Nat
      BY Lengths
    <3> QED BY SMTT(60), <1>0, <1>2, <2>1, <3>1 DEF Stored
  <2> QED BY <1>1, <2>2, <2>3
<1> QED BY <1>3, <1>4, <1>5 DEF Dispatcher

(* From the queue into the cache; from the cache into the file. *)
LEMMA PersistPopStored ==
    ASSUME Typed, Stored, PersistQ!Pop, cache' = Append(cache, pFrame'),
           UNCHANGED <<disk, ioFailed, dispatched, droppedPersist>>
    PROVE  Stored'
<1>1. Len(persistQ') = Len(persistQ) - 1 /\ Len(cache') = Len(cache) + 1
  BY TailLen, AppendLen DEF PersistQ!Pop, PersistQ!Empty, Typed, QueueTypes, PersistTypes
<1>2. /\ droppedPersist \in Nat /\ Len(persistQ) \in Nat /\ Len(cache) \in Nat
      /\ Len(disk) \in Nat /\ dispatched \in Nat
  BY Lengths
<1> QED BY <1>1, <1>2 DEF Stored

(* A flush, complete or not, keeps the account of what is stored. *)
LEMMA FlushStored ==
    ASSUME Typed, Stored, FlushOk \/ FlushFails, UNCHANGED <<persistQ, dispatched, droppedPersist>>
    PROVE  Stored'
<1>1. CASE FlushFails
  BY <1>1 DEF FlushFails, Stored
<1>2. CASE FlushOk
  <2>1. Len(disk') = Len(disk) + Len(cache) /\ Len(cache') = 0 /\ ioFailed' = ioFailed
    <3>1. disk \in Seq(Frames) /\ cache \in Seq(Frames)
      BY DEF Typed, PersistTypes
    <3> QED BY <1>2, <3>1 DEF FlushOk
  <2>2. /\ droppedPersist \in Nat /\ Len(persistQ) \in Nat /\ Len(cache) \in Nat
        /\ Len(disk) \in Nat /\ dispatched \in Nat
    BY Lengths
  <2> QED BY <2>1, <2>2 DEF Stored
<1> QED BY <1>1, <1>2

LEMMA PersistAccounted ==
    ASSUME Typed, Announced, Ingested, Stored, PersistWorker \/ MainEmptying
    PROVE  Announced' /\ Ingested' /\ Stored'
<1>1. /\ UNCHANGED <<sent, rpmsg, lostShort, received, malformed, droppedIngress,
                     HeldByTransport, HeldByDispatcher, ingress, dispatched, droppedPersist>>
  <2>1. CASE PersistWorker
    BY <2>1 DEF PersistWorker, PersistCheck, PersistSize, PersistPop, PersistFlush, PersistOthers,
       r5f, transport, tCounts, dispatcher, dCounts, HeldByTransport, HeldByDispatcher
  <2>2. CASE MainEmptying
    BY <2>2 DEF MainEmptying, MainDrain, MainDrainFlush, MainFinalFlush, MainOthers, tState, dState,
       r5f, queues, transport, tCounts, dispatcher, dCounts, HeldByTransport, HeldByDispatcher
  <2> QED BY <2>1, <2>2
<1>2. Announced' /\ Ingested'
  BY <1>1, AccountedUntouched
<1>3. Stored'
  <2>1. CASE UNCHANGED <<disk, cache, ioFailed, persistQ>>
    BY <1>1, <2>1, AccountedUntouched
  <2>2. CASE (PersistPop \/ MainDrain) /\ PersistQ!Pop
    BY <1>1, <2>2, PersistPopStored DEF PersistPop, MainDrain, PersistQ!Pop
  <2>3. CASE PersistFlush \/ MainDrainFlush \/ MainFinalFlush
    BY <1>1, <2>3, FlushStored
       DEF PersistFlush, MainDrainFlush, MainFinalFlush, MainOthers, queues
  <2> QED BY <2>1, <2>2, <2>3
          DEF PersistWorker, PersistCheck, PersistSize, PersistPop, MainEmptying, MainDrain
<1> QED BY <1>2, <1>3

LEMMA NextAccounted ==
    Typed /\ Lifecycle /\ Announced /\ Ingested /\ Stored /\ [Next]_vars =>
        Announced' /\ Ingested' /\ Stored'
<1> SUFFICES ASSUME Typed, Lifecycle, Announced, Ingested, Stored, [Next]_vars
             PROVE  Announced' /\ Ingested' /\ Stored'
  OBVIOUS
<1>1. CASE UNCHANGED vars \/ DspWorker
  <2>1. UNCHANGED <<r5f, transport, dispatcher, persist, ingress, persistQ>>
    BY <1>1 DEF vars, queues, DspWorker, DspCheck, DspPop, DspPost, DspOthers
  <2> QED BY <2>1, AccountedUntouched
          DEF r5f, transport, tCounts, dispatcher, dCounts, persist, HeldByTransport,
              HeldByDispatcher
<1>2. CASE MainControl
  BY <1>2, ControlHands, AccountedUntouched
     DEF r5f, queues, tCounts, dCounts, HeldByTransport, HeldByDispatcher
<1> QED BY <1>1, <1>2, R5fAccounted, TransportAccounted, DispatcherAccounted, PersistAccounted
        DEF Next, MainStop, MainControl, MainEmptying, Exited

(* The way to the user interface: the dispatcher offers a frame to the DSP *)
(* queue and counts it if it is full; the DSP thread takes it and posts.   *)
LEMMA InitOffered == Init => Offered
BY DEF Init, DspQ!Init, Offered, HeldForDsp, HeldByDsp

LEMMA OfferedUntouched ==
    Offered /\ UNCHANGED <<dispatched, HeldForDsp, droppedDsp, dspQ, HeldByDsp, nPosted>>
        => Offered'
BY DEF Offered

LEMMA OfferedTypes ==
    ASSUME Typed
    PROVE  /\ dispatched \in Nat /\ droppedDsp \in Nat /\ nPosted \in Nat
           /\ dspQ \in Seq(Frames) /\ Len(dspQ) \in Nat
           /\ HeldForDsp \in Nat /\ HeldByDsp \in Nat
BY DEF Typed, DispatcherTypes, DspTypes, QueueTypes, HeldForDsp, HeldByDsp

LEMMA DispatcherOffered == ASSUME Typed, Offered, Dispatcher PROVE Offered'
<1>1. UNCHANGED <<HeldByDsp, nPosted>>
  BY DEF Dispatcher, DispatchCheck, DispatchSize, DispatchEmpty, DispatchPop, DispatchToDsp,
     DispatchToPersist, DispatcherOthers, dsp, HeldByDsp
<1>2. CASE DispatchCheck \/ DispatchSize \/ DispatchEmpty \/ DispatchPop
  <2>1. UNCHANGED <<dispatched, HeldForDsp, droppedDsp, dspQ>>
    BY <1>2 DEF DispatchCheck, DispatchSize, DispatchEmpty, DispatchPop, queues, dCounts, HeldForDsp
  <2> QED BY <1>1, <2>1, OfferedUntouched
<1>3. CASE DispatchToDsp
  <2>1. /\ dispatched' = dispatched /\ HeldForDsp = 0 /\ HeldForDsp' = 1
        /\ \/ Len(dspQ') = Len(dspQ) + 1 /\ droppedDsp' = droppedDsp
           \/ dspQ' = dspQ /\ droppedDsp' = droppedDsp + 1
    BY <1>3, AppendLen, OfferedTypes DEF DispatchToDsp, DspQ!Push, HeldForDsp
  <2> QED BY <1>1, <2>1, OfferedTypes DEF Offered
<1>4. CASE DispatchToPersist
  <2>1. /\ dispatched' = dispatched + 1 /\ HeldForDsp = 1 /\ HeldForDsp' = 0
        /\ UNCHANGED <<droppedDsp, dspQ>>
    BY <1>4 DEF DispatchToPersist, HeldForDsp
  <2> QED BY <1>1, <2>1, OfferedTypes DEF Offered
<1> QED BY <1>2, <1>3, <1>4 DEF Dispatcher

LEMMA DspOffered == ASSUME Typed, Offered, DspWorker PROVE Offered'
<1>1. UNCHANGED <<dispatched, HeldForDsp, droppedDsp>>
  BY DEF DspWorker, DspCheck, DspPop, DspPost, DspOthers, dispatcher, dCounts, HeldForDsp
<1>2. CASE UNCHANGED <<HeldByDsp, nPosted, dspQ>>
  BY <1>1, <1>2, OfferedUntouched
<1>3. CASE DspPop /\ DspQ!Pop /\ sPc' = "post"
  <2>1. /\ Len(dspQ') = Len(dspQ) - 1 /\ HeldByDsp = 0 /\ HeldByDsp' = 1 /\ nPosted' = nPosted
    BY <1>3, TailLen, OfferedTypes DEF DspPop, DspQ!Pop, DspQ!Empty, HeldByDsp
  <2> QED BY <1>1, <2>1, OfferedTypes DEF Offered
<1>4. CASE DspPost
  <2>1. dspQ' = dspQ /\ HeldByDsp = 1 /\ HeldByDsp' = 0 /\ nPosted' = nPosted + 1
    BY <1>4 DEF DspPost, HeldByDsp
  <2> QED BY <1>1, <2>1, OfferedTypes DEF Offered
<1>5. CASE DspCheck \/ (DspPop /\ UNCHANGED <<dspQ, sFrame>> /\ sPc' = "check")
  BY <1>2, <1>5 DEF DspCheck, DspPop, HeldByDsp
<1> QED BY <1>3, <1>4, <1>5 DEF DspWorker, DspPop

LEMMA NextOffered == Typed /\ Lifecycle /\ Offered /\ [Next]_vars => Offered'
<1> SUFFICES ASSUME Typed, Lifecycle, Offered, [Next]_vars PROVE Offered'
  OBVIOUS
<1>1. CASE MainControl
  <2>1. UNCHANGED <<queues, dCounts, nPosted>> /\ (sPc' = "post") = (sPc = "post")
        /\ (dPc' = "persist") = (dPc = "persist")
    BY <1>1, ControlHands
  <2>2. UNCHANGED <<dispatched, HeldForDsp, droppedDsp, dspQ, HeldByDsp, nPosted>>
    BY <2>1 DEF queues, dCounts, HeldForDsp, HeldByDsp
  <2> QED BY <2>2, OfferedUntouched
<1>2. CASE UNCHANGED vars \/ PersistWorker \/ MainEmptying \/ Transport
           \/ \E kind \in {"ok", "malformed", "short"} : R5fSend(kind)
  <2>1. UNCHANGED <<dispatched, dPc, droppedDsp, dspQ, sPc, nPosted>>
    BY <1>2 DEF vars, PersistWorker, PersistCheck, PersistSize, PersistPop, PersistFlush,
       PersistOthers, MainEmptying, MainDrain, MainDrainFlush, MainFinalFlush, MainOthers, dState,
       sState, dispatcher, dCounts, dsp, queues, R5fSend, Transport, TransportCheck, TransportPoll,
       TransportReadFails, TransportRead, TransportPush, TransportOthers
  <2>2. UNCHANGED <<HeldForDsp, HeldByDsp>>
    BY <2>1 DEF HeldForDsp, HeldByDsp
  <2> QED BY <2>1, <2>2, OfferedUntouched
<1> QED BY <1>1, <1>2, DispatcherOffered, DspOffered
        DEF Next, MainStop, MainControl, MainEmptying, Exited
-----------------------------------------------------------------------------
(* The gap counter.                                                        *)

(* A multiple of m between -m and m is 0. *)
LEMMA SmallMultiple ==
    ASSUME NEW m \in Nat \ {0}, NEW k \in Int, m * k < m, -m < m * k
    PROVE  k = 0
<1>1. CASE k >= 1
  <2>1. m * k >= m
    BY <1>1
  <2> QED BY <2>1
<1>2. CASE k <= -1
  <2>1. m * k <= -m
    BY <1>2
  <2> QED BY <2>1
<1> QED BY <1>1, <1>2

(* What division with remainder is. *)
LEMMA ModUnique ==
    ASSUME NEW m \in Nat \ {0}, NEW x \in Nat, NEW p \in Int, NEW r \in 0 .. m - 1, x = m * p + r
    PROVE  x % m = r
<1> DEFINE q == x \div m
           s == x % m
<1>1. x = m * q + s /\ q \in Int /\ s \in 0 .. m - 1
  OBVIOUS
<1> HIDE DEF q, s
<1> DEFINE k == q - p
<1>2. k \in Int /\ m * k = r - s
  BY <1>1
<1> HIDE DEF k
<1>3. k = 0
  <2>1. m * k < m /\ -m < m * k
    BY <1>1, <1>2
  <2> QED BY <1>2, <2>1, SmallMultiple
<1>4. s = r
  BY <1>1, <1>2, <1>3
<1> QED BY <1>4 DEF s

(* Two numbers less than one turn apart are told apart by their remainders. *)
LEMMA ModInjective ==
    ASSUME NEW m \in Nat \ {0}, NEW x \in Nat, NEW d \in Nat, d < m, (x + d) % m = x % m
    PROVE  d = 0
<1> DEFINE y == x + d
           p == x \div m
           q == y \div m
<1>1. x = m * p + (x % m) /\ p \in Int
  OBVIOUS
<1>2. y \in Nat /\ y = m * q + (y % m) /\ q \in Int
  OBVIOUS
<1>3. y % m = x % m /\ y = x + d
  OBVIOUS
<1>4. x % m \in Int
  OBVIOUS
<1> HIDE DEF y, p, q
<1>5. d = m * q - m * p
  BY <1>1, <1>2, <1>3, <1>4
<1> DEFINE k == q - p
<1>6. k \in Int /\ m * k = d
  BY <1>1, <1>2, <1>5
<1> HIDE DEF k
<1>7. k = 0
  <2>1. m * k < m /\ -m < m * k
    BY <1>6
  <2> QED BY <1>6, <2>1, SmallMultiple
<1> QED BY <1>6, <1>7

(* Adding one before or after taking the remainder. *)
LEMMA ModSuccessor ==
    ASSUME NEW m \in Nat \ {0}, NEW x \in Nat
    PROVE  ((x % m) + 1) % m = (x + 1) % m
<1> DEFINE r == x % m
           p == x \div m
<1>1. x = m * p + r /\ p \in Int /\ r \in 0 .. m - 1
  OBVIOUS
<1> HIDE DEF r, p
<1>2. x + 1 \in Nat /\ r + 1 \in Nat
  BY <1>1
<1>3. CASE r + 1 < m
  <2>1. x + 1 = m * p + (r + 1) /\ r + 1 = m * 0 + (r + 1) /\ r + 1 \in 0 .. m - 1
    BY <1>1, <1>3
  <2>2. (x + 1) % m = r + 1
    BY <1>1, <1>2, <2>1, ModUnique
  <2>3. (r + 1) % m = r + 1
    BY <1>1, <1>3
  <2> QED BY <2>2, <2>3 DEF r
<1>4. CASE r + 1 = m
  <2>1. x + 1 = m * (p + 1) + 0 /\ p + 1 \in Int /\ 0 \in 0 .. m - 1
    BY <1>1, <1>4
  <2>2. (x + 1) % m = 0
    BY <1>2, <2>1, ModUnique
  <2>3. (r + 1) % m = 0
    BY <1>4
  <2> QED BY <2>2, <2>3 DEF r
<1> QED BY <1>1, <1>3, <1>4

(* A sequence number that follows on the last one is no gap; and while the *)
(* run is shorter than one turn of the counter, only the next frame has it. *)
LEMMA SequenceFollows ==
    ASSUME NEW f \in Frames, NEW g \in Frames, f < g
    PROVE  /\ g = f + 1 => SeqOf(g) = (SeqOf(f) + 1) % SeqMod
           /\ NFrames <= SeqMod /\ SeqOf(g) = (SeqOf(f) + 1) % SeqMod => g = f + 1
<1> DEFINE x == SeqStart + f
<1>1. x \in Nat /\ SeqMod \in Nat \ {0} /\ f \in 1 .. NFrames /\ g \in 1 .. NFrames
      /\ NFrames \in Nat
  BY PipelineAssumption DEF Frames
<1>2. SeqOf(f) = x % SeqMod
  BY DEF SeqOf
<1> HIDE DEF x
<1>3. (SeqOf(f) + 1) % SeqMod = (x + 1) % SeqMod
  BY <1>1, <1>2, ModSuccessor
<1>4. SeqOf(g) = ((x + 1) + (g - f - 1)) % SeqMod
  <2>1. SeqStart + g = (x + 1) + (g - f - 1)
    BY <1>1, PipelineAssumption DEF x
  <2> QED BY <2>1 DEF SeqOf
<1>5. g = f + 1 => SeqOf(g) = (SeqOf(f) + 1) % SeqMod
  <2> SUFFICES ASSUME g = f + 1 PROVE SeqOf(g) = (SeqOf(f) + 1) % SeqMod
    OBVIOUS
  <2>1. (x + 1) + (g - f - 1) = x + 1
    BY <1>1
  <2> QED BY <1>3, <1>4, <2>1
<1>6. ASSUME NFrames <= SeqMod, SeqOf(g) = (SeqOf(f) + 1) % SeqMod PROVE g = f + 1
  <2>1. x + 1 \in Nat /\ g - f - 1 \in Nat /\ g - f - 1 < SeqMod
    BY <1>1, <1>6
  <2>2. g - f - 1 = 0
    BY <1>1, <1>3, <1>4, <1>6, <2>1, ModInjective
  <2> QED BY <1>1, <2>2
<1> QED BY <1>5, <1>6

(* Frames the dispatcher has taken out of the ingress queue. *)
Taken == dispatched + HeldByDispatcher

GapsCounted ==
    /\ ~haveLast => Taken = 0 /\ gaps = 0
    /\ haveLast => /\ lastSeq = SeqOf(dFrame)
                   /\ firstFrame <= dFrame
                   /\ gaps + Taken <= dFrame
                   /\ NFrames <= SeqMod /\ gaps = 0 => Taken + firstFrame = dFrame + 1

(* The counted gaps; only DispatchPop counts. *)
LEMMA InitGaps == Init => GapsCounted
BY DEF Init, GapsCounted, Taken, HeldByDispatcher

LEMMA DispatchPopGaps ==
    ASSUME Typed, UpstreamOrder, GapsCounted, DispatchPop
    PROVE  GapsCounted'
<1>1. dFrame' \in Frames /\ (haveLast => dFrame < dFrame')
  <2>1. Upstream # <<>> /\ dFrame' = Head(Upstream) /\ Upstream \in Seq(Frames)
    BY UpstreamPop, UpstreamFacts
  <2>2. Head(Upstream) = Upstream[1] /\ 1 \in 1 .. Len(Upstream) /\ Head(Upstream) \in Frames
    BY <2>1
  <2> QED BY <2>1, <2>2 DEF UpstreamOrder
<1>2. /\ haveLast \in BOOLEAN /\ dispatched \in Nat /\ gaps \in Nat
      /\ haveLast => dFrame \in Frames /\ firstFrame \in Frames
  BY DEF Typed, DispatcherTypes
<1>3. /\ haveLast' = TRUE /\ lastSeq' = SeqOf(dFrame') /\ dispatched' = dispatched
      /\ gaps' = IF haveLast /\ SeqOf(dFrame') # (lastSeq + 1) % SeqMod THEN gaps + 1 ELSE gaps
      /\ firstFrame' = IF haveLast THEN firstFrame ELSE dFrame'
      /\ HeldByDispatcher = 0 /\ HeldByDispatcher' = 1
  BY DEF DispatchPop, HeldByDispatcher
<1>4. Taken = dispatched /\ Taken' = dispatched + 1
  BY <1>2, <1>3 DEF Taken
<1>5. dFrame' \in Nat /\ dFrame' >= 1
  BY <1>1, PipelineAssumption DEF Frames
<1>6. CASE ~haveLast
  <2>1. dispatched = 0 /\ gaps' = 0 /\ firstFrame' = dFrame'
    BY <1>2, <1>3, <1>4, <1>6 DEF GapsCounted
  <2>2. Taken' = 1
    BY <1>4, <2>1
  <2>3. /\ gaps' + Taken' <= dFrame' /\ firstFrame' <= dFrame'
        /\ Taken' + firstFrame' = dFrame' + 1
    BY <1>5, <2>1, <2>2
  <2> QED BY <1>3, <2>3 DEF GapsCounted
<1>7. CASE haveLast
  <2>1. /\ lastSeq = SeqOf(dFrame) /\ firstFrame <= dFrame /\ gaps + dispatched <= dFrame
        /\ NFrames <= SeqMod /\ gaps = 0 => dispatched + firstFrame = dFrame + 1
        /\ dFrame \in Nat /\ firstFrame \in Nat /\ dFrame + 1 <= dFrame'
        /\ firstFrame' = firstFrame
    <3>1. dFrame \in Nat /\ firstFrame \in Nat /\ dFrame < dFrame' /\ firstFrame' = firstFrame
      BY <1>1, <1>2, <1>3, <1>7, FramesInt
    <3>2. /\ lastSeq = SeqOf(dFrame) /\ firstFrame <= dFrame /\ gaps + Taken <= dFrame
          /\ NFrames <= SeqMod /\ gaps = 0 => Taken + firstFrame = dFrame + 1
      BY <1>7 DEF GapsCounted
    <3> QED BY <1>4, <1>5, <3>1, <3>2
  <2>2. /\ dFrame' = dFrame + 1 => SeqOf(dFrame') = (SeqOf(dFrame) + 1) % SeqMod
        /\ NFrames <= SeqMod /\ SeqOf(dFrame') = (SeqOf(dFrame) + 1) % SeqMod =>
               dFrame' = dFrame + 1
    BY <1>1, <1>2, <1>7, SequenceFollows
  <2>3. CASE SeqOf(dFrame') = (SeqOf(dFrame) + 1) % SeqMod
    <3>1. gaps' = gaps
      BY <1>3, <2>1, <2>3
    <3>2. gaps' + Taken' <= dFrame' /\ firstFrame' <= dFrame'
      <4>1. gaps \in Nat /\ dispatched \in Nat
        BY <1>2
      <4>2. Taken' \in Nat /\ Taken' = dispatched + 1 /\ gaps' \in Nat
        BY <1>4, <3>1, <4>1
      <4> QED BY <1>5, <2>1, <3>1, <4>1, <4>2
    <3>3. NFrames <= SeqMod /\ gaps' = 0 => Taken' + firstFrame' = dFrame' + 1
      BY <1>2, <1>4, <1>5, <2>1, <2>2, <2>3, <3>1
    <3> QED BY <1>3, <3>2, <3>3 DEF GapsCounted
  <2>4. CASE SeqOf(dFrame') # (SeqOf(dFrame) + 1) % SeqMod
    <3>1. gaps' = gaps + 1 /\ dFrame' # dFrame + 1
      BY <1>3, <1>7, <2>1, <2>2, <2>4
    <3>2. gaps' + Taken' <= dFrame' /\ firstFrame' <= dFrame' /\ gaps' # 0
      <4>1. gaps \in Nat /\ dispatched \in Nat
        BY <1>2
      <4>2. dFrame + 2 <= dFrame'
        BY <1>5, <2>1, <3>1
      <4>3. Taken' \in Nat /\ Taken' = dispatched + 1 /\ gaps' \in Nat
        BY <1>4, <3>1, <4>1
      <4> QED BY <1>5, <2>1, <3>1, <4>1, <4>2, <4>3
    <3> QED BY <1>3, <3>2 DEF GapsCounted
  <2> QED BY <2>3, <2>4
<1> QED BY <1>2, <1>6, <1>7

LEMMA NextGaps ==
    Typed /\ Lifecycle /\ UpstreamOrder /\ GapsCounted /\ [Next]_vars => GapsCounted'
<1> SUFFICES ASSUME Typed, Lifecycle, UpstreamOrder, GapsCounted, [Next]_vars
             PROVE  GapsCounted'
  OBVIOUS
<1>1. CASE Dispatcher /\ ~DispatchPop
  <2>1. UNCHANGED <<haveLast, lastSeq, firstFrame, dFrame, gaps>>
    BY <1>1 DEF Dispatcher, DispatchCheck, DispatchSize, DispatchEmpty, DispatchToDsp,
       DispatchToPersist, dSeq
  <2>2. Taken' = Taken
    <3>1. \/ UNCHANGED <<dispatched, HeldByDispatcher>>
          \/ dispatched' = dispatched + 1 /\ HeldByDispatcher = 1 /\ HeldByDispatcher' = 0
      BY <1>1 DEF Dispatcher, DispatchCheck, DispatchSize, DispatchEmpty, DispatchToDsp,
         DispatchToPersist, dCounts, HeldByDispatcher
    <3>2. dispatched \in Nat
      BY Lengths
    <3> QED BY <3>1, <3>2 DEF Taken
  <2> QED BY <2>1, <2>2 DEF GapsCounted
<1>2. CASE UNCHANGED <<dFrame, dispatched, gaps, haveLast, lastSeq, firstFrame, HeldByDispatcher>>
  BY <1>2 DEF GapsCounted, Taken
<1>3. CASE UNCHANGED dispatcher
  BY <1>2, <1>3 DEF dispatcher, dCounts, dSeq, HeldByDispatcher
<1>4. CASE MainControl
  BY <1>2, <1>4, ControlHands DEF dCounts, dSeq, HeldByDispatcher
<1>5. CASE UNCHANGED vars \/ DspWorker \/ PersistWorker \/ MainEmptying \/ Transport
           \/ \E kind \in {"ok", "malformed", "short"} : R5fSend(kind)
  <2>1. UNCHANGED dispatcher
    BY <1>5 DEF vars, DspWorker, DspCheck, DspPop, DspPost, DspOthers, PersistWorker, PersistCheck,
       PersistSize, PersistPop, PersistFlush, PersistOthers, MainEmptying, MainDrain,
       MainDrainFlush, MainFinalFlush, MainOthers, dState, dispatcher, R5fSend, Transport,
       TransportCheck, TransportPoll, TransportReadFails, TransportRead, TransportPush,
       TransportOthers
  <2> QED BY <1>3, <2>1
<1> QED BY <1>1, <1>4, <1>5, DispatchPopGaps
        DEF Next, Dispatcher, MainStop, MainControl, MainEmptying, Exited
-----------------------------------------------------------------------------
(* The inductive invariant, and what follows from it.                      *)

Inv ==
    /\ Typed /\ Lifecycle
    /\ UpstreamOrder /\ DownstreamOrder
    /\ Announced /\ Ingested /\ Stored /\ Offered
    /\ GapsCounted

(* The invariant holds at first, is kept by each step, and so always       *)
(* holds.                                                                  *)
LEMMA InitInv == Init => Inv
BY InitTyped, InitLifecycle, InitUpstream, InitDownstream, InitAccounted, InitOffered,
   InitGaps DEF Inv

LEMMA NextInv == Inv /\ [Next]_vars => Inv'
<1> SUFFICES ASSUME Inv, [Next]_vars PROVE Inv'
  OBVIOUS
<1>1. Typed' /\ Lifecycle'
  BY NextTyped, NextLifecycle DEF Inv
<1>2. UpstreamOrder'
  BY <1>1, NextUpstream DEF Inv
<1>3. DownstreamOrder'
  BY NextDownstream DEF Inv
<1>4. Announced' /\ Ingested' /\ Stored'
  BY NextAccounted DEF Inv
<1>5. GapsCounted'
  BY NextGaps DEF Inv
<1>6. Offered'
  BY NextOffered DEF Inv
<1> QED BY <1>1, <1>2, <1>3, <1>4, <1>5, <1>6 DEF Inv

LEMMA Invariance == Spec => []Inv
BY InitInv, NextInv, PTL DEF Spec

(* A consumer thread ends after its producer and with an empty queue.      *)
THEOREM ConsumersEndLast == Spec => []ConsumersOutliveProducers
<1>1. Inv => ConsumersOutliveProducers
  BY DEF Inv, Lifecycle
<1> QED BY <1>1, Invariance, PTL

(* Every announced frame is in the channel, in a queue, in a thread's      *)
(* hand, in the file or in a drop counter; and every frame the dispatcher  *)
(* has offered to the DSP queue is there, in the DSP thread's hand, posted *)
(* to the user interface or counted as dropped.                            *)
THEOREM EveryFrameAccountedFor == Spec => []FramesAccountedFor
<1>1. Inv => FramesAccountedFor
  BY AccountedParts DEF Inv
<1> QED BY <1>1, Invariance, PTL

(* After a normal run the file and the counters together account for every *)
(* frame that was received.                                                *)
THEOREM ExitLosesNothing == Spec => []NothingLostAtExit
<1>1. ASSUME Inv, mPc = "exited", tPc # "off"
      PROVE  /\ received = malformed + droppedIngress + dispatched
             /\ ~ioFailed => Len(disk) = dispatched - droppedPersist
  <2>1. sPc = "done" /\ pPc = "done" /\ (~ioFailed => cache = <<>>)
    BY <1>1 DEF Inv, Lifecycle, Joined
  <2>2. /\ dPc = "done" /\ tPc = "done" /\ ingress = <<>>
        /\ ~ioFailed => persistQ = <<>>
    BY <1>1, <2>1 DEF Inv, Lifecycle, ConsumersOutliveProducers
  <2>3. HeldByTransport = 0 /\ HeldByDispatcher = 0 /\ Len(ingress) = 0
    BY <2>2 DEF HeldByTransport, HeldByDispatcher
  <2>4. ~ioFailed => Len(persistQ) = 0 /\ Len(cache) = 0
    BY <2>1, <2>2
  <2>5. /\ malformed \in Nat /\ droppedIngress \in Nat /\ dispatched \in Nat
        /\ droppedPersist \in Nat /\ Len(disk) \in Nat
    BY <1>1, Lengths DEF Inv
  <2>6. received = malformed + droppedIngress + dispatched
    BY <1>1, <2>3, <2>5 DEF Inv, Ingested
  <2>7. ~ioFailed => Len(disk) = dispatched - droppedPersist
    BY <1>1, <2>4, <2>5 DEF Inv, Stored
  <2> QED BY <2>6, <2>7
<1>2. Inv => NothingLostAtExit
  BY <1>1 DEF NothingLostAtExit
<1> QED BY <1>2, Invariance, PTL

(* Frames stay in order, each at most once, all the way from the R5F to    *)
(* the file and to the user interface.                                     *)
THEOREM FramesStayInOrder == Spec => []StreamOrder
<1>1. ASSUME Inv PROVE StreamOrder
  <2>1. Upstream \in Seq(Frames) /\ Increasing(Upstream)
        /\ (haveLast => \A i \in 1 .. Len(Upstream) : dFrame < Upstream[i])
    BY <1>1, UpstreamFacts, SpreadIncreasing DEF Inv, UpstreamOrder
  <2>2. /\ disk \in Seq(Frames) /\ cache \in Seq(Frames) /\ persistQ \in Seq(Frames)
        /\ dspQ \in Seq(Frames) /\ InDispatcher \in Seq(Frames)
        /\ Hand(posted # None, posted) \in Seq(Frames)
        /\ Hand(sPc = "post", sFrame) \in Seq(Frames)
        /\ Hand(dPc = "dsp", dFrame) \in Seq(Frames)
        /\ dFrame \in Nat
    BY <1>1, DownstreamTypes DEF Inv
  <2>3. Written \in Seq(Frames) /\ Kept \in Seq(Frames) /\ Shown \in Seq(Frames)
    BY <2>2 DEF Written, Kept, Shown
  <2>4. ASSUME NEW s \in Seq(Frames), UpTo(s, haveLast, dFrame)
        PROVE  Increasing(s \o Upstream)
    BY <2>1, <2>2, <2>4, UpToConcat
  <2>5. ~ioFailed => Increasing(Written \o Upstream)
    BY <1>1, <2>3, <2>4 DEF Inv, DownstreamOrder
  <2>6. Increasing(Kept \o Upstream) /\ Increasing(Shown \o Upstream)
    BY <1>1, <2>3, <2>4 DEF Inv, DownstreamOrder
  <2> QED BY <2>5, <2>6 DEF StreamOrder, Written, Kept, Shown, InDsp
<1>2. Inv => StreamOrder
  BY <1>1
<1> QED BY <1>2, Invariance, PTL

(* Between the last frame taken and the last announced there is room for   *)
(* all that are still upstream.                                            *)
LEMMA UpstreamFits ==
    ASSUME Typed, UpstreamOrder, haveLast
    PROVE  dFrame + Len(Upstream) <= sent
<1> DEFINE n == Len(Upstream)
<1>1. /\ Upstream \in Seq(Frames) /\ n \in Nat /\ \A i \in 1 .. n : Upstream[i] \in Nat
      /\ dFrame \in Nat /\ sent \in Nat
  BY UpstreamFacts, ItemsNat, FramesInt, PipelineAssumption DEF Typed, DispatcherTypes, R5fTypes
<1>2. /\ \A i, j \in 1 .. n : i < j => Upstream[j] - Upstream[i] >= j - i
      /\ \A i \in 1 .. n : Upstream[i] <= sent
      /\ dFrame <= sent /\ \A i \in 1 .. n : dFrame < Upstream[i]
  BY DEF UpstreamOrder, Spread
<1> HIDE DEF n
<1>3. CASE n = 0
  BY <1>1, <1>2, <1>3 DEF n
<1>4. CASE n = 1
  <2>1. dFrame < Upstream[1] /\ Upstream[1] <= sent /\ Upstream[1] \in Nat
    BY <1>1, <1>2, <1>4
  <2> QED BY <1>1, <1>4, <2>1 DEF n
<1>5. CASE n > 1
  <2>1. 1 \in 1 .. n /\ n \in 1 .. n /\ 1 < n
    BY <1>1, <1>5
  <2>2. /\ dFrame < Upstream[1] /\ Upstream[n] <= sent
        /\ Upstream[1] \in Nat /\ Upstream[n] \in Nat
        /\ Upstream[n] - Upstream[1] >= n - 1
    BY <1>1, <1>2, <2>1
  <2>3. dFrame + n <= sent
    BY <1>1, <2>2
  <2> QED BY <2>3 DEF n
<1> QED BY <1>1, <1>3, <1>4, <1>5

(* Each gap the dispatcher has counted has a loss upstream behind it.  The *)
(* other half, that there is no gap only if it has taken every frame,      *)
(* needs the run to be shorter than a turn of the 32-bit sequence number:  *)
(* a loss of 2^32 frames in a row would leave no trace in it.              *)
THEOREM GapCounterExplained ==
    ASSUME NFrames <= SeqMod
    PROVE  Spec => []GapsExplained
<1>1. ASSUME Inv, haveLast PROVE gaps <= lostShort + malformed + droppedIngress
  <2>1. gaps + Taken <= dFrame
    BY <1>1 DEF Inv, GapsCounted
  <2>2. dFrame + (Len(ingress) + HeldByTransport + Len(rpmsg)) <= sent
    BY <1>1, UpstreamFits, UpstreamFacts, HeldLen DEF Inv
  <2>3. /\ sent = Len(rpmsg) + lostShort + received
        /\ received = malformed + droppedIngress + HeldByTransport + Len(ingress)
                        + HeldByDispatcher + dispatched
        /\ Taken = dispatched + HeldByDispatcher
    BY <1>1 DEF Inv, Announced, Ingested, Taken
  <2>4. /\ Len(rpmsg) \in Nat /\ Len(ingress) \in Nat /\ lostShort \in Nat /\ malformed \in Nat
        /\ droppedIngress \in Nat /\ dispatched \in Nat /\ gaps \in Nat
        /\ HeldByTransport \in Nat /\ HeldByDispatcher \in Nat /\ dFrame \in Nat
    BY <1>1, Lengths, HeldLen, FramesInt DEF Inv, Typed, DispatcherTypes
  <2> QED BY <2>1, <2>2, <2>3, <2>4
<1>2. ASSUME Inv, ~haveLast PROVE gaps <= lostShort + malformed + droppedIngress
  <2>1. gaps = 0 /\ lostShort \in Nat /\ malformed \in Nat /\ droppedIngress \in Nat
    BY <1>2, Lengths DEF Inv, GapsCounted
  <2> QED BY <2>1
<1>3. ASSUME Inv, haveLast, gaps = 0
      PROVE  dispatched + Len(InDispatcher) = dFrame - firstFrame + 1
  <2>1. Taken + firstFrame = dFrame + 1
    BY <1>3 DEF Inv, GapsCounted
  <2>2. /\ Taken = dispatched + Len(InDispatcher)
        /\ dispatched \in Nat /\ Len(InDispatcher) \in Nat /\ dFrame \in Nat /\ firstFrame \in Nat
    BY <1>3, Lengths, HeldLen, FramesInt DEF Inv, Typed, DispatcherTypes, Taken
  <2> QED BY <2>1, <2>2
<1>4. Inv => GapsExplained
  BY <1>1, <1>2, <1>3 DEF GapsExplained
<1> QED BY <1>4, Invariance, PTL
=============================================================================
