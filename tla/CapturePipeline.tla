-------------------------- MODULE CapturePipeline --------------------------
(***************************************************************************)
(* The capture program of k3-code: main, and the transport, dispatcher,    *)
(* DSP and persistence threads, joined by three ring buffers (BoundedFifo, *)
(* which SpscRingBuffer implements).                                       *)
(*                                                                         *)
(*   R5F --rpmsg--> transport --ingress--> dispatcher --dspQ----> DSP/UI   *)
(*                                              \-----persistQ--> disk     *)
(*                                                                         *)
(* A step is one access to state that another thread uses; what a thread   *)
(* does with its own state goes with the access before it.  Frames are     *)
(* numbered in the order in which the R5F core announces them.             *)
(***************************************************************************)
EXTENDS Integers, Sequences

CONSTANTS
    NFrames,      (* bound: descriptors announced by the R5F *)
    IngressCap,   (* AppConfig.ingress_capacity *)
    RingCap,      (* AppConfig.ring_capacity *)
    FlushFrames,  (* AppConfig.persist_flush_bytes, in frames *)
    SeqMod,       (* 2^32: sequence numbers are uint32_t *)
    SeqStart      (* the sequence number of frame 0, for the wrap-around *)

ASSUME PipelineAssumption ==
    /\ NFrames \in Nat /\ IngressCap \in Nat \ {0} /\ RingCap \in Nat \ {0}
    /\ FlushFrames \in Nat \ {0}
    /\ SeqMod \in Nat \ {0} /\ SeqStart \in 0 .. SeqMod - 1

Frames == 1 .. NFrames
None == 0
(* Mutation: sequence arithmetic in a wider type. *)
SeqOfUnwrapped(f) == SeqStart + f

SeqOf(f) == (SeqStart + f) % SeqMod     \* RpmsgDataDescriptor.sequence

VARIABLES
    rpmsg, sent,                                         \* external: the R5F and its channel
    tRunning, tPc, tFrame, received, malformed, droppedIngress, lostShort,
    ingress,
    dRunning, dPc, dFrame, dispatched, droppedDsp, droppedPersist, gaps,
    haveLast, lastSeq, firstFrame,
    dspQ, sRunning, sPc, sFrame, posted, nPosted,
    persistQ, pRunning, pPc, pFrame, cache, disk, ioFailed,
    mPc

r5f == <<rpmsg, sent>>
tCounts == <<received, malformed, droppedIngress, lostShort>>
transport == <<tRunning, tPc, tFrame, tCounts>>
dCounts == <<dispatched, droppedDsp, droppedPersist>>
dSeq == <<gaps, haveLast, lastSeq, firstFrame>>
dispatcher == <<dRunning, dPc, dFrame, dCounts, dSeq>>
dsp == <<sRunning, sPc, sFrame, posted, nPosted>>
persist == <<pRunning, pPc, pFrame, cache, disk, ioFailed>>
queues == <<ingress, dspQ, persistQ>>
vars == <<r5f, transport, dispatcher, dsp, persist, queues, mPc>>

(* The three ring buffers; got is the frame in the consumer's hand. *)
IngressQ == INSTANCE BoundedFifo WITH
    Values <- Frames, Capacity <- IngressCap, Nil <- None, q <- ingress, got <- dFrame
DspQ == INSTANCE BoundedFifo WITH
    Values <- Frames, Capacity <- RingCap, Nil <- None, q <- dspQ, got <- sFrame
PersistQ == INSTANCE BoundedFifo WITH
    Values <- Frames, Capacity <- RingCap, Nil <- None, q <- persistQ, got <- pFrame

Init ==
    /\ rpmsg = <<>> /\ sent = 0
    /\ tRunning = FALSE /\ tPc = "off" /\ tFrame = None
    /\ received = 0 /\ malformed = 0 /\ droppedIngress = 0 /\ lostShort = 0
    /\ IngressQ!Init /\ DspQ!Init /\ PersistQ!Init
    /\ dRunning = FALSE /\ dPc = "off"
    /\ dispatched = 0 /\ droppedDsp = 0 /\ droppedPersist = 0 /\ gaps = 0
    /\ haveLast = FALSE /\ lastSeq = 0 /\ firstFrame = None
    /\ sRunning = FALSE /\ sPc = "off" /\ posted = None /\ nPosted = 0
    /\ pRunning = FALSE /\ pPc = "off" /\ cache = <<>> /\ disk = <<>> /\ ioFailed = FALSE
    /\ mPc = "initialize"

-----------------------------------------------------------------------------
(* The R5F core announces a frame by an rpmsg message.  A descriptor may   *)
(* fail the checks of build_frame, a message may have the wrong length.    *)
R5fSend(kind) ==
    /\ sent < NFrames
    /\ sent' = sent + 1
    /\ rpmsg' = Append(rpmsg, [id |-> sent + 1, kind |-> kind])
    /\ UNCHANGED <<transport, dispatcher, dsp, persist, queues, mPc>>

-----------------------------------------------------------------------------
(* SharedMemoryTransport::ingest_loop *)

TransportOthers == UNCHANGED <<sent, dispatcher, dsp, persist, mPc>>

(* while (running_) *)
TransportCheck ==
    /\ tPc = "check"
    /\ tPc' = IF tRunning THEN "poll" ELSE "done"
    /\ UNCHANGED <<rpmsg, queues, tRunning, tFrame, tCounts>>
    /\ TransportOthers

(* poll: a timeout or EINTR, data, or an error that ends the thread *)
TransportPoll ==
    /\ tPc = "poll"
    /\ \/ tPc' = "check" /\ UNCHANGED tRunning
       \/ rpmsg # <<>> /\ tPc' = "read" /\ UNCHANGED tRunning
       \/ tPc' = "done" /\ tRunning' = FALSE
    /\ UNCHANGED <<rpmsg, queues, tFrame, tCounts>>
    /\ TransportOthers

(* read_descriptor returns false: the channel is empty or read() fails, or  *)
(* a message of the wrong length has been consumed; back to poll            *)
TransportReadFails ==
    /\ tPc = "read"
    /\ \/ UNCHANGED <<rpmsg, lostShort>>
       \/ /\ rpmsg # <<>> /\ Head(rpmsg).kind = "short"
          /\ rpmsg' = Tail(rpmsg)
          /\ lostShort' = lostShort + 1
    /\ tPc' = "check"
    /\ UNCHANGED <<queues, tRunning, tFrame, received, malformed, droppedIngress>>
    /\ TransportOthers

(* read_descriptor returns true; build_frame copies the samples or rejects *)
TransportRead ==
    /\ tPc = "read"
    /\ rpmsg # <<>> /\ Head(rpmsg).kind # "short"
    /\ rpmsg' = Tail(rpmsg)
    /\ received' = received + 1
    /\ \/ /\ Head(rpmsg).kind = "malformed"
          /\ malformed' = malformed + 1
          /\ UNCHANGED <<tPc, tFrame>>
       \/ /\ Head(rpmsg).kind = "ok"
          /\ tFrame' = Head(rpmsg).id
          /\ tPc' = "push"
          /\ UNCHANGED malformed
    /\ UNCHANGED <<queues, tRunning, droppedIngress, lostShort>>
    /\ TransportOthers

TransportPush ==
    /\ tPc = "push"
    /\ \/ IngressQ!Push(tFrame) /\ UNCHANGED droppedIngress
       \/ IngressQ!Full /\ droppedIngress' = droppedIngress + 1 /\ UNCHANGED ingress
    /\ tPc' = "read"
    /\ tFrame' = None
    /\ UNCHANGED <<rpmsg, dspQ, persistQ, tRunning, received, malformed, lostShort>>
    /\ TransportOthers

Transport == TransportCheck \/ TransportPoll \/ TransportReadFails \/ TransportRead
                \/ TransportPush

-----------------------------------------------------------------------------
(* FrameDispatcher::dispatch_loop *)

DispatcherOthers == UNCHANGED <<r5f, transport, dsp, persist, mPc>>

(* while (running_ || ... *)
DispatchCheck ==
    /\ dPc = "check"
    /\ dPc' = IF dRunning THEN "pop" ELSE "size"
    /\ UNCHANGED <<queues, dRunning, dFrame, dCounts, dSeq>>
    /\ DispatcherOthers

(* Mutation: the loop condition is running_ alone. *)
DispatchSizeIgnored ==
    /\ dPc = "size"
    /\ dPc' = "done"
    /\ UNCHANGED <<queues, dRunning, dFrame, dCounts, dSeq>>
    /\ DispatcherOthers

(* ... ingress_queue_.approx_size() > 0) *)
DispatchSize ==
    /\ dPc = "size"
    /\ dPc' = IF IngressQ!Empty THEN "done" ELSE "pop"
    /\ UNCHANGED <<queues, dRunning, dFrame, dCounts, dSeq>>
    /\ DispatcherOthers

(* Mutation: break instead of continue when the queue is empty. *)
DispatchEmptyBreaks ==
    /\ dPc = "pop" /\ IngressQ!Empty
    /\ dPc' = "done"
    /\ UNCHANGED <<queues, dRunning, dFrame, dCounts, dSeq>>
    /\ DispatcherOthers

DispatchEmpty ==
    /\ dPc = "pop" /\ IngressQ!Empty
    /\ dPc' = "check"
    /\ UNCHANGED <<queues, dRunning, dFrame, dCounts, dSeq>>
    /\ DispatcherOthers

(* Mutation: expected = last_sequence_ + 1 without the wrap of uint32_t. *)
DispatchPopUnwrapped ==
    /\ dPc = "pop" /\ IngressQ!Pop
    /\ dPc' = "dsp"
    /\ gaps' = IF haveLast /\ SeqOf(dFrame') # lastSeq + 1 THEN gaps + 1 ELSE gaps
    /\ lastSeq' = SeqOf(dFrame')
    /\ haveLast' = TRUE
    /\ firstFrame' = IF haveLast THEN firstFrame ELSE dFrame'
    /\ UNCHANGED <<dspQ, persistQ, dRunning, dispatched, droppedDsp, droppedPersist>>
    /\ DispatcherOthers

(* pop and the sequence check *)
DispatchPop ==
    /\ dPc = "pop" /\ IngressQ!Pop
    /\ dPc' = "dsp"
    /\ LET seq == SeqOf(dFrame')
           gap == haveLast /\ seq # (lastSeq + 1) % SeqMod
       IN  /\ gaps' = IF gap THEN gaps + 1 ELSE gaps
           /\ lastSeq' = seq
    /\ haveLast' = TRUE
    /\ firstFrame' = IF haveLast THEN firstFrame ELSE dFrame'
    /\ UNCHANGED <<dspQ, persistQ, dRunning, dispatched, droppedDsp, droppedPersist>>
    /\ DispatcherOthers

(* Mutation: a full DSP queue is not counted. *)
DispatchToDspUncounted ==
    /\ dPc = "dsp"
    /\ DspQ!Push(dFrame) \/ (DspQ!Full /\ UNCHANGED dspQ)
    /\ dPc' = "persist"
    /\ UNCHANGED <<ingress, persistQ, dRunning, dFrame, dCounts, dSeq>>
    /\ DispatcherOthers

DispatchToDsp ==
    /\ dPc = "dsp"
    /\ \/ DspQ!Push(dFrame) /\ UNCHANGED droppedDsp
       \/ DspQ!Full /\ droppedDsp' = droppedDsp + 1 /\ UNCHANGED dspQ
    /\ dPc' = "persist"
    /\ UNCHANGED <<ingress, persistQ, dRunning, dFrame, dispatched, droppedPersist, dSeq>>
    /\ DispatcherOthers

(* Mutation: a full persistence queue is not counted. *)
DispatchToPersistUncounted ==
    /\ dPc = "persist"
    /\ PersistQ!Push(dFrame) \/ (PersistQ!Full /\ UNCHANGED persistQ)
    /\ dispatched' = dispatched + 1
    /\ dPc' = "check"
    /\ UNCHANGED <<ingress, dspQ, dRunning, dFrame, droppedDsp, droppedPersist, dSeq>>
    /\ DispatcherOthers

DispatchToPersist ==
    /\ dPc = "persist"
    /\ \/ PersistQ!Push(dFrame) /\ UNCHANGED droppedPersist
       \/ PersistQ!Full /\ droppedPersist' = droppedPersist + 1 /\ UNCHANGED persistQ
    /\ dispatched' = dispatched + 1
    /\ dPc' = "check"
    /\ UNCHANGED <<ingress, dspQ, dRunning, dFrame, droppedDsp, dSeq>>
    /\ DispatcherOthers

Dispatcher == DispatchCheck \/ DispatchSize \/ DispatchEmpty \/ DispatchPop
                \/ DispatchToDsp \/ DispatchToPersist

-----------------------------------------------------------------------------
(* DspEngineWorker::dsp_loop *)

DspOthers == UNCHANGED <<r5f, transport, dispatcher, persist, ingress, persistQ, mPc>>

(* while (running_): what is left in the queue at stop is not processed *)
DspCheck ==
    /\ sPc = "check"
    /\ sPc' = IF sRunning THEN "pop" ELSE "done"
    /\ UNCHANGED <<dspQ, sRunning, sFrame, posted, nPosted>>
    /\ DspOthers

DspPop ==
    /\ sPc = "pop"
    /\ \/ DspQ!Empty /\ sPc' = "check" /\ UNCHANGED <<dspQ, sFrame>>
       \/ DspQ!Pop /\ sPc' = "post"
    /\ UNCHANGED <<sRunning, posted, nPosted>>
    /\ DspOthers

(* process_block, then invokeMethod(enqueue_frame, QueuedConnection) *)
DspPost ==
    /\ sPc = "post"
    /\ posted' = sFrame /\ nPosted' = nPosted + 1
    /\ sPc' = "check"
    /\ UNCHANGED <<dspQ, sRunning, sFrame>>
    /\ DspOthers

DspWorker == DspCheck \/ DspPop \/ DspPost

-----------------------------------------------------------------------------
(* PersistenceWorker::persist_loop *)

PersistOthers == UNCHANGED <<r5f, transport, dispatcher, dsp, ingress, dspQ>>

(* Mutation: write_cache_.clear() forgotten. *)
FlushOkKeepsCache == disk' = disk \o cache /\ UNCHANGED <<cache, ioFailed>>

(* flush_cache: everything is written, or the write fails after some of it *)
(* and the cache is kept whole.  The parts of this loop are the subject of *)
(* a module of their own.                                                  *)
FlushOk ==
    /\ disk' = disk \o cache
    /\ cache' = <<>>
    /\ UNCHANGED ioFailed
FlushFails ==
    /\ cache # <<>>
    /\ \E k \in 0 .. Len(cache) : disk' = disk \o SubSeq(cache, 1, k)
    /\ ioFailed' = TRUE
    /\ UNCHANGED cache

PersistCheck ==
    /\ pPc = "check"
    /\ pPc' = IF pRunning THEN "pop" ELSE "size"
    /\ UNCHANGED <<persistQ, pRunning, pFrame, cache, disk, ioFailed, mPc>>
    /\ PersistOthers

PersistSize ==
    /\ pPc = "size"
    /\ pPc' = IF PersistQ!Empty THEN "done" ELSE "pop"
    /\ UNCHANGED <<persistQ, pRunning, pFrame, cache, disk, ioFailed, mPc>>
    /\ PersistOthers

(* pop and append_block *)
PersistPop ==
    /\ pPc = "pop"
    /\ \/ /\ PersistQ!Empty
          /\ pPc' = "check"
          /\ UNCHANGED <<persistQ, pFrame, cache>>
       \/ /\ PersistQ!Pop
          /\ cache' = Append(cache, pFrame')
          /\ pPc' = IF Len(cache') >= FlushFrames THEN "flush" ELSE "check"
    /\ UNCHANGED <<pRunning, disk, ioFailed, mPc>>
    /\ PersistOthers

PersistFlush ==
    /\ pPc = "flush"
    /\ \/ FlushOk /\ pPc' = "check" /\ UNCHANGED pRunning
       \/ FlushFails /\ pPc' = "done" /\ pRunning' = FALSE
    /\ UNCHANGED <<persistQ, pFrame, mPc>>
    /\ PersistOthers

PersistWorker == PersistCheck \/ PersistSize \/ PersistPop \/ PersistFlush

-----------------------------------------------------------------------------
(* main *)

tState == <<tRunning, tPc>>
dState == <<dRunning, dPc>>
sState == <<sRunning, sPc>>
MainOthers == UNCHANGED <<r5f, queues, tFrame, tCounts, dFrame, dCounts, dSeq, sFrame, posted,
                         nPosted>>

(* transport.initialize(): on failure main returns 1 *)
MainInitialize ==
    /\ mPc = "initialize"
    /\ mPc' \in {"startPersist", "exited"}
    /\ UNCHANGED <<tState, dState, sState, persist>>
    /\ MainOthers

(* persist_worker.start(): the file opens and the thread runs, or main     *)
(* returns 1                                                               *)
MainStartPersist ==
    /\ mPc = "startPersist"
    /\ \/ mPc' = "startTransport" /\ pRunning' = TRUE /\ pPc' = "check"
       \/ mPc' = "exited" /\ UNCHANGED <<pRunning, pPc>>
    /\ UNCHANGED <<tState, dState, sState, pFrame, cache, disk, ioFailed>>
    /\ MainOthers

MainStartTransport ==
    /\ mPc = "startTransport"
    /\ mPc' = "startDispatcher"
    /\ tRunning' = TRUE /\ tPc' = "check"
    /\ UNCHANGED <<dState, sState, persist>>
    /\ MainOthers

MainStartDispatcher ==
    /\ mPc = "startDispatcher"
    /\ mPc' = "startDsp"
    /\ dRunning' = TRUE /\ dPc' = "check"
    /\ UNCHANGED <<tState, sState, persist>>
    /\ MainOthers

MainStartDsp ==
    /\ mPc = "startDsp"
    /\ mPc' = "exec"
    /\ sRunning' = TRUE /\ sPc' = "check"
    /\ UNCHANGED <<tState, dState, persist>>
    /\ MainOthers

(* The user closes the window: aboutToQuit runs the four stop() calls in   *)
(* turn, each a store of running_ followed by a join.                      *)
MainQuit ==
    /\ mPc = "exec"
    /\ mPc' = "joinTransport"
    /\ tRunning' = FALSE
    /\ UNCHANGED <<tPc, dState, sState, persist>>
    /\ MainOthers

(* Mutation: dispatcher.stop() joins without clearing running_. *)
MainJoinTransportOnly ==
    /\ mPc = "joinTransport" /\ tPc = "done"
    /\ mPc' = "joinDispatcher"
    /\ UNCHANGED <<tState, dState, sState, persist>>
    /\ MainOthers

MainJoinTransport ==
    /\ mPc = "joinTransport" /\ tPc = "done"
    /\ mPc' = "joinDispatcher"
    /\ dRunning' = FALSE
    /\ UNCHANGED <<tState, dPc, sState, persist>>
    /\ MainOthers

MainJoinDispatcher ==
    /\ mPc = "joinDispatcher" /\ dPc = "done"
    /\ mPc' = "joinDsp"
    /\ sRunning' = FALSE
    /\ UNCHANGED <<tState, dState, sPc, persist>>
    /\ MainOthers

MainJoinDsp ==
    /\ mPc = "joinDsp" /\ sPc = "done"
    /\ mPc' = "joinPersist"
    /\ pRunning' = FALSE
    /\ UNCHANGED <<tState, dState, sState, pPc, pFrame, cache, disk, ioFailed>>
    /\ MainOthers

MainJoinPersist ==
    /\ mPc = "joinPersist" /\ pPc = "done"
    /\ mPc' = "drain"
    /\ UNCHANGED <<tState, dState, sState, persist>>
    /\ MainOthers

(* drain_pending_blocks: one frame per step, flushed at the threshold, the *)
(* result ignored                                                          *)
MainDrain ==
    /\ mPc = "drain"
    /\ \/ /\ PersistQ!Empty
          /\ mPc' = "finalFlush"
          /\ UNCHANGED <<persistQ, pFrame, cache>>
       \/ /\ PersistQ!Pop
          /\ cache' = Append(cache, pFrame')
          /\ mPc' = IF Len(cache') >= FlushFrames THEN "drainFlush" ELSE "drain"
    /\ UNCHANGED <<r5f, transport, dispatcher, dsp, ingress, dspQ, pRunning, pPc, disk, ioFailed>>

MainDrainFlush ==
    /\ mPc = "drainFlush"
    /\ mPc' = "drain"
    /\ FlushOk \/ FlushFails
    /\ UNCHANGED <<tState, dState, sState, pRunning, pPc, pFrame>>
    /\ MainOthers

(* Mutation: stop() closes the file without flushing the cache. *)
MainNoFinalFlush ==
    /\ mPc = "finalFlush"
    /\ mPc' = "exited"
    /\ UNCHANGED <<tState, dState, sState, persist>>
    /\ MainOthers

(* the flush_cache() and close of stop(), result ignored; the destructors' *)
(* second stop() finds the queue empty and the file closed                 *)
MainFinalFlush ==
    /\ mPc = "finalFlush"
    /\ mPc' = "exited"
    /\ FlushOk \/ FlushFails
    /\ UNCHANGED <<tState, dState, sState, pRunning, pPc, pFrame>>
    /\ MainOthers

MainStart == MainInitialize \/ MainStartPersist \/ MainStartTransport
                \/ MainStartDispatcher \/ MainStartDsp
MainStop == MainJoinTransport \/ MainJoinDispatcher \/ MainJoinDsp \/ MainJoinPersist
                \/ MainDrain \/ MainDrainFlush \/ MainFinalFlush

-----------------------------------------------------------------------------
(* A process that has exited stays so. *)
Exited == mPc = "exited" /\ UNCHANGED vars

Next ==
    \/ \E kind \in {"ok", "malformed", "short"} : R5fSend(kind)
    \/ Transport \/ Dispatcher \/ DspWorker \/ PersistWorker
    \/ MainStart \/ MainQuit \/ MainStop
    \/ Exited

Spec == Init /\ [][Next]_vars

(* Every thread is scheduled; poll reports data that stays available.      *)
(* Nothing obliges the user to quit or the R5F to send.                    *)
Fairness ==
    /\ WF_vars(Transport) /\ SF_vars(TransportPoll /\ tPc' = "read")
    /\ WF_vars(Dispatcher) /\ WF_vars(DspWorker) /\ WF_vars(PersistWorker)
    /\ WF_vars(MainStart) /\ WF_vars(MainStop)

FairSpec == Spec /\ Fairness

-----------------------------------------------------------------------------
TypeOK ==
    /\ sent \in 0 .. NFrames
    /\ rpmsg \in Seq([id : Frames, kind : {"ok", "malformed", "short"}])
    /\ tRunning \in BOOLEAN /\ dRunning \in BOOLEAN /\ sRunning \in BOOLEAN /\ pRunning \in BOOLEAN
    /\ tPc \in {"off", "check", "poll", "read", "push", "done"}
    /\ dPc \in {"off", "check", "size", "pop", "dsp", "persist", "done"}
    /\ sPc \in {"off", "check", "pop", "post", "done"}
    /\ pPc \in {"off", "check", "size", "pop", "flush", "done"}
    /\ mPc \in {"initialize", "startPersist", "startTransport", "startDispatcher", "startDsp",
                "exec", "joinTransport", "joinDispatcher", "joinDsp", "joinPersist",
                "drain", "drainFlush", "finalFlush", "exited"}
    /\ {tFrame, dFrame, sFrame, pFrame, firstFrame, posted} \subseteq Frames \cup {None}
    /\ tPc = "push" => tFrame # None
    /\ {received, malformed, droppedIngress, lostShort, dispatched, droppedDsp,
        droppedPersist, gaps, nPosted} \subseteq Nat
    /\ haveLast \in BOOLEAN /\ lastSeq \in 0 .. SeqMod - 1
    /\ ingress \in Seq(Frames) /\ Len(ingress) <= IngressCap
    /\ dspQ \in Seq(Frames) /\ Len(dspQ) <= RingCap
    /\ persistQ \in Seq(Frames) /\ Len(persistQ) <= RingCap
    /\ cache \in Seq(Frames) /\ disk \in Seq(Frames) /\ ioFailed \in BOOLEAN

(* The frame in a thread's hand, between the two queues it joins. *)
Hand(held, f) == IF held THEN <<f>> ELSE <<>>
InTransport == Hand(tPc = "push", tFrame)
InDispatcher == Hand(dPc \in {"dsp", "persist"}, dFrame)
InDsp == Hand(sPc = "post", sFrame)

(* Every descriptor is accounted for: the drop counters of stats() explain *)
(* every frame that is neither under way nor delivered, on the way to the  *)
(* file, and on the way to the user interface, where the frame in the      *)
(* dispatcher's hand belongs once it has been offered to the DSP queue.    *)
(* Only messages of the wrong length disappear without a counter           *)
(* (lostShort and nPosted are not in the code).                            *)
FramesAccountedFor ==
    /\ sent = Len(rpmsg) + lostShort + received
    /\ received = malformed + droppedIngress + Len(InTransport) + Len(ingress)
                    + Len(InDispatcher) + dispatched
    /\ ~ioFailed => dispatched = droppedPersist + Len(persistQ) + Len(cache) + Len(disk)
    /\ dispatched + Len(Hand(dPc = "persist", dFrame))
         = droppedDsp + Len(dspQ) + Len(InDsp) + nPosted

Increasing(s) == \A i, j \in 1 .. Len(s) : i < j => s[i] < s[j]
Ids == [i \in 1 .. Len(rpmsg) |-> rpmsg[i].id]
Upstream == ingress \o InTransport \o Ids

(* No reordering and no duplication anywhere between the R5F and the file, *)
(* nor between the R5F and the user interface.                             *)
StreamOrder ==
    /\ ~ioFailed => Increasing(disk \o cache \o persistQ \o InDispatcher \o Upstream)
    /\ Increasing(cache \o persistQ \o InDispatcher \o Upstream)
    /\ Increasing(Hand(posted # None, posted) \o InDsp \o dspQ
                    \o Hand(dPc = "dsp", dFrame) \o Upstream)

(* sequence_gap is neither blind nor alarmist, also across the wrap of the *)
(* sequence number: without a gap the dispatcher has taken every frame     *)
(* from its first to its last, and each gap has a loss upstream behind it. *)
GapsExplained ==
    /\ haveLast /\ gaps = 0 =>
           dispatched + Len(InDispatcher) = dFrame - firstFrame + 1
    /\ gaps <= lostShort + malformed + droppedIngress

(* A thread outlives the one that feeds it, and stops with nothing left to *)
(* take: the exit conditions look at running_ first and then at the queue. *)
(* (The DSP thread gives up its queue; a persistence thread that could not *)
(* write has stopped on its own.)                                          *)
ConsumersOutliveProducers ==
    /\ dPc = "done" => tPc = "done" /\ ingress = <<>>
    /\ sPc = "done" => dPc = "done"
    /\ pPc = "done" /\ ~ioFailed => dPc = "done" /\ persistQ = <<>>

(* After a normal run the file holds every frame the dispatcher handed     *)
(* over, and the rest is in the counters.                                  *)
NothingLostAtExit ==
    mPc = "exited" /\ tPc # "off" =>
        /\ received = malformed + droppedIngress + dispatched
        /\ ~ioFailed => Len(disk) = dispatched - droppedPersist

(* Closing the window ends the process: no join waits for ever. *)
QuitTerminates == mPc = "joinTransport" ~> mPc = "exited"

(* A frame that got into the ingress queue reaches the dispatcher, whoever *)
(* stops or fails meanwhile.                                               *)
AcceptedIsDispatched ==
    \A f \in Frames : (ingress # <<>> /\ Head(ingress) = f) ~> dFrame = f
=============================================================================
