------------------------- MODULE PersistenceWorker -------------------------
(***************************************************************************)
(* k3-code/src/persistence_worker.cpp: one thread takes frames from the    *)
(* persistence queue, collects their samples in write_cache_ and writes    *)
(* the cache out when it has reached persist_flush_bytes; stop(), in the   *)
(* main thread, joins it, drains the queue, writes the rest and closes.    *)
(*                                                                         *)
(* CapturePipeline has flush_cache as one step.  Here write() takes any    *)
(* non-empty part of what is left or fails, and fdatasync may fail.  A     *)
(* write interrupted by a signal changes nothing and is a stuttering step. *)
(* The frames accepted by the queue are numbered; sample i of frame f is   *)
(* the number (f - 1) * BlockLen + i.                                      *)
(***************************************************************************)
EXTENDS Integers, Sequences

CONSTANTS
    NFrames,   (* bound: frames the dispatcher hands over *)
    BlockLen,  (* samples per frame *)
    QueueCap,  (* AppConfig.ring_capacity *)
    FlushLen   (* AppConfig.persist_flush_bytes, in samples *)

ASSUME PersistAssumption ==
    /\ NFrames \in Nat
    /\ {BlockLen, QueueCap, FlushLen} \subseteq Nat \ {0}

VARIABLES
    fsync,      (* AppConfig.persist_fsync_on_flush *)
    accepted,   (* external: frames the dispatcher has pushed *)
    queue, frame,
    running, wPc,
    mPc,        (* the main thread, in start() and stop() *)
    fPc,        (* the progress of flush_cache, for whichever thread runs it *)
    open,       (* output_fd_ >= 0 *)
    cache,      (* write_cache_ *)
    remaining,  (* samples of the cache still to be written *)
    file,       (* external: the contents of the file ... *)
    synced,     (* ... and how much of it has reached the device *)
    ioError     (* some write or fdatasync has failed *)

flush == <<fPc, open, cache, remaining, file, synced, ioError>>
vars == <<fsync, accepted, queue, frame, running, wPc, mPc, flush>>

Queue == INSTANCE BoundedFifo WITH
    Values <- 1 .. NFrames, Capacity <- QueueCap, Nil <- 0, q <- queue, got <- frame

Samples(f) == [i \in 1 .. BlockLen |-> (f - 1) * BlockLen + i]

Init ==
    /\ fsync \in BOOLEAN
    /\ accepted = 0 /\ Queue!Init
    /\ running = FALSE /\ wPc = "off" /\ mPc = "start" /\ fPc = "none"
    /\ open = FALSE /\ cache = <<>> /\ remaining = 0
    /\ file = <<>> /\ synced = 0 /\ ioError = FALSE

-----------------------------------------------------------------------------
(* The dispatcher, until main has joined it, which it does before stop();  *)
(* a push into a full queue drops the frame.                               *)
Accept ==
    /\ accepted < NFrames /\ mPc = "run"
    /\ Queue!Push(accepted + 1)
    /\ accepted' = accepted + 1
    /\ UNCHANGED <<fsync, running, wPc, mPc, flush>>

(* start(): the file is truncated and opened, or the worker does not run *)
Start ==
    /\ mPc = "start"
    /\ \/ /\ open' = TRUE /\ running' = TRUE
          /\ wPc' = "check" /\ mPc' = "run"
       \/ mPc' = "failed" /\ UNCHANGED <<open, running, wPc>>
    /\ UNCHANGED <<fsync, accepted, queue, frame, fPc, cache, remaining, file, synced, ioError>>

-----------------------------------------------------------------------------
(* flush_cache: called in state wPc = "flush" by the worker and in         *)
(* mPc \in {"drainFlush", "finalFlush"} by stop()                          *)

FlushOthers == UNCHANGED <<fsync, accepted, queue, frame, running, wPc, mPc, open>>

(* Mutation: after a partial write, the next one starts over. *)
FlushWriteRestarts ==
    /\ fPc = "write" /\ remaining > 0
    /\ \E k \in 1 .. remaining :
           /\ file' = file \o SubSeq(cache, 1, k)
           /\ remaining' = remaining - k
    /\ UNCHANGED <<fPc, cache, synced, ioError>>
    /\ FlushOthers

(* write() takes k > 0 samples *)
FlushWrite ==
    /\ fPc = "write" /\ remaining > 0
    /\ \E k \in 1 .. remaining :
           LET done == Len(cache) - remaining
           IN  /\ file' = file \o SubSeq(cache, done + 1, done + k)
               /\ remaining' = remaining - k
    /\ UNCHANGED <<fPc, cache, synced, ioError>>
    /\ FlushOthers

(* Mutation: a failed flush discards the cache. *)
FlushFailsClears ==
    /\ fPc = "write"
    /\ remaining > 0 \/ fsync
    /\ ioError' = TRUE
    /\ fPc' = "failed"
    /\ cache' = <<>>
    /\ UNCHANGED <<remaining, file, synced>>
    /\ FlushOthers

(* write() or fdatasync() fails: return false, the cache stays as it is *)
FlushFails ==
    /\ fPc = "write"
    /\ remaining > 0 \/ fsync
    /\ ioError' = TRUE
    /\ fPc' = "failed"
    /\ remaining' = 0
    /\ UNCHANGED <<cache, file, synced>>
    /\ FlushOthers

(* Mutation: fdatasync is not called. *)
FlushSucceedsUnsynced ==
    /\ fPc = "write" /\ remaining = 0
    /\ cache' = <<>>
    /\ fPc' = "done"
    /\ UNCHANGED <<remaining, file, synced, ioError>>
    /\ FlushOthers

(* all written, and synced if configured: clear the cache, return true *)
FlushSucceeds ==
    /\ fPc = "write" /\ remaining = 0
    /\ synced' = IF fsync THEN Len(file) ELSE synced
    /\ cache' = <<>>
    /\ fPc' = "done"
    /\ UNCHANGED <<remaining, file, ioError>>
    /\ FlushOthers

(* the call: nothing to do without a file or samples *)
CallFlush ==
    /\ IF open /\ cache # <<>>
       THEN fPc' = "write" /\ remaining' = Len(cache)
       ELSE fPc' = "done" /\ UNCHANGED remaining
    /\ UNCHANGED <<open, cache, file, synced, ioError>>

FlushCalled ==
    /\ fPc = "none"
    /\ wPc = "flush" \/ mPc \in {"drainFlush", "finalFlush"}
    /\ CallFlush
    /\ UNCHANGED <<fsync, accepted, queue, frame, running, wPc, mPc>>

Flush == FlushCalled \/ FlushWrite \/ FlushFails \/ FlushSucceeds

(* the caller goes on with the result *)
Returned(ok) ==
    /\ fPc = IF ok THEN "done" ELSE "failed"
    /\ fPc' = "none"
    /\ UNCHANGED <<cache, remaining, file, synced, ioError>>

-----------------------------------------------------------------------------
(* persist_loop *)

WorkerCheck ==
    /\ wPc = "check"
    /\ wPc' = IF running THEN "pop" ELSE "size"
    /\ UNCHANGED <<fsync, accepted, queue, frame, running, mPc, flush>>

WorkerSize ==
    /\ wPc = "size"
    /\ wPc' = IF Queue!Empty THEN "done" ELSE "pop"
    /\ UNCHANGED <<fsync, accepted, queue, frame, running, mPc, flush>>

(* pop and append_block; flush is called at the threshold only *)
Take(pc, again, full) ==
    /\ Queue!Pop
    /\ cache' = cache \o Samples(frame')
    /\ pc' = IF Len(cache') >= FlushLen THEN full ELSE again
    /\ UNCHANGED <<fsync, accepted, running, fPc, open, remaining, file, synced, ioError>>

WorkerPop ==
    /\ wPc = "pop"
    /\ \/ Take(wPc, "check", "flush") /\ UNCHANGED mPc
       \/ /\ Queue!Empty /\ wPc' = "check"
          /\ UNCHANGED <<fsync, accepted, queue, frame, running, mPc, flush>>

(* Mutation: a failed flush does not end the loop. *)
WorkerFlushedGoesOn ==
    /\ wPc = "flush"
    /\ \E ok \in BOOLEAN : Returned(ok)
    /\ wPc' = "check"
    /\ UNCHANGED <<fsync, accepted, queue, frame, running, mPc, open>>

(* a failed flush ends the thread *)
WorkerFlushed ==
    /\ wPc = "flush"
    /\ \/ Returned(TRUE) /\ wPc' = "check" /\ UNCHANGED running
       \/ Returned(FALSE) /\ wPc' = "done" /\ running' = FALSE
    /\ UNCHANGED <<fsync, accepted, queue, frame, mPc, open>>

Worker == WorkerCheck \/ WorkerSize \/ WorkerPop \/ WorkerFlushed

-----------------------------------------------------------------------------
(* stop() *)

Stop ==
    /\ mPc = "run"
    /\ running' = FALSE
    /\ mPc' = "join"
    /\ UNCHANGED <<fsync, accepted, queue, frame, wPc, flush>>

Join ==
    /\ mPc = "join" /\ wPc = "done"
    /\ mPc' = "drain"
    /\ UNCHANGED <<fsync, accepted, queue, frame, running, wPc, flush>>

(* Mutation: the queue is not drained at stop. *)
DrainSkipped ==
    /\ mPc = "drain" /\ mPc' = "finalFlush"
    /\ UNCHANGED <<fsync, accepted, queue, frame, running, wPc, flush>>

(* drain_pending_blocks *)
Drain ==
    /\ mPc = "drain"
    /\ \/ Take(mPc, "drain", "drainFlush") /\ UNCHANGED wPc
       \/ /\ Queue!Empty /\ mPc' = "finalFlush"
          /\ UNCHANGED <<fsync, accepted, queue, frame, running, wPc, flush>>

(* the results of these flush_cache calls are not used *)
DrainFlushed ==
    /\ mPc = "drainFlush"
    /\ \E ok \in BOOLEAN : Returned(ok)
    /\ mPc' = "drain"
    /\ UNCHANGED <<fsync, accepted, queue, frame, running, wPc, open>>

(* flush_cache returned; close *)
Close ==
    /\ mPc = "finalFlush"
    /\ \E ok \in BOOLEAN : Returned(ok)
    /\ open' = FALSE
    /\ mPc' = "closed"
    /\ UNCHANGED <<fsync, accepted, queue, frame, running, wPc>>

(* the destructor calls stop() once more: no thread, no frame, no file *)
Destroy ==
    /\ mPc \in {"closed", "failed"}
    /\ mPc' = "exited"
    /\ UNCHANGED <<fsync, accepted, queue, frame, running, wPc, flush>>

Main == Join \/ Drain \/ DrainFlushed \/ Close \/ Destroy

Exited == mPc = "exited" /\ UNCHANGED vars

Next == Accept \/ Start \/ Flush \/ Worker \/ Stop \/ Main \/ Exited

Spec == Init /\ [][Next]_vars

-----------------------------------------------------------------------------
TypeOK ==
    /\ fsync \in BOOLEAN /\ running \in BOOLEAN /\ open \in BOOLEAN /\ ioError \in BOOLEAN
    /\ accepted \in 0 .. NFrames
    /\ queue \in Seq(1 .. NFrames) /\ Len(queue) <= QueueCap
    /\ frame \in 0 .. NFrames
    /\ wPc \in {"off", "check", "size", "pop", "flush", "done"}
    /\ mPc \in {"start", "failed", "run", "join", "drain", "drainFlush", "finalFlush",
                "closed", "exited"}
    /\ fPc \in {"none", "write", "failed", "done"}
    /\ cache \in Seq(1 .. NFrames * BlockLen) /\ file \in Seq(1 .. NFrames * BlockLen)
    /\ remaining \in 0 .. Len(cache) /\ synced \in 0 .. Len(file)

(* The part of the cache that is not in the file yet. *)
Unwritten == IF fPc = "write" THEN SubSeq(cache, Len(cache) - remaining + 1, Len(cache))
                              ELSE cache

(* As long as no I/O fails, the file is the stream of samples, in order    *)
(* and without repetition, however the writes are cut; what is not in it   *)
(* is in the cache and then in the queue.                                  *)
FileIsStream ==
    ~ioError =>
        LET sofar == file \o Unwritten
        IN  /\ Len(sofar) = (accepted - Len(queue)) * BlockLen
            /\ \A i \in 1 .. Len(sofar) : sofar[i] = i

RangeOf(s) == {s[i] : i \in 1 .. Len(s)}

(* Even when I/O fails, no sample taken from the queue is forgotten: it is *)
(* in the file, perhaps twice, or still in the cache, until the process    *)
(* ends.                                                                   *)
NothingForgotten ==
    RangeOf(file) \cup RangeOf(cache) = 1 .. (accepted - Len(queue)) * BlockLen

(* The cache does not grow beyond what start() reserves, plus what the     *)
(* queue held when the worker had to give up.                              *)
CacheBounded ==
    Len(cache) < FlushLen + BlockLen * (IF ioError THEN 1 + QueueCap ELSE 1)

(* With persist_fsync_on_flush, a power failure loses what is in memory    *)
(* only: whatever has left the cache is on the device.                     *)
CrashLosesOnlyCache ==
    fsync =>
        1 .. (accepted - Len(queue)) * BlockLen
            \subseteq RangeOf(SubSeq(file, 1, synced)) \cup RangeOf(cache)

(* When stop() has returned, the queue is empty, and without an I/O error  *)
(* every sample handed over is in the file.                                *)
StopDrains ==
    mPc \in {"closed", "exited"} =>
        /\ queue = <<>>
        /\ ~ioError => Len(file) = accepted * BlockLen
=============================================================================
