---------------------------- MODULE ShmTransport ----------------------------
(***************************************************************************)
(* k3-code/src/shm_transport.cpp: how samples get from the memory shared   *)
(* with the R5F core into frames of their own, and who may touch the       *)
(* device files and the mapping when.                                      *)
(*                                                                         *)
(* The R5F writes a block into a region of the shared memory, word by      *)
(* word, announces it by a descriptor, and goes on to the next region,     *)
(* coming back to the first after the last: nothing in the code tells it   *)
(* that a region has been read.  A word is represented by the number of    *)
(* the block it belongs to.                                                *)
(***************************************************************************)
EXTENDS Integers, Sequences

CONSTANTS
    NBlocks,   (* bound: blocks the R5F captures *)
    Regions,   (* regions it rotates through *)
    FieldSpan, (* 2^32: the descriptor's fields are uint32_t *)
    ShmSize    (* AppConfig.shm_size *)

(* The region and an offset into it are numbers that a size_t can add. *)
ASSUME ShmAssumption ==
    /\ NBlocks \in Nat /\ Regions \in Nat \ {0}
    /\ FieldSpan \in Nat \ {0} /\ ShmSize \in Nat
    /\ ShmSize + FieldSpan <= FieldSpan * FieldSpan

Blocks == 1 .. NBlocks
Region(b) == (b - 1) % Regions
Words == 1 .. 2
Resources == {"rpmsg_fd", "shm_fd", "mapping"}

VARIABLES
    shm,       (* external: the memory, a pair of words per region *)
    writing,   (* external: the block and the word the R5F writes next *)
    channel,   (* external: the blocks announced and not read yet *)
    held,      (* the resources the process has acquired and not released *)
    dataPtr,   (* shm_data_ptr_ # nullptr *)
    mPc,       (* main: initialize, start, stop *)
    running, tPc,
    desc,      (* the block whose descriptor has been read ... *)
    fields,    (* ... and the descriptor's shm_offset, sample_count and channels *)
    copied,    (* owned_samples, as far as memcpy has come *)
    frames,    (* the frames pushed to the ingress queue *)
    dspRead, persistRead   (* what the two consumers have found in each frame *)

r5f == <<shm, writing, channel>>
main == <<held, dataPtr, mPc>>
thread == <<running, tPc, desc, fields, copied, frames>>
consumers == <<dspRead, persistRead>>
vars == <<r5f, main, thread, consumers>>

Unread == <<>>

Init ==
    /\ shm = [r \in 0 .. Regions - 1 |-> [w \in Words |-> 0]]
    /\ writing = <<1, 1>> /\ channel = <<>>
    /\ held = {} /\ dataPtr = FALSE /\ mPc = "rpmsg"
    /\ running = FALSE /\ tPc = "off" /\ desc = 0 /\ fields = <<0, 0, 0>>
    /\ copied = <<>> /\ frames = <<>>
    /\ dspRead = [b \in Blocks |-> Unread] /\ persistRead = [b \in Blocks |-> Unread]

-----------------------------------------------------------------------------
(* The R5F: two words of a block, then the descriptor *)

R5fWrite ==
    LET b == writing[1]  w == writing[2]
    IN  /\ b \in Blocks
        /\ shm' = [shm EXCEPT ![Region(b)][w] = b]
        /\ writing' = IF w = 1 THEN <<b, 2>> ELSE <<b + 1, 1>>
        /\ channel' = IF w = 1 THEN channel ELSE Append(channel, b)
        /\ UNCHANGED <<main, thread, consumers>>

-----------------------------------------------------------------------------
(* initialize(): three acquisitions, each of which may fail *)

(* close_resources() *)
CloseResources == held' = {} /\ dataPtr' = FALSE

Acquire(pc, resource, next) ==
    /\ mPc = pc
    /\ held' = held \cup {resource}
    /\ mPc' = next
    /\ dataPtr' = (resource = "mapping")
    /\ UNCHANGED <<r5f, thread, consumers>>

OpenRpmsg == Acquire("rpmsg", "rpmsg_fd", "shm")
OpenShm == Acquire("shm", "shm_fd", "map")
Map == Acquire("map", "mapping", "start")      \* sysconf and mmap

(* Mutation: the failure of mmap returns without closing the files. *)
InitializeFailsLeaking ==
    /\ mPc \in {"rpmsg", "shm", "map"} /\ mPc' = "failed"
    /\ UNCHANGED <<held, dataPtr, r5f, thread, consumers>>

(* an open, sysconf or mmap fails *)
InitializeFails ==
    /\ mPc \in {"rpmsg", "shm", "map"}
    /\ mPc' = "failed"
    /\ CloseResources
    /\ UNCHANGED <<r5f, thread, consumers>>

Start ==
    /\ mPc = "start"
    /\ mPc' = "run"
    /\ running' = TRUE /\ tPc' = "check"
    /\ UNCHANGED <<held, dataPtr, desc, fields, copied, frames, r5f, consumers>>

Stop ==
    /\ mPc = "run"
    /\ mPc' = "join"
    /\ running' = FALSE
    /\ UNCHANGED <<held, dataPtr, tPc, desc, fields, copied, frames, r5f, consumers>>

(* Mutation: stop() closes before it joins. *)
StopUnjoined ==
    /\ mPc = "join" /\ mPc' = "stopped"
    /\ CloseResources
    /\ UNCHANGED <<r5f, thread, consumers>>

(* join, then close_resources() *)
StopJoined ==
    /\ mPc = "join" /\ tPc = "done"
    /\ mPc' = "stopped"
    /\ CloseResources
    /\ UNCHANGED <<r5f, thread, consumers>>

Main == OpenRpmsg \/ OpenShm \/ Map \/ InitializeFails \/ Start \/ Stop \/ StopJoined

-----------------------------------------------------------------------------
(* build_frame's test of a descriptor, in size_t arithmetic of twice the   *)
(* width of the fields                                                     *)
SizeSpan == FieldSpan * FieldSpan
SizeT(n) == n % SizeSpan
SampleBytes == 4

(* Mutation: the products are computed in the width of the fields. *)
AcceptsNarrow(offset, count, channels) ==
    /\ count # 0 /\ channels # 0
    /\ offset + ((count * channels * SampleBytes) % FieldSpan) <= ShmSize

Accepts(offset, count, channels) ==
    LET total == SizeT(count * channels)
        bytes == SizeT(total * SampleBytes)
    IN  /\ dataPtr /\ count # 0 /\ channels # 0 /\ total # 0
        /\ total <= (SizeSpan - 1) \div SampleBytes
        /\ offset <= ShmSize /\ bytes <= ShmSize /\ SizeT(offset + bytes) <= ShmSize

(* Descriptors at the boundaries of the test: nothing, what just fits,     *)
(* what is one sample too long, and what wraps.                            *)
Largest == FieldSpan - 1
Field == 0 .. Largest
Fits == ShmSize \div SampleBytes
Descriptors ==
    (Field \cap {0, SampleBytes, ShmSize, Largest})
        \X (Field \cap {0, 1, Fits, Fits + 1, FieldSpan \div 2, Largest})
        \X (Field \cap {0, 1, 2, Largest})

-----------------------------------------------------------------------------
(* ingest_loop *)

Check ==
    /\ tPc = "check"
    /\ tPc' = IF running THEN "poll" ELSE "done"
    /\ UNCHANGED <<running, desc, fields, copied, frames, r5f, main, consumers>>

Poll ==
    /\ tPc = "poll"
    /\ \/ tPc' = "check" /\ UNCHANGED running                   \* timeout, EINTR
       \/ channel # <<>> /\ tPc' = "read" /\ UNCHANGED running
       \/ tPc' = "done" /\ running' = FALSE                      \* POLLERR, POLLHUP, POLLNVAL
    /\ UNCHANGED <<desc, fields, copied, frames, r5f, main, consumers>>

(* read_descriptor finds nothing *)
ReadFails ==
    /\ tPc = "read" /\ channel = <<>>
    /\ tPc' = "check"
    /\ UNCHANGED <<running, desc, fields, copied, frames, r5f, main, consumers>>

(* read_descriptor; a descriptor that build_frame rejects is skipped *)
Read ==
    /\ tPc = "read" /\ channel # <<>>
    /\ desc' = Head(channel)
    /\ channel' = Tail(channel)
    /\ \E d \in Descriptors :
           /\ fields' = d
           /\ tPc' = IF Accepts(d[1], d[2], d[3]) THEN "copy" ELSE "read"
    /\ copied' = <<>>
    /\ UNCHANGED <<shm, writing, running, frames, main, consumers>>

(* Mutation: memcpy is given the number of samples for that of bytes. *)
CopyShort ==
    /\ tPc = "copy" /\ tPc' = "read"
    /\ frames' = Append(frames, [block |-> desc, data |-> <<shm[Region(desc)][1]>>])
    /\ UNCHANGED <<copied, running, desc, fields, r5f, main, consumers>>

(* memcpy, word by word, then the push *)
Copy ==
    /\ tPc = "copy"
    /\ LET data == Append(copied, shm[Region(desc)][Len(copied) + 1])
       IN  IF Len(data) < 2
           THEN copied' = data /\ UNCHANGED <<tPc, frames>>
           ELSE /\ copied' = <<>>
                /\ tPc' = "read"
                /\ frames' = Append(frames, [block |-> desc, data |-> data])
    /\ UNCHANGED <<running, desc, fields, r5f, main, consumers>>

Ingest == Check \/ Poll \/ ReadFails \/ Read \/ Copy

-----------------------------------------------------------------------------
(* The DSP and the persistence thread read the samples of a pushed frame,  *)
(* each in its own time.                                                   *)

(* Mutation: the frame is a view of the shared memory. *)
SamplesInPlace(frame) == shm[Region(frame.block)]

Samples(frame) == frame.data

DspReads == \E i \in 1 .. Len(frames) :
    /\ dspRead[frames[i].block] = Unread
    /\ dspRead' = [dspRead EXCEPT ![frames[i].block] = Samples(frames[i])]
    /\ UNCHANGED <<r5f, main, thread, persistRead>>

PersistReads == \E i \in 1 .. Len(frames) :
    /\ persistRead[frames[i].block] = Unread
    /\ persistRead' = [persistRead EXCEPT ![frames[i].block] = Samples(frames[i])]
    /\ UNCHANGED <<r5f, main, thread, dspRead>>

Next == R5fWrite \/ Main \/ Ingest \/ DspReads \/ PersistReads

Spec == Init /\ [][Next]_vars

-----------------------------------------------------------------------------
Contents == [Words -> 0 .. NBlocks]

TypeOK ==
    /\ shm \in [0 .. Regions - 1 -> Contents]
    /\ writing \in (1 .. NBlocks + 1) \X Words /\ channel \in Seq(Blocks)
    /\ held \subseteq Resources /\ dataPtr \in BOOLEAN /\ running \in BOOLEAN
    /\ mPc \in {"rpmsg", "shm", "map", "failed", "start", "run", "join", "stopped"}
    /\ tPc \in {"off", "check", "poll", "read", "copy", "done"}
    /\ desc \in 0 .. NBlocks /\ fields \in Field \X Field \X Field
    /\ copied \in Seq(0 .. NBlocks) /\ Len(copied) < 2
    /\ frames \in Seq([block : Blocks, data : Contents])
    /\ dspRead \in [Blocks -> Contents \cup {Unread}]
    /\ persistRead \in [Blocks -> Contents \cup {Unread}]

(* The thread polls and reads an open file and copies from a mapping that  *)
(* is there: stop() releases them only after it has joined the thread.     *)
UsesWhatIsHeld ==
    /\ tPc \in {"poll", "read", "copy"} => "rpmsg_fd" \in held
    /\ tPc = "copy" => "mapping" \in held /\ dataPtr

(* initialize() that fails and stop() leave nothing open or mapped, and    *)
(* no pointer into what is gone.                                           *)
NothingLeaked ==
    /\ mPc \in {"failed", "stopped"} => held = {}
    /\ dataPtr => "mapping" \in held

(* memcpy stays inside the mapping, and no descriptor whose samples lie in *)
(* it is refused: no product or sum of build_frame wraps unnoticed.        *)
Bytes == fields[2] * fields[3] * SampleBytes
AcceptsExactly ==
    /\ tPc = "copy" => Bytes > 0 /\ fields[1] + Bytes <= ShmSize
    /\ tPc = "read" /\ Bytes > 0 /\ fields[1] + Bytes <= ShmSize =>
           frames # <<>> /\ frames[Len(frames)].block = desc

(* A frame keeps the samples it was built with: whenever and in whatever   *)
(* order its consumers look, they find the same.                           *)
ConsumersAgree ==
    \A b \in Blocks :
        dspRead[b] # Unread /\ persistRead[b] # Unread => dspRead[b] = persistRead[b]

(* The consumers find the samples of the block that was announced.         *)
NoDirtyData ==
    \A b \in Blocks : dspRead[b] # Unread => \A w \in Words : dspRead[b][w] = b
=============================================================================
