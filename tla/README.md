# Formal models of shared-room

The repository holds four independent programs. This directory models them in
TLA+, checks the models with TLC and proves what matters most with TLAPS.

## Inventory

### k3-code: multi-threaded audio capture (C++17, Qt, Linux on a TI K3)

A real-time core (R5F) samples audio into shared memory and announces every
block by an rpmsg message. Four threads and the Qt main thread handle it:

    R5F --rpmsg--> transport --ingress--> dispatcher --dsp queue------> DSP --event--> UI
                                                    \--persist queue--> persistence --> file

| Part | State | Operations | What makes it correct |
|---|---|---|---|
| `SpscRingBuffer` | slots, `head_`, `tail_` | `push`, `pop`, `approx_size`, one thread on each side, no lock | behaves as a bounded FIFO; the two threads never touch one slot at once |
| `SharedMemoryTransport` | two files, a mapping, `running_`, three counters | `initialize`, `start`, `stop`, `ingest_loop` (`read_descriptor`, `build_frame`, push) | nothing leaks, nothing is used after its release, frames own their samples, bounds test exact |
| `FrameDispatcher` | `running_`, last sequence number, four counters | `start`, `stop`, `dispatch_loop` | order, every drop counted, gaps detected, drains before it ends |
| `DspEngineWorker` | `running_`, three buffers and a window kept from block to block | `start`, `stop`, `dsp_loop`, `process_block` | passes frames on in order, each showing its own block; stops without deadlock |
| `UiBridge` | `pending_frame_`, a timer, Qt's event queue | `enqueue_frame`, `render_tick` | the newest frame is shown, never an older one after it |
| `PersistenceWorker` | `running_`, file, `write_cache_` | `start`, `stop`, `persist_loop`, `flush_cache`, `drain_pending_blocks` | the file is the stream of samples; stop leaves nothing behind |
| `main` | the order of everything | start, event loop, stop | consumers outlive producers, quitting terminates |
| `OfflineBypassPlayer` | an ALSA device while it plays | `play_wav_file` (`read_wav`, `resample_to_target`, `play_with_alsa`) | plays what the file says, once and in order, across underruns; closes the device |

Hard: the lock-free ring with its memory order; exit conditions that read two
atomics one after the other; the stop sequence; I/O that fails half-way; memory
shared with a core that does not wait; a GUI thread that may be busy; buffers that
outlive the block they were sized for.

### ebpf-code: MemSnoop, kernel memory tracing (C, eBPF)

| Part | State | Operations | What makes it correct |
|---|---|---|---|
| `bpf/mem.bpf.c` | hash maps per pid and per pointer, histogram, ring buffer, two counters | `trace_alloc`, `trace_free`, on every CPU at once | counts agree with the events; a freed pointer is gone; drops counted |
| `user/main.c` | `exiting`, times | set-up, poll loop, periodic and final report, clean-up | a signal ends it wherever it arrives |
| `user/stats.c` | none | walks over maps that change meanwhile, aggregation, top N | a walk misses nothing that stayed, and ends |
| `user/symbol.c` | sorted table of symbols | load, resolve by binary search | the nearest symbol not above the address |

Hard: handlers that interleave between their map operations; memory freed by
another process than the one that allocated it; maps at their limit; walks by key
over a map whose keys come and go.

### ai-carline-code: practice questions (Go backend, Next.js frontend)

The store keeps questions, answers and progress in maps under one read-write
mutex; services submit answers, evaluate them, set a status and recommend; the
HTTP handlers decode and encode. Correct if what is written under one lock is
what the readers later show. Hard: operations that take the lock twice, and state
that
two places keep (`userProgress` and the answers); several requests in flight.

### web-for-source: a price comparison page (Python, HTML)

Fetches, parses, removes duplicates, sorts. Sequential apart from the fetches.

`rcore`, `other`, `method-ebpf` and `k3-code/question` hold notes.

## Modules

| Module | Models | Code |
|---|---|---|
| `BoundedFifo` | abstract: what the ring promises | `k3-code/include/lockfree_ring_buffer.hpp` |
| `SpscRingBuffer` | the ring, one step per access to shared memory | the same |
| `SpscRingBuffer_proofs` | theorems about it; the other `_proofs` modules likewise | |
| `CapturePipeline`, `CapturePipeline_proofs` | all threads and `main`, over three `BoundedFifo` instances | `src/*.cpp` of k3-code |
| `PersistenceWorker`, `PersistenceWorker_proofs` | the persistence thread with the inside of `flush_cache` | `src/persistence_worker.cpp` |
| `ShmTransport`, `ShmTransport_proofs` | shared memory, descriptors, resources | `src/shm_transport.cpp` |
| `UiBridge`, `UiBridge_proofs` | DSP thread, event queue, timer, GUI; composes the next two | `src/ui_bridge.cpp`, `dsp_engine.cpp`, `main.cpp` |
| `Playback` | a WAV file, read and played | `src/playback_bypass.cpp` |
| `DspProcess` | `process_block` as operators on a workspace | `src/dsp_engine.cpp` |
| `MemSnoopBpf`, `MemSnoopBpf_proofs` | the BPF handlers on every CPU, their maps, the ring buffer | `ebpf-code/bpf/mem.bpf.c` |
| `MemSnoopReport`, `MemSnoopReport_proofs` | main loop and reports over maps that change; extends the next | `ebpf-code/user/main.c`, `stats.c`, `mem_user.h` |
| `Symbols` | the table of kernel symbols and its search | `ebpf-code/user/symbol.c` |
| `CarlineStore`, `CarlineStore_proofs` | requests in flight over services and store | `ai-carline-code/backend/internal` |

Each run uses one of the modules directly or through a module that gives constants
their values: `MCMemSnoopBpf` (sizes), `MCMemSnoopReport` (calls, options, symbol
files), `MCUiBridge` (two formulas to evaluate). Its `.cfg` (`MC*.cfg`) gives the other
constants theirs. Some definitions are preceded by a variant whose comment
begins with "Mutation:": a plausible bug of the same code, used to see that a
property notices it. No specification refers to them.

### SpscRingBuffer and BoundedFifo

Program counters `pPc` and `cPc` say where the producer is in `push` and the
consumer in `pop` or `approx_size`; the actions are the loads and stores in
between. `head_` is stored by the producer alone, so its relaxed load of it is
exact; the acquire load of the other side's index may return any value from
the last one seen (`seenTail`, `seenHead`) to the current one, which is what
coherence allows. The slot accesses are single steps; that they never collide is
the property `NoSlotRace`, so the abstraction is justified by a result. `Queued`
is the refinement mapping: an item enters the abstract queue when `head_` is
stored and leaves it when `pop` moves it out.

Only the consumer calls `approx_size` in this program (the two loop conditions),
and the model has it so. Its comment says the result is for monitoring only; both
loops nevertheless end on it. `PopAfterPositiveSize` and
`ConsumersOutliveProducers` show that this use is right: a positive size is a
promise to the only consumer, and a zero read after the producer has been joined
is exact.

### CapturePipeline

A step is one access to state another thread uses. Queue operations are single
steps of `BoundedFifo`: the ring refines it, and where a zero of `approx_size`
is decisive (after `running_` is false) the join of the producer, then the store
of `running_` by main and its load by the consumer, order the last `push` before
it. Frames are numbered, and `SeqOf` is the 32-bit sequence number with a smaller
modulus that wraps inside the run. Two counters are not in the code: `lostShort`, of
the messages of the wrong length, and `nPosted`, of the frames the DSP thread has
posted. `FramesAccountedFor` is four balances: what the R5F sent, what the transport
received, and what the dispatcher offered to each of its two queues, each with the
drop counter of that place. `FlushFails` writes any part of the cache and keeps the
whole of it; `TransportReadFails` is a `read` that finds nothing or fails, with a
message waiting or not, or a message of the wrong length.

### PersistenceWorker

`flush_cache` is a sub-machine (`fPc`), entered by the worker or by `stop()`.
`write` takes any non-empty part of the rest, or fails; `fdatasync` may fail.
Whether `persist_fsync_on_flush` is set is chosen in the initial state. A write
that returns 0 (which Linux does not do for a non-empty write to a file) would
repeat the loop without progress and is left out.

### ShmTransport

The R5F writes a block word by word, announces it and goes on to the next region.
`held` is the set of resources the process owns. The bounds test of `build_frame`
works on descriptors whose fields lie at the boundaries of the test, in `size_t`
arithmetic of twice their width (a 64-bit build); a field has `FieldSpan` values. A frame is represented by two
words of its region, whatever its length.

### UiBridge

`events` is Qt's queue of posted events. Slots run only while the main thread is
in its event loop (`mPc = "exec"`): not during `play_wav_file`, and not while it
joins the DSP thread. `ws` holds the buffers of the DSP thread and `frame` the block
it has processed with what became of it, until it is posted.

### Playback

The record `play` is the one call of `play_wav_file` that `main` makes. A file is a
sequence of chunks with a declared size and the bytes that are there. `ReadWav` is
the loop over the chunks; `Means` says what such a file means, without a loop.
The device takes any part of what it is offered, nothing, or reports an underrun;
every call to it may fail. `src_simple` may make any number of frames or fail.

### DspProcess

`process_block` takes the buffers of the worker and a block to new buffers and a
frame. The fast transform is computed over the integers modulo 17, in which 2 is a
root of unity of order 8; the reordering, the butterflies and the twiddle factors
are those of the code, and what they rely on (the roots and the laws of a ring)
holds there as it does for complex numbers. So `FrameShowsBlock` compares with
the definition of the transform exactly, where floating point would need a
tolerance. The window is any function of size and position that tells sizes apart.

### MemSnoopBpf

Each CPU runs at most one handler; `cpu[c].pc` says before which map operation it
stands. A step is one map operation or helper call, with the atomic additions to
`pid_stats` or `hist_map` next to it: these commute with those of other CPUs, and
`BytesBalance` looks at them only when no handler runs. The count of an event is a step
of its own (`CountEvent`), since user space can take the record as soon as it has been
submitted; `EventsAccountedFor` holds in between too, as it adds the handlers that have
still to count (`Counting`). Allocations are numbered, and
`Sizes` gives each its size; in `MCMemSnoopBpf` all sums of sizes differ, so that a sum
of bytes tells which allocations are in it. Memory that existed before the programs (`Old`) may be freed
as well. `room` holds the capacities of the two hash maps; the run covers every
combination within its bounds.

From the kernel the model takes three facts: `kmalloc` calls its handler before it
hands the pointer out; `kfree` calls its handler before it takes the memory back
(so a pointer cannot be allocated again while its free is being handled); and no
handler is called for memory an interrupt allocates or frees while another handler
runs on that CPU (`Miss`). The early returns for a null pointer or zero bytes
change nothing and are not steps.

`causes` is a history variable: what has happened that keeps the maps from
describing all memory. `BytesBalance` says that this list is complete.

### MemSnoopReport and Symbols

A report walks `pid_stats_map`, then `alloc_table` for the stacks and again for the
leaks; `walk` is the walk under way. `get_next_key` and the lookup are separate system
calls and separate steps. A hash map is a set of entries; `Before` orders them by
bucket and, in a bucket, newest first, since the kernel puts a new or replaced entry at
the head. `NextEntry` is the successor of a key, which for a key that is not there is
the first entry of the map. `present` remembers
the entries that have been there since the walk began, `moved` whether the key it
stands on was removed or replaced.

A handler in the kernel is one step here: `MemSnoopBpf` has its inside, and of that
only the single update of a map is visible to user space. Handlers run while `main`
polls or reports; next to its other steps, which touch no map, they commute.

`Symbols` loads the file in any state of memory: a name that cannot be copied skips
its line, an array that cannot grow ends the file. `qsort` may order equal addresses
in any way, so which of several names at one address is kept is open.

### CarlineStore

A client has one request in flight. A request that reads and then writes is split at
the lock regions that touch answers or progress: `Submit` is everything before the
second lock, `SaveUserAnswer` the region under it, `Receive` the arrival of the reply
at the client, which makes the answer acknowledged. Go's `net/http` runs each
request in a goroutine of its own, hence no order between clients. `known` is
what was acknowledged when a read was asked for.

The questions of the seed share no tag with one another, so that the second stage of a
recommendation never applies to it; `Seeds` holds the seed and one in which two
questions share a tag.

## Runs

| Run | Configuration | Shows |
|---|---|---|
| `ring` | `MCSpscRingBuffer.cfg` | types, slot contents, no slot race, refinement of `BoundedFifo`, positive size kept, every item handed out |
| `pipeline_safety` | `MCCapturePipeline.cfg` | accounting of every frame up to the file and to the user interface, order, gaps, order of shutdown, nothing lost at exit |
| `pipeline_liveness` | `MCCapturePipelineLive.cfg` | quitting terminates, accepted frames are dispatched |
| `persistence` | `MCPersistenceWorker.cfg` | the file is the stream; after failures nothing is forgotten; the cache is bounded; a power failure loses the cache only (with fsync); stop drains |
| `shm_transport` | `MCShmTransport.cfg` | resources, ownership of the samples, exact bounds test |
| `shm_reuse` | `MCShmTransportReuse.cfg` | counterexample, see below |
| `ui` | `MCUiBridge.cfg` | the transform and the reader are right for each block and file; a file is played as written; a frame shows its block; the newest frame survives and is shown, no step back, no deadlock at stop |
| `ui_backlog` | `MCUiBridgeBacklog.cfg` | counterexample, see below |
| `memsnoop` | `MCMemSnoopBpf.cfg` | every event counted once; leak candidates are live memory; bytes balance but for five causes |
| `memsnoop_active` | `MCMemSnoopActive.cfg` | counterexample, see below |
| `memsnoop_report` | `MCMemSnoopReport.cfg` | walks miss nothing that stayed; addresses resolve to the nearest symbol; a signal ends the program |
| `carline` | `MCCarlineStore.cfg` | reads agree with what was acknowledged; recommendations leave nothing out without need |

### Three disagreements with the documentation

* `shm_reuse`. `k3-code/change:2` says that frames which own their samples repair
  the reading of dirty data after upstream has reused the shared memory. The run
  `shm_transport` shows what the change does achieve (`ConsumersAgree`: once built,
  a frame no longer changes). The R5F is not told when a block has been copied,
  however, so it may come round to the region before or during the `memcpy`.
* `ui_backlog`. `ui_bridge.cpp:42` says that caching only the last frame keeps
  frames from piling up. They pile up one stage earlier, in the event queue,
  while the main thread runs `play_wav_file`, which `main.cpp` does after the DSP
  thread has been started and before the event loop.
* `memsnoop_active`. `method-ebpf/reise/ebpf-code-review.md:191` holds that a process
  shows more freed than allocated bytes only if the report hits an update in
  progress. `trace_free` charges the process that frees, so memory handed from one
  process to another has the same effect and lasts.

### What else the code does, and the properties name

These are no contradictions to a document, so no run is devoted to them.

* The walk over the processes starts from key 0 (`stats.c:41`). Pid 0, the idle task,
  can have an entry (interrupts allocate in its name), and the walk then starts behind
  it: what stands before it in the map is in no report. `BeforePid0` is the exception.
* An entry that is removed while the walk stands on it sends the walk back to the
  start (`stats.c:171`, `320`), and entries are counted twice. `WalksAreComplete` shows
  that nothing else does, and that nothing is missed in exchange.
* `main.c:197` leaves the final report out when the last poll returned events, because
  `err` then is their number. `Final` has both outcomes.
* A status set by `PATCH` is stored and never read (`store.go:208`): what a question
  shows comes from the newest answer. `ReadsSeeAcknowledged` says so.
* A question answered wrongly n times is recommended n times
  (`recommendation_service.go:38`), so six wrong answers to one question fill the list.
  `RecommendsWidely` allows exactly this repetition.

### Bounds

* Ring: capacity 2 (three slots) wraps in every position and has full, empty and
  in-between states; two values tell an item from its neighbour. Nothing is
  bounded in time: the state space is finite. The proofs cover every capacity.
* Pipeline: 4 frames, ingress capacity 2, ring capacity 1, flush after 2 frames:
  drops at all three queues, partly filled caches and a wrap of the sequence
  number (start 5, modulus 8) occur. The liveness run has 2 frames and capacity 1,
  enough to have one frame in a hand and one in a queue during the stop.
* Persistence: 5 frames of 2 samples, flush at 3 samples (so the cache exceeds the
  threshold as it does in the code), queue capacity 2.
* Transport: 3 blocks over 2 regions, so one region is used twice; fields of 4
  bits with a mapping of 12 bytes, so products wrap a narrow computation. The proof covers every width and descriptor.
* UI: 3 frames, 4 in the run for the backlog; a backlog is what exceeds 3. Blocks:
  too short, of 4, 7 and 8 (of two channels, with a sample over) samples, so the
  transform has sizes 4 and 8, buffers grow, shrink and stay, and an envelope has
  whole and partial steps of 3 points. Files: up to 3 chunks out of 12, in every
  order, only the last truncated; formats that are played, resampled and refused;
  up to 4 frames, in every split and with underruns between.
* MemSnoop: 2 CPUs, 2 processes, 2 pointers, 2 allocations, map capacities 1 and 2,
  a ring buffer of one event. Both CPUs can insert the same pid, each map can be
  full, memory can change hands, and events are dropped. CPUs, processes and
  pointers are symmetric: no definition distinguishes them.
* Reports (`MCMemSnoopReport`): 3 calls of `kmalloc` out of 4 (pid 0 and a failed stack among them), two
  buckets, lists of 2 entries. Pointers share a bucket, are allocated again, and three
  processes or stacks meet a list of two. The interval is 2 s and the clock goes
  from 2 to 3, so a report is due at the first poll and not at the next, and
  `--duration` is reached. To keep the product small the symbols are loaded from a
  file that is not empty only in the behaviours without allocations, and the combinations
  of `--stack` and `--leak` are tied to that choice as well; neither depends on it.
* Carline: 2 clients, 3 answers, of scores below 45 raised by the length, below 70
  and above, to two questions; refused submissions and statuses; equal and different
  times. Three wrong answers and four questions exceed the six recommendations.

### Fairness

Each thread runs (weak fairness of its loop); the scheduler of a Linux system with
more than one core gives that, also to `SCHED_IDLE`. `poll` reports data that stays
available (strong fairness of the read branch). In the ring, stores become visible
in finite time (C++ [atomics.order]): a consumer that pops repeatedly reads
the current `head_` eventually. The timer elapses; Qt's event loop starves neither
posted events nor timers. Nothing obliges the user to quit, the R5F to send, or
an operation to fail. A device that underruns again and again takes frames again and
again (strong fairness of `WriteFrames`); one that is always in underrun would keep
`play_wav_file` in its loop. In `MemSnoopReport` only `main` is fair: the kernel
owes nothing.

A `FairSpec` in which the R5F sends for ever would not satisfy `QuitTerminates`:
the inner loop of `ingest_loop` does not look at `running_`. The bound on frames
makes the R5F pause, which is the assumption under which the property holds.
`SignalEndsTracing` rests on the same kind of bound: a kernel that for ever removes
the key a walk stands on would keep it walking, and the walk does not look at
`exiting`.

## Proofs

Eight modules hold theorems, each about the module it is named after (that of
`MemSnoopReport` about `Symbols` as well) and for every
value of that module's constants. With them every safety property that a passing run
checks has a theorem. They assume what the module declares of its
constants, which TLC evaluates on every run, and nothing else unless it is said here.

| Module | Theorem | Property |
|---|---|---|
| `SpscRingBuffer_proofs` | `TypeCorrect`, `SlotRaceFreedom`, `SlotContents`, `PositiveSizeIsKept`, `RefinesFifo` | `TypeOK`, `NoSlotRace`, `SlotsFilled`, `PopAfterPositiveSize`, `ImplementsFifo` |
| `CapturePipeline_proofs` | `TypeCorrect`, `ConsumersEndLast`, `EveryFrameAccountedFor`, `ExitLosesNothing`, `FramesStayInOrder`, `GapCounterExplained` | `TypeOK`, `ConsumersOutliveProducers`, `FramesAccountedFor`, `NothingLostAtExit`, `StreamOrder`, `GapsExplained` |
| `PersistenceWorker_proofs` | `TypeCorrect`, `FileHoldsStream`, `SamplesAreKept`, `SyncedOrCached`, `CacheIsBounded`, `StopEmptiesAll` | `TypeOK`, `FileIsStream`, `NothingForgotten`, `CrashLosesOnlyCache`, `CacheBounded`, `StopDrains` |
| `ShmTransport_proofs` | `TestIsExact`, `TypeCorrect`, `ThreadUsesWhatIsHeld`, `EverythingReleased`, `DescriptorsJudged`, `ConsumersFindTheSame` | (of every descriptor), `TypeOK`, `UsesWhatIsHeld`, `NothingLeaked`, `AcceptsExactly`, `ConsumersAgree` |
| `UiBridge_proofs` | `TypeCorrect`, `NewestIsNeverLost`, `PictureGoesForward`, `BuffersLeaveNoTrace`, `FramesShowTheirBlocks`, `PlaybackIsComplete` | `TypeOK`, `NewestSurvives`, `RenderOrder`, (of the frame posted), `FrameShowsBlock`, `PlaysTheFile` |
| `MemSnoopBpf_proofs` | `EventsAddUp`, `LeaksAreLive`, `BytesAddUp` | `EventsAccountedFor`, `SuspectsAreLive`, `BytesBalance` |
| `MemSnoopReport_proofs` | `WalksMissNothing`, `SymbolsAreNearest` | `WalksAreComplete`, `ResolvesNearest` |
| `CarlineStore_proofs` | `ReadsAreCurrent`, `RecommendationsAreWide` | `ReadsSeeAcknowledged`, `RecommendsWidely` |

The sums, folds and searches of three models are recursive definitions, and induction
is not available (its theorems take an operator as a parameter). Each place that needs
it assumes the statement false and takes the least counterexample, which
`NatLessThanWellFounded` gives (`LeastNumber`). `FoldExists` is the root of the lemmas
about folds: `MapThenFoldSet` is a `CHOOSE` among functions, and this says that one with
the recursive equations exists, hence that the chosen one has them. From there a fold
over a sequence takes one element after the other (`KeepsOneMore`, `ContinuesMore`), and
a sum over a finite domain grows by what is added (`SumAdds`).

### SpscRingBuffer

For every capacity above 0 and every set of values that does not contain the null
pointer. `SlotsFilled` is not inductive alone: whether `push` may write its slot
depends on a `tail_` it loaded in the past. `IndexOrder` supplies what is missing:
going round from `seenTail` one meets `tail`, `seenHead` and `head` in this order
within one turn, so a stale view errs on the safe side. In the middle of an operation
it also keeps the outcome of its test: less than `Capacity` items seen when writing, a
non-empty queue seen when moving. Everything about positions is reduced to lemmas on
`Dist`, the number of increments from one index to another (`DistIncrementEnd`,
`DistIncrementStart`, `Order`), which isolates the modular arithmetic. The refinement
then needs only that `Queued` grows at its end by `PushPublish`, loses its head by
`PopMove` and is not touched by the rest.

### CapturePipeline

For every number of frames, every capacity and flush threshold, every start of the
sequence number. The invariant has a part for each question:

* `Lifecycle`: what has not been started has done nothing; a cleared flag stays
  cleared; `main` is past a join only if the thread has ended. With the order of the
  `stop()` calls it makes the two loads of a loop condition one decision:
  a consumer that finds `running_` false and the queue empty has a producer that has
  ended, so nothing can come after the second load.
* `UpstreamOrder` and `DownstreamOrder`: the frames between the R5F and the dispatcher,
  and behind it, are one increasing sequence, with `dFrame` between the two. Upstream it
  is not enough that they increase: their numbers are as far apart as their places at
  least (`Spread`), which the count of gaps needs.
* `Announced`, `Ingested`, `Stored`, `Offered`: one balance for each section of the
  way, from the R5F to the transport, through it, to the file and to the user
  interface. The last three have each a queue that drops frames and its counter.
* `GapsCounted`: `gaps` and the frames taken are at most the frames sent so far, and
  `lastSeq` is the number of the last one taken.

`GapCounterExplained` alone has a hypothesis, `NFrames <= SeqMod`: a loss of exactly
2^32 frames in a row leaves no trace in a 32-bit sequence number. The run, with fewer
frames than its modulus and a start that makes it wrap, satisfies it.

### PersistenceWorker

For every block length, threshold, capacity, and every way the writes are cut.
The invariant describes what file and cache hold together (`Contents`): the cache is a
run of consecutive samples up to the last one taken, everything before that run is
in the file (with fsync, in its synced part), and the file has nothing else; without an
error the file is itself such a run from the first sample, and what remains of the
cache continues it. After an error the two overlap, and the properties say by what.
`Control` says which sub-machine may be under way in which state of `main` and of
the worker; `Fill` bounds the cache in each of them, also with the queue that `stop()`
is about to drain into a cache that cannot be written. `QueueIsNext` (the queue is the
frames just accepted, in order) ties the queue to the stream.

### ShmTransport

For every number of blocks and regions, every size of the shared memory and width of
the fields. `TestIsExact` is about all descriptors, not only those at the boundaries
that the state machine enumerates: the products of `build_frame` are computed in
`size_t` of twice the width of the fields (`FieldSpan * FieldSpan` values), the product
of two fields fits, the division guards the multiplication by 4, and the sum of an
offset and a length within the mapping fits because
`ShmSize + FieldSpan <= FieldSpan * FieldSpan` (on the target 2^32 times 2^32 against
an `shm_size` of 16 MB). `Holding` relates the thread's place to what `main` has
acquired and not yet released; the join in `stop()` is what makes it inductive.
`ChannelOrder` and `FrameOrder` keep a block from becoming two frames, so what a
consumer has found (`Found`) stays what the frame of that block holds; `Judged` says
that the thread copies exactly for the descriptors that passed.

### UiBridge

For every number of frames and any length of the event queue. `Line`: the frames
between the DSP thread and the screen are consecutive, from what `main` has got last,
through the events, to `posted`. It is what makes `NewestSurvives` and the order of
the pictures inductive.

`BuffersLeaveNoTrace` shows that a block is processed as if its buffers were new,
because each is either overwritten in full or of the right size (`WindowFits`): the
three tests for when to renew a buffer suffice. What the transform computes is
recursion over data; that the result is right for the first block (`FreshIsRight`) is
therefore a hypothesis of `FramesShowTheirBlocks`, and that the reader's loop finds what
the file means (`ReaderIsRight`) one of `PlaybackIsComplete`. Both are formulas without
variables. TLC evaluates them in `MCUiBridge`, over all blocks and files of the
model, at every run; the proofs add what is about states, that no
sequence of blocks, underruns and short writes spoils it.

### MemSnoopBpf

For any number of CPUs, processes and pointers, and any size of the maps and the
ring buffer. `SuspectsAreLive` needs that handlers on different CPUs do not meet on one
pointer: `Exclusive` says that a pointer is in the hands of at most one handler and
its memory live meanwhile, which the two facts about the kernel named above give;
`Removed`, that a free that has come to its event has removed its entry; `Listed`
joins them to the table. `RingOwned` says that a record that is being filled belongs to
the one handler that stands before `Submit`, so that it makes exactly one more record
ready, while its handler joins `Counting`; `CountEvent` takes it from there to the total.

`BytesBalance` speaks of moments when no handler runs, and of nothing between them.
`Balanced` says what the books look like in the middle of the handlers, as long as no
cause has occurred. `Charged` is the amount a pointer stands for at each place: what
`alloc_table` says, except that an allocation is charged to its process before it is
recorded, and a free is charged before the entry is deleted. With it the two sums agree
at every step (`Sums`); so does the histogram, which is behind by the handlers that have
charged and not yet counted (`Recording`). `Settled` and `Follows` say for each place how
far the table is behind the memory. Each of the five causes is a case in which one
step would break one of these, and the proof shows that there is no sixth. That there are finitely many pointers is assumed
(`BpfAssumption`): a sum over infinitely many has no value.

### MemSnoopReport and Symbols

For every set of calls, any number of buckets, any limits and clock. `Covers` is
the invariant of a walk: entries that have been in the map since it began and that
the walk has passed, in the order of the buckets, are counted, unwanted, behind a
full list or before pid 0. A handler can put an entry only at the head of a bucket, so an
entry that stays never moves across the place of the walk; if the key it stands on is
removed, the walk starts again at the first entry, or, if the key is put in again, goes
back to the head of that bucket, and has passed less. Hence nothing is missed. `Forward`
covers the other half: what was counted has been passed unless the key was removed, so
nothing is counted twice. `Enlisted` is needed for the list of processes alone, which
ends the walk when it is full: a process in the list has been counted, so one that has
not is one the full list had no place for.

For every file and all addresses, `TableIsMade` shows that sorting and the removal of
equal addresses leave a strictly increasing table which has every stored address, each with
a name that was stored at it; `SearchFinds`, that the binary search finds in any such table
the last symbol not behind the address: what it has left always lies between those known to
be at or below and those known to be above.

### CarlineStore

For any number of clients, answers and ticks. `Numbered` (an answer is numbered by its
place) and `Promised` (what is acknowledged, or was when a read was asked for, is
stored) hold between the two locks of a submission; `Told` says of each
reply, from the moment it is made until it is received, what it shows. Answers made
later may be missing in it, those of `known` not.

For recommendations, `Widely` adds what a reply shows at the time it is made and later:
answers are only added, so a question's wrong answers do not become fewer. That it holds
when the reply is made is about data alone. The questions of the wrong answers come
first, once per answer (`FailedAre` maps the places of the list one to one to answers
stored); all that is appended afterwards is new (`Continues`), so a question is repeated
only among the first. The six most frequent include every question of the seed
(`FrequentAre`), so the list before it is cut has each, and one that is missing was cut
off behind six others.

### Model-checked only

* The liveness properties `ConsumerDrains`, `QuitTerminates`, `AcceptedIsDispatched`,
  `NewestIsShown`, `StopReturns` and `SignalEndsTracing`: proofs under fairness need
  `ENABLED`, which the prover does not handle.
* `FreshIsRight` and `ReaderIsRight`, as said above.
* The three properties that runs refute.

## Not modelled, and why

Decibels and rounding in the DSP, and the values of samples that are played;
thread priorities (they change no state); the drawing of charts; `stats()` (nothing
calls it, so no reader can see its three loads out of balance). Of a WAV file, a
`fmt ` chunk declared shorter than its 16 bytes and a chunk of odd size without its
padding byte: the reader then takes other bytes for a chunk, and what these are
is not in the model. Of MemSnoop's handlers the stack traces; nothing there depends on
them. Allocators other than `kmalloc` are not traced, so the memory its maps are
compared with is `kmalloc`'s. Of its reports the sorting and the printing. Of carline the filters
of `ListQuestions`, how keywords are found in a text, texts of feedback, JSON and
paths, and the frontend, whose pages keep no state beyond a form. The price page is
sequential parsing of other sites' pages.

The repository also holds two generated files, `ebpf-code/vmlinux.h` (150,000 lines of
kernel types) and `mem.skel.h`, which hold no logic of this program; by lines
they are most of it, and no model can cover them. The hand-written C and C++ is about
2,700 lines, of which about half are mapped.

Crashes: all state of the programs but the file is lost; `CrashLosesOnlyCache` says
what the file holds at any moment.

## Plan

1. Done: ring buffer with proofs, pipeline, persistence, transport, UI, `MemSnoopBpf`.
2. Done: `MemSnoopReport` and `Symbols`, `CarlineStore`, `Playback` and `DspProcess`
   inside `UiBridge`.
3. Done: proofs of every safety property that the passing runs check.
4. Left: the liveness properties, if a prover with `ENABLED` becomes available; that
   the transform and the reader are right for every block and file, which needs
   induction over how the transform is composed, by least counterexamples as in
   `SearchFinds`.
