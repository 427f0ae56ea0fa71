---------------------------- MODULE MemSnoopBpf ----------------------------
(***************************************************************************)
(* The kernel side of MemSnoop, ebpf-code/bpf/mem.bpf.c: the handlers of   *)
(* kmalloc and kfree run on every CPU at once over shared maps.  A step is *)
(* one map operation or one helper call, with the additions to pid_stats   *)
(* or hist_map next to it, which are compared with other state only when   *)
(* no handler runs.  An event is counted in a step of its own.             *)
(*                                                                         *)
(* The kernel (external): kmalloc calls its handler before it hands the    *)
(* pointer out, kfree before it takes the memory back.  While a handler    *)
(* runs on a CPU, an interrupt there may allocate or free memory, but no   *)
(* handler is called for it.  Pids are those of the calling processes, and *)
(* any process may free what another has allocated.                        *)
(***************************************************************************)
EXTENDS Integers, FiniteSets, FiniteSetsExt, Sequences, TLC

CONSTANTS
    CPUs, Pids, Ptrs,
    NAllocs,     (* bound: calls of kmalloc *)
    Sizes,       (* bound: the size each of them asks for *)
    MaxPids,     (* bound: of MAX_PID_ENTRIES *)
    MaxAllocs,   (* bound: of MAX_ALLOC_ENTRIES *)
    RingSize     (* RINGBUF_SIZE, in events *)

NoPid == 0

ASSUME BpfAssumption ==
    /\ {NAllocs, MaxPids, MaxAllocs, RingSize} \subseteq Nat
    /\ Sizes \in [1 .. NAllocs -> Nat]
    /\ IsFiniteSet(Ptrs)
    /\ NoPid \notin Pids
    /\ "ready" \notin CPUs

VARIABLES
    nAllocs,     (* external: calls of kmalloc so far *)
    live,        (* external: the allocation each pointer stands for *)
    room,        (* MAX_PID_ENTRIES and MAX_ALLOC_ENTRIES: never change *)
    target,      (* target_pid, set before the programs are attached *)
    cpu,         (* the handler on each CPU *)
    pidStats,    (* pid_stats_map *)
    table,       (* alloc_table: the allocation recorded for each pointer *)
    hist,        (* hist_map, summed over the CPUs *)
    events,      (* the ring buffer: submitted records, and CPUs filling one *)
    total, dropped,   (* stats *)
    consumed,    (* events that user space has taken *)
    calls,       (* handlers that have passed the filter *)
    causes       (* what has kept the maps from describing all memory *)

memory == <<nAllocs, live>>
maps == <<pidStats, table, hist>>
ring == <<events, total, dropped, consumed>>
setup == <<room, target>>
vars == <<memory, setup, cpu, maps, ring, calls, causes>>

(* Allocations are numbered.  Memory that was there before the programs is *)
(* not in alloc_table and counts as 0 bytes.                               *)
None == 0
Old == -1
Size(a) == IF a \in {None, Old} THEN 0 ELSE Sizes[a]

Buckets == 0 .. 7
Ready == "ready"
Idle == [pc |-> "idle", op |-> "none", pid |-> NoPid, ptr |-> None, freed |-> 0]

(* size_to_bucket *)
SizeToBucket(size) ==
    LET fits == {b \in 0 .. 6 : size <= 64 * 4 ^ b}
    IN  IF fits = {} THEN 7 ELSE Min(fits)

(* should_filter *)
ShouldFilter(pid) == target # NoPid /\ target # pid

Init ==
    /\ nAllocs = 0 /\ live \in [Ptrs -> {None, Old}]
    /\ room \in [pids : 1 .. MaxPids, allocs : 1 .. MaxAllocs]
    /\ target \in Pids \cup {NoPid}
    /\ cpu = [c \in CPUs |-> Idle]
    /\ pidStats = <<>> /\ table = [p \in Ptrs |-> None] /\ hist = [b \in Buckets |-> 0]
    /\ events = <<>> /\ total = 0 /\ dropped = 0 /\ consumed = 0
    /\ calls = 0 /\ causes = {}

-----------------------------------------------------------------------------
(* The tracepoints *)

(* A handler starts, unless one runs on this CPU or the pid is filtered. *)
Handled(c, pid) == cpu[c] = Idle /\ ~ShouldFilter(pid)
Handle(c, op, pid, ptr) ==
    /\ cpu' = [cpu EXCEPT ![c] =
                  [pc |-> op, op |-> op, pid |-> pid, ptr |-> ptr, freed |-> 0]]
    /\ calls' = calls + 1
    /\ UNCHANGED causes
Miss == causes' = causes \cup {"unseen"} /\ UNCHANGED <<cpu, calls>>

Kmalloc(c, pid, p) ==
    /\ nAllocs < NAllocs /\ live[p] = None
    /\ nAllocs' = nAllocs + 1
    /\ live' = [live EXCEPT ![p] = nAllocs']
    /\ \/ Handled(c, pid) /\ Handle(c, "alloc", pid, p)
       \/ ~Handled(c, pid) /\ Miss
    /\ UNCHANGED <<setup, maps, ring>>

(* nobody has the pointer before kmalloc returns, nobody frees it twice *)
InKernel(p) == \E c \in CPUs : cpu[c] # Idle /\ cpu[c].ptr = p

Kfree(c, pid, p) ==
    /\ live[p] # None /\ ~InKernel(p)
    /\ \/ Handled(c, pid) /\ Handle(c, "free", pid, p) /\ UNCHANGED live
       \/ ~Handled(c, pid) /\ Miss /\ live' = [live EXCEPT ![p] = None]
    /\ UNCHANGED <<nAllocs, setup, maps, ring>>

-----------------------------------------------------------------------------
(* trace_alloc *)

Goto(c, pc) == cpu' = [cpu EXCEPT ![c].pc = pc]
At(c, pc) == cpu[c].pc = pc
Spoiled(cause) == causes' = causes \cup {cause}

NewStats(size) == [allocCount |-> 1, freeCount |-> 0, allocBytes |-> size, freeBytes |-> 0]

(* the lookup in pid_stats_map *)
AllocCharge(c) ==
    LET pid == cpu[c].pid  size == Size(live[cpu[c].ptr])
    IN  /\ At(c, "alloc")
        /\ \/ /\ pid \in DOMAIN pidStats
              /\ pidStats' = [pidStats EXCEPT ![pid].allocCount = @ + 1, ![pid].allocBytes = @ + size]
              /\ Goto(c, "record")
           \/ /\ pid \notin DOMAIN pidStats
              /\ Goto(c, "insert")
              /\ UNCHANGED pidStats
    /\ UNCHANGED <<memory, setup, table, hist, ring, calls, causes>>

(* Mutation: the new entry counts the allocation but not its bytes. *)
AllocInsertNoBytes(c) ==
    LET pid == cpu[c].pid
    IN  /\ At(c, "insert") /\ Goto(c, "record")
        /\ pidStats' = IF pid \in DOMAIN pidStats THEN pidStats
                       ELSE [q \in DOMAIN pidStats \cup {pid} |->
                                IF q = pid THEN NewStats(0) ELSE pidStats[q]]
    /\ UNCHANGED <<memory, setup, table, hist, ring, calls, causes>>

(* the insertion with BPF_NOEXIST, whose result is not used *)
AllocInsert(c) ==
    LET pid == cpu[c].pid  size == Size(live[cpu[c].ptr])
    IN  /\ At(c, "insert") /\ Goto(c, "record")
        /\ \/ /\ pid \notin DOMAIN pidStats /\ Cardinality(DOMAIN pidStats) < room.pids
              /\ pidStats' = [q \in DOMAIN pidStats \cup {pid} |->
                                 IF q = pid THEN NewStats(size) ELSE pidStats[q]]
              /\ UNCHANGED causes
           \/ pid \in DOMAIN pidStats /\ Spoiled("race") /\ UNCHANGED pidStats
           \/ /\ pid \notin DOMAIN pidStats /\ Cardinality(DOMAIN pidStats) >= room.pids
              /\ Spoiled("pids full") /\ UNCHANGED pidStats
    /\ UNCHANGED <<memory, setup, table, hist, ring, calls>>

Recorded == {p \in Ptrs : table[p] # None}

(* the histogram, and the update of alloc_table with BPF_ANY *)
AllocRecord(c) ==
    LET p == cpu[c].ptr
    IN  /\ At(c, "record") /\ Goto(c, "reserve")
        /\ hist' = [hist EXCEPT ![SizeToBucket(Size(live[p]))] = @ + 1]
        /\ \/ /\ p \in Recorded \/ Cardinality(Recorded) < room.allocs
              /\ table' = [table EXCEPT ![p] = live[p]]
              /\ UNCHANGED causes
           \/ /\ p \notin Recorded /\ Cardinality(Recorded) >= room.allocs
              /\ Spoiled("table full") /\ UNCHANGED table
    /\ UNCHANGED <<memory, setup, pidStats, ring, calls>>

-----------------------------------------------------------------------------
(* trace_free *)

(* the lookup in alloc_table *)
FreeLookup(c) ==
    /\ At(c, "free")
    /\ cpu' = [cpu EXCEPT ![c].pc = "uncharge", ![c].freed = Size(table[cpu[c].ptr])]
    /\ UNCHANGED <<memory, setup, maps, ring, calls, causes>>

(* the lookup in pid_stats_map: a pid without an entry is not charged *)
FreeUncharge(c) ==
    LET pid == cpu[c].pid
    IN  /\ At(c, "uncharge") /\ Goto(c, "delete")
        /\ \/ /\ pid \in DOMAIN pidStats
              /\ pidStats' = [pidStats EXCEPT ![pid].freeCount = @ + 1,
                                              ![pid].freeBytes = @ + cpu[c].freed]
              /\ UNCHANGED causes
           \/ /\ pid \notin DOMAIN pidStats /\ Spoiled("stranger") /\ UNCHANGED pidStats
    /\ UNCHANGED <<memory, setup, table, hist, ring, calls>>

(* Mutation: an event that finds no room ends the handler before the       *)
(* pointer is removed.                                                     *)
FreeDeleteIfReported(c) ==
    /\ At(c, "delete") /\ Goto(c, "reserve")
    /\ table' = IF Len(events) < RingSize THEN [table EXCEPT ![cpu[c].ptr] = None] ELSE table
    /\ UNCHANGED <<memory, setup, pidStats, hist, ring, calls, causes>>

FreeDelete(c) ==
    /\ At(c, "delete") /\ Goto(c, "reserve")
    /\ table' = [table EXCEPT ![cpu[c].ptr] = None]
    /\ UNCHANGED <<memory, setup, pidStats, hist, ring, calls, causes>>

-----------------------------------------------------------------------------
(* The end of both handlers: the event *)

(* kmalloc hands the pointer out, kfree takes the memory back.  The count  *)
(* of the event is the last access of a handler to what is shared, so that *)
(* the return goes with it.                                                *)
Return(c) ==
    /\ cpu' = [cpu EXCEPT ![c] = Idle]
    /\ live' = IF cpu[c].op = "free" THEN [live EXCEPT ![cpu[c].ptr] = None] ELSE live

Reserve(c) ==
    /\ At(c, "reserve") /\ Len(events) < RingSize
    /\ events' = Append(events, c)
    /\ Goto(c, "submit")
    /\ UNCHANGED <<memory, setup, maps, total, dropped, consumed, calls, causes>>

(* Mutation: a full ring buffer ends the handler silently. *)
DropSilently(c) ==
    /\ At(c, "reserve") /\ Len(events) >= RingSize
    /\ Return(c)
    /\ UNCHANGED <<nAllocs, setup, maps, ring, calls, causes>>

Drop(c) ==
    /\ At(c, "reserve") /\ Len(events) >= RingSize
    /\ dropped' = dropped + 1
    /\ Return(c)
    /\ UNCHANGED <<nAllocs, setup, maps, events, total, consumed, calls, causes>>

(* bpf_ringbuf_submit: from here on user space may take the record *)
Submit(c) ==
    /\ At(c, "submit")
    /\ events' = [i \in DOMAIN events |-> IF events[i] = c THEN Ready ELSE events[i]]
    /\ Goto(c, "count")
    /\ UNCHANGED <<memory, setup, maps, total, dropped, consumed, calls, causes>>

(* update_stats(STATS_EVENTS_TOTAL) *)
CountEvent(c) ==
    /\ At(c, "count")
    /\ total' = total + 1
    /\ Return(c)
    /\ UNCHANGED <<nAllocs, setup, maps, events, dropped, consumed, calls, causes>>

(* ring_buffer__poll calls handle_event for the records up to the first    *)
(* that has not been submitted                                             *)
Consume ==
    /\ events # <<>> /\ Head(events) = Ready
    /\ events' = Tail(events)
    /\ consumed' = consumed + 1
    /\ UNCHANGED <<memory, setup, cpu, maps, total, dropped, calls, causes>>

TraceAlloc(c) == AllocCharge(c) \/ AllocInsert(c) \/ AllocRecord(c)
TraceFree(c) == FreeLookup(c) \/ FreeUncharge(c) \/ FreeDelete(c)

Next ==
    \/ \E c \in CPUs, pid \in Pids, p \in Ptrs : Kmalloc(c, pid, p) \/ Kfree(c, pid, p)
    \/ \E c \in CPUs : TraceAlloc(c) \/ TraceFree(c) \/ Reserve(c) \/ Drop(c) \/ Submit(c)
                         \/ CountEvent(c)
    \/ Consume

Spec == Init /\ [][Next]_vars

Symmetry == Permutations(CPUs) \cup Permutations(Pids) \cup Permutations(Ptrs)

-----------------------------------------------------------------------------
Running == {c \in CPUs : cpu[c] # Idle}

Counting == {c \in CPUs : At(c, "count")}

(* Every handler that passed the filter is in one of the two counters of   *)
(* the drop statistics or has still to count, and every event submitted    *)
(* has been taken by user space or waits in the ring buffer.  Those that   *)
(* are not in the total yet are of handlers between the submission and its *)
(* count, when user space may already have taken them.                     *)
EventsAccountedFor ==
    /\ total + dropped + Cardinality(Running) = calls
    /\ total + Cardinality(Counting)
         = consumed + Cardinality({i \in DOMAIN events : events[i] = Ready})

(* Whatever the handlers race for, alloc_table names live memory only:     *)
(* what is reported as a leak has not been freed.  An entry outlives its   *)
(* memory only if the free went unseen.                                    *)
SuspectsAreLive ==
    "unseen" \notin causes => \A p \in Recorded : table[p] = live[p]

Active(pid) == pidStats[pid].allocBytes - pidStats[pid].freeBytes
SinceStart(a) == IF a = Old THEN None ELSE a

(* With no handler running, the active bytes of all processes add up to    *)
(* the memory in alloc_table, which is the memory allocated since the      *)
(* start, and the histogram to their allocations.  Five things can spoil   *)
(* this, and no interleaving of the handlers does otherwise: a call nobody *)
(* traces, two CPUs inserting the same pid, either map being full, and a   *)
(* free by a process that has not allocated.                               *)
BytesBalance ==
    Running = {} /\ causes = {} =>
        /\ SumFunction([pid \in DOMAIN pidStats |-> Active(pid)])
             = SumFunction([p \in Ptrs |-> Size(table[p])])
        /\ \A p \in Ptrs : table[p] = SinceStart(live[p])
        /\ SumFunction(hist)
             = SumFunction([pid \in DOMAIN pidStats |-> pidStats[pid].allocCount])

(* With no update in progress and none of the five causes having occurred, *)
(* no process has freed more bytes than it allocated, so the unsigned      *)
(* subtraction of the report cannot wrap.                                  *)
ActiveIsNotNegative ==
    Running = {} /\ causes = {} => \A pid \in DOMAIN pidStats : Active(pid) >= 0
=============================================================================
