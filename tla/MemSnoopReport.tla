--------------------------- MODULE MemSnoopReport ---------------------------
(***************************************************************************)
(* The user side of MemSnoop, ebpf-code/user/main.c and stats.c: load,     *)
(* poll the ring buffer, report at intervals, report once more, clean up.  *)
(* A report walks pid_stats_map and alloc_table key by key while the       *)
(* handlers in the kernel go on changing them.  The handlers (MemSnoopBpf) *)
(* are single steps on a map here.  Sorting and printing are left out.     *)
(*                                                                         *)
(* A BPF hash map (external) is a set of entries.  Its order is that of    *)
(* the buckets, and in a bucket an entry that is inserted, or replaced,    *)
(* comes first.  get_next_key returns the key after the given one, and the *)
(* first key of the map when the given one is not there.                   *)
(***************************************************************************)
EXTENDS Symbols, FiniteSets

CONSTANTS
    MaxDisplay,   (* MAX_DISPLAY_ENTRIES *)
    Buckets,      (* external: of a map; a key is in the bucket key % Buckets *)
    Interval, LeakAfter, MinSize,   (* interval_sec, leak_age_sec, leak_min_size *)
    Calls,        (* bound: the calls of kmalloc *)
    Settings,     (* bound: how many calls come, and the other options *)
    Start, MaxTime   (* bound: seconds *)

NoKey == 0

(* parse_opts: duration_sec (0 if there is no limit), show_stack, show_leak *)
Options == [duration : Nat, stack : BOOLEAN, leak : BOOLEAN]

ASSUME ReportAssumption ==
    /\ {MaxDisplay, Buckets} \subseteq Nat \ {0}
    /\ {Interval, LeakAfter, MinSize, Start, MaxTime} \subseteq Nat
    /\ Calls \subseteq [ptr : Nat \ {NoKey}, pid : Nat, stack : Int, size : Nat]
    /\ Settings \subseteq [calls : Nat, opts : Options]

VARIABLES
    allocs, pids,   (* external: alloc_table and pid_stats_map *)
    left, now,      (* external: calls of kmalloc to come, the clock *)
    opts,
    mPc, after,     (* main, and where it goes when print_report returns *)
    err, exiting, lastReport,
    walk            (* the walk over a map; `at` is key, or next_key before the lookup *)

maps == <<allocs, pids, left>>
main == <<mPc, after, err, lastReport>>
vars == <<symbolVars, maps, now, opts, main, exiting, walk>>

NoWalk == [over |-> "none", pc |-> "next", at |-> NoKey, since |-> 0,
           groups |-> {}, counted |-> {}, again |-> FALSE, present |-> {}, moved |-> FALSE]

Init ==
    /\ SymbolsInit
    /\ allocs = {} /\ pids = {} /\ now = Start
    /\ \E setting \in Settings : left = setting.calls /\ opts = setting.opts
    /\ mPc = "symbols" /\ after = "check" /\ err = 0 /\ exiting = FALSE /\ lastReport = 0
    /\ walk = NoWalk

-----------------------------------------------------------------------------
(* BPF hash maps *)

Keys(map) == {e.key : e \in map}
Bucket(e) == e.key % Buckets

(* An entry is known by its turn, the calls to come when it was inserted.  *)
Before(e, f) ==
    \/ Bucket(e) < Bucket(f)
    \/ Bucket(e) = Bucket(f) /\ e.turn < f.turn
Without(map, key) == {e \in map : e.key # key}
Insert(map, new) == Without(map, new.key) \cup {new}

(* the entry get_next_key finds, or none at the end *)
NextEntry(map, key) ==
    LET rest == {e \in map : \A f \in map : f.key = key => Before(f, e)}
    IN  {e \in rest : \A f \in rest : ~Before(f, e)}

(* The handlers.  For the walk that is under way, it is remembered which   *)
(* entries have been there all the time, and whether the key it stands on  *)
(* has been removed or replaced.  Next to the other steps of main, which   *)
(* touch no map, a handler may as well run later. *)
Tracing == mPc \in {"poll", "report"}
Churned(key, map) ==
    walk' = IF walk.over = "pids" THEN walk
            ELSE [walk EXCEPT !.present = @ \cap map, !.moved = @ \/ walk.at = key]

(* the pid is entered with BPF_NOEXIST, the pointer with BPF_ANY *)
RecordAlloc ==
    /\ Tracing /\ left > 0
    /\ left' = left - 1
    /\ \E c \in Calls :
          /\ pids' = IF c.pid \in Keys(pids) THEN pids ELSE Insert(pids, [key |-> c.pid, turn |-> left])
          /\ allocs' = Insert(allocs, [key |-> c.ptr, turn |-> left, at |-> now,
                                       stack |-> c.stack, size |-> c.size])
          /\ Churned(c.ptr, allocs')
    /\ UNCHANGED <<symbolVars, now, opts, main, exiting>>

RecordFree ==
    /\ Tracing
    /\ \E p \in Keys(allocs) : allocs' = Without(allocs, p) /\ Churned(p, allocs')
    /\ UNCHANGED <<symbolVars, pids, left, now, opts, main, exiting>>

Tick ==
    /\ Tracing /\ now < MaxTime /\ now' = now + 1
    /\ UNCHANGED <<symbolVars, maps, opts, main, exiting, walk>>

(* sig_handler *)
Signal ==
    /\ ~exiting /\ mPc # "exited" /\ exiting' = TRUE
    /\ UNCHANGED <<symbolVars, maps, now, opts, main, walk>>

-----------------------------------------------------------------------------
(* main *)

External == UNCHANGED <<maps, now, opts, exiting>>

(* Bound: an empty file if there are allocations to come *)
LoadSymbols ==
    /\ mPc = "symbols" /\ mPc' = "open"
    /\ SymbolsLoad(IF left = 0 THEN Kallsyms ELSE {<<>>})
    /\ External /\ UNCHANGED <<after, err, lastReport, walk>>

SetUp(step, next, failed) ==
    /\ mPc = step
    /\ \/ mPc' = next /\ UNCHANGED err
       \/ mPc' = failed /\ err' = -1
    /\ External /\ UNCHANGED <<symbolVars, after, lastReport, walk>>

Prepare ==
    \/ SetUp("open", "load", "exited") \/ SetUp("load", "attach", "cleanup")
    \/ SetUp("attach", "ring", "cleanup") \/ SetUp("ring", "check", "cleanup")

(* Mutation: only the interrupted poll ends the loop. *)
CheckUnconditional ==
    /\ mPc = "check" /\ mPc' = "poll"
    /\ External /\ UNCHANGED <<symbolVars, after, err, lastReport, walk>>

(* while (!exiting) *)
Check ==
    /\ mPc = "check"
    /\ mPc' = IF exiting THEN "final" ELSE "poll"
    /\ External /\ UNCHANGED <<symbolVars, after, err, lastReport, walk>>

(* ring_buffer__poll: the number of events, 0 after 100 ms, -EINTR (any    *)
(* signal, a continued process included), or an error                      *)
Poll ==
    /\ mPc = "poll"
    /\ \/ err' \in {0, 1} /\ mPc' = "due"
       \/ err' \in {0, -1} /\ mPc' = "final"
    /\ External /\ UNCHANGED <<symbolVars, after, lastReport, walk>>

WalkOver(map, name) ==
    walk' = [NoWalk EXCEPT !.over = name, !.present = map,
                           !.since = IF name = "leaks" THEN now ELSE 0]

(* the report that is due, if it is, and then whether the time is up *)
Due ==
    LET up == opts.duration > 0 /\ now - Start >= opts.duration
        goal == IF up THEN "final" ELSE "check"
    IN  /\ mPc = "due"
        /\ IF now - lastReport >= Interval
           THEN mPc' = "report" /\ after' = goal /\ lastReport' = now /\ WalkOver(pids, "pids")
           ELSE mPc' = goal /\ UNCHANGED <<after, lastReport, walk>>
        /\ External /\ UNCHANGED <<symbolVars, err>>

(* the last report, which a last poll that returned events leaves out *)
Final ==
    /\ mPc = "final"
    /\ IF err = 0 THEN mPc' = "report" /\ after' = "cleanup" /\ WalkOver(pids, "pids")
       ELSE mPc' = "cleanup" /\ UNCHANGED <<after, walk>>
    /\ External /\ UNCHANGED <<symbolVars, err, lastReport>>

Cleanup ==
    /\ mPc = "cleanup" /\ mPc' = "exited"
    /\ SymbolsFree
    /\ External /\ UNCHANGED <<after, err, lastReport, walk>>

-----------------------------------------------------------------------------
(* print_report, with print_pid_stats_top, print_stack_top and             *)
(* print_leak_suspects                                                     *)

Walking == mPc = "report" /\ walk.over # "none"
Map == IF walk.over = "pids" THEN pids ELSE allocs
Goto(pc) == walk' = [walk EXCEPT !.pc = pc]
WalkStep == External /\ UNCHANGED <<symbolVars, main>>

(* get_next_key; the list of processes may be full *)
WalkNext ==
    LET found == NextEntry(Map, walk.at)
        full  == walk.over = "pids" /\ Cardinality(walk.groups) >= MaxDisplay
    IN  /\ Walking /\ walk.pc = "next"
        /\ \/ (found = {} \/ full) /\ Goto("end")
           \/ ~full /\ \E e \in found : walk' = [walk EXCEPT !.pc = "lookup", !.at = e.key]
        /\ WalkStep

(* which entries a walk counts, and under what *)
Wanted(e) ==
    CASE walk.over = "pids"   -> TRUE
      [] walk.over = "stacks" -> e.stack >= 0
      [] walk.over = "leaks"  -> /\ walk.since > e.at /\ walk.since - e.at >= LeakAfter
                                 /\ e.size >= MinSize
Group(e) == IF walk.over = "pids" THEN e.key ELSE e.stack

Advance == [walk EXCEPT !.pc = "next"]
Skip == walk' = Advance
Count(e) == walk' = [Advance EXCEPT !.counted = @ \cup {e.turn},
                                    !.again = @ \/ e.turn \in walk.counted,
                                    !.groups = @ \cup {Group(e)}]

(* Mutation: an entry that has gone ends the walk. *)
WalkLookupBreaks ==
    LET found == {e \in Map : e.key = walk.at} IN
    /\ Walking /\ walk.pc = "lookup"
    /\ IF found = {} THEN Goto("end")
       ELSE \E e \in found : IF Wanted(e) THEN Count(e) ELSE Skip
    /\ WalkStep

(* lookup_elem: skip, add to the group of the stack, or open a group *)
WalkLookup ==
    LET taken == {e \in Map : e.key = walk.at /\ Wanted(e)
                     /\ (Group(e) \in walk.groups \/ Cardinality(walk.groups) < MaxDisplay)}
    IN  /\ Walking /\ walk.pc = "lookup"
        /\ \/ taken = {} /\ Skip
           \/ \E e \in taken : Count(e)
        /\ WalkStep

(* the next section of the report *)
WalkEnd ==
    LET stacks == walk.over = "pids" /\ opts.stack
        leaks  == walk.over # "leaks" /\ opts.leak
    IN  /\ Walking /\ walk.pc = "end"
        /\ IF stacks THEN WalkOver(allocs, "stacks") /\ UNCHANGED mPc
           ELSE IF leaks THEN WalkOver(allocs, "leaks") /\ UNCHANGED mPc
           ELSE walk' = NoWalk /\ mPc' = after
        /\ External /\ UNCHANGED <<symbolVars, after, err, lastReport>>

Main ==
    \/ LoadSymbols \/ Prepare \/ Check \/ Poll \/ Due \/ Final \/ Cleanup
    \/ WalkNext \/ WalkLookup \/ WalkEnd

Exited == mPc = "exited" /\ UNCHANGED vars

Next == Main \/ RecordAlloc \/ RecordFree \/ Tick \/ Signal \/ Exited

(* the process runs; the kernel owes nothing *)
Spec == Init /\ [][Next]_vars
FairSpec == Spec /\ WF_vars(Main)

-----------------------------------------------------------------------------
Full(e) == Group(e) \notin walk.groups /\ Cardinality(walk.groups) >= MaxDisplay

(* get_next_key for pid 0 is meant to start the walk: if pid 0 has an      *)
(* entry, the walk starts behind it. *)
BeforePid0(e) ==
    walk.over = "pids" /\ \E zero \in pids : zero.key = 0 /\ ~Before(zero, e)

(* A walk misses no entry that was there from its beginning to its end and *)
(* is wanted, unless the list is full, whatever the handlers insert,       *)
(* replace and remove meanwhile; it counts an entry twice only if the key  *)
(* it stood on was removed or replaced.  Processes up to pid 0 are the     *)
(* exception.                                                              *)
WalksAreComplete ==
    Walking /\ walk.pc = "end" =>
        /\ \A e \in walk.present :
              Wanted(e) => e.turn \in walk.counted \/ Full(e) \/ BeforePid0(e)
        /\ walk.again => walk.moved

(* A signal ends the program wherever it arrives, not only in the poll. *)
SignalEndsTracing == exiting ~> mPc = "exited"
=============================================================================
