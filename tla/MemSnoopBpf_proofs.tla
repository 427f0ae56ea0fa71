------------------------ MODULE MemSnoopBpf_proofs -------------------------
(***************************************************************************)
(* Proofs about the BPF programs, for any number of CPUs, processes and    *)
(* pointers and any size of the maps and of the ring buffer: the counters  *)
(* of events add up, an allocation that alloc_table still names has not    *)
(* been freed, and the bytes charged to the processes are those of the     *)
(* memory.                                                                 *)
(***************************************************************************)
EXTENDS MemSnoopBpf, FiniteSetTheorems, WellFoundedInduction, TLAPS

-----------------------------------------------------------------------------
(* The inductive invariant *)

InAlloc == {"alloc", "insert", "record"}
InFree == {"free", "uncharge", "delete"}
Places == {"idle"} \cup InAlloc \cup InFree \cup {"reserve", "submit", "count"}
Amounts == {Size(a) : a \in Int}
Handlers == [pc : Places, op : {"none", "alloc", "free"}, pid : Pids \cup {NoPid},
             ptr : Ptrs \cup {None}, freed : Amounts]

Runs(c) == cpu[c].pc # "idle"

CpuTyped ==
    /\ cpu \in [CPUs -> Handlers]
    /\ \A c \in CPUs : ~Runs(c) => cpu[c] = Idle
    /\ \A c \in CPUs : Runs(c) => cpu[c].ptr \in Ptrs

MemoryTyped == nAllocs \in Nat /\ live \in [Ptrs -> Int] /\ table \in [Ptrs -> Int]

CountersTyped ==
    total \in Nat /\ dropped \in Nat /\ consumed \in Nat /\ calls \in Nat

Slots == CPUs \cup {Ready}

(* a record of the ring buffer that is being filled belongs to the one     *)
(* handler that has reserved it and not submitted it                       *)
RingOwned ==
    /\ events \in Seq(Slots)
    /\ \A i, j \in DOMAIN events :
           events[i] = events[j] /\ events[i] # Ready => i = j
    /\ \A c \in CPUs : cpu[c].pc = "submit" <=> \E i \in DOMAIN events : events[i] = c

ReadyIn(s) == {i \in DOMAIN s : s[i] = Ready}

Counted ==
    /\ IsFiniteSet(Running)
    /\ total + dropped + Cardinality(Running) = calls
    /\ total + Cardinality(Counting) = consumed + Cardinality(ReadyIn(events))

(* a pointer is in the hands of one handler at a time, which is called     *)
(* while the memory is live                                                *)
Exclusive ==
    /\ \A c, d \in CPUs : Runs(c) /\ Runs(d) /\ c # d => cpu[c].ptr # cpu[d].ptr
    /\ \A c \in CPUs : Runs(c) => live[cpu[c].ptr] # None

(* where a handler is says which of the two it is, and kfree's has removed *)
(* its pointer before it comes to the event                                *)
Removed ==
    \A c \in CPUs :
        /\ cpu[c].pc \in InAlloc => cpu[c].op = "alloc"
        /\ cpu[c].pc \in InFree => cpu[c].op = "free"
        /\ cpu[c].pc \in {"reserve", "submit", "count"} /\ cpu[c].op = "free"
               => table[cpu[c].ptr] = None

Listed == "unseen" \notin causes => \A p \in Ptrs : table[p] # None => table[p] = live[p]

Inv ==
    /\ CpuTyped /\ MemoryTyped /\ CountersTyped
    /\ RingOwned /\ Counted /\ Exclusive /\ Removed /\ Listed

-----------------------------------------------------------------------------
(* What the invariant says of the properties *)

(* the set of running handlers, told by their places *)
RunningByPlace == Running = {c \in CPUs : Runs(c)}

(* The CPUs with a handler are those at one of its places. *)
LEMMA RunningAre == CpuTyped => RunningByPlace
<1>1. Idle.pc = "idle"
  BY DEF Idle
<1>. QED
  BY <1>1 DEF CpuTyped, Running, Runs, RunningByPlace

(* The invariant contains both properties. *)
LEMMA InvIsEnough == Inv => EventsAccountedFor /\ SuspectsAreLive
<1>1. Inv => EventsAccountedFor
  BY DEF Inv, Counted, EventsAccountedFor, ReadyIn
<1>2. Inv => SuspectsAreLive
  BY DEF Inv, Listed, SuspectsAreLive, Recorded
<1>. QED
  BY <1>1, <1>2

-----------------------------------------------------------------------------
(* The ring buffer: what each of its operations does to the number of      *)
(* submitted records                                                       *)

(* the submitted records are finitely many *)
LEMMA ReadyFinite ==
    ASSUME NEW S, NEW s \in Seq(S)
    PROVE  IsFiniteSet(ReadyIn(s)) /\ Cardinality(ReadyIn(s)) \in Nat
<1>1. Len(s) \in Nat /\ DOMAIN s = 1 .. Len(s)
  OBVIOUS
<1>2. IsFiniteSet(1 .. Len(s))
  BY <1>1, FS_Interval
<1>3. ReadyIn(s) \subseteq 1 .. Len(s)
  BY <1>1 DEF ReadyIn
<1>4. IsFiniteSet(ReadyIn(s))
  BY <1>2, <1>3, FS_Subset
<1>. QED
  BY <1>4, FS_CardinalityType

(* a record being filled is not one of them *)
LEMMA ReadyAfterReserve ==
    ASSUME NEW S, NEW s \in Seq(S), NEW c \in S, c # Ready
    PROVE  ReadyIn(Append(s, c)) = ReadyIn(s)
BY DEF ReadyIn

(* submitting the only record of a CPU makes it one of them *)
LEMMA ReadyAfterSubmit ==
    ASSUME NEW S, NEW s \in Seq(S), NEW c, c # Ready, NEW k \in DOMAIN s, s[k] = c,
           \A i \in DOMAIN s : s[i] = c => i = k
    PROVE  LET r == [i \in DOMAIN s |-> IF s[i] = c THEN Ready ELSE s[i]]
           IN  Cardinality(ReadyIn(r)) = Cardinality(ReadyIn(s)) + 1
<1>. DEFINE r == [i \in DOMAIN s |-> IF s[i] = c THEN Ready ELSE s[i]]
<1>1. ReadyIn(r) = ReadyIn(s) \cup {k}
  BY DEF ReadyIn
<1>2. k \notin ReadyIn(s)
  BY DEF ReadyIn
<1>3. IsFiniteSet(ReadyIn(s))
  BY ReadyFinite
<1>. HIDE DEF r
<1>4. Cardinality(ReadyIn(r)) = Cardinality(ReadyIn(s)) + 1
  BY <1>1, <1>2, <1>3, FS_AddElement
<1>. QED
  BY <1>4 DEF r

(* handing the first record to user space leaves one fewer: the others     *)
(* move one place down                                                     *)
LEMMA ReadyAfterConsume ==
    ASSUME NEW S, NEW s \in Seq(S), s # <<>>, Head(s) = Ready
    PROVE  Cardinality(ReadyIn(s)) = Cardinality(ReadyIn(Tail(s))) + 1
<1>. DEFINE rest == ReadyIn(s) \ {1}
            down == [i \in rest |-> i - 1]
<1>1. /\ Len(s) \in Nat /\ Len(s) >= 1 /\ DOMAIN s = 1 .. Len(s) /\ s[1] = Ready
      /\ Tail(s) \in Seq(S) /\ DOMAIN Tail(s) = 1 .. Len(s) - 1
      /\ \A i \in 1 .. Len(s) - 1 : Tail(s)[i] = s[i + 1]
  OBVIOUS
<1>2. rest \in SUBSET (2 .. Len(s)) /\ \A i \in 2 .. Len(s) : i \in rest <=> s[i] = Ready
  BY <1>1 DEF ReadyIn
<1>3. ReadyIn(Tail(s)) \in SUBSET (1 .. Len(s) - 1)
      /\ \A i \in 1 .. Len(s) - 1 : i \in ReadyIn(Tail(s)) <=> s[i + 1] = Ready
  BY <1>1 DEF ReadyIn
<1>4. down \in Bijection(rest, ReadyIn(Tail(s)))
  <2>. DEFINE target_ == ReadyIn(Tail(s))
  <2>. HIDE DEF rest, target_
  <2>1. down \in [rest -> target_]
    BY <1>1, <1>2, <1>3 DEF target_
  <2>2. \A i, j \in rest : down[i] = down[j] => i = j
    BY <1>1, <1>2
  <2>3. \A j \in target_ : \E i \in rest : down[i] = j
    <3>1. SUFFICES ASSUME NEW j \in target_
                   PROVE  j + 1 \in rest /\ down[j + 1] = j
      BY <3>1
    <3>2. j + 1 \in rest
      BY <1>1, <1>2, <1>3 DEF target_
    <3>3. j \in Int
      BY <1>3 DEF target_
    <3>. QED
      BY <3>2, <3>3
  <2>4. down \in Surjection(rest, target_)
    BY <2>1, <2>3 DEF Surjection
  <2>5. down \in Injection(rest, target_)
    BY <2>1, <2>2 DEF Injection, IsInjective
  <2>. QED
    BY <2>4, <2>5 DEF Bijection, target_
<1>5. 1 \in ReadyIn(s)
  BY <1>1 DEF ReadyIn
<1>6. IsFiniteSet(ReadyIn(s)) /\ Cardinality(ReadyIn(s)) \in Nat
  BY ReadyFinite
<1>7. IsFiniteSet(rest) /\ Cardinality(rest) = Cardinality(ReadyIn(s)) - 1
  BY <1>5, <1>6, FS_RemoveElement
<1>8. Cardinality(ReadyIn(Tail(s))) = Cardinality(rest)
  <2>1. ExistsBijection(rest, ReadyIn(Tail(s)))
    BY <1>4 DEF ExistsBijection
  <2>. HIDE DEF rest
  <2>. QED
    BY <1>7, <2>1, FS_Bijection
<1>. HIDE DEF rest
<1>. QED
  BY <1>6, <1>7, <1>8

-----------------------------------------------------------------------------
(* What the steps do to the handlers *)

(* a handler goes on *)
Moved(c, pc) ==
    /\ cpu' \in [CPUs -> Handlers]
    /\ cpu'[c].pc = pc /\ cpu'[c].op = cpu[c].op /\ cpu'[c].ptr = cpu[c].ptr
    /\ \A d \in CPUs : d # c => cpu'[d] = cpu[d]

(* a handler starts *)
Started(c, op, p) ==
    /\ cpu' \in [CPUs -> Handlers]
    /\ cpu[c].pc = "idle" /\ cpu'[c].pc = op /\ cpu'[c].op = op /\ cpu'[c].ptr = p
    /\ \A d \in CPUs : d # c => cpu'[d] = cpu[d]

(* a handler ends *)
Ended(c) ==
    /\ cpu' \in [CPUs -> Handlers]
    /\ cpu[c].pc # "idle" /\ cpu'[c] = Idle
    /\ \A d \in CPUs : d # c => cpu'[d] = cpu[d]

(* 0 is the size of what is not there *)
LEMMA SizeTyped == 0 \in Amounts /\ \A a \in Int : Size(a) \in Amounts
<1>1. Size(0) = 0
  BY DEF Size, None
<1>2. 0 \in Int /\ \A a \in Int : Size(a) \in Amounts
  BY DEF Amounts
<1>. QED
  BY <1>1, <1>2

(* A CPU without a handler. *)
LEMMA IdleTyped == Idle \in Handlers /\ Idle.pc = "idle"
<1>. USE SizeTyped
<1>. QED
  BY DEF Idle, Handlers, Places

(* The three ways in which the handler of a CPU changes: it goes on, *)
LEMMA GotoMoves ==
    ASSUME CpuTyped, NEW c \in CPUs, NEW pc \in Places, Goto(c, pc)
    PROVE  Moved(c, pc)
BY DEF CpuTyped, Handlers, Goto, Moved

(* it starts, *)
LEMMA HandleStarts ==
    ASSUME CpuTyped, NEW c \in CPUs, NEW op \in {"alloc", "free"}, NEW pid \in Pids,
           NEW p \in Ptrs, cpu[c] = Idle, Handle(c, op, pid, p)
    PROVE  Started(c, op, p)
<1>. DEFINE h == [pc |-> op, op |-> op, pid |-> pid, ptr |-> p, freed |-> 0]
<1>1. h \in Handlers
  BY SizeTyped DEF Handlers, Places, InAlloc, InFree
<1>2. h.pc = op /\ h.op = op /\ h.ptr = p
  OBVIOUS
<1>3. cpu' = [cpu EXCEPT ![c] = h]
  BY DEF Handle
<1>. HIDE DEF h
<1>. QED
  BY <1>1, <1>2, <1>3, IdleTyped DEF CpuTyped, Started

(* it returns. *)
LEMMA ReturnEnds ==
    ASSUME CpuTyped, NEW c \in CPUs, Runs(c), Return(c)
    PROVE  Ended(c)
BY IdleTyped DEF CpuTyped, Return, Ended, Runs

(* A handler that goes on keeps the set of those that run, *)
LEMMA MovedKeeps ==
    ASSUME CpuTyped, NEW c \in CPUs, Runs(c), NEW pc \in Places, pc # "idle", Moved(c, pc)
    PROVE  CpuTyped' /\ Running' = Running
<1>1. CpuTyped'
  BY DEF CpuTyped, Moved, Runs
<1>2. RunningByPlace'
  BY <1>1, RunningAre, PTL
<1>3. \A d \in CPUs : d \in Running' <=> Runs(d)
  BY <1>2 DEF Moved, Runs, RunningByPlace
<1>. QED
  BY <1>1, <1>2, <1>3, RunningAre DEF RunningByPlace

(* one that starts joins it, *)
LEMMA StartedAdds ==
    ASSUME CpuTyped, NEW c \in CPUs, NEW op \in {"alloc", "free"}, NEW p \in Ptrs,
           Started(c, op, p)
    PROVE  CpuTyped' /\ Running' = Running \cup {c} /\ c \notin Running
<1>1. CpuTyped'
  BY DEF CpuTyped, Started, Runs
<1>2. RunningByPlace'
  BY <1>1, RunningAre, PTL
<1>3. \A d \in CPUs : d \in Running' <=> d = c \/ Runs(d)
  BY <1>2 DEF Started, Runs, RunningByPlace
<1>. QED
  BY <1>1, <1>2, <1>3, RunningAre DEF Started, Runs, RunningByPlace

(* one that returns leaves it. *)
LEMMA EndedRemoves ==
    ASSUME CpuTyped, NEW c \in CPUs, Ended(c)
    PROVE  CpuTyped' /\ Running' = Running \ {c} /\ c \in Running
<1>1. CpuTyped'
  BY IdleTyped DEF CpuTyped, Ended, Runs
<1>2. RunningByPlace'
  BY <1>1, RunningAre, PTL
<1>3. \A d \in CPUs : d \in Running' <=> d # c /\ Runs(d)
  BY <1>2, IdleTyped DEF Ended, Runs, RunningByPlace
<1>. QED
  BY <1>1, <1>2, <1>3, RunningAre DEF Ended, Runs, RunningByPlace

(* The handlers between the submission of an event and its count are some  *)
(* of those that run, *)
LEMMA CountingFinite == Inv => IsFiniteSet(Counting) /\ Cardinality(Counting) \in Nat
<1>. SUFFICES ASSUME Inv PROVE IsFiniteSet(Counting) /\ Cardinality(Counting) \in Nat
  OBVIOUS
<1>1. IsFiniteSet(Running) /\ Counting \subseteq Running
  BY RunningAre DEF Inv, Counted, RunningByPlace, Runs, Counting, At
<1>. QED
  BY <1>1, FS_Subset, FS_CardinalityType

(* and the same ones after a step that neither submits nor counts. *)
LEMMA CountingStays ==
    ASSUME \A c \in CPUs : cpu'[c].pc = "count" <=> cpu[c].pc = "count"
    PROVE  Counting' = Counting
BY DEF Counting, At

-----------------------------------------------------------------------------
(* The initial states and stuttering *)

(* The invariant holds at first and while nothing happens. *)
LEMMA InitHolds == Init => Inv
<1>. SUFFICES ASSUME Init PROVE Inv
  OBVIOUS
<1>1. CpuTyped
  BY IdleTyped DEF Init, CpuTyped, Runs
<1>2. MemoryTyped /\ CountersTyped
  BY DEF Init, MemoryTyped, CountersTyped, None, Old
<1>3. events = <<>> /\ \A c \in CPUs : cpu[c].pc = "idle"
  BY IdleTyped DEF Init
<1>4. RingOwned
  BY <1>3 DEF RingOwned, Slots
<1>5. Counted
  <2>1. Running = {}
    BY <1>1, <1>3, RunningAre DEF RunningByPlace, Runs
  <2>2. ReadyIn(events) = {}
    BY <1>3 DEF ReadyIn
  <2>3. total = 0 /\ dropped = 0 /\ consumed = 0 /\ calls = 0
    BY DEF Init
  <2>4. IsFiniteSet({}) /\ Cardinality({}) = 0
    BY FS_EmptySet
  <2>5. Counting = {}
    BY <1>3 DEF Counting, At
  <2>. QED
    BY <2>1, <2>2, <2>3, <2>4, <2>5 DEF Counted
<1>6. Exclusive /\ Removed
  BY <1>3 DEF Exclusive, Removed, Runs, InAlloc, InFree
<1>7. Listed
  BY DEF Init, Listed
<1>. QED
  BY <1>1, <1>2, <1>4, <1>5, <1>6, <1>7 DEF Inv

LEMMA StutterKeeps == Inv /\ UNCHANGED vars => Inv'
<1>. SUFFICES ASSUME Inv, UNCHANGED vars PROVE Inv'
  OBVIOUS
<1>. USE DEF Inv, vars, memory, maps, ring, setup
<1>1. CpuTyped' /\ MemoryTyped' /\ CountersTyped'
  BY DEF CpuTyped, MemoryTyped, CountersTyped, Runs
<1>2. RingOwned'
  BY DEF RingOwned
<1>3. Counted'
  BY DEF Counted, Counting, At, Running, ReadyIn
<1>4. Exclusive' /\ Removed' /\ Listed'
  BY DEF Exclusive, Removed, Listed, Runs
<1>. QED
  BY <1>1, <1>2, <1>3, <1>4

-----------------------------------------------------------------------------
(* The steps inside the handlers *)

(* a step of a handler that leaves the ring buffer alone *)
Quiet(c, to) ==
    /\ Runs(c) /\ cpu[c].pc \notin {"submit", "count"} /\ Moved(c, to)
    /\ UNCHANGED <<nAllocs, live, events, total, dropped, consumed, calls>>
    /\ "unseen" \in causes' <=> "unseen" \in causes

(* A step that counts nothing and leaves the ring buffer alone. *)
LEMMA QuietKeeps ==
    ASSUME Inv, NEW c \in CPUs, NEW to \in Places, to \notin {"idle", "submit", "count"},
           Quiet(c, to)
    PROVE  CpuTyped' /\ CountersTyped' /\ RingOwned' /\ Counted' /\ Exclusive'
<1>. USE DEF Inv
<1>1. CpuTyped' /\ Running' = Running
  BY MovedKeeps DEF Quiet
<1>2. CountersTyped'
  BY DEF Quiet, CountersTyped
<1>3. RingOwned'
  <2>1. \A d \in CPUs : cpu'[d].pc = "submit" <=> cpu[d].pc = "submit"
    BY DEF Quiet, Moved
  <2>. QED
    BY <2>1 DEF Quiet, RingOwned
<1>4. Counted'
  <2>1. Counting' = Counting
    BY CountingStays DEF Quiet, Moved
  <2>. QED
    BY <1>1, <2>1 DEF Quiet, Counted, ReadyIn
<1>5. Exclusive'
  <2>1. \A d \in CPUs : (Runs(d)' <=> Runs(d)) /\ cpu'[d].ptr = cpu[d].ptr
    BY DEF Quiet, Moved, Runs
  <2>. QED
    BY <2>1 DEF Quiet, Exclusive
<1>. QED
  BY <1>1, <1>2, <1>3, <1>4, <1>5

(* a step that leaves alloc_table alone too and stays in its handler *)
LEMMA QuietSettles ==
    ASSUME Inv, NEW c \in CPUs, NEW to \in Places, Quiet(c, to), UNCHANGED table,
           \/ cpu[c].pc \in InAlloc /\ to \in InAlloc
           \/ cpu[c].pc \in InFree /\ to \in InFree
    PROVE  Inv'
<1>1. to \notin {"idle", "submit", "count", "reserve"}
  BY DEF InAlloc, InFree
<1>2. CpuTyped' /\ CountersTyped' /\ RingOwned' /\ Counted' /\ Exclusive'
  BY <1>1, QuietKeeps
<1>3. MemoryTyped' /\ Listed'
  BY DEF Inv, Quiet, MemoryTyped, Listed
<1>4. Removed'
  BY <1>1 DEF Inv, Quiet, Moved, Removed, InAlloc, InFree
<1>. QED
  BY <1>2, <1>3, <1>4 DEF Inv

(* The steps of the two handlers before their event, one by one. *)
LEMMA AllocChargeKeeps == ASSUME Inv, NEW c \in CPUs, AllocCharge(c) PROVE Inv'
<1>. USE DEF Inv
<1>1. PICK to \in {"record", "insert"} : Goto(c, to)
  BY DEF AllocCharge
<1>2. to \in Places /\ to \in InAlloc
  BY DEF Places, InAlloc
<1>3. Quiet(c, to)
  <2>1. Moved(c, to)
    BY <1>1, <1>2, GotoMoves
  <2>. QED
    BY <2>1 DEF AllocCharge, Quiet, At, Runs, memory, ring
<1>4. cpu[c].pc \in InAlloc /\ UNCHANGED table
  BY DEF AllocCharge, At, InAlloc
<1>. QED
  BY <1>2, <1>3, <1>4, QuietSettles

LEMMA AllocInsertKeeps == ASSUME Inv, NEW c \in CPUs, AllocInsert(c) PROVE Inv'
<1>. USE DEF Inv
<1>1. "record" \in Places /\ "record" \in InAlloc
  BY DEF Places, InAlloc
<1>2. Quiet(c, "record")
  <2>1. Moved(c, "record")
    BY <1>1, GotoMoves DEF AllocInsert
  <2>2. "unseen" \in causes' <=> "unseen" \in causes
    BY DEF AllocInsert, Spoiled
  <2>. QED
    BY <2>1, <2>2 DEF AllocInsert, Quiet, At, Runs, memory, ring
<1>3. cpu[c].pc \in InAlloc /\ UNCHANGED table
  BY DEF AllocInsert, At, InAlloc
<1>. QED
  BY <1>1, <1>2, <1>3, QuietSettles

LEMMA FreeUnchargeKeeps == ASSUME Inv, NEW c \in CPUs, FreeUncharge(c) PROVE Inv'
<1>. USE DEF Inv
<1>1. "delete" \in Places /\ "delete" \in InFree
  BY DEF Places, InFree
<1>2. Quiet(c, "delete")
  <2>1. Moved(c, "delete")
    BY <1>1, GotoMoves DEF FreeUncharge
  <2>2. "unseen" \in causes' <=> "unseen" \in causes
    BY DEF FreeUncharge, Spoiled
  <2>. QED
    BY <2>1, <2>2 DEF FreeUncharge, Quiet, At, Runs, memory, ring
<1>3. cpu[c].pc \in InFree /\ UNCHANGED table
  BY DEF FreeUncharge, At, InFree
<1>. QED
  BY <1>1, <1>2, <1>3, QuietSettles

LEMMA FreeLookupKeeps == ASSUME Inv, NEW c \in CPUs, FreeLookup(c) PROVE Inv'
<1>. USE DEF Inv
<1>1. "uncharge" \in Places /\ "uncharge" \in InFree
  BY DEF Places, InFree
<1>2. Quiet(c, "uncharge")
  <2>1. cpu[c].ptr \in Ptrs
    BY DEF FreeLookup, At, CpuTyped, Runs
  <2>2. Size(table[cpu[c].ptr]) \in Amounts
    BY <2>1, SizeTyped DEF MemoryTyped
  <2>3. Moved(c, "uncharge")
    BY <1>1, <2>2 DEF FreeLookup, Moved, CpuTyped, Handlers
  <2>. QED
    BY <2>3 DEF FreeLookup, Quiet, At, Runs, memory, ring
<1>3. cpu[c].pc \in InFree /\ UNCHANGED table
  BY DEF FreeLookup, At, InFree, maps
<1>. QED
  BY <1>1, <1>2, <1>3, QuietSettles

(* the update of alloc_table: the pointer is this handler's alone *)
LEMMA AllocRecordKeeps == ASSUME Inv, NEW c \in CPUs, AllocRecord(c) PROVE Inv'
<1>. USE DEF Inv
<1>1. "reserve" \in Places /\ Quiet(c, "reserve")
  <2>1. "reserve" \in Places
    BY DEF Places
  <2>2. Moved(c, "reserve")
    BY <2>1, GotoMoves DEF AllocRecord
  <2>3. "unseen" \in causes' <=> "unseen" \in causes
    BY DEF AllocRecord, Spoiled
  <2>. QED
    BY <2>1, <2>2, <2>3 DEF AllocRecord, Quiet, At, Runs, memory, ring
<1>2. CpuTyped' /\ CountersTyped' /\ RingOwned' /\ Counted' /\ Exclusive'
  BY <1>1, QuietKeeps
<1>3. /\ Runs(c) /\ cpu[c].ptr \in Ptrs /\ cpu[c].op = "alloc"
      /\ live[cpu[c].ptr] # None
  BY DEF AllocRecord, At, Runs, CpuTyped, Removed, InAlloc, Exclusive
<1>4. table' = [table EXCEPT ![cpu[c].ptr] = live[cpu[c].ptr]] \/ table' = table
  BY DEF AllocRecord
<1>5. MemoryTyped'
  BY <1>1, <1>3, <1>4 DEF Quiet, MemoryTyped
<1>6. Removed'
  <2>1. \A d \in CPUs : d # c /\ Runs(d) => cpu[d].ptr # cpu[c].ptr
    BY <1>3 DEF Exclusive
  <2>2. \A d \in CPUs : d # c /\ Runs(d) => table'[cpu[d].ptr] = table[cpu[d].ptr]
    BY <1>3, <1>4, <2>1 DEF CpuTyped, MemoryTyped
  <2>3. \A d \in CPUs : d # c => cpu'[d] = cpu[d]
    BY <1>1 DEF Quiet, Moved
  <2>4. cpu'[c].pc = "reserve" /\ cpu'[c].op = "alloc"
    BY <1>1, <1>3 DEF Quiet, Moved
  <2>. QED
    BY <2>2, <2>3, <2>4 DEF Removed, Runs, InAlloc, InFree
<1>7. Listed'
  BY <1>1, <1>3, <1>4 DEF Quiet, Listed, MemoryTyped
<1>. QED
  BY <1>2, <1>5, <1>6, <1>7

(* the deletion from alloc_table comes before the memory is taken back *)
LEMMA FreeDeleteKeeps == ASSUME Inv, NEW c \in CPUs, FreeDelete(c) PROVE Inv'
<1>. USE DEF Inv
<1>1. "reserve" \in Places /\ Quiet(c, "reserve")
  <2>1. "reserve" \in Places
    BY DEF Places
  <2>2. Moved(c, "reserve")
    BY <2>1, GotoMoves DEF FreeDelete
  <2>. QED
    BY <2>1, <2>2 DEF FreeDelete, Quiet, At, Runs, memory, ring
<1>2. CpuTyped' /\ CountersTyped' /\ RingOwned' /\ Counted' /\ Exclusive'
  BY <1>1, QuietKeeps
<1>3. Runs(c) /\ cpu[c].ptr \in Ptrs
  BY DEF FreeDelete, At, Runs, CpuTyped
<1>4. table' = [table EXCEPT ![cpu[c].ptr] = None]
  BY DEF FreeDelete
<1>5. MemoryTyped'
  BY <1>1, <1>3, <1>4 DEF Quiet, MemoryTyped, None
<1>6. Removed'
  <2>1. \A d \in CPUs : Runs(d) => cpu[d].ptr \in Ptrs
    BY DEF CpuTyped
  <2>2. \A p \in Ptrs : table'[p] = None \/ table'[p] = table[p]
    BY <1>3, <1>4 DEF MemoryTyped
  <2>3. table'[cpu[c].ptr] = None
    BY <1>3, <1>4 DEF MemoryTyped
  <2>4. \A d \in CPUs : d # c => cpu'[d] = cpu[d]
    BY <1>1 DEF Quiet, Moved
  <2>5. cpu'[c].pc = "reserve" /\ cpu'[c].ptr = cpu[c].ptr
    BY <1>1 DEF Quiet, Moved
  <2>. QED
    BY <2>1, <2>2, <2>3, <2>4, <2>5 DEF Removed, Runs, InAlloc, InFree
<1>7. Listed'
  BY <1>1, <1>3, <1>4 DEF Quiet, Listed, MemoryTyped
<1>. QED
  BY <1>2, <1>5, <1>6, <1>7

-----------------------------------------------------------------------------
(* The steps on the ring buffer *)

(* the reservation: the record belongs to this handler, which had none     *)
LEMMA ReserveKeeps == ASSUME Inv, NEW c \in CPUs, Reserve(c) PROVE Inv'
<1>. USE DEF Inv
<1>1. Runs(c) /\ cpu[c].pc = "reserve" /\ events' = Append(events, c)
      /\ UNCHANGED <<nAllocs, live, table, total, dropped, consumed, calls, causes>>
  BY DEF Reserve, At, Runs, memory, maps
<1>2. "submit" \in Places /\ Moved(c, "submit")
  <2>1. "submit" \in Places
    BY DEF Places
  <2>. QED
    BY <2>1, GotoMoves DEF Reserve
<1>3. CpuTyped' /\ Running' = Running
  BY <1>1, <1>2, MovedKeeps
<1>4. CountersTyped' /\ MemoryTyped'
  BY <1>1 DEF CountersTyped, MemoryTyped
<1>5. c # Ready /\ c \in Slots
  BY BpfAssumption DEF Ready, Slots
<1>6. RingOwned'
  <2>1. events \in Seq(Slots) /\ events' \in Seq(Slots)
    BY <1>1, <1>5 DEF RingOwned
  <2>2. /\ Len(events) \in Nat /\ DOMAIN events = 1 .. Len(events)
        /\ DOMAIN events' = 1 .. Len(events) + 1
        /\ events'[Len(events) + 1] = c
        /\ \A i \in 1 .. Len(events) : events'[i] = events[i]
    BY <1>1, <2>1, <1>5
  <2>3. \A i \in DOMAIN events : events[i] # c
    BY <1>1 DEF RingOwned
  <2>4. \A i, j \in DOMAIN events' :
            events'[i] = events'[j] /\ events'[i] # Ready => i = j
    BY <2>2, <2>3 DEF RingOwned
  <2>5. \A d \in CPUs : d # c => (cpu'[d].pc = "submit" <=> cpu[d].pc = "submit")
    BY <1>2 DEF Moved
  <2>6. \A d \in CPUs : cpu[d].pc = "submit" <=> \E i \in 1 .. Len(events) : events[i] = d
    BY <2>2 DEF RingOwned
  <2>7. \A d \in CPUs : cpu'[d].pc = "submit" <=> \E i \in DOMAIN events' : events'[i] = d
    BY <2>2, <2>5, <2>6, <1>2 DEF Moved
  <2>. QED
    BY <2>1, <2>4, <2>7 DEF RingOwned
<1>7. Counted'
  <2>1. ReadyIn(events') = ReadyIn(events)
    BY <1>1, <1>5, ReadyAfterReserve DEF RingOwned
  <2>2. Counting' = Counting
    BY <1>1, <1>2, CountingStays DEF Moved
  <2>. QED
    BY <1>1, <1>3, <2>1, <2>2 DEF Counted
<1>8. \A d \in CPUs : (Runs(d)' <=> Runs(d)) /\ cpu'[d].ptr = cpu[d].ptr /\ cpu'[d].op = cpu[d].op
  BY <1>1, <1>2 DEF Moved, Runs
<1>9. Exclusive' /\ Listed'
  BY <1>1, <1>8 DEF Exclusive, Listed
<1>10. Removed'
  BY <1>1, <1>2, <1>8 DEF Moved, Removed, InAlloc, InFree
<1>. QED
  BY <1>3, <1>4, <1>6, <1>7, <1>9, <1>10

(* The end of a handler: what is said of the pointers and the maps.  The   *)
(* memory of a kfree goes back only after its pointer has left the table.  *)
LEMMA ReturnKeeps ==
    ASSUME Inv, NEW c \in CPUs, cpu[c].pc \in {"reserve", "count"}, Return(c),
           UNCHANGED <<nAllocs, table, causes>>
    PROVE  Ended(c) /\ CpuTyped' /\ MemoryTyped' /\ Exclusive' /\ Removed' /\ Listed'
<1>. USE DEF Inv
<1>1. Runs(c) /\ cpu[c].ptr \in Ptrs
  BY DEF Runs, CpuTyped
<1>2. Ended(c)
  BY <1>1, ReturnEnds
<1>3. CpuTyped'
  BY <1>2, EndedRemoves
<1>4. /\ \/ live' = [live EXCEPT ![cpu[c].ptr] = None] /\ table[cpu[c].ptr] = None
         \/ live' = live
      /\ UNCHANGED <<nAllocs, table, causes>>
  BY DEF Return, Removed
<1>5. MemoryTyped'
  BY <1>1, <1>4 DEF MemoryTyped, None
<1>6. /\ \A d \in CPUs : d # c => cpu'[d] = cpu[d] /\ (Runs(d)' <=> Runs(d))
      /\ ~Runs(c)' /\ cpu'[c].pc = "idle"
  BY <1>2, IdleTyped DEF Ended, Runs
<1>7. Exclusive'
  <2>1. \A d \in CPUs : d # c /\ Runs(d) => cpu[d].ptr # cpu[c].ptr /\ cpu[d].ptr \in Ptrs
    BY <1>1 DEF Exclusive, CpuTyped
  <2>2. \A d \in CPUs : d # c /\ Runs(d) => live'[cpu[d].ptr] = live[cpu[d].ptr]
    BY <1>1, <1>4, <2>1 DEF MemoryTyped
  <2>. QED
    BY <1>6, <2>2 DEF Exclusive
<1>8. Removed'
  BY <1>4, <1>6 DEF Removed, InAlloc, InFree
<1>9. Listed'
  BY <1>1, <1>4 DEF Listed, MemoryTyped
<1>. QED
  BY <1>2, <1>3, <1>5, <1>7, <1>8, <1>9

(* one handler fewer runs *)
LEMMA EndedCounts ==
    ASSUME Inv, NEW c \in CPUs, Ended(c)
    PROVE  /\ IsFiniteSet(Running') /\ Cardinality(Running') \in Nat
           /\ Cardinality(Running) = Cardinality(Running') + 1
<1>1. CpuTyped /\ IsFiniteSet(Running)
  BY DEF Inv, Counted
<1>2. Running' = Running \ {c} /\ c \in Running
  BY <1>1, EndedRemoves
<1>3. Cardinality(Running) \in Nat
  BY <1>1, FS_CardinalityType
<1>4. IsFiniteSet(Running \ {c}) /\ Cardinality(Running \ {c}) = Cardinality(Running) - 1
  BY <1>1, <1>2, FS_RemoveElement
<1>5. Cardinality(Running \ {c}) \in Nat
  BY <1>4, FS_CardinalityType
<1>. QED
  BY <1>2, <1>3, <1>4, <1>5

(* The event: no room in the ring buffer, or a record to fill and submit. *)
LEMMA DropKeeps == ASSUME Inv, NEW c \in CPUs, Drop(c) PROVE Inv'
<1>. USE DEF Inv
<1>1. /\ cpu[c].pc = "reserve" /\ Return(c) /\ dropped' = dropped + 1
      /\ UNCHANGED <<nAllocs, table, causes, events, total, consumed, calls>>
  BY DEF Drop, At, maps
<1>2. Ended(c) /\ CpuTyped' /\ MemoryTyped' /\ Exclusive' /\ Removed' /\ Listed'
  BY <1>1, ReturnKeeps
<1>3. CountersTyped'
  BY <1>1 DEF CountersTyped
<1>4. RingOwned'
  <2>1. \A d \in CPUs : cpu'[d].pc = "submit" <=> cpu[d].pc = "submit"
    BY <1>1, <1>2, IdleTyped DEF Ended
  <2>. QED
    BY <1>1, <2>1 DEF RingOwned
<1>5. Counted'
  <2>1. /\ IsFiniteSet(Running') /\ Cardinality(Running') \in Nat
        /\ Cardinality(Running) = Cardinality(Running') + 1
    BY <1>2, EndedCounts
  <2>2. ReadyIn(events') = ReadyIn(events)
    BY <1>1
  <2>3. Counting' = Counting
    BY <1>1, <1>2, IdleTyped, CountingStays DEF Ended
  <2>. QED
    BY <1>1, <2>1, <2>2, <2>3 DEF Counted, CountersTyped
<1>. QED
  BY <1>2, <1>3, <1>4, <1>5

(* from the submission to its count, the event is one that is ready and    *)
(* the handler one that has still to count                                 *)
LEMMA SubmitKeeps == ASSUME Inv, NEW c \in CPUs, Submit(c) PROVE Inv'
<1>. USE DEF Inv
<1>1. /\ Runs(c) /\ cpu[c].pc = "submit"
      /\ events' = [i \in DOMAIN events |-> IF events[i] = c THEN Ready ELSE events[i]]
      /\ UNCHANGED <<nAllocs, live, table, causes, total, dropped, consumed, calls>>
  BY DEF Submit, At, Runs, memory, maps
<1>2. "count" \in Places /\ Moved(c, "count")
  <2>1. "count" \in Places
    BY DEF Places
  <2>. QED
    BY <2>1, GotoMoves DEF Submit
<1>3. /\ CpuTyped' /\ Running' = Running
      /\ CountersTyped' /\ MemoryTyped'
  BY <1>1, <1>2, MovedKeeps DEF CountersTyped, MemoryTyped
<1>4. c # Ready
  BY BpfAssumption DEF Ready
<1>5. events \in Seq(Slots) /\ Len(events) \in Nat /\ DOMAIN events = 1 .. Len(events)
  BY DEF RingOwned
<1>6. PICK k \in DOMAIN events : events[k] = c
  BY <1>1 DEF RingOwned
<1>7. \A i \in DOMAIN events : events[i] = c => i = k
  BY <1>4, <1>6 DEF RingOwned
<1>8. RingOwned'
  <2>1. events' \in Seq(Slots) /\ DOMAIN events' = DOMAIN events
    <3>1. \A i \in 1 .. Len(events) : events[i] \in Slots
      BY <1>5
    <3>2. events' \in [1 .. Len(events) -> Slots]
      BY <1>1, <1>5, <3>1 DEF Slots
    <3>. QED
      BY <1>5, <3>2
  <2>2. /\ events'[k] = Ready
        /\ \A i \in DOMAIN events : i # k => events'[i] = events[i] /\ events[i] # c
    BY <1>1, <1>6, <1>7
  <2>3. \A i, j \in DOMAIN events' :
            events'[i] = events'[j] /\ events'[i] # Ready => i = j
    BY <2>1, <2>2 DEF RingOwned
  <2>4. cpu'[c].pc # "submit" /\ \A d \in CPUs : d # c => cpu'[d] = cpu[d]
    BY <1>2 DEF Moved
  <2>5. \A d \in CPUs : d # Ready
    BY BpfAssumption DEF Ready
  <2>6. \A i \in DOMAIN events' : events'[i] # c
    BY <1>4, <2>1, <2>2
  <2>7. \A d \in CPUs : d # c =>
            ((\E i \in DOMAIN events : events[i] = d) <=> \E i \in DOMAIN events' : events'[i] = d)
    BY <1>6, <2>1, <2>2, <2>5
  <2>8. \A d \in CPUs : cpu'[d].pc = "submit" <=> \E i \in DOMAIN events' : events'[i] = d
    BY <2>4, <2>6, <2>7 DEF RingOwned
  <2>. QED
    BY <2>1, <2>3, <2>8 DEF RingOwned
<1>9. Counted'
  <2>1. Counting' = Counting \cup {c} /\ c \notin Counting
    BY <1>1, <1>2 DEF Moved, Counting, At
  <2>2. Cardinality(ReadyIn(events')) = Cardinality(ReadyIn(events)) + 1
    BY ZenonT(60), <1>1, <1>4, <1>5, <1>6, <1>7, ReadyAfterSubmit
  <2>3. Cardinality(ReadyIn(events)) \in Nat
    BY <1>5, ReadyFinite
  <2>4. Cardinality(Counting) \in Nat /\ Cardinality(Counting') = Cardinality(Counting) + 1
    BY <2>1, CountingFinite, FS_AddElement
  <2>. QED
    BY <1>1, <1>3, <2>2, <2>3, <2>4 DEF Counted, CountersTyped
<1>10. \A d \in CPUs : (Runs(d)' <=> Runs(d)) /\ cpu'[d].ptr = cpu[d].ptr /\ cpu'[d].op = cpu[d].op
  BY <1>1, <1>2 DEF Moved, Runs
<1>11. Exclusive' /\ Listed'
  BY <1>1, <1>10 DEF Exclusive, Listed
<1>12. Removed'
  BY <1>1, <1>2, <1>10 DEF Moved, Removed, InAlloc, InFree
<1>. QED
  BY <1>3, <1>8, <1>9, <1>11, <1>12

LEMMA CountEventKeeps == ASSUME Inv, NEW c \in CPUs, CountEvent(c) PROVE Inv'
<1>. USE DEF Inv
<1>1. /\ cpu[c].pc = "count" /\ Return(c) /\ total' = total + 1
      /\ UNCHANGED <<nAllocs, table, causes, events, dropped, consumed, calls>>
  BY DEF CountEvent, At, maps
<1>2. Ended(c) /\ CpuTyped' /\ MemoryTyped' /\ Exclusive' /\ Removed' /\ Listed'
  BY <1>1, ReturnKeeps
<1>3. CountersTyped'
  BY <1>1 DEF CountersTyped
<1>4. RingOwned'
  <2>1. \A d \in CPUs : cpu'[d].pc = "submit" <=> cpu[d].pc = "submit"
    BY <1>1, <1>2, IdleTyped DEF Ended
  <2>. QED
    BY <1>1, <2>1 DEF RingOwned
<1>5. Counted'
  <2>1. /\ IsFiniteSet(Running') /\ Cardinality(Running') \in Nat
        /\ Cardinality(Running) = Cardinality(Running') + 1
    BY <1>2, EndedCounts
  <2>2. ReadyIn(events') = ReadyIn(events)
    BY <1>1
  <2>3. Counting' = Counting \ {c} /\ c \in Counting
    BY <1>1, <1>2, IdleTyped DEF Ended, Counting, At
  <2>4. Cardinality(Counting) \in Nat /\ Cardinality(Counting') = Cardinality(Counting) - 1
    BY <2>3, CountingFinite, FS_RemoveElement
  <2>. QED
    BY <1>1, <2>1, <2>2, <2>4 DEF Counted, CountersTyped
<1>. QED
  BY <1>2, <1>3, <1>4, <1>5

(* the records that are being filled move one place down                   *)
LEMMA ConsumeKeeps == ASSUME Inv, Consume PROVE Inv'
<1>. USE DEF Inv
<1>1. /\ events # <<>> /\ Head(events) = Ready
      /\ events' = Tail(events) /\ consumed' = consumed + 1
      /\ UNCHANGED <<nAllocs, live, table, causes, cpu, dropped, total, calls>>
  BY DEF Consume, memory, maps
<1>2. CpuTyped' /\ MemoryTyped' /\ CountersTyped'
  BY <1>1 DEF CpuTyped, MemoryTyped, CountersTyped, Runs
<1>3. Exclusive' /\ Removed' /\ Listed'
  BY <1>1 DEF Exclusive, Removed, Listed, Runs
<1>4. /\ events \in Seq(Slots) /\ events' \in Seq(Slots) /\ Len(events) \in Nat
      /\ Len(events) >= 1 /\ DOMAIN events = 1 .. Len(events) /\ events[1] = Ready
      /\ DOMAIN events' = 1 .. Len(events) - 1
      /\ \A i \in 1 .. Len(events) - 1 : events'[i] = events[i + 1]
  BY <1>1 DEF RingOwned
<1>5. RingOwned'
  <2>1. \A i, j \in DOMAIN events' :
            events'[i] = events'[j] /\ events'[i] # Ready => i = j
    <3>1. SUFFICES ASSUME NEW i \in DOMAIN events', NEW j \in DOMAIN events',
                          events'[i] = events'[j], events'[i] # Ready
                   PROVE  i = j
      BY <3>1
    <3>2. i \in Int /\ j \in Int /\ i + 1 \in DOMAIN events /\ j + 1 \in DOMAIN events
      BY <1>4
    <3>3. events[i + 1] = events[j + 1] /\ events[i + 1] # Ready
      BY <1>4, <3>1
    <3>4. i + 1 = j + 1
      BY <3>2, <3>3 DEF RingOwned
    <3>. QED
      BY <3>2, <3>4
  <2>2. \A d \in CPUs : d # Ready
    BY BpfAssumption DEF Ready
  <2>3. \A d \in CPUs :
            (\E i \in DOMAIN events : events[i] = d) <=> \E i \in DOMAIN events' : events'[i] = d
    <3>1. SUFFICES ASSUME NEW d \in CPUs
                   PROVE  (\E i \in DOMAIN events : events[i] = d)
                              <=> \E i \in DOMAIN events' : events'[i] = d
      BY <3>1
    <3>2. ASSUME NEW i \in DOMAIN events, events[i] = d
          PROVE  \E j \in DOMAIN events' : events'[j] = d
      <4>1. i # 1
        BY <1>4, <2>2, <3>2
      <4>2. i - 1 \in 1 .. Len(events) - 1 /\ (i - 1) + 1 = i
        BY <1>4, <4>1
      <4>. QED
        BY <1>4, <3>2, <4>2
    <3>3. ASSUME NEW i \in DOMAIN events', events'[i] = d
          PROVE  \E j \in DOMAIN events : events[j] = d
      <4>1. i + 1 \in DOMAIN events /\ events[i + 1] = d
        BY <1>4, <3>3
      <4>. QED
        BY <4>1
    <3>. QED
      BY <3>2, <3>3
  <2>. QED
    BY <1>1, <1>4, <2>1, <2>3 DEF RingOwned
<1>6. Counted'
  <2>1. Cardinality(ReadyIn(events)) = Cardinality(ReadyIn(events')) + 1
    BY <1>1, <1>4, ReadyAfterConsume
  <2>2. Cardinality(ReadyIn(events')) \in Nat
    BY <1>4, ReadyFinite
  <2>3. Running' = Running /\ Counting' = Counting
    BY <1>1 DEF Running, Counting, At
  <2>4. Cardinality(Counting) \in Nat
    BY CountingFinite
  <2>. QED
    BY <1>1, <2>1, <2>2, <2>3, <2>4 DEF Counted, CountersTyped
<1>. QED
  BY <1>2, <1>3, <1>5, <1>6

-----------------------------------------------------------------------------
(* The tracepoints *)

(* a handler that starts: one more runs, and one more has been called      *)
LEMMA StartedKeeps ==
    ASSUME Inv, NEW c \in CPUs, NEW op \in {"alloc", "free"}, NEW p \in Ptrs,
           Started(c, op, p), calls' = calls + 1,
           UNCHANGED <<events, total, dropped, consumed>>
    PROVE  CpuTyped' /\ CountersTyped' /\ RingOwned' /\ Counted'
<1>. USE DEF Inv
<1>1. CpuTyped' /\ Running' = Running \cup {c} /\ c \notin Running
  BY StartedAdds
<1>2. CountersTyped'
  BY DEF CountersTyped
<1>3. RingOwned'
  <2>1. \A d \in CPUs : cpu'[d].pc = "submit" <=> cpu[d].pc = "submit"
    BY DEF Started
  <2>. QED
    BY <2>1 DEF RingOwned
<1>4. Counted'
  <2>1. IsFiniteSet(Running) /\ Cardinality(Running) \in Nat
    BY FS_CardinalityType DEF Counted
  <2>2. /\ IsFiniteSet(Running \cup {c})
        /\ Cardinality(Running \cup {c}) = Cardinality(Running) + 1
    BY <1>1, <2>1, FS_AddElement
  <2>3. ReadyIn(events') = ReadyIn(events)
    OBVIOUS
  <2>4. IsFiniteSet(Running') /\ Cardinality(Running') = Cardinality(Running) + 1
    BY <1>1, <2>2
  <2>5. total + dropped + Cardinality(Running) = calls
    BY DEF Counted
  <2>6. total' + dropped' + Cardinality(Running') = calls'
    BY <2>1, <2>4, <2>5 DEF CountersTyped
  <2>7. Counting' = Counting
    BY CountingStays DEF Started
  <2>. QED
    BY <2>3, <2>4, <2>6, <2>7 DEF Counted
<1>. QED
  BY <1>1, <1>2, <1>3, <1>4

(* a call nobody traces: only the memory changes                           *)
LEMMA MissKeeps ==
    ASSUME Inv, Miss, UNCHANGED <<events, total, dropped, consumed>>
    PROVE  CpuTyped' /\ CountersTyped' /\ RingOwned' /\ Counted' /\ Listed'
<1>. USE DEF Inv, Miss
<1>1. CpuTyped' /\ CountersTyped'
  BY DEF CpuTyped, CountersTyped, Runs
<1>2. RingOwned'
  BY DEF RingOwned
<1>3. Counted'
  BY DEF Counted, Counting, At, Running, ReadyIn
<1>4. Listed'
  BY DEF Listed
<1>. QED
  BY <1>1, <1>2, <1>3, <1>4

(* the pointer of new memory is in nobody's hands *)
LEMMA KmallocKeeps ==
    ASSUME Inv, NEW c \in CPUs, NEW pid \in Pids, NEW p \in Ptrs, Kmalloc(c, pid, p)
    PROVE  Inv'
<1>. USE DEF Inv
<1>1. /\ live[p] = None /\ nAllocs' = nAllocs + 1
      /\ live' = [live EXCEPT ![p] = nAllocs + 1]
      /\ UNCHANGED <<table, events, total, dropped, consumed>>
  BY DEF Kmalloc, maps, ring
<1>2. MemoryTyped'
  BY <1>1 DEF MemoryTyped
<1>3. /\ live'[p] # None /\ \A q \in Ptrs : q # p => live'[q] = live[q]
  BY <1>1 DEF MemoryTyped, None
<1>4. \A d \in CPUs : Runs(d) => cpu[d].ptr # p /\ cpu[d].ptr \in Ptrs
  BY <1>1 DEF Exclusive, CpuTyped
<1>5. CASE Handle(c, "alloc", pid, p) /\ cpu[c] = Idle
  <2>1. Started(c, "alloc", p) /\ calls' = calls + 1 /\ UNCHANGED causes
    BY <1>5, HandleStarts DEF Handle
  <2>2. CpuTyped' /\ CountersTyped' /\ RingOwned' /\ Counted'
    BY <1>1, <2>1, StartedKeeps
  <2>3. \A d \in CPUs : d # c => cpu'[d] = cpu[d] /\ (Runs(d)' <=> Runs(d))
    BY <2>1 DEF Started, Runs
  <2>4. cpu'[c].ptr = p /\ cpu'[c].pc = "alloc" /\ cpu'[c].op = "alloc"
    BY <2>1 DEF Started
  <2>5. Exclusive'
    BY <1>3, <1>4, <2>3, <2>4 DEF Exclusive
  <2>6. Removed'
    BY <1>1, <2>3, <2>4 DEF Removed, InAlloc, InFree
  <2>7. Listed'
    BY <1>1, <1>3, <2>1 DEF Listed
  <2>. QED
    BY <1>2, <2>2, <2>5, <2>6, <2>7
<1>6. CASE Miss
  <2>1. CpuTyped' /\ CountersTyped' /\ RingOwned' /\ Counted' /\ Listed'
    BY <1>1, <1>6, MissKeeps
  <2>2. cpu' = cpu
    BY <1>6 DEF Miss
  <2>3. Exclusive'
    BY <1>3, <1>4, <2>2 DEF Exclusive, Runs
  <2>4. Removed'
    BY <1>1, <2>2 DEF Removed
  <2>. QED
    BY <1>2, <2>1, <2>3, <2>4
<1>. QED
  BY <1>5, <1>6 DEF Kmalloc, Handled

(* nobody else has the pointer that is freed *)
LEMMA KfreeKeeps ==
    ASSUME Inv, NEW c \in CPUs, NEW pid \in Pids, NEW p \in Ptrs, Kfree(c, pid, p)
    PROVE  Inv'
<1>. USE DEF Inv
<1>1. /\ live[p] # None /\ ~InKernel(p)
      /\ UNCHANGED <<nAllocs, table, events, total, dropped, consumed>>
  BY DEF Kfree, maps, ring
<1>2. \A d \in CPUs : Runs(d) => cpu[d].ptr # p /\ cpu[d].ptr \in Ptrs
  BY <1>1, IdleTyped DEF InKernel, CpuTyped, Runs
<1>3. CASE Handle(c, "free", pid, p) /\ cpu[c] = Idle /\ UNCHANGED live
  <2>1. Started(c, "free", p) /\ calls' = calls + 1 /\ UNCHANGED causes
    BY <1>3, HandleStarts DEF Handle
  <2>2. CpuTyped' /\ CountersTyped' /\ RingOwned' /\ Counted'
    BY <1>1, <2>1, StartedKeeps
  <2>3. \A d \in CPUs : d # c => cpu'[d] = cpu[d] /\ (Runs(d)' <=> Runs(d))
    BY <2>1 DEF Started, Runs
  <2>4. cpu'[c].ptr = p /\ cpu'[c].pc = "free" /\ cpu'[c].op = "free"
    BY <2>1 DEF Started
  <2>5. Exclusive'
    BY <1>1, <1>2, <1>3, <2>3, <2>4 DEF Exclusive
  <2>6. Removed'
    BY <1>1, <2>3, <2>4 DEF Removed, InAlloc, InFree
  <2>7. MemoryTyped' /\ Listed'
    BY <1>1, <1>3, <2>1 DEF MemoryTyped, Listed
  <2>. QED
    BY <2>2, <2>5, <2>6, <2>7
<1>4. CASE Miss /\ live' = [live EXCEPT ![p] = None]
  <2>1. CpuTyped' /\ CountersTyped' /\ RingOwned' /\ Counted' /\ Listed'
    BY <1>1, <1>4, MissKeeps
  <2>2. cpu' = cpu
    BY <1>4 DEF Miss
  <2>3. MemoryTyped'
    BY <1>1, <1>4 DEF MemoryTyped, None
  <2>4. \A q \in Ptrs : q # p => live'[q] = live[q]
    BY <1>4 DEF MemoryTyped
  <2>5. Exclusive'
    BY <1>2, <2>2, <2>4 DEF Exclusive, Runs
  <2>6. Removed'
    BY <1>1, <2>2 DEF Removed
  <2>. QED
    BY <2>1, <2>3, <2>5, <2>6
<1>. QED
  BY <1>3, <1>4 DEF Kfree, Handled

-----------------------------------------------------------------------------
(* The invariant holds *)

LEMMA InvHolds == Spec => []Inv
<1>1. Inv /\ [Next]_vars => Inv'
  <2>. SUFFICES ASSUME Inv, [Next]_vars PROVE Inv'
    OBVIOUS
  <2>1. CASE UNCHANGED vars
    BY <2>1, StutterKeeps
  <2>2. ASSUME NEW c \in CPUs, NEW pid \in Pids, NEW p \in Ptrs,
               Kmalloc(c, pid, p) \/ Kfree(c, pid, p)
        PROVE  Inv'
    BY <2>2, KmallocKeeps, KfreeKeeps
  <2>3. ASSUME NEW c \in CPUs, TraceAlloc(c)
        PROVE  Inv'
    BY <2>3, AllocChargeKeeps, AllocInsertKeeps, AllocRecordKeeps DEF TraceAlloc
  <2>4. ASSUME NEW c \in CPUs, TraceFree(c)
        PROVE  Inv'
    BY <2>4, FreeLookupKeeps, FreeUnchargeKeeps, FreeDeleteKeeps DEF TraceFree
  <2>5. ASSUME NEW c \in CPUs, Reserve(c) \/ Drop(c) \/ Submit(c) \/ CountEvent(c)
        PROVE  Inv'
    BY <2>5, ReserveKeeps, DropKeeps, SubmitKeeps, CountEventKeeps
  <2>6. CASE Consume
    BY <2>6, ConsumeKeeps
  <2>. QED
    BY <2>1, <2>2, <2>3, <2>4, <2>5, <2>6 DEF Next
<1>. QED
  BY <1>1, InitHolds, PTL DEF Spec

-----------------------------------------------------------------------------
(* Sums over finite sets *)

(* a non-empty set of numbers has a least one *)
LEMMA LeastNumber ==
    ASSUME NEW I \in SUBSET Nat, I # {}
    PROVE  \E x \in I : \A y \in I : x <= y
<1>. DEFINE R == {ss \in Nat \X Nat : ss[1] < ss[2]}
<1>1. IsWellFoundedOn(R, Nat)
  BY NatLessThanWellFounded DEF OpToRel
<1>2. \A x, y \in Nat : ~(<<y, x>> \in R) => x <= y
  <2>1. \A x, y \in Nat : <<y, x>> \in Nat \X Nat /\ <<y, x>>[1] = y /\ <<y, x>>[2] = x
    OBVIOUS
  <2>2. \A x, y \in Nat : y < x => <<y, x>> \in R
    BY <2>1
  <2>. QED
    BY <2>2
<1>. HIDE DEF R
<1>3. \E x \in I : \A y \in I : ~(<<y, x>> \in R)
  BY <1>1, WFMin
<1>. QED
  BY <1>2, <1>3

(* a fold over the elements of S, as a function of the set that is folded  *)
FoldsOver(h, S, base, pick, g) ==
    \A u \in SUBSET S : h[u] = IF u = {} THEN base ELSE g[pick[u]][h[u \ {pick[u]}]]

Picks(pick, S) == \A u \in SUBSET S : u # {} => pick[u] \in u

(* A fold over a finite set exists: there is a function that takes an      *)
(* element out of a set by `pick` and goes on with the rest.               *)
LEMMA FoldExists ==
    ASSUME NEW S, IsFiniteSet(S), NEW V, NEW base \in V,
           NEW pick, Picks(pick, S),
           NEW g \in [S -> [V -> V]]
    PROVE  \E h \in [SUBSET S -> V] : FoldsOver(h, S, base, pick, g)
<1>. DEFINE Up(h, u) == IF u = {} THEN base ELSE g[pick[u]][h[u \ {pick[u]}]]
            FoldsTo(h, n) == \A u \in SUBSET S : Cardinality(u) <= n => h[u] = Up(h, u)
            bad == {n \in Nat : ~ \E h \in [SUBSET S -> V] : FoldsTo(h, n)}
<1>1. \A u \in SUBSET S : IsFiniteSet(u) /\ Cardinality(u) \in Nat /\ Cardinality(u) <= Cardinality(S)
  BY FS_Subset, FS_CardinalityType
<1>2. \A u \in SUBSET S : u # {} => /\ pick[u] \in S /\ u \ {pick[u]} \in SUBSET S
                                   /\ Cardinality(u \ {pick[u]}) = Cardinality(u) - 1
  BY <1>1, FS_RemoveElement DEF Picks
<1>3. \A h \in [SUBSET S -> V] : \A u \in SUBSET S : Up(h, u) \in V
  <2>1. ASSUME NEW h \in [SUBSET S -> V], NEW u \in SUBSET S, u # {}
        PROVE  g[pick[u]][h[u \ {pick[u]}]] \in V
    <3>1. pick[u] \in S /\ u \ {pick[u]} \in SUBSET S
      BY <1>2, <2>1
    <3>2. g[pick[u]] \in [V -> V] /\ h[u \ {pick[u]}] \in V
      BY <3>1
    <3>. QED
      BY <3>2
  <2>. QED
    BY <2>1
<1>4. \A u \in SUBSET S : Cardinality(u) <= 0 => u = {}
  BY <1>1, FS_EmptySet
<1>5. bad = {}
  <2>1. SUFFICES ASSUME bad # {} PROVE FALSE
    BY <2>1
  <2>2. PICK n \in bad : \A m \in bad : n <= m
    <3>1. bad \in SUBSET Nat
      OBVIOUS
    <3>. HIDE DEF bad
    <3>. QED
      BY <2>1, <3>1, LeastNumber
  <2>. HIDE DEF FoldsTo
  <2>5. n \in Nat /\ ~ \E h \in [SUBSET S -> V] : FoldsTo(h, n)
    BY <2>2
  <2>3. CASE n = 0
    <3>. DEFINE const == [u \in SUBSET S |-> base]
    <3>1. FoldsTo(const, n)
      BY <1>4, <2>3 DEF FoldsTo
    <3>2. const \in [SUBSET S -> V]
      OBVIOUS
    <3>. HIDE DEF const
    <3>. QED
      BY <2>5, <3>1, <3>2
  <2>4. CASE n # 0
    <3>1. n - 1 \in Nat /\ n - 1 \notin bad
      <4>. HIDE DEF bad
      <4>1. n - 1 \in bad => n <= n - 1
        BY <2>2
      <4>. QED
        BY <2>4, <2>5, <4>1
    <3>2. PICK h \in [SUBSET S -> V] : FoldsTo(h, n - 1)
      BY <3>1
    <3>. DEFINE next == [u \in SUBSET S |-> Up(h, u)]
    <3>3. next \in [SUBSET S -> V]
      BY <1>3
    <3>4. ASSUME NEW u \in SUBSET S, Cardinality(u) <= n PROVE next[u] = Up(next, u)
      <4>1. CASE u = {}
        BY <4>1
      <4>2. CASE u # {}
        <5>1. Cardinality(u \ {pick[u]}) <= n - 1
          BY <1>1, <1>2, <2>5, <3>4, <4>2
        <5>2. u \ {pick[u]} \in SUBSET S
          OBVIOUS
        <5>3. h[u \ {pick[u]}] = Up(h, u \ {pick[u]})
          BY <3>2, <5>1, <5>2 DEF FoldsTo
        <5>4. next[u \ {pick[u]}] = Up(h, u \ {pick[u]})
          BY <5>2
        <5>5. next[u] = g[pick[u]][h[u \ {pick[u]}]]
          BY <4>2
        <5>6. Up(next, u) = g[pick[u]][next[u \ {pick[u]}]]
          BY <4>2
        <5>. HIDE DEF next, Up
        <5>. QED
          BY <5>3, <5>4, <5>5, <5>6
      <4>. QED
        BY <4>1, <4>2
    <3>5. FoldsTo(next, n)
      BY <3>4 DEF FoldsTo
    <3>. HIDE DEF next
    <3>. QED
      BY <2>5, <3>3, <3>5
  <2>. QED
    BY <2>3, <2>4
<1>6. Cardinality(S) \in Nat
  BY FS_CardinalityType
<1>7. PICK h \in [SUBSET S -> V] : FoldsTo(h, Cardinality(S))
  BY <1>5, <1>6
<1>. QED
  BY <1>1, <1>7 DEF FoldsOver

(* a nonempty set of finite sets has one of the fewest elements *)
LEMMA Smallest ==
    ASSUME NEW U, U # {}, \A u \in U : IsFiniteSet(u)
    PROVE  \E u \in U : \A w \in U : Cardinality(u) <= Cardinality(w)
<1>. DEFINE I == {Cardinality(u) : u \in U}
<1>1. I \in SUBSET Nat /\ I # {}
  BY FS_CardinalityType
<1>2. PICK n \in I : \A m \in I : n <= m
  BY <1>1, LeastNumber
<1>. QED
  BY <1>2

(* h says what the values of f add up to on each part of D *)
Adds(h, f, D) ==
    /\ h \in [SUBSET D -> Int] /\ h[{}] = 0
    /\ \A u \in SUBSET D : \A x \in u : h[u] = f[x] + h[u \ {x}]

(* the sum of a function *)
LEMMA SumAdds ==
    ASSUME NEW D, IsFiniteSet(D), NEW f \in [D -> Int]
    PROVE  \E h : Adds(h, f, D) /\ SumFunction(f) = h[D]
<1>. DEFINE pick == [u \in SUBSET D |-> CHOOSE x \in u : TRUE]
            g == [x \in D |-> [v \in Int |-> f[x] + v]]
            Folds(it) == it = [u \in SUBSET D |->
                IF u = {} THEN 0 ELSE f[CHOOSE x \in u : TRUE] + it[u \ {CHOOSE x \in u : TRUE}]]
            iter == CHOOSE it : Folds(it)
<1>1. SumFunction(f) = iter[D]
  <2>1. DOMAIN f = D
    OBVIOUS
  <2>. QED
    BY <2>1, Zenon DEF SumFunction, SumFunctionOnSet, FoldFunctionOnSet, MapThenFoldSet
<1>2. Picks(pick, D)
  BY DEF Picks
<1>3. \E it : Folds(it)
  <2>1. g \in [D -> [Int -> Int]]
    OBVIOUS
  <2>. HIDE DEF pick, g
  <2>2. PICK h \in [SUBSET D -> Int] : FoldsOver(h, D, 0, pick, g)
    <3>1. 0 \in Int
      OBVIOUS
    <3>. QED
      BY <1>2, <2>1, <3>1, FoldExists
  <2>3. ASSUME NEW u \in SUBSET D, u # {}
        PROVE  g[pick[u]][h[u \ {pick[u]}]] =
                  f[CHOOSE x \in u : TRUE] + h[u \ {CHOOSE x \in u : TRUE}]
    <3>1. pick[u] = (CHOOSE x \in u : TRUE) /\ pick[u] \in D
      BY <1>2, <2>3 DEF Picks, pick
    <3>2. h[u \ {pick[u]}] \in Int
      OBVIOUS
    <3>. QED
      BY <3>1, <3>2 DEF g
  <2>4. Folds(h)
    BY <2>2, <2>3 DEF FoldsOver
  <2>. QED
    BY <2>4
<1>4. Folds(iter)
  BY <1>3
<1>. HIDE DEF iter
<1>5. /\ DOMAIN iter = SUBSET D /\ iter = [u \in SUBSET D |-> iter[u]] /\ iter[{}] = 0
      /\ \A u \in SUBSET D : u # {} => iter[u] = f[pick[u]] + iter[u \ {pick[u]}]
  BY <1>4
<1>. HIDE DEF Folds, pick
<1>. DEFINE Fine(u) == iter[u] \in Int /\ \A x \in u : iter[u] = f[x] + iter[u \ {x}]
            bad == {u \in SUBSET D : ~Fine(u)}
<1>6. \A u \in SUBSET D : IsFiniteSet(u)
  BY FS_Subset
<1>7. bad = {}
  <2>1. SUFFICES ASSUME bad # {} PROVE FALSE
    BY <2>1
  <2>2. PICK u \in bad : \A w \in bad : Cardinality(u) <= Cardinality(w)
    <3>1. \A w \in bad : IsFiniteSet(w)
      BY <1>6
    <3>. HIDE DEF bad
    <3>. QED
      BY <2>1, <3>1, Smallest
  <2>3. u \in SUBSET D /\ ~Fine(u)
    BY <2>2
  <2>. HIDE DEF Fine
  <2>4. ASSUME NEW x \in u PROVE u \ {x} \in SUBSET D /\ Fine(u \ {x})
    <3>1. u \ {x} \in SUBSET D
      BY <2>3
    <3>2. Cardinality(u \ {x}) = Cardinality(u) - 1 /\ Cardinality(u) \in Nat
      BY <1>6, <2>3, FS_RemoveElement, FS_CardinalityType
    <3>3. u \ {x} \notin bad
      <4>1. u \ {x} \in bad => Cardinality(u) <= Cardinality(u \ {x})
        BY <2>2
      <4>. HIDE DEF bad
      <4>. QED
        BY <3>2, <4>1
    <3>. QED
      BY <3>1, <3>3
  <2>5. CASE u = {}
    BY <1>5, <2>3, <2>5 DEF Fine
  <2>6. CASE u # {}
    <3>. DEFINE p == pick[u]
    <3>1. p \in u /\ p \in D
      BY <1>2, <2>3, <2>6 DEF Picks
    <3>2. iter[u] = f[p] + iter[u \ {p}]
      BY <1>5, <2>3, <2>6
    <3>. HIDE DEF p
    <3>3. iter[u] \in Int
      BY <2>4, <3>1, <3>2 DEF Fine
    <3>4. ASSUME NEW x \in u PROVE iter[u] = f[x] + iter[u \ {x}]
      <4>1. CASE x = p
        BY <3>2, <4>1
      <4>2. CASE x # p
        <5>1. x \in u \ {p} /\ p \in u \ {x} /\ (u \ {p}) \ {x} = (u \ {x}) \ {p}
          BY <3>1, <4>2
        <5>2. iter[u \ {p}] = f[x] + iter[(u \ {p}) \ {x}] /\ iter[u \ {p}] \in Int
          BY <2>4, <3>1, <5>1 DEF Fine
        <5>3. iter[u \ {x}] = f[p] + iter[(u \ {x}) \ {p}] /\ iter[u \ {x}] \in Int
          BY <2>4, <5>1 DEF Fine
        <5>4. f[x] \in Int /\ f[p] \in Int /\ iter[(u \ {x}) \ {p}] \in Int
          <6>1. x \in D
            BY <2>3
          <6>2. (u \ {x}) \ {p} \in SUBSET D /\ Fine((u \ {x}) \ {p})
            <7>1. (u \ {x}) \ {p} \in SUBSET D
              BY <2>3
            <7>2. Cardinality((u \ {x}) \ {p}) <= Cardinality(u) - 1 /\ Cardinality(u) \in Nat
              <8>1. IsFiniteSet(u \ {x}) /\ IsFiniteSet(u)
                BY <1>6, <2>3
              <8>2. Cardinality(u \ {x}) = Cardinality(u) - 1 /\ Cardinality(u) \in Nat
                BY <8>1, FS_RemoveElement, FS_CardinalityType
              <8>3. Cardinality((u \ {x}) \ {p}) <= Cardinality(u \ {x})
                BY <8>1, FS_Subset
              <8>. QED
                BY <8>2, <8>3
            <7>3. (u \ {x}) \ {p} \notin bad
              <8>1. (u \ {x}) \ {p} \in bad => Cardinality(u) <= Cardinality((u \ {x}) \ {p})
                BY <2>2
              <8>2. Cardinality((u \ {x}) \ {p}) \in Nat
                BY <1>6, <7>1, FS_CardinalityType
              <8>. HIDE DEF bad
              <8>. QED
                BY <7>2, <8>1, <8>2
            <7>. QED
              BY <7>1, <7>3
          <6>. QED
            BY <3>1, <6>1, <6>2 DEF Fine
        <5>5. iter[u \ {p}] = f[x] + iter[(u \ {x}) \ {p}]
          BY <5>1, <5>2
        <5>6. \A a, b, r, s, t \in Int : r = a + t /\ s = b + t => b + r = a + s
          OBVIOUS
        <5>. QED
          BY <3>2, <5>2, <5>3, <5>4, <5>5, <5>6
      <4>. QED
        BY <4>1, <4>2
    <3>. QED
      BY <2>3, <3>3, <3>4 DEF Fine
  <2>. QED
    BY <2>5, <2>6
<1>8. Adds(iter, f, D)
  <2>1. \A u \in SUBSET D : iter[u] \in Int
    BY <1>7
  <2>2. iter \in [SUBSET D -> Int]
    BY <1>5, <2>1
  <2>. QED
    BY <1>5, <1>7, <2>2 DEF Adds
<1>. QED
  BY <1>1, <1>8

(* what the sum on a part is does not depend on the rest *)
LEMMA AddsAgree ==
    ASSUME NEW D, NEW f, NEW h, Adds(h, f, D), NEW E, NEW g, NEW k, Adds(k, g, E),
           NEW S, IsFiniteSet(S), S \subseteq D, S \subseteq E, \A x \in S : f[x] = g[x]
    PROVE  h[S] = k[S]
<1>. DEFINE bad == {u \in SUBSET S : h[u] # k[u]}
<1>1. \A u \in SUBSET S : IsFiniteSet(u)
  BY FS_Subset
<1>2. bad = {}
  <2>1. SUFFICES ASSUME bad # {} PROVE FALSE
    BY <2>1
  <2>2. PICK u \in bad : \A w \in bad : Cardinality(u) <= Cardinality(w)
    <3>1. \A w \in bad : IsFiniteSet(w)
      BY <1>1
    <3>. HIDE DEF bad
    <3>. QED
      BY <2>1, <3>1, Smallest
  <2>3. u # {}
    BY <2>2 DEF Adds
  <2>4. PICK x \in u : TRUE
    BY <2>3
  <2>5. Cardinality(u \ {x}) = Cardinality(u) - 1 /\ Cardinality(u) \in Nat
    BY <1>1, <2>2, FS_RemoveElement, FS_CardinalityType
  <2>6. u \ {x} \in SUBSET S /\ u \ {x} \notin bad
    <3>1. u \ {x} \in bad => Cardinality(u) <= Cardinality(u \ {x})
      BY <2>2
    <3>2. u \ {x} \notin bad
      <4>. HIDE DEF bad
      <4>. QED
        BY <2>5, <3>1
    <3>. QED
      BY <2>2, <3>2
  <2>7. h[u \ {x}] = k[u \ {x}] /\ f[x] = g[x]
    BY <2>2, <2>6
  <2>8. h[u] = f[x] + h[u \ {x}] /\ k[u] = g[x] + k[u \ {x}]
    <3>1. u \in SUBSET D /\ u \in SUBSET E
      BY <2>2
    <3>. QED
      BY <3>1 DEF Adds
  <2>. QED
    BY <2>2, <2>7, <2>8
<1>. QED
  BY <1>2

(* nothing but zeros *)
LEMMA SumOfZeros ==
    ASSUME NEW D, IsFiniteSet(D), NEW f \in [D -> Int], \A x \in D : f[x] = 0
    PROVE  SumFunction(f) = 0
<1>. DEFINE zero == [u \in SUBSET D |-> 0]
<1>1. Adds(zero, f, D)
  BY DEF Adds
<1>2. PICK h : Adds(h, f, D) /\ SumFunction(f) = h[D]
  BY SumAdds
<1>. HIDE DEF zero
<1>3. h[D] = zero[D]
  BY <1>1, <1>2, AddsAgree
<1>. QED
  BY <1>2, <1>3 DEF zero

(* a value more *)
LEMMA SumWithOneMore ==
    ASSUME NEW D, IsFiniteSet(D), NEW f \in [D -> Int], NEW x, x \notin D,
           NEW g \in [D \cup {x} -> Int], \A y \in D : g[y] = f[y]
    PROVE  SumFunction(f) \in Int /\ SumFunction(g) = SumFunction(f) + g[x]
<1>1. PICK h : Adds(h, f, D) /\ SumFunction(f) = h[D]
  BY SumAdds
<1>2. IsFiniteSet(D \cup {x})
  BY FS_AddElement
<1>3. PICK k : Adds(k, g, D \cup {x}) /\ SumFunction(g) = k[D \cup {x}]
  BY <1>2, SumAdds
<1>4. h[D] = k[D]
  BY <1>1, <1>3, AddsAgree
<1>5. (D \cup {x}) \ {x} = D
  OBVIOUS
<1>6. k[D \cup {x}] = g[x] + k[D] /\ k[D] \in Int
  BY <1>3, <1>5 DEF Adds
<1>7. g[x] \in Int
  OBVIOUS
<1>. QED
  BY <1>1, <1>3, <1>4, <1>6, <1>7

(* one value changes *)
LEMMA SumWithOneChanged ==
    ASSUME NEW D, IsFiniteSet(D), NEW x \in D, NEW f \in [D -> Int], NEW g \in [D -> Int],
           \A y \in D \ {x} : g[y] = f[y]
    PROVE  SumFunction(f) \in Int /\ SumFunction(g) = SumFunction(f) - f[x] + g[x]
<1>. DEFINE R == D \ {x}
            r == [y \in R |-> f[y]]
<1>1. IsFiniteSet(R) /\ x \notin R /\ R \cup {x} = D
  BY FS_Subset
<1>2. r \in [R -> Int] /\ \A y \in R : f[y] = r[y] /\ g[y] = r[y]
  OBVIOUS
<1>. HIDE DEF R, r
<1>3. SumFunction(r) \in Int /\ SumFunction(f) = SumFunction(r) + f[x]
  BY <1>1, <1>2, SumWithOneMore
<1>4. SumFunction(g) = SumFunction(r) + g[x]
  BY <1>1, <1>2, SumWithOneMore
<1>5. f[x] \in Int /\ g[x] \in Int
  OBVIOUS
<1>. QED
  BY <1>3, <1>4, <1>5

(* one value grows, or joins *)
LEMMA SumWithMore ==
    ASSUME NEW D, IsFiniteSet(D), NEW x, NEW n \in Int,
           NEW f \in [D -> Int], NEW g \in [D \cup {x} -> Int],
           \A y \in D \ {x} : g[y] = f[y], g[x] = IF x \in D THEN f[x] + n ELSE n
    PROVE  SumFunction(f) \in Int /\ SumFunction(g) = SumFunction(f) + n
<1>1. CASE x \in D
  <2>1. g \in [D -> Int] /\ g[x] = f[x] + n /\ f[x] \in Int
    <3>1. D \cup {x} = D
      BY <1>1
    <3>. QED
      BY <1>1, <3>1
  <2>2. SumFunction(f) \in Int /\ SumFunction(g) = SumFunction(f) - f[x] + g[x]
    BY <1>1, <2>1, SumWithOneChanged
  <2>. QED
    BY <2>1, <2>2
<1>2. CASE x \notin D
  <2>1. \A y \in D : g[y] = f[y]
    BY <1>2
  <2>2. SumFunction(f) \in Int /\ SumFunction(g) = SumFunction(f) + g[x]
    BY <1>2, <2>1, SumWithOneMore
  <2>. QED
    BY <1>2, <2>2
<1>. QED
  BY <1>1, <1>2

-----------------------------------------------------------------------------
(* The books: while nothing has spoiled them, what the maps say of the     *)
(* memory, and of the handlers on their way                                *)

SomeoneAt(p, pc) == \E c \in CPUs : cpu[c].pc = pc /\ cpu[c].ptr = p

(* what the processes have been charged for a pointer: the allocation that *)
(* is about to be recorded, nothing once it is about to be deleted         *)
Charged(p) ==
    IF SomeoneAt(p, "record") THEN Size(live[p])
    ELSE IF SomeoneAt(p, "delete") THEN 0
    ELSE Size(table[p])
Recording == {c \in CPUs : cpu[c].pc = "record"}

Actives == [pid \in DOMAIN pidStats |-> Active(pid)]
AllocCounts == [pid \in DOMAIN pidStats |-> pidStats[pid].allocCount]
Charges == [p \in Ptrs |-> Charged(p)]

Numbered ==
    /\ nAllocs \in 0 .. NAllocs
    /\ live \in [Ptrs -> Old .. nAllocs] /\ table \in [Ptrs -> Old .. nAllocs]

Stats == [allocCount : Int, freeCount : Int, allocBytes : Int, freeBytes : Int]
StatsTyped ==
    /\ pidStats \in [DOMAIN pidStats -> Stats] /\ IsFiniteSet(DOMAIN pidStats)
    /\ hist \in [Buckets -> Int]

(* how far alloc_table is behind the memory of a pointer in a handler      *)
Settled(c) ==
    LET p == cpu[c].ptr IN
    /\ cpu[c].pc \in InAlloc => table[p] = None /\ live[p] # Old
    /\ cpu[c].pc \in InFree => table[p] = SinceStart(live[p])
    /\ cpu[c].pc \in {"reserve", "submit", "count"} /\ cpu[c].op # "free" =>
          table[p] = live[p] /\ live[p] # Old
    /\ cpu[c].pc = "uncharge" => cpu[c].freed = Size(table[p])

Follows ==
    /\ \A p \in Ptrs : (\A c \in CPUs : Runs(c) => cpu[c].ptr # p)
                          => table[p] = SinceStart(live[p])
    /\ \A c \in CPUs : Settled(c)

Sums ==
    /\ SumFunction(Actives) = SumFunction(Charges)
    /\ SumFunction(hist) + Cardinality(Recording) = SumFunction(AllocCounts)

Books == Numbered /\ StatsTyped /\ Follows /\ Sums
Balanced == causes = {} => Books

(* the amount that Charged names, told by the handler that has the pointer *)
ChargedByPlace ==
    /\ \A c \in CPUs, p \in Ptrs : Runs(c) /\ cpu[c].ptr = p =>
          Charged(p) = IF cpu[c].pc = "record" THEN Size(live[p])
                       ELSE IF cpu[c].pc = "delete" THEN 0
                       ELSE Size(table[p])
    /\ \A p \in Ptrs : (\A c \in CPUs : Runs(c) => cpu[c].ptr # p)
                          => Charged(p) = Size(table[p])

LEMMA ChargedIs == Inv => ChargedByPlace
<1>. SUFFICES ASSUME Inv PROVE ChargedByPlace
  OBVIOUS
<1>1. \A c, d \in CPUs : Runs(c) /\ Runs(d) /\ cpu[c].ptr = cpu[d].ptr => c = d
  BY DEF Inv, Exclusive
<1>2. ASSUME NEW c \in CPUs, Runs(c), NEW pc, pc # "idle"
      PROVE  SomeoneAt(cpu[c].ptr, pc) <=> cpu[c].pc = pc
  BY <1>1, <1>2 DEF SomeoneAt, Runs
<1>3. ASSUME NEW p \in Ptrs, \A c \in CPUs : Runs(c) => cpu[c].ptr # p, NEW pc, pc # "idle"
      PROVE  ~SomeoneAt(p, pc)
  BY <1>3 DEF SomeoneAt, Runs
<1>. QED
  BY <1>2, <1>3 DEF ChargedByPlace, Charged

LEMMA SizeIsNat == Numbered => \A a \in Old .. nAllocs : Size(a) \in Nat
BY BpfAssumption DEF Numbered, Size, Old, None

Priced == \A p \in Ptrs : Charged(p) \in Int
LEMMA ChargedTyped == Numbered => Priced
<1>. SUFFICES ASSUME Numbered, NEW p \in Ptrs PROVE Charged(p) \in Int
  BY DEF Priced
<1>1. Size(live[p]) \in Nat /\ Size(table[p]) \in Nat
  BY SizeIsNat DEF Numbered
<1>. QED
  BY <1>1 DEF Charged

(* CPU c alone takes a step, and at pointer p alone *)
Acts(c, p) ==
    /\ \A d \in CPUs : d # c => cpu'[d] = cpu[d]
    /\ Runs(c) \/ cpu'[c].pc # "idle"
    /\ Runs(c) => cpu[c].ptr = p
    /\ cpu'[c].pc # "idle" => cpu'[c].ptr = p
    /\ \A q \in Ptrs : q # p => live'[q] = live[q] /\ table'[q] = table[q]

LEMMA OthersCharged ==
    ASSUME NEW c \in CPUs, NEW p \in Ptrs, Acts(c, p)
    PROVE  \A q \in Ptrs : q # p => Charged(q)' = Charged(q)
<1>1. ASSUME NEW q \in Ptrs, q # p, NEW pc, pc # "idle"
      PROVE  SomeoneAt(q, pc)' <=> SomeoneAt(q, pc)
  BY <1>1 DEF SomeoneAt, Acts, Runs
<1>2. ASSUME NEW q \in Ptrs, q # p
      PROVE  /\ SomeoneAt(q, "record")' <=> SomeoneAt(q, "record")
             /\ SomeoneAt(q, "delete")' <=> SomeoneAt(q, "delete")
             /\ Size(live[q])' = Size(live[q]) /\ Size(table[q])' = Size(table[q])
  BY <1>1, <1>2 DEF Acts, Size
<1>. QED
  BY <1>2 DEF Charged

LEMMA OthersFollow ==
    ASSUME Inv, Inv', Follows, NEW c \in CPUs, NEW p \in Ptrs, Acts(c, p), Settled(c)',
           cpu'[c].pc = "idle" => table'[p] = SinceStart(live'[p])
    PROVE  Follows'
<1>1. ASSUME NEW d \in CPUs, d # c, Runs(d)
      PROVE  cpu[d].ptr \in Ptrs /\ cpu[d].ptr # p
  <2>1. cpu[d].ptr \in Ptrs
    BY <1>1 DEF Inv, CpuTyped
  <2>2. cpu'[d] = cpu[d] /\ cpu'[d].pc # "idle"
    BY <1>1 DEF Acts, Runs
  <2>3. CASE Runs(c)
    <3>1. Runs(c) /\ Runs(d) /\ c # d => cpu[c].ptr # cpu[d].ptr
      BY DEF Inv, Exclusive
    <3>2. cpu[c].ptr = p
      BY <2>3 DEF Acts
    <3>. QED
      BY <1>1, <2>1, <2>3, <3>1, <3>2
  <2>4. CASE cpu'[c].pc # "idle"
    <3>1. Runs(c)' /\ Runs(d)' /\ c # d => cpu'[c].ptr # cpu'[d].ptr
      BY DEF Inv, Exclusive
    <3>2. cpu'[c].ptr = p
      BY <2>4 DEF Acts
    <3>. QED
      BY <1>1, <2>1, <2>2, <2>4, <3>1, <3>2 DEF Runs
  <2>. QED
    BY <2>3, <2>4 DEF Acts
<1>2. ASSUME NEW d \in CPUs, d # c PROVE Settled(d)'
  <2>1. cpu'[d] = cpu[d] /\ Settled(d)
    BY <1>2 DEF Acts, Follows
  <2>2. CASE ~Runs(d)
    BY <2>1, <2>2 DEF Settled, Runs, InAlloc, InFree
  <2>3. CASE Runs(d)
    <3>1. live'[cpu[d].ptr] = live[cpu[d].ptr] /\ table'[cpu[d].ptr] = table[cpu[d].ptr]
      BY <1>1, <1>2, <2>3 DEF Acts
    <3>. QED
      BY <2>1, <3>1 DEF Settled, SinceStart, Size
  <2>. QED
    BY <2>2, <2>3
<1>3. ASSUME NEW q \in Ptrs, \A d \in CPUs : cpu'[d].pc # "idle" => cpu'[d].ptr # q
      PROVE  table'[q] = SinceStart(live'[q])
  <2>1. CASE q = p
    BY <1>3, <2>1 DEF Acts
  <2>2. CASE q # p
    <3>1. \A d \in CPUs : Runs(d) => cpu[d].ptr # q
      BY <1>3, <2>2 DEF Acts, Runs
    <3>2. table[q] = SinceStart(live[q])
      BY <3>1 DEF Follows
    <3>. QED
      BY <2>2, <3>2 DEF Acts, SinceStart
  <2>. QED
    BY <2>1, <2>2
<1>4. \A d \in CPUs : Settled(d)'
  BY <1>2
<1>. QED
  BY <1>3, <1>4 DEF Follows, Runs, SinceStart

(* how the set of the handlers that are about to record changes *)
LEMMA RecordingIs ==
    ASSUME NEW c \in CPUs, NEW p \in Ptrs, Acts(c, p)
    PROVE  /\ (cpu[c].pc = "record" <=> cpu'[c].pc = "record") => Recording' = Recording
           /\ cpu[c].pc # "record" /\ cpu'[c].pc = "record" =>
                 Recording' = Recording \cup {c} /\ c \notin Recording
           /\ cpu[c].pc = "record" /\ cpu'[c].pc # "record" =>
                 Recording' = Recording \ {c} /\ c \in Recording
BY DEF Acts, Recording

LEMMA RecordingFinite == Inv => IsFiniteSet(Recording) /\ Cardinality(Recording) \in Nat
<1>. SUFFICES ASSUME Inv PROVE IsFiniteSet(Recording) /\ Cardinality(Recording) \in Nat
  OBVIOUS
<1>1. IsFiniteSet(Running) /\ Recording \subseteq Running
  BY RunningAre DEF Inv, Counted, RunningByPlace, Runs, Recording
<1>. QED
  BY <1>1, FS_Subset, FS_CardinalityType

(* the sum of the charges follows the one that changes *)
LEMMA ChargesChange ==
    ASSUME Numbered, Numbered', NEW c \in CPUs, NEW p \in Ptrs, Acts(c, p)
    PROVE  /\ SumFunction(Charges) \in Int
           /\ SumFunction(Charges') = SumFunction(Charges) - Charged(p) + Charged(p)'
<1>1. \A q \in Ptrs : Charged(q) \in Int /\ Charged(q)' \in Int
  <2>1. Priced /\ Priced'
    BY ChargedTyped, PTL
  <2>. QED
    BY <2>1 DEF Priced
<1>2. Charges \in [Ptrs -> Int] /\ Charges' \in [Ptrs -> Int]
  BY <1>1 DEF Charges
<1>3. \A q \in Ptrs \ {p} : Charges'[q] = Charges[q]
  BY OthersCharged DEF Charges
<1>4. Charges[p] = Charged(p) /\ Charges'[p] = Charged(p)'
  BY DEF Charges
<1>5. IsFiniteSet(Ptrs)
  BY BpfAssumption
<1>. HIDE DEF Charges
<1>. QED
  BY <1>2, <1>3, <1>4, <1>5, SumWithOneChanged

(* a step that touches no account *)
LEMMA BooksStay ==
    ASSUME Inv, Inv', Books, Numbered', NEW c \in CPUs, NEW p \in Ptrs, Acts(c, p), Settled(c)',
           cpu'[c].pc = "idle" => table'[p] = SinceStart(live'[p]),
           UNCHANGED <<pidStats, hist>>, cpu[c].pc # "record", cpu'[c].pc # "record",
           Charged(p)' = Charged(p)
    PROVE  Books'
<1>1. Follows'
  BY OthersFollow DEF Books
<1>2. StatsTyped'
  BY DEF Books, StatsTyped
<1>3. Recording' = Recording
  BY RecordingIs
<1>4. Charges' = Charges
  BY OthersCharged DEF Charges
<1>5. Actives' = Actives /\ AllocCounts' = AllocCounts
  BY DEF Actives, AllocCounts, Active
<1>6. Sums'
  BY <1>3, <1>4, <1>5 DEF Books, Sums
<1>. QED
  BY <1>1, <1>2, <1>6 DEF Books

(* nothing changes at all *)
LEMMA BooksRest ==
    ASSUME Books, UNCHANGED <<cpu, nAllocs, live, table, pidStats, hist>>
    PROVE  Books'
<1>1. Numbered' /\ StatsTyped'
  BY DEF Books, Numbered, StatsTyped
<1>2. Follows'
  BY DEF Books, Follows, Settled, Runs
<1>3. \A p \in Ptrs : Charged(p)' = Charged(p)
  BY DEF Charged, SomeoneAt
<1>4. Charges' = Charges /\ Recording' = Recording
  BY <1>3 DEF Charges, Recording
<1>5. Actives' = Actives /\ AllocCounts' = AllocCounts
  BY DEF Actives, AllocCounts, Active
<1>6. Sums'
  BY <1>4, <1>5 DEF Books, Sums
<1>. QED
  BY <1>1, <1>2, <1>6 DEF Books

-----------------------------------------------------------------------------
(* The steps that touch no account *)

(* the handler's pointer, while it runs *)
LEMMA HasPointer ==
    ASSUME Inv, NEW c \in CPUs, Runs(c)
    PROVE  /\ cpu[c].ptr \in Ptrs /\ live[cpu[c].ptr] # None
           /\ \A d \in CPUs : d # c /\ Runs(d) => cpu[d].ptr # cpu[c].ptr
BY DEF Inv, CpuTyped, Exclusive

LEMMA InsertNextBooks ==
    ASSUME Inv, Inv', Books, NEW c \in CPUs, At(c, "alloc"), Goto(c, "insert"),
           UNCHANGED <<nAllocs, live, table, pidStats, hist>>
    PROVE  Books'
<1>1. Moved(c, "insert")
  BY GotoMoves DEF Inv, Places, InAlloc
<1>0. PICK p \in Ptrs : p = cpu[c].ptr
  BY HasPointer DEF At, Runs
<1>2. Runs(c) /\ cpu[c].pc = "alloc" /\ cpu'[c].pc = "insert" /\ cpu'[c].ptr = p
  BY <1>1, <1>0 DEF At, Runs, Moved
<1>3. Acts(c, p)
  BY <1>0, <1>1, <1>2 DEF Acts, Moved
<1>4. Numbered'
  BY DEF Books, Numbered
<1>5. Settled(c)'
  BY <1>0, <1>2 DEF Books, Follows, Settled, InAlloc, InFree
<1>6. ChargedByPlace /\ ChargedByPlace'
  BY ChargedIs, PTL
<1>7. Charged(p)' = Charged(p)
  BY <1>0, <1>2, <1>6 DEF ChargedByPlace, Runs, Size
<1>. QED
  BY <1>2, <1>3, <1>4, <1>5, <1>7, BooksStay

LEMMA FreeLookupBooks ==
    ASSUME Inv, Inv', Books, NEW c \in CPUs, FreeLookup(c)
    PROVE  Books'
<1>1. /\ cpu[c].pc = "free" /\ UNCHANGED <<nAllocs, live, table, pidStats, hist>>
      /\ cpu' = [cpu EXCEPT ![c].pc = "uncharge", ![c].freed = Size(table[cpu[c].ptr])]
  BY DEF FreeLookup, At, memory, maps
<1>0. PICK p \in Ptrs : p = cpu[c].ptr
  BY <1>1, HasPointer DEF Runs
<1>2. Runs(c)
  BY <1>1 DEF Runs
<1>3. /\ cpu'[c].pc = "uncharge" /\ cpu'[c].ptr = p /\ cpu'[c].freed = Size(table[p])
      /\ \A d \in CPUs : d # c => cpu'[d] = cpu[d]
  BY <1>1, <1>0 DEF Inv, CpuTyped, Handlers
<1>4. Acts(c, p)
  BY <1>0, <1>1, <1>2, <1>3 DEF Acts
<1>5. Numbered'
  BY <1>0, <1>1 DEF Books, Numbered
<1>6. Settled(c)'
  <2>1. table[p] = SinceStart(live[p])
    BY <1>0, <1>1 DEF Books, Follows, Settled, InFree
  <2>. QED
    BY <1>1, <1>3, <2>1 DEF Settled, InAlloc, InFree, SinceStart, Size
<1>7. ChargedByPlace /\ ChargedByPlace'
  BY ChargedIs, PTL
<1>8. Charged(p)' = Charged(p)
  BY <1>0, <1>1, <1>2, <1>3, <1>7 DEF ChargedByPlace, Runs, Size
<1>. QED
  BY <1>1, <1>2, <1>3, <1>4, <1>5, <1>6, <1>8, BooksStay

LEMMA FreeDeleteBooks ==
    ASSUME Inv, Inv', Books, NEW c \in CPUs, FreeDelete(c)
    PROVE  Books'
<1>1. /\ cpu[c].pc = "delete" /\ UNCHANGED <<nAllocs, live, pidStats, hist>>
      /\ table' = [table EXCEPT ![cpu[c].ptr] = None] /\ Goto(c, "reserve")
  BY DEF FreeDelete, At, memory
<1>2. Moved(c, "reserve")
  BY <1>1, GotoMoves DEF Inv, Places
<1>0. PICK p \in Ptrs : p = cpu[c].ptr
  BY <1>1, HasPointer DEF Runs
<1>3. /\ Runs(c) /\ cpu'[c].pc = "reserve" /\ cpu'[c].ptr = p
      /\ cpu'[c].op = "free"
  BY <1>1, <1>2, <1>0 DEF Runs, Moved, Inv, Removed, InFree
<1>4. table'[p] = None /\ \A q \in Ptrs : q # p => table'[q] = table[q]
  BY <1>0, <1>1, <1>3 DEF Books, Numbered
<1>5. Acts(c, p)
  BY <1>0, <1>1, <1>2, <1>3, <1>4 DEF Acts, Moved
<1>6. Numbered'
  <2>1. None \in Old .. nAllocs
    BY DEF Books, Numbered, None, Old
  <2>. QED
    BY <1>0, <1>1, <1>3, <2>1 DEF Books, Numbered
<1>7. Settled(c)'
  BY <1>3 DEF Settled, InAlloc, InFree
<1>8. ChargedByPlace /\ ChargedByPlace'
  BY ChargedIs, PTL
<1>9. Charged(p) = 0
  BY <1>0, <1>1, <1>3, <1>8 DEF ChargedByPlace
<1>10. Charged(p)' = 0
  <2>1. Charged(p)' = Size(table'[p])
    BY <1>0, <1>3, <1>8 DEF ChargedByPlace, Runs, Size
  <2>. QED
    BY <1>4, <2>1 DEF Size
<1>. QED
  BY <1>1, <1>3, <1>5, <1>6, <1>7, <1>9, <1>10, BooksStay

LEMMA ReserveBooks ==
    ASSUME Inv, Inv', Books, NEW c \in CPUs, Reserve(c)
    PROVE  Books'
<1>1. /\ cpu[c].pc = "reserve" /\ UNCHANGED <<nAllocs, live, table, pidStats, hist>>
      /\ Goto(c, "submit")
  BY DEF Reserve, At, memory, maps
<1>2. Moved(c, "submit")
  BY <1>1, GotoMoves DEF Inv, Places
<1>0. PICK p \in Ptrs : p = cpu[c].ptr
  BY <1>1, HasPointer DEF Runs
<1>3. /\ Runs(c) /\ cpu'[c].pc = "submit" /\ cpu'[c].ptr = p
      /\ cpu'[c].op = cpu[c].op
  BY <1>1, <1>2, <1>0 DEF Runs, Moved
<1>4. Acts(c, p)
  BY <1>0, <1>1, <1>2, <1>3 DEF Acts, Moved
<1>5. Numbered'
  BY <1>0, <1>1 DEF Books, Numbered
<1>6. Settled(c)'
  <2>1. cpu[c].op # "free" => table[p] = live[p] /\ live[p] # Old
    BY <1>0, <1>1 DEF Books, Follows, Settled
  <2>. QED
    BY <1>1, <1>3, <2>1 DEF Settled, InAlloc, InFree
<1>7. ChargedByPlace /\ ChargedByPlace'
  BY ChargedIs, PTL
<1>8. Charged(p)' = Charged(p)
  BY <1>0, <1>1, <1>3, <1>7 DEF ChargedByPlace, Runs, Size
<1>. QED
  BY <1>1, <1>3, <1>4, <1>5, <1>6, <1>8, BooksStay

LEMMA SubmitBooks ==
    ASSUME Inv, Inv', Books, NEW c \in CPUs, Submit(c)
    PROVE  Books'
<1>1. /\ cpu[c].pc = "submit" /\ UNCHANGED <<nAllocs, live, table, pidStats, hist>>
      /\ Goto(c, "count")
  BY DEF Submit, At, memory, maps
<1>2. Moved(c, "count")
  BY <1>1, GotoMoves DEF Inv, Places
<1>0. PICK p \in Ptrs : p = cpu[c].ptr
  BY <1>1, HasPointer DEF Runs
<1>3. /\ Runs(c) /\ cpu'[c].pc = "count" /\ cpu'[c].ptr = p
      /\ cpu'[c].op = cpu[c].op
  BY <1>1, <1>2, <1>0 DEF Runs, Moved
<1>4. Acts(c, p)
  BY <1>0, <1>1, <1>2, <1>3 DEF Acts, Moved
<1>5. Numbered'
  BY <1>0, <1>1 DEF Books, Numbered
<1>6. Settled(c)'
  <2>1. cpu[c].op # "free" => table[p] = live[p] /\ live[p] # Old
    BY <1>0, <1>1 DEF Books, Follows, Settled
  <2>. QED
    BY <1>1, <1>3, <2>1 DEF Settled, InAlloc, InFree
<1>7. ChargedByPlace /\ ChargedByPlace'
  BY ChargedIs, PTL
<1>8. Charged(p)' = Charged(p)
  BY <1>0, <1>1, <1>3, <1>7 DEF ChargedByPlace, Runs, Size
<1>. QED
  BY <1>1, <1>3, <1>4, <1>5, <1>6, <1>8, BooksStay

(* the memory of a kfree goes back when its pointer has left the table     *)
LEMMA ReturnBooks ==
    ASSUME Inv, Inv', Books, NEW c \in CPUs, cpu[c].pc \in {"reserve", "count"}, Return(c),
           UNCHANGED <<nAllocs, table, pidStats, hist>>
    PROVE  Books'
<1>0. PICK p \in Ptrs : p = cpu[c].ptr
  BY HasPointer DEF Runs
<1>1. Runs(c) /\ \A d \in CPUs : d # c /\ Runs(d) => cpu[d].ptr # p
  BY <1>0, HasPointer DEF Runs
<1>2. cpu'[c].pc = "idle" /\ \A d \in CPUs : d # c => cpu'[d] = cpu[d]
  BY <1>1, ReturnEnds, IdleTyped DEF Inv, Ended
<1>3. live' = IF cpu[c].op = "free" THEN [live EXCEPT ![p] = None] ELSE live
  BY <1>0 DEF Return
<1>4. live \in [Ptrs -> Old .. nAllocs] /\ None \in Old .. nAllocs
  BY DEF Books, Numbered, None, Old
<1>5. Numbered'
  BY <1>3, <1>4 DEF Books, Numbered
<1>6. Acts(c, p)
  BY <1>0, <1>1, <1>2, <1>3, <1>4 DEF Acts
<1>7. Settled(c)'
  BY <1>2 DEF Settled, InAlloc, InFree
<1>8. table'[p] = SinceStart(live'[p])
  <2>1. CASE cpu[c].op = "free"
    <3>1. table[p] = None /\ live'[p] = None
      BY <1>0, <1>3, <1>4, <2>1 DEF Inv, Removed
    <3>. QED
      BY <3>1 DEF SinceStart, None
  <2>2. CASE cpu[c].op # "free"
    <3>1. table[p] = live[p] /\ live[p] # Old
      BY <1>0, <2>2 DEF Books, Follows, Settled
    <3>. QED
      BY <1>3, <2>2, <3>1 DEF SinceStart
  <2>. QED
    BY <2>1, <2>2
<1>9. ChargedByPlace /\ ChargedByPlace'
  BY ChargedIs, PTL
<1>10. Charged(p) = Size(table[p])
  BY <1>0, <1>1, <1>9 DEF ChargedByPlace
<1>11. Charged(p)' = Size(table[p])
  <2>1. \A d \in CPUs : Runs(d)' => cpu'[d].ptr # p
    BY <1>1, <1>2 DEF Runs
  <2>. QED
    BY <1>9, <2>1 DEF ChargedByPlace, Size
<1>. QED
  BY <1>2, <1>5, <1>6, <1>7, <1>8, <1>10, <1>11, BooksStay

(* new memory: nobody has its pointer, which is not in the table           *)
LEMMA KmallocBooks ==
    ASSUME Inv, Inv', Books, NEW c \in CPUs, NEW pid \in Pids, NEW p \in Ptrs,
           Kmalloc(c, pid, p), UNCHANGED causes, causes = {}
    PROVE  Books'
<1>1. /\ nAllocs < NAllocs /\ live[p] = None /\ nAllocs' = nAllocs + 1
      /\ live' = [live EXCEPT ![p] = nAllocs + 1] /\ UNCHANGED <<table, pidStats, hist>>
  BY DEF Kmalloc, maps
<1>2. Handle(c, "alloc", pid, p) /\ cpu[c] = Idle
  BY DEF Kmalloc, Miss, Handled
<1>3. Started(c, "alloc", p)
  BY <1>2, HandleStarts DEF Inv
<1>4. \A d \in CPUs : Runs(d) => cpu[d].ptr # p
  BY <1>1 DEF Inv, Exclusive
<1>5. live \in [Ptrs -> Old .. nAllocs] /\ table \in [Ptrs -> Old .. nAllocs]
      /\ nAllocs \in 0 .. NAllocs /\ NAllocs \in Nat
  BY BpfAssumption DEF Books, Numbered
<1>6. Numbered'
  <2>1. Old .. nAllocs \subseteq Old .. nAllocs' /\ nAllocs + 1 \in Old .. nAllocs'
    BY <1>1, <1>5 DEF Old
  <2>2. nAllocs' \in 0 .. NAllocs
    BY <1>1, <1>5
  <2>. QED
    BY <1>1, <1>5, <2>1, <2>2 DEF Numbered
<1>7. Acts(c, p)
  BY <1>1, <1>3, <1>5 DEF Acts, Started, Runs
<1>8. cpu'[c].pc = "alloc" /\ cpu'[c].ptr = p
  BY <1>3 DEF Started
<1>9. table[p] = None
  <2>1. table[p] = SinceStart(live[p])
    BY <1>4 DEF Books, Follows
  <2>. QED
    BY <1>1, <2>1 DEF SinceStart, None, Old
<1>10. Settled(c)'
  <2>1. live'[p] # Old
    BY <1>1, <1>5 DEF Old
  <2>. QED
    BY <1>1, <1>8, <1>9, <2>1 DEF Settled, InAlloc, InFree
<1>11. ChargedByPlace /\ ChargedByPlace'
  BY ChargedIs, PTL
<1>12. Charged(p) = Size(table[p])
  BY <1>4, <1>11 DEF ChargedByPlace
<1>13. Charged(p)' = Size(table[p])
  BY <1>1, <1>8, <1>11 DEF ChargedByPlace, Runs, Size
<1>14. cpu[c].pc # "record"
  BY <1>2, IdleTyped
<1>. QED
  BY <1>1, <1>6, <1>7, <1>8, <1>10, <1>12, <1>13, <1>14, BooksStay

LEMMA KfreeBooks ==
    ASSUME Inv, Inv', Books, NEW c \in CPUs, NEW pid \in Pids, NEW p \in Ptrs,
           Kfree(c, pid, p), UNCHANGED causes, causes = {}
    PROVE  Books'
<1>1. /\ ~InKernel(p) /\ UNCHANGED <<nAllocs, table, pidStats, hist>>
  BY DEF Kfree, maps
<1>2. Handle(c, "free", pid, p) /\ cpu[c] = Idle /\ UNCHANGED live
  BY DEF Kfree, Miss, Handled
<1>3. Started(c, "free", p)
  BY <1>2, HandleStarts DEF Inv
<1>4. \A d \in CPUs : Runs(d) => cpu[d].ptr # p
  BY <1>1, IdleTyped DEF InKernel, Runs
<1>5. Numbered'
  BY <1>1, <1>2 DEF Books, Numbered
<1>6. Acts(c, p)
  BY <1>1, <1>2, <1>3 DEF Acts, Started, Runs
<1>7. cpu'[c].pc = "free" /\ cpu'[c].ptr = p
  BY <1>3 DEF Started
<1>8. Settled(c)'
  <2>1. table[p] = SinceStart(live[p])
    BY <1>4 DEF Books, Follows
  <2>. QED
    BY <1>1, <1>2, <1>7, <2>1 DEF Settled, InAlloc, InFree, SinceStart
<1>9. ChargedByPlace /\ ChargedByPlace'
  BY ChargedIs, PTL
<1>10. Charged(p) = Size(table[p])
  BY <1>4, <1>9 DEF ChargedByPlace
<1>11. Charged(p)' = Size(table[p])
  BY <1>1, <1>7, <1>9 DEF ChargedByPlace, Runs, Size
<1>12. cpu[c].pc # "record"
  BY <1>2, IdleTyped
<1>. QED
  BY <1>1, <1>5, <1>6, <1>7, <1>8, <1>10, <1>11, <1>12, BooksStay

-----------------------------------------------------------------------------
(* The steps that charge *)

(* an allocation is charged: to a process that has an entry, or to a new   *)
(* one                                                                     *)
ChargedTo(pid, size) ==
    /\ pidStats' \in [DOMAIN pidStats' -> Stats]
    /\ DOMAIN pidStats' = DOMAIN pidStats \cup {pid}
    /\ \A q \in DOMAIN pidStats : q # pid => pidStats'[q] = pidStats[q]
    /\ pid \in DOMAIN pidStats =>
          /\ pidStats'[pid].allocCount = pidStats[pid].allocCount + 1
          /\ Active(pid)' = Active(pid) + size
    /\ pid \notin DOMAIN pidStats =>
          /\ pidStats'[pid].allocCount = 1 /\ Active(pid)' = size

LEMMA ActiveTyped ==
    ASSUME NEW D, pidStats \in [D -> Stats]
    PROVE  \A q \in D : pidStats[q].allocCount \in Int /\ Active(q) \in Int
<1>1. \A s \in Stats : s.allocCount \in Int /\ s.allocBytes \in Int /\ s.freeBytes \in Int
  BY DEF Stats
<1>. HIDE DEF Stats
<1>. QED
  BY <1>1 DEF Active

LEMMA ChargeAdds ==
    ASSUME StatsTyped, NEW pid, NEW size \in Int, ChargedTo(pid, size)
    PROVE  /\ IsFiniteSet(DOMAIN pidStats')
           /\ SumFunction(Actives) \in Int
           /\ SumFunction(Actives') = SumFunction(Actives) + size
           /\ SumFunction(AllocCounts) \in Int
           /\ SumFunction(AllocCounts') = SumFunction(AllocCounts) + 1
<1>. DEFINE D == DOMAIN pidStats
            E == DOMAIN pidStats'
<1>1. IsFiniteSet(D) /\ E = D \cup {pid}
  BY DEF StatsTyped, ChargedTo
<1>2. IsFiniteSet(E)
  BY <1>1, FS_AddElement
<1>3. /\ \A q \in D : pidStats[q].allocCount \in Int /\ Active(q) \in Int
      /\ \A q \in E : pidStats'[q].allocCount \in Int /\ Active(q)' \in Int
  <2>1. \A q \in D : pidStats[q].allocCount \in Int /\ Active(q) \in Int
    BY ActiveTyped DEF StatsTyped
  <2>2. \A s \in Stats : s.allocCount \in Int /\ s.allocBytes \in Int /\ s.freeBytes \in Int
    BY DEF Stats
  <2>3. \A q \in E : pidStats'[q].allocCount \in Int /\ Active(q)' \in Int
    BY <2>2 DEF ChargedTo, Active
  <2>. QED
    BY <2>1, <2>3
<1>4. /\ Actives \in [D -> Int] /\ Actives' \in [E -> Int]
      /\ AllocCounts \in [D -> Int] /\ AllocCounts' \in [E -> Int]
  BY <1>3 DEF Actives, AllocCounts
<1>5. \A q \in D \ {pid} : Actives'[q] = Actives[q] /\ AllocCounts'[q] = AllocCounts[q]
  BY DEF ChargedTo, Actives, AllocCounts, Active
<1>6. /\ Actives'[pid] = IF pid \in D THEN Actives[pid] + size ELSE size
      /\ AllocCounts'[pid] = IF pid \in D THEN AllocCounts[pid] + 1 ELSE 1
  BY <1>1 DEF ChargedTo, Actives, AllocCounts
<1>. HIDE DEF D, E
<1>7. SumFunction(Actives) \in Int /\ SumFunction(Actives') = SumFunction(Actives) + size
  <2>1. /\ Actives \in [D -> Int] /\ Actives' \in [D \cup {pid} -> Int]
        /\ \A q \in D \ {pid} : Actives'[q] = Actives[q]
    BY <1>1, <1>4, <1>5
  <2>2. Actives'[pid] = IF pid \in D THEN Actives[pid] + size ELSE size
    BY <1>6
  <2>. QED
    BY <1>1, <2>1, <2>2, SumWithMore
<1>8. SumFunction(AllocCounts) \in Int /\ SumFunction(AllocCounts') = SumFunction(AllocCounts) + 1
  <2>1. /\ AllocCounts \in [D -> Int] /\ AllocCounts' \in [D \cup {pid} -> Int]
        /\ \A q \in D \ {pid} : AllocCounts'[q] = AllocCounts[q]
    BY <1>1, <1>4, <1>5
  <2>. QED
    BY <1>1, <1>6, <2>1, SumWithMore
<1>. QED
  BY <1>2, <1>7, <1>8 DEF E

LEMMA BucketsFinite == IsFiniteSet(Buckets)
<1>1. IsFiniteSet(0 .. 7)
  <2>1. 0 \in Int /\ 7 \in Int
    OBVIOUS
  <2>. QED
    BY <2>1, FS_Interval
<1>. QED
  BY <1>1 DEF Buckets

(* the histogram has a total, which an entry that counts one more raises   *)
LEMMA HistAdds ==
    ASSUME NEW h \in [Buckets -> Int]
    PROVE  /\ SumFunction(h) \in Int
           /\ \A b \in Buckets : SumFunction([h EXCEPT ![b] = @ + 1]) = SumFunction(h) + 1
<1>1. IsFiniteSet(Buckets)
  BY BucketsFinite
<1>2. ASSUME NEW b \in Buckets
      PROVE  SumFunction(h) \in Int /\ SumFunction([h EXCEPT ![b] = @ + 1]) = SumFunction(h) + 1
  <2>. DEFINE k == [h EXCEPT ![b] = @ + 1]
  <2>1. /\ k \in [Buckets -> Int] /\ k[b] = h[b] + 1 /\ h[b] \in Int
        /\ \A a \in Buckets \ {b} : k[a] = h[a]
    OBVIOUS
  <2>. HIDE DEF k
  <2>2. SumFunction(h) \in Int /\ SumFunction(k) = SumFunction(h) - h[b] + k[b]
    BY <1>1, <2>1, SumWithOneChanged
  <2>3. SumFunction(h) \in Int /\ SumFunction(k) = SumFunction(h) + 1
    BY <2>1, <2>2
  <2>. QED
    BY <2>3 DEF k
<1>3. 0 \in Buckets
  BY DEF Buckets
<1>. QED
  BY <1>2, <1>3

(* the handler of kmalloc charges the allocation and goes on to record it  *)
LEMMA ChargeBooks ==
    ASSUME Inv, Inv', Books, NEW c \in CPUs, cpu[c].pc \in {"alloc", "insert"},
           Goto(c, "record"), UNCHANGED <<nAllocs, live, table, hist>>,
           \E pid : ChargedTo(pid, Size(live[cpu[c].ptr]))
    PROVE  Books'
<1>0. PICK p \in Ptrs : p = cpu[c].ptr
  BY HasPointer DEF Runs
<1>1. Moved(c, "record")
  BY GotoMoves DEF Inv, Places, InAlloc
<1>2. Runs(c) /\ cpu'[c].pc = "record" /\ cpu'[c].ptr = p
  BY <1>0, <1>1 DEF Runs, Moved
<1>3. Acts(c, p)
  BY <1>0, <1>1, <1>2 DEF Acts, Moved
<1>4. Numbered' /\ Numbered
  BY DEF Books, Numbered
<1>5. table[p] = None /\ live[p] # Old
  BY <1>0 DEF Books, Follows, Settled, InAlloc
<1>6. Follows'
  <2>1. Settled(c)'
    BY <1>2, <1>5 DEF Settled, InAlloc, InFree
  <2>. QED
    BY <1>2, <1>3, <2>1, OthersFollow DEF Books
<1>7. ChargedByPlace /\ ChargedByPlace'
  BY ChargedIs, PTL
<1>8. Charged(p) = 0
  <2>1. Charged(p) = Size(table[p])
    BY <1>0, <1>2, <1>7 DEF ChargedByPlace
  <2>. QED
    BY <1>5, <2>1 DEF Size
<1>9. Charged(p)' = Size(live[p])
  BY <1>2, <1>7 DEF ChargedByPlace, Runs, Size
<1>10. PICK size : size = Size(live[p]) /\ size \in Int
  BY <1>4, SizeIsNat DEF Numbered
<1>11. PICK pid : ChargedTo(pid, size)
  BY <1>0, <1>10
<1>12. StatsTyped
  BY DEF Books
<1>13. /\ IsFiniteSet(DOMAIN pidStats')
       /\ SumFunction(Actives) \in Int /\ SumFunction(Actives') = SumFunction(Actives) + size
       /\ SumFunction(AllocCounts) \in Int
       /\ SumFunction(AllocCounts') = SumFunction(AllocCounts) + 1
  BY <1>10, <1>11, <1>12, ChargeAdds
<1>14. /\ SumFunction(Charges) \in Int
       /\ SumFunction(Charges') = SumFunction(Charges) - Charged(p) + Charged(p)'
  BY <1>3, <1>4, ChargesChange
<1>15. Cardinality(Recording') = Cardinality(Recording) + 1 /\ Cardinality(Recording) \in Nat
  <2>1. Recording' = Recording \cup {c} /\ c \notin Recording
    BY <1>2, <1>3, RecordingIs
  <2>. QED
    BY <2>1, RecordingFinite, FS_AddElement
<1>16. StatsTyped'
  BY <1>11, <1>12, <1>13 DEF StatsTyped, ChargedTo
<1>17. Sums'
  <2>1. SumFunction(Actives) = SumFunction(Charges)
        /\ SumFunction(hist) + Cardinality(Recording) = SumFunction(AllocCounts)
    BY DEF Books, Sums
  <2>2. SumFunction(Actives') = SumFunction(Charges')
    BY <1>8, <1>9, <1>10, <1>13, <1>14, <2>1
  <2>3. SumFunction(hist) \in Int
    BY <1>12, HistAdds DEF StatsTyped
  <2>4. SumFunction(hist') + Cardinality(Recording') = SumFunction(AllocCounts')
    BY <1>13, <1>15, <2>1, <2>3
  <2>. QED
    BY <2>2, <2>4 DEF Sums
<1>. QED
  BY <1>4, <1>6, <1>16, <1>17 DEF Books

(* the two ways of charging: an entry is there, *)
LEMMA AllocChargeBooks ==
    ASSUME Inv, Inv', Books, NEW c \in CPUs, AllocCharge(c)
    PROVE  Books'
<1>1. cpu[c].pc = "alloc" /\ UNCHANGED <<nAllocs, live, table, hist>>
  BY DEF AllocCharge, At, memory
<1>2. CASE Goto(c, "insert") /\ UNCHANGED pidStats
  BY <1>1, <1>2, InsertNextBooks DEF At
<1>3. CASE ~(Goto(c, "insert") /\ UNCHANGED pidStats)
  <2>1. PICK p \in Ptrs : p = cpu[c].ptr
    BY <1>1, HasPointer DEF Runs
  <2>2. PICK size : size = Size(live[p]) /\ size \in Int
    BY SizeIsNat DEF Books, Numbered
  <2>3. PICK pid : pid = cpu[c].pid
    OBVIOUS
  <2>4. /\ pid \in DOMAIN pidStats /\ Goto(c, "record")
        /\ pidStats' = [pidStats EXCEPT ![pid].allocCount = @ + 1, ![pid].allocBytes = @ + size]
    BY <1>3, <2>1, <2>2, <2>3 DEF AllocCharge
  <2>5. pidStats \in [DOMAIN pidStats -> Stats]
    BY DEF Books, StatsTyped
  <2>6. PICK s \in Stats : s = pidStats[pid]
    BY <2>4, <2>5
  <2>. DEFINE t == [s EXCEPT !.allocCount = @ + 1, !.allocBytes = @ + size]
  <2>7. /\ t \in Stats /\ t.allocCount = s.allocCount + 1 /\ t.allocBytes = s.allocBytes + size
        /\ t.freeBytes = s.freeBytes /\ s.allocBytes \in Int /\ s.freeBytes \in Int
    <3>1. [s EXCEPT !.allocCount = @ + 1] \in Stats
      BY DEF Stats
    <3>2. \A r \in Stats : [r EXCEPT !.allocBytes = @ + size] \in Stats
      BY <2>2 DEF Stats
    <3>3. \A r \in Stats : [r EXCEPT !.allocBytes = @ + size].allocCount = r.allocCount
      BY DEF Stats
    <3>. QED
      BY <2>2, <3>1, <3>2, <3>3 DEF Stats
  <2>8. pidStats' = [pidStats EXCEPT ![pid] = t]
    BY <2>4, <2>5, <2>6
  <2>. HIDE DEF t
  <2>9. ChargedTo(pid, size)
    <3>1. /\ DOMAIN pidStats' = DOMAIN pidStats /\ pidStats' \in [DOMAIN pidStats' -> Stats]
          /\ pidStats'[pid] = t /\ \A q \in DOMAIN pidStats : q # pid => pidStats'[q] = pidStats[q]
      BY <2>4, <2>5, <2>7, <2>8
    <3>2. Active(pid)' = Active(pid) + size
      BY <2>2, <2>6, <2>7, <3>1 DEF Active
    <3>. QED
      BY <2>4, <2>6, <2>7, <3>1, <3>2 DEF ChargedTo
  <2>. QED
    BY <1>1, <2>1, <2>2, <2>4, <2>9, ChargeBooks
<1>. QED
  BY <1>2, <1>3

(* or one is inserted *)
LEMMA AllocInsertBooks ==
    ASSUME Inv, Inv', Books, NEW c \in CPUs, AllocInsert(c), UNCHANGED causes, causes = {}
    PROVE  Books'
<1>1. /\ cpu[c].pc = "insert" /\ Goto(c, "record")
      /\ UNCHANGED <<nAllocs, live, table, hist>>
  BY DEF AllocInsert, At, memory
<1>2. PICK p \in Ptrs : p = cpu[c].ptr
  BY <1>1, HasPointer DEF Runs
<1>3. PICK size : size = Size(live[p]) /\ size \in Int
  BY SizeIsNat DEF Books, Numbered
<1>4. PICK pid : pid = cpu[c].pid
  OBVIOUS
<1>5. /\ pid \notin DOMAIN pidStats
      /\ pidStats' = [q \in DOMAIN pidStats \cup {pid} |->
                         IF q = pid THEN NewStats(size) ELSE pidStats[q]]
  BY <1>2, <1>3, <1>4 DEF AllocInsert, Spoiled
<1>6. NewStats(size) \in Stats /\ NewStats(size).allocCount = 1
      /\ NewStats(size).allocBytes = size /\ NewStats(size).freeBytes = 0
  BY <1>3 DEF NewStats, Stats
<1>7. pidStats \in [DOMAIN pidStats -> Stats]
  BY DEF Books, StatsTyped
<1>8. ChargedTo(pid, size)
  <2>. HIDE DEF NewStats
  <2>1. /\ DOMAIN pidStats' = DOMAIN pidStats \cup {pid} /\ pidStats' \in [DOMAIN pidStats' -> Stats]
        /\ pidStats'[pid] = NewStats(size)
        /\ \A q \in DOMAIN pidStats : q # pid => pidStats'[q] = pidStats[q]
    BY <1>5, <1>6, <1>7
  <2>2. Active(pid)' = size
    BY <1>3, <1>6, <2>1 DEF Active
  <2>. QED
    BY <1>5, <1>6, <2>1, <2>2 DEF ChargedTo
<1>. QED
  BY <1>1, <1>2, <1>3, <1>8, ChargeBooks

(* a freed allocation is taken off the process that frees it               *)
LEMMA FreeUnchargeBooks ==
    ASSUME Inv, Inv', Books, NEW c \in CPUs, FreeUncharge(c), UNCHANGED causes, causes = {}
    PROVE  Books'
<1>0. PICK p \in Ptrs : p = cpu[c].ptr
  BY HasPointer DEF FreeUncharge, At, Runs
<1>1. /\ cpu[c].pc = "uncharge" /\ Goto(c, "delete")
      /\ UNCHANGED <<nAllocs, live, table, hist>>
  BY DEF FreeUncharge, At, memory
<1>2. Moved(c, "delete")
  BY <1>1, GotoMoves DEF Inv, Places, InFree
<1>3. Runs(c) /\ cpu'[c].pc = "delete" /\ cpu'[c].ptr = p
  BY <1>0, <1>1, <1>2 DEF Runs, Moved
<1>4. Acts(c, p)
  BY <1>0, <1>1, <1>2, <1>3 DEF Acts, Moved
<1>5. Numbered' /\ Numbered
  BY <1>1 DEF Books, Numbered
<1>6. table[p] = SinceStart(live[p]) /\ cpu[c].freed = Size(table[p])
  BY <1>0, <1>1 DEF Books, Follows, Settled, InFree
<1>7. Follows'
  <2>1. Settled(c)'
    BY <1>1, <1>3, <1>6 DEF Settled, InAlloc, InFree, SinceStart
  <2>. QED
    BY <1>3, <1>4, <2>1, OthersFollow DEF Books
<1>8. ChargedByPlace /\ ChargedByPlace'
  BY ChargedIs, PTL
<1>9. Charged(p) = Size(table[p])
  BY <1>0, <1>1, <1>3, <1>8 DEF ChargedByPlace
<1>10. Charged(p)' = 0
  BY <1>3, <1>8 DEF ChargedByPlace, Runs
<1>11. PICK size : size = Size(table[p]) /\ size \in Int
  BY <1>5, SizeIsNat DEF Numbered
<1>12. PICK pid : pid = cpu[c].pid
  OBVIOUS
<1>13. /\ pid \in DOMAIN pidStats
       /\ pidStats' = [pidStats EXCEPT ![pid].freeCount = @ + 1, ![pid].freeBytes = @ + size]
  BY <1>6, <1>11, <1>12 DEF FreeUncharge, Spoiled
<1>14. pidStats \in [DOMAIN pidStats -> Stats] /\ IsFiniteSet(DOMAIN pidStats)
       /\ hist \in [Buckets -> Int]
  BY DEF Books, StatsTyped
<1>15. PICK s \in Stats : s = pidStats[pid]
  BY <1>13, <1>14
<1>. DEFINE t == [s EXCEPT !.freeCount = @ + 1, !.freeBytes = @ + size]
            D == DOMAIN pidStats
<1>16. /\ t \in Stats /\ t.allocCount = s.allocCount /\ t.allocBytes = s.allocBytes
       /\ t.freeBytes = s.freeBytes + size /\ s.allocBytes \in Int /\ s.freeBytes \in Int
  <2>1. [s EXCEPT !.freeCount = @ + 1] \in Stats
    BY DEF Stats
  <2>2. \A r \in Stats : [r EXCEPT !.freeBytes = @ + size] \in Stats
    BY <1>11 DEF Stats
  <2>. QED
    BY <1>11, <2>1, <2>2 DEF Stats
<1>17. pidStats' = [pidStats EXCEPT ![pid] = t]
  BY <1>13, <1>14, <1>15
<1>. HIDE DEF t
<1>18. /\ DOMAIN pidStats' = D /\ pidStats' \in [D -> Stats] /\ pidStats'[pid] = t
       /\ \A q \in D : q # pid => pidStats'[q] = pidStats[q]
  BY <1>13, <1>14, <1>16, <1>17
<1>19. StatsTyped'
  BY <1>1, <1>14, <1>18 DEF StatsTyped
<1>20. Active(pid)' = Active(pid) - size
  BY <1>11, <1>15, <1>16, <1>18 DEF Active
<1>21. AllocCounts' = AllocCounts
  <2>1. \A q \in D : pidStats'[q].allocCount = pidStats[q].allocCount
    BY <1>15, <1>16, <1>18
  <2>. QED
    BY <1>18, <2>1 DEF AllocCounts
<1>22. SumFunction(Actives) \in Int /\ SumFunction(Actives') = SumFunction(Actives) - size
  <2>1. \A q \in D : Active(q) \in Int /\ Active(q)' \in Int
    <3>1. \A q \in D : Active(q) \in Int
      BY <1>14, ActiveTyped
    <3>2. \A q \in D : q # pid => Active(q)' = Active(q)
      BY <1>18 DEF Active
    <3>. QED
      BY <1>11, <1>13, <1>20, <3>1, <3>2
  <2>2. Actives \in [D -> Int] /\ Actives' \in [D -> Int]
    BY <1>18, <2>1 DEF Actives
  <2>3. \A q \in D \ {pid} : Actives'[q] = Actives[q]
    BY <1>18 DEF Actives, Active
  <2>4. Actives[pid] = Active(pid) /\ Actives'[pid] = Active(pid)' /\ Active(pid) \in Int
    BY <1>13, <1>18, <2>1 DEF Actives
  <2>. HIDE DEF D
  <2>5. SumFunction(Actives) \in Int
        /\ SumFunction(Actives') = SumFunction(Actives) - Actives[pid] + Actives'[pid]
    BY <1>13, <1>14, <2>2, <2>3, SumWithOneChanged DEF D
  <2>. QED
    BY <1>11, <1>20, <2>4, <2>5
<1>23. /\ SumFunction(Charges) \in Int
       /\ SumFunction(Charges') = SumFunction(Charges) - Charged(p) + Charged(p)'
  BY <1>4, <1>5, ChargesChange
<1>24. Recording' = Recording
  BY <1>1, <1>3, <1>4, RecordingIs
<1>25. Sums'
  <2>1. SumFunction(Actives') = SumFunction(Charges')
    BY <1>9, <1>10, <1>11, <1>22, <1>23 DEF Books, Sums
  <2>. QED
    BY <1>1, <1>21, <1>24, <2>1 DEF Books, Sums
<1>. QED
  BY <1>5, <1>7, <1>19, <1>25 DEF Books

(* a size has a bucket *)
LEMMA BucketIs == \A size : SizeToBucket(size) \in Buckets
<1>. SUFFICES ASSUME NEW size PROVE SizeToBucket(size) \in Buckets
  OBVIOUS
<1>. DEFINE fits == {b \in 0 .. 6 : size <= 64 * 4 ^ b}
<1>1. CASE fits = {}
  BY <1>1 DEF SizeToBucket, Buckets
<1>2. CASE fits # {}
  <2>1. fits \in SUBSET Nat
    OBVIOUS
  <2>2. SizeToBucket(size) = Min(fits)
    BY <1>2 DEF SizeToBucket
  <2>3. fits \subseteq Buckets
    BY DEF Buckets
  <2>. HIDE DEF fits
  <2>4. \E x \in fits : \A y \in fits : x <= y
    BY <1>2, <2>1, LeastNumber
  <2>5. Min(fits) \in fits
    BY <2>4 DEF Min
  <2>. QED
    BY <2>2, <2>3, <2>5
<1>. QED
  BY <1>1, <1>2

(* the allocation goes from the handler to the table and the histogram     *)
LEMMA AllocRecordBooks ==
    ASSUME Inv, Inv', Books, NEW c \in CPUs, AllocRecord(c), UNCHANGED causes, causes = {}
    PROVE  Books'
<1>0. PICK p \in Ptrs : p = cpu[c].ptr
  BY HasPointer DEF AllocRecord, At, Runs
<1>1. /\ cpu[c].pc = "record" /\ Goto(c, "reserve") /\ UNCHANGED <<nAllocs, live, pidStats>>
      /\ table' = [table EXCEPT ![p] = live[p]]
      /\ hist' = [hist EXCEPT ![SizeToBucket(Size(live[p]))] = @ + 1]
  BY <1>0 DEF AllocRecord, At, memory, Spoiled
<1>2. Moved(c, "reserve")
  BY <1>1, GotoMoves DEF Inv, Places
<1>3. Runs(c) /\ cpu'[c].pc = "reserve" /\ cpu'[c].ptr = p
  BY <1>0, <1>1, <1>2 DEF Runs, Moved
<1>4. live \in [Ptrs -> Old .. nAllocs] /\ table \in [Ptrs -> Old .. nAllocs]
  BY DEF Books, Numbered
<1>5. table'[p] = live[p] /\ \A q \in Ptrs : q # p => table'[q] = table[q]
  BY <1>1, <1>4
<1>6. Acts(c, p)
  BY <1>0, <1>1, <1>2, <1>3, <1>5 DEF Acts, Moved
<1>7. Numbered' /\ Numbered
  BY <1>1, <1>4 DEF Books, Numbered
<1>8. live[p] # Old
  BY <1>0, <1>1 DEF Books, Follows, Settled, InAlloc
<1>9. Follows'
  <2>1. Settled(c)'
    BY <1>1, <1>3, <1>5, <1>8 DEF Settled, InAlloc, InFree
  <2>. QED
    BY <1>3, <1>6, <2>1, OthersFollow DEF Books
<1>10. ChargedByPlace /\ ChargedByPlace'
  BY ChargedIs, PTL
<1>11. Charged(p) = Size(live[p])
  BY <1>0, <1>1, <1>3, <1>10 DEF ChargedByPlace
<1>12. Charged(p)' = Size(table'[p])
  BY <1>3, <1>10 DEF ChargedByPlace, Runs, Size
<1>13. Charges' = Charges
  <2>1. Size(table'[p]) = Size(live[p])
    BY <1>5
  <2>2. \A q \in Ptrs : Charged(q)' = Charged(q)
    BY <1>6, <1>11, <1>12, <2>1, OthersCharged
  <2>. QED
    BY <2>2 DEF Charges
<1>14. Actives' = Actives /\ AllocCounts' = AllocCounts
  BY <1>1 DEF Actives, AllocCounts, Active
<1>15. /\ Cardinality(Recording') = Cardinality(Recording) - 1
       /\ Cardinality(Recording) \in Nat /\ Cardinality(Recording') \in Int
  <2>1. Recording' = Recording \ {c} /\ c \in Recording
    BY <1>1, <1>3, <1>6, RecordingIs
  <2>. QED
    <3>1. IsFiniteSet(Recording) /\ Cardinality(Recording) \in Nat
      BY RecordingFinite
    <3>2. Cardinality(Recording \ {c}) = Cardinality(Recording) - 1
      BY <2>1, <3>1, FS_RemoveElement
    <3>. QED
      BY <2>1, <3>1, <3>2
<1>16. hist \in [Buckets -> Int]
  BY DEF Books, StatsTyped
<1>17. SumFunction(hist) \in Int /\ SumFunction(hist') = SumFunction(hist) + 1
  BY <1>1, <1>16, HistAdds, BucketIs
<1>18. StatsTyped'
  <2>1. hist' \in [Buckets -> Int]
    <3>1. PICK b \in Buckets : hist' = [hist EXCEPT ![b] = @ + 1]
      BY <1>1, BucketIs
    <3>. QED
      BY <1>16, <3>1
  <2>. QED
    BY <1>1, <2>1 DEF Books, StatsTyped
<1>19. Sums'
  BY <1>13, <1>14, <1>15, <1>17 DEF Books, Sums
<1>. QED
  BY <1>7, <1>9, <1>18, <1>19 DEF Books

-----------------------------------------------------------------------------
(* The books are kept *)

(* nothing is charged, recorded or counted at first *)
LEMMA BooksAtFirst == Init => Balanced
<1>. SUFFICES ASSUME Init PROVE Books
  BY DEF Balanced
<1>. USE DEF Init
<1>1. \A c \in CPUs : cpu[c].pc = "idle"
  BY IdleTyped
<1>2. Numbered
  BY BpfAssumption DEF Numbered, None, Old
<1>3. DOMAIN pidStats = {}
  OBVIOUS
<1>4. StatsTyped
  <2>1. IsFiniteSet(DOMAIN pidStats)
    BY <1>3, FS_EmptySet
  <2>2. pidStats \in [DOMAIN pidStats -> Stats] /\ hist \in [Buckets -> Int]
    OBVIOUS
  <2>. QED
    BY <2>1, <2>2 DEF StatsTyped
<1>5. Follows
  BY <1>1 DEF Follows, Settled, SinceStart, InAlloc, InFree, None, Old
<1>6. \A p \in Ptrs : Charged(p) = 0
  BY <1>1 DEF Charged, SomeoneAt, Size
<1>7. SumFunction(Charges) = 0
  <2>1. Charges \in [Ptrs -> Int] /\ \A p \in Ptrs : Charges[p] = 0
    BY <1>6 DEF Charges
  <2>2. IsFiniteSet(Ptrs)
    BY BpfAssumption
  <2>. HIDE DEF Charges
  <2>. QED
    BY <2>1, <2>2, SumOfZeros
<1>8. SumFunction(Actives) = 0 /\ SumFunction(AllocCounts) = 0
  <2>1. Actives \in [{} -> Int] /\ AllocCounts \in [{} -> Int]
    BY <1>3 DEF Actives, AllocCounts
  <2>2. IsFiniteSet({})
    BY FS_EmptySet
  <2>. QED
    BY <2>1, <2>2, SumOfZeros
<1>9. SumFunction(hist) = 0
  <2>1. IsFiniteSet(Buckets)
    BY BucketsFinite
  <2>2. hist \in [Buckets -> Int] /\ \A b \in Buckets : hist[b] = 0
    OBVIOUS
  <2>. QED
    BY <2>1, <2>2, SumOfZeros
<1>10. Cardinality(Recording) = 0
  <2>1. Recording = {}
    BY <1>1 DEF Recording
  <2>. QED
    BY <2>1, FS_EmptySet
<1>11. Sums
  BY <1>7, <1>8, <1>9, <1>10 DEF Sums
<1>. QED
  BY <1>2, <1>4, <1>5, <1>11 DEF Books

(* Every step keeps the books or adds to the causes, which are never       *)
(* withdrawn.                                                              *)
LEMMA BooksKept == Inv /\ Inv' /\ Balanced /\ [Next]_vars => Balanced'
<1>. SUFFICES ASSUME Inv, Inv', Balanced, [Next]_vars, causes' = {} PROVE Books'
  BY DEF Balanced
<1>1. causes = {} /\ UNCHANGED causes
  BY DEF Next, Kmalloc, Kfree, Handle, Miss, TraceAlloc, TraceFree, AllocCharge, AllocInsert, AllocRecord,
         FreeLookup, FreeUncharge, FreeDelete, Spoiled, Reserve, Drop, Submit, CountEvent, Consume, vars
<1>2. Books
  BY <1>1 DEF Balanced
<1>3. CASE UNCHANGED vars
  BY <1>2, <1>3, BooksRest DEF vars, memory, maps
<1>4. ASSUME NEW c \in CPUs, NEW pid \in Pids, NEW p \in Ptrs,
             Kmalloc(c, pid, p) \/ Kfree(c, pid, p)
      PROVE  Books'
  BY <1>1, <1>2, <1>4, KmallocBooks, KfreeBooks
<1>5. ASSUME NEW c \in CPUs, TraceAlloc(c)
      PROVE  Books'
  BY <1>1, <1>2, <1>5, AllocChargeBooks, AllocInsertBooks, AllocRecordBooks DEF TraceAlloc
<1>6. ASSUME NEW c \in CPUs, TraceFree(c)
      PROVE  Books'
  BY <1>1, <1>2, <1>6, FreeLookupBooks, FreeUnchargeBooks, FreeDeleteBooks DEF TraceFree
<1>7. ASSUME NEW c \in CPUs, Reserve(c) \/ Submit(c)
      PROVE  Books'
  BY <1>2, <1>7, ReserveBooks, SubmitBooks
<1>8. ASSUME NEW c \in CPUs, Drop(c) \/ CountEvent(c)
      PROVE  Books'
  BY <1>2, <1>8, ReturnBooks DEF Drop, CountEvent, At, maps
<1>9. CASE Consume
  BY <1>2, <1>9, BooksRest DEF Consume, memory, maps
<1>. QED
  BY <1>3, <1>4, <1>5, <1>6, <1>7, <1>8, <1>9 DEF Next

(* With no handler on its way, a pointer's charge is its entry. *)
LEMMA BalancedIsEnough == Inv /\ Balanced => BytesBalance
<1>. SUFFICES ASSUME Inv, Books, Running = {} PROVE
        /\ SumFunction([pid \in DOMAIN pidStats |-> Active(pid)])
             = SumFunction([p \in Ptrs |-> Size(table[p])])
        /\ \A p \in Ptrs : table[p] = SinceStart(live[p])
        /\ SumFunction(hist)
             = SumFunction([pid \in DOMAIN pidStats |-> pidStats[pid].allocCount])
  BY DEF Balanced, BytesBalance
<1>1. \A c \in CPUs : ~Runs(c)
  BY RunningAre DEF Inv, RunningByPlace
<1>2. \A p \in Ptrs : table[p] = SinceStart(live[p])
  BY <1>1 DEF Books, Follows
<1>3. \A p \in Ptrs : Charged(p) = Size(table[p])
  BY <1>1, ChargedIs DEF ChargedByPlace
<1>4. Charges = [p \in Ptrs |-> Size(table[p])]
  BY <1>3 DEF Charges
<1>5. Cardinality(Recording) = 0
  <2>1. Recording = {}
    BY <1>1 DEF Recording, Runs
  <2>. QED
    BY <2>1, FS_EmptySet
<1>6. SumFunction(hist) \in Int
  BY HistAdds DEF Books, StatsTyped
<1>. QED
  BY <1>2, <1>4, <1>5, <1>6 DEF Books, Sums, Actives, AllocCounts

-----------------------------------------------------------------------------
(* The theorems *)

(* For any number of CPUs and any ring buffer, whatever the handlers and   *)
(* user space do in between: a handler that passed the filter has been     *)
(* counted in total or in dropped, or is still running, and the events     *)
(* that were submitted, which are those in total and those their handlers  *)
(* have still to count, have been consumed or wait.                        *)
THEOREM EventsAddUp == Spec => []EventsAccountedFor
BY InvHolds, InvIsEnough, PTL

(* What alloc_table names has not been freed, however the handlers of      *)
(* different CPUs interleave and however small the table is, as long as no *)
(* call of kmalloc or kfree went unseen.                                   *)
THEOREM LeaksAreLive == Spec => []SuspectsAreLive
BY InvHolds, InvIsEnough, PTL

(* Whatever sizes the calls ask for and however the handlers interleave,   *)
(* as long as none of the five causes has occurred: with no handler        *)
(* running, the active bytes of the processes are the bytes in             *)
(* alloc_table, which has the memory allocated since the start, and the    *)
(* histogram has their allocations.                                        *)
THEOREM BytesAddUp == Spec => []BytesBalance
<1>1. Spec => []Balanced
  BY BooksAtFirst, BooksKept, InvHolds, PTL DEF Spec
<1>. QED
  BY <1>1, InvHolds, BalancedIsEnough, PTL

=============================================================================
