--------------------------- MODULE SpscRingBuffer ---------------------------
(***************************************************************************)
(* The lock-free single-producer single-consumer ring buffer of            *)
(* k3-code/include/lockfree_ring_buffer.hpp, one step per access to shared *)
(* memory.  One thread calls push, another calls pop and approx_size (the  *)
(* only callers of approx_size are the consumers' loop conditions).        *)
(*                                                                         *)
(* Memory order.  head_ is stored by the producer only and tail_ by the    *)
(* consumer only, so each thread's relaxed load of its own index returns   *)
(* the current value.  An acquire load of the other thread's index may     *)
(* return any value not older than the one this thread saw last (read-read *)
(* coherence): seenTail and seenHead are those last seen values, and       *)
(* Visible(seen, actual) is the set of values a load may return.  The slot *)
(* accesses are not atomic; NoSlotRace states that they never collide.     *)
(***************************************************************************)
EXTENDS Integers, Sequences

CONSTANTS Values,    (* the items pushed: shared pointers to frames *)
          Capacity,  (* the constructor argument *)
          Nil        (* a null pointer: an empty or moved-from slot *)

ASSUME RingAssumption == Capacity \in Nat \ {0} /\ Nil \notin Values

VARIABLES
    buffer,    (* buffer_ *)
    head,      (* head_: the slot the next push writes *)
    tail,      (* tail_: the slot the next pop reads *)
    pPc,       (* where the producer is in push *)
    pItem,     (* the argument of push *)
    seenTail,  (* the newest tail_ the producer has loaded *)
    cPc,       (* where the consumer is in pop or approx_size *)
    cItem,     (* the item pop moved out last *)
    seenHead,  (* the newest head_ the consumer has loaded *)
    size       (* the last result of approx_size, 0 once pop has used it up *)

producer == <<pPc, pItem, seenTail>>
consumer == <<cPc, cItem, seenHead, size>>
vars == <<buffer, head, tail, producer, consumer>>

N == Capacity + 1           \* capacity_
Slots == 0 .. N - 1

(* Mutation: no wrap at the end of the buffer. *)
IncrementUnwrapped(i) == i + 1

(* increment *)
Increment(i) == (i + 1) % N

(* the number of increments that lead from index a to index b; the result  *)
(* expression of approx_size with head = b and tail = a                    *)
Dist(a, b) == IF b >= a THEN b - a ELSE N - (a - b)

(* what an acquire load of an index may return *)
Visible(seen, actual) == {i \in Slots : Dist(seen, i) <= Dist(seen, actual)}

Init ==
    /\ buffer = [i \in Slots |-> Nil]
    /\ head = 0 /\ tail = 0
    /\ pPc = "idle" /\ pItem = Nil /\ seenTail = 0
    /\ cPc = "idle" /\ cItem = Nil /\ seenHead = 0 /\ size = 0

-----------------------------------------------------------------------------
(* The producer: push *)

PushBegin(v) ==
    /\ pPc = "idle"
    /\ pPc' = "check"
    /\ pItem' = v
    /\ UNCHANGED <<buffer, head, tail, seenTail, consumer>>

(* Mutation: push does not test for a full queue. *)
PushCheckUnguarded(t) ==
    /\ pPc = "check" /\ pPc' = "write"
    /\ t \in Visible(seenTail, tail) /\ seenTail' = t
    /\ UNCHANGED <<buffer, head, tail, pItem, consumer>>

(* if (next == tail_.load(acquire)) return false; *)
PushCheck(t) ==
    /\ pPc = "check"
    /\ t \in Visible(seenTail, tail)
    /\ seenTail' = t
    /\ \/ /\ Increment(head) = t
          /\ pPc' = "idle"
          /\ pItem' = Nil
       \/ /\ Increment(head) # t
          /\ pPc' = "write"
          /\ UNCHANGED pItem
    /\ UNCHANGED <<buffer, head, tail, consumer>>

(* Mutation: the item goes into the slot after head_. *)
PushWriteNext ==
    /\ pPc = "write" /\ pPc' = "publish"
    /\ buffer' = [buffer EXCEPT ![Increment(head)] = pItem]
    /\ pItem' = Nil
    /\ UNCHANGED <<head, tail, seenTail, consumer>>

(* buffer_[head] = std::move(item); *)
PushWrite ==
    /\ pPc = "write"
    /\ buffer' = [buffer EXCEPT ![head] = pItem]
    /\ pItem' = Nil
    /\ pPc' = "publish"
    /\ UNCHANGED <<head, tail, seenTail, consumer>>

(* head_.store(next, release); return true; *)
PushPublish ==
    /\ pPc = "publish"
    /\ head' = Increment(head)
    /\ pPc' = "idle"
    /\ UNCHANGED <<buffer, tail, pItem, seenTail, consumer>>

-----------------------------------------------------------------------------
(* The consumer: pop and approx_size *)

(* Mutation: pop takes one item left for none. *)
PopCheckOffByOne(h) ==
    /\ cPc = "idle"
    /\ h \in Visible(seenHead, head) /\ seenHead' = h
    /\ cPc' = IF h \in {tail, Increment(tail)} THEN "idle" ELSE "move"
    /\ size' = 0
    /\ UNCHANGED <<buffer, head, tail, producer, cItem>>

(* if (tail == head_.load(acquire)) return std::nullopt; *)
PopCheck(h) ==
    /\ cPc = "idle"
    /\ h \in Visible(seenHead, head)
    /\ seenHead' = h
    /\ cPc' = IF h = tail THEN "idle" ELSE "move"
    /\ size' = 0
    /\ UNCHANGED <<buffer, head, tail, producer, cItem>>

(* Mutation: pop copies the pointer and leaves one in the slot. *)
PopCopy ==
    /\ cPc = "move" /\ cPc' = "release"
    /\ cItem' = buffer[tail]
    /\ UNCHANGED <<buffer, head, tail, producer, seenHead, size>>

(* T item = std::move(buffer_[tail]); *)
PopMove ==
    /\ cPc = "move"
    /\ cItem' = buffer[tail]
    /\ buffer' = [buffer EXCEPT ![tail] = Nil]
    /\ cPc' = "release"
    /\ UNCHANGED <<head, tail, producer, seenHead, size>>

(* tail_.store(increment(tail), release); return item; *)
PopRelease ==
    /\ cPc = "release"
    /\ tail' = Increment(tail)
    /\ cPc' = "idle"
    /\ UNCHANGED <<buffer, head, producer, cItem, seenHead, size>>

(* approx_size: the load of head_ ... *)
SizeHead(h) ==
    /\ cPc = "idle"
    /\ h \in Visible(seenHead, head)
    /\ seenHead' = h
    /\ cPc' = "size"
    /\ UNCHANGED <<buffer, head, tail, producer, cItem, size>>

(* Mutation: head > tail instead of head >= tail. *)
SizeTailStrict ==
    /\ cPc = "size" /\ cPc' = "idle"
    /\ size' = IF seenHead > tail THEN seenHead - tail ELSE N - (tail - seenHead)
    /\ UNCHANGED <<buffer, head, tail, producer, cItem, seenHead>>

(* ... and of tail_, which only this thread stores *)
SizeTail ==
    /\ cPc = "size"
    /\ size' = Dist(tail, seenHead)
    /\ cPc' = "idle"
    /\ UNCHANGED <<buffer, head, tail, producer, cItem, seenHead>>

-----------------------------------------------------------------------------
Push == \/ \E t \in Slots : PushCheck(t)
        \/ PushWrite
        \/ PushPublish
Pop  == \/ \E h \in Slots : PopCheck(h)
        \/ PopMove
        \/ PopRelease
Size == \/ \E h \in Slots : SizeHead(h)
        \/ SizeTail

Next == \/ \E v \in Values : PushBegin(v)
        \/ Push
        \/ Pop
        \/ Size

Spec == Init /\ [][Next]_vars

(* Both threads run.  A store becomes visible in finite time, so a thread  *)
(* that keeps loading an index eventually loads its current value; the     *)
(* consumer's loop calls pop again and again.                              *)
Fairness ==
    /\ WF_vars(Push) /\ WF_vars(SizeTail) /\ WF_vars(PopMove \/ PopRelease)
    /\ SF_vars(PopCheck(head))

FairSpec == Spec /\ Fairness

-----------------------------------------------------------------------------
TypeOK ==
    /\ buffer \in [Slots -> Values \cup {Nil}]
    /\ head \in Slots /\ tail \in Slots
    /\ pPc \in {"idle", "check", "write", "publish"}
    /\ pItem \in Values \cup {Nil}
    /\ seenTail \in Slots
    /\ cPc \in {"idle", "move", "release", "size"}
    /\ cItem \in Values \cup {Nil}
    /\ seenHead \in Slots
    /\ size \in 0 .. Capacity

(* Each thread's view of the other's index lags behind it and never runs   *)
(* past it: going round from seenTail one meets tail, seenHead and head in *)
(* this order within one turn.                                             *)
IndexOrder ==
    /\ Dist(seenTail, tail) + Dist(tail, seenHead) + Dist(seenHead, head)
         = Dist(seenTail, head)
    /\ pPc \in {"write", "publish"} => Dist(seenTail, head) < Capacity
    /\ cPc \in {"move", "release"} => seenHead # tail

(* The slots that hold an item: the published ones, less the one pop has   *)
(* just emptied, plus the one push has just filled.                        *)
Published == {i \in Slots : Dist(tail, i) < Dist(tail, head)}
Filled == (Published \ (IF cPc = "release" THEN {tail} ELSE {}))
             \cup (IF pPc = "publish" THEN {head} ELSE {})

(* A push under way carries an item until it has written it. *)
PushCarriesItem == pPc \in {"check", "write"} <=> pItem # Nil

(* Slots hold items exactly where the indices say so: push never           *)
(* overwrites an item not yet popped, pop never hands out a slot not yet   *)
(* written or already emptied (the dispatcher would dereference null).     *)
SlotsFilled == \A i \in Slots : buffer[i] # Nil <=> i \in Filled

(* The non-atomic accesses to buffer_ never hit the same slot at once, and *)
(* the producer writes only slots the consumer is known to have left.      *)
NoSlotRace ==
    (pPc \in {"write", "publish"} /\ cPc \in {"move", "release"}) => head # tail

(* approx_size() > 0 in the consumer's loop condition is a promise: the    *)
(* items it counts are there, so the pop that follows returns one.         *)
ApproxSizeNeverOverReports ==
    /\ size <= Dist(tail, seenHead)
    /\ cPc \in {"move", "release"} => size = 0

(* A pop call that follows approx_size() > 0 does not come back empty.     *)
PopAfterPositiveSize == [][size > 0 /\ size' = 0 => cPc' = "move"]_vars

(* Refinement.  An item enters the abstract queue when its head_ store     *)
(* publishes it and leaves it when pop moves it out.                       *)
First == IF cPc = "release" THEN Increment(tail) ELSE tail
Queued == [k \in 1 .. Dist(First, head) |-> buffer[(First + k - 1) % N]]

Fifo == INSTANCE BoundedFifo WITH q <- Queued, got <- cItem
ImplementsFifo == Fifo!Spec

(* Nothing stays in the queue for ever: as long as the consumer's loop     *)
(* keeps calling pop, every queued item is handed out, and the producer is *)
(* never stuck in push (neither operation waits for the other thread).     *)
ConsumerDrains == \A v \in Values :
    (Queued # <<>> /\ Queued[1] = v) ~> (cPc = "release" /\ cItem = v)
=============================================================================
