----------------------- MODULE SpscRingBuffer_proofs -----------------------
(***************************************************************************)
(* Proofs about the ring buffer, for every capacity and every set of       *)
(* values.                                                                 *)
(***************************************************************************)
EXTENDS SpscRingBuffer, SequenceTheorems, TLAPS

(* The inductive invariant. *)
Inv ==
    /\ TypeOK
    /\ IndexOrder
    /\ PushCarriesItem
    /\ SlotsFilled
    /\ ApproxSizeNeverOverReports

-----------------------------------------------------------------------------
(* Arithmetic of the ring. *)

(* The modulo of increment wraps the last slot to 0 and does nothing else. *)
LEMMA IncrementDef ==
    ASSUME NEW i \in Slots
    PROVE  /\ Increment(i) = IF i = Capacity THEN 0 ELSE i + 1
           /\ Increment(i) \in Slots
<1>0. Capacity \in Nat /\ N \in Nat /\ N = Capacity + 1 /\ i \in 0 .. Capacity
  BY RingAssumption DEF N, Slots
<1>1. CASE i = Capacity
  <2>1. (i + 1) % N = 0
    BY <1>0, <1>1
  <2> QED BY <2>1, <1>0, <1>1 DEF Increment, Slots
<1>2. CASE i # Capacity
  <2>1. (i + 1) % N = i + 1
    BY <1>0, <1>2
  <2> QED BY <2>1, <1>0, <1>2 DEF Increment, Slots
<1> QED BY <1>1, <1>2

(* The distance between two slots is less than one turn, and 0 only between *)
(* a slot and itself.                                                       *)
LEMMA DistRange ==
    ASSUME NEW a \in Slots, NEW b \in Slots
    PROVE  /\ Dist(a, b) \in 0 .. Capacity
           /\ Dist(a, b) = 0 <=> a = b
BY RingAssumption DEF Dist, Slots, N

(* Advancing the end of an interval lengthens it by one, or closes it. *)
LEMMA DistIncrementEnd ==
    ASSUME NEW a \in Slots, NEW b \in Slots
    PROVE  /\ Increment(b) # a => Dist(a, Increment(b)) = Dist(a, b) + 1
           /\ Increment(b) = a <=> Dist(a, b) = Capacity
BY IncrementDef, RingAssumption DEF Dist, Slots, N

(* Advancing the start of a non-empty interval shortens it by one. *)
LEMMA DistIncrementStart ==
    ASSUME NEW a \in Slots, NEW b \in Slots, a # b
    PROVE  Dist(Increment(a), b) = Dist(a, b) - 1
BY IncrementDef, RingAssumption DEF Dist, Slots, N

(* Two slots at the same distance from a third are the same slot. *)
LEMMA DistInjective ==
    ASSUME NEW a \in Slots, NEW b \in Slots, NEW c \in Slots
    PROVE  Dist(a, b) = Dist(a, c) => b = c
BY RingAssumption DEF Dist, Slots, N

(* Of two stops on the way from a, the nearer comes first. *)
LEMMA DistSplit ==
    ASSUME NEW a \in Slots, NEW b \in Slots, NEW c \in Slots
    PROVE  /\ Dist(a, b) <= Dist(a, c) => Dist(b, c) = Dist(a, c) - Dist(a, b)
           /\ Dist(a, b) + Dist(b, c) <= Capacity => Dist(a, c) = Dist(a, b) + Dist(b, c)
BY RingAssumption DEF Dist, Slots, N

-----------------------------------------------------------------------------
(* The inductive invariant holds initially. *)
LEMMA InitInv == Init => Inv
<1> SUFFICES ASSUME Init PROVE Inv
  OBVIOUS
<1>0. 0 \in Slots /\ Nil \notin Values /\ Capacity \in Nat /\ Dist(0, 0) = 0
  BY RingAssumption DEF Slots, N, Dist
<1>1. TypeOK
  BY <1>0 DEF Init, TypeOK
<1>2. IndexOrder /\ PushCarriesItem /\ ApproxSizeNeverOverReports
  BY <1>0 DEF Init, IndexOrder, PushCarriesItem, ApproxSizeNeverOverReports
<1>3. SlotsFilled
  <2>1. Filled = {}
    BY <1>0, DistRange DEF Init, Filled, Published
  <2> QED BY <2>1 DEF Init, SlotsFilled
<1> QED BY <1>1, <1>2, <1>3 DEF Inv

(* What the order of the indices means for the two threads: neither view   *)
(* runs past the index it shows, and the consumer has something to take    *)
(* whenever it has seen it.                                                *)
LEMMA Order ==
    ASSUME Inv
    PROVE  /\ Dist(seenTail, tail) \in 0 .. Capacity
           /\ Dist(tail, seenHead) \in 0 .. Capacity
           /\ Dist(seenHead, head) \in 0 .. Capacity
           /\ Dist(tail, head) = Dist(tail, seenHead) + Dist(seenHead, head)
           /\ Dist(seenTail, head) = Dist(seenTail, tail) + Dist(tail, head)
           /\ Dist(seenTail, head) \in 0 .. Capacity
<1>1. /\ seenTail \in Slots /\ tail \in Slots /\ seenHead \in Slots /\ head \in Slots
      /\ Capacity \in Nat
  BY RingAssumption DEF Inv, TypeOK
<1>2. /\ Dist(seenTail, tail) \in 0 .. Capacity
      /\ Dist(tail, seenHead) \in 0 .. Capacity
      /\ Dist(seenHead, head) \in 0 .. Capacity
      /\ Dist(seenTail, head) \in 0 .. Capacity
  BY <1>1, DistRange
<1>3. Dist(seenTail, tail) + Dist(tail, seenHead) + Dist(seenHead, head) = Dist(seenTail, head)
  BY DEF Inv, IndexOrder
<1>4. Dist(tail, seenHead) + Dist(seenHead, head) <= Capacity
  BY <1>1, <1>2, <1>3
<1>5. Dist(tail, head) = Dist(tail, seenHead) + Dist(seenHead, head)
  BY <1>1, <1>4, DistSplit
<1> QED BY <1>1, <1>2, <1>3, <1>5

(* The producer fills a slot outside what is queued, the consumer empties  *)
(* one that is: this is what keeps the two off each other's slots.         *)
LEMMA InvNoSlotRace == Inv => NoSlotRace
<1> SUFFICES ASSUME Inv, pPc \in {"write", "publish"}, cPc \in {"move", "release"}
             PROVE  head # tail
  BY DEF NoSlotRace
<1>1. tail \in Slots /\ seenHead \in Slots /\ head \in Slots
  BY DEF Inv, TypeOK
<1>2. Dist(tail, seenHead) # 0
  BY <1>1, DistRange DEF Inv, IndexOrder
<1>3. Dist(tail, head) # 0
  BY <1>2, Order
<1> QED BY <1>1, <1>3, DistRange

-----------------------------------------------------------------------------
(* Every step preserves the invariant: one lemma per action. *)

LEMMA PushBeginInv == ASSUME Inv, NEW v \in Values, PushBegin(v) PROVE Inv'
<1>1. TypeOK' /\ PushCarriesItem'
  BY RingAssumption DEF Inv, TypeOK, PushBegin, PushCarriesItem, consumer
<1>2. IndexOrder' /\ ApproxSizeNeverOverReports'
  BY DEF Inv, PushBegin, IndexOrder, ApproxSizeNeverOverReports, consumer, Dist
<1>3. SlotsFilled'
  BY DEF Inv, PushBegin, SlotsFilled, Filled, Published, consumer, Dist
<1> QED BY <1>1, <1>2, <1>3 DEF Inv

LEMMA PushCheckInv == ASSUME Inv, NEW t \in Slots, PushCheck(t) PROVE Inv'
<1>1. TypeOK' /\ PushCarriesItem' /\ ApproxSizeNeverOverReports'
  BY DEF Inv, TypeOK, PushCheck, PushCarriesItem, ApproxSizeNeverOverReports, consumer, Dist
<1>2. SlotsFilled'
  BY DEF Inv, PushCheck, SlotsFilled, Filled, Published, consumer, Dist
<1>3. IndexOrder'
  <2>1. /\ seenTail \in Slots /\ tail \in Slots /\ seenHead \in Slots /\ head \in Slots
        /\ seenTail' = t /\ Dist(seenTail, t) <= Dist(seenTail, tail)
        /\ UNCHANGED <<head, tail, seenHead, cPc>>
    BY DEF Inv, TypeOK, PushCheck, Visible, consumer
  <2>2. Dist(seenTail, t) \in 0 .. Capacity
    BY <2>1, DistRange
  <2>3. Dist(seenTail, t) <= Dist(seenTail, head)
    BY <2>1, <2>2, Order, RingAssumption
  <2>4. Dist(t, tail) = Dist(seenTail, tail) - Dist(seenTail, t)
    BY <2>1, DistSplit
  <2>5. Dist(t, head) = Dist(seenTail, head) - Dist(seenTail, t)
    BY <2>1, <2>3, DistSplit
  <2>6. Dist(t, tail) + Dist(tail, seenHead) + Dist(seenHead, head) = Dist(t, head)
    BY <2>2, <2>4, <2>5, Order, RingAssumption
  <2>7. pPc' \in {"write", "publish"} => Dist(t, head) < Capacity
    <3>1. pPc' \in {"write", "publish"} => Increment(head) # t
      BY DEF PushCheck
    <3> QED BY <3>1, <2>1, DistIncrementEnd, DistRange, RingAssumption
  <2>8. cPc' \in {"move", "release"} => seenHead' # tail'
    BY <2>1 DEF Inv, IndexOrder
  <2> QED BY <2>1, <2>6, <2>7, <2>8 DEF IndexOrder, Dist
<1> QED BY <1>1, <1>2, <1>3 DEF Inv

LEMMA PushWriteInv == ASSUME Inv, PushWrite PROVE Inv'
<1>1. TypeOK' /\ PushCarriesItem'
  BY RingAssumption DEF Inv, TypeOK, PushWrite, PushCarriesItem, consumer
<1>2. IndexOrder' /\ ApproxSizeNeverOverReports'
  BY DEF Inv, PushWrite, IndexOrder, ApproxSizeNeverOverReports, consumer, Dist
<1>3. SlotsFilled'
  <2>1. head \in Slots /\ pItem # Nil
    BY DEF Inv, TypeOK, PushWrite, PushCarriesItem
  <2>2. Filled' = Filled \cup {head}
    BY DEF PushWrite, Filled, Published, consumer, Dist
  <2>3. \A i \in Slots : buffer'[i] = IF i = head THEN pItem ELSE buffer[i]
    BY DEF Inv, TypeOK, PushWrite
  <2> QED BY <2>1, <2>2, <2>3 DEF Inv, SlotsFilled
<1> QED BY <1>1, <1>2, <1>3 DEF Inv

LEMMA PushPublishInv == ASSUME Inv, PushPublish PROVE Inv'
<1>1. /\ seenTail \in Slots /\ tail \in Slots /\ seenHead \in Slots /\ head \in Slots
      /\ pPc = "publish" /\ pPc' = "idle" /\ head' = Increment(head)
      /\ UNCHANGED <<buffer, tail, seenTail, seenHead, cPc>>
  BY DEF Inv, TypeOK, PushPublish, consumer
<1>2. Dist(seenTail, head) < Capacity
  BY <1>1 DEF Inv, IndexOrder
<1>3. /\ Dist(seenTail, head') = Dist(seenTail, head) + 1
      /\ Dist(tail, head') = Dist(tail, head) + 1
      /\ Dist(seenHead, head') = Dist(seenHead, head) + 1
  BY <1>1, <1>2, Order, DistIncrementEnd, RingAssumption
<1>4. TypeOK' /\ PushCarriesItem' /\ ApproxSizeNeverOverReports'
  BY <1>1, IncrementDef
     DEF Inv, TypeOK, PushPublish, PushCarriesItem, ApproxSizeNeverOverReports, consumer, Dist
<1>5. IndexOrder'
  <2>1. Dist(seenTail, tail) + Dist(tail, seenHead) + Dist(seenHead, head') = Dist(seenTail, head')
    BY <1>3, Order, RingAssumption
  <2> QED BY <2>1, <1>1 DEF Inv, IndexOrder, Dist
<1>6. SlotsFilled'
  <2>1. Published' = Published \cup {head}
    <3>1. ASSUME NEW i \in Slots
          PROVE  Dist(tail, i) < Dist(tail, head') <=> (Dist(tail, i) < Dist(tail, head) \/ i = head)
      BY <1>1, <1>3, DistRange, DistInjective, RingAssumption
    <3>2. Published' = {i \in Slots : Dist(tail, i) < Dist(tail, head')}
      BY <1>1 DEF Published, Dist
    <3> QED BY <1>1, <3>1, <3>2 DEF Published
  <2>2. cPc = "release" => tail # head
    BY <1>1, InvNoSlotRace DEF NoSlotRace
  <2>3. Filled' = Filled
    BY <1>1, <2>1, <2>2 DEF Filled
  <2> QED BY <1>1, <2>3 DEF Inv, SlotsFilled
<1> QED BY <1>4, <1>5, <1>6 DEF Inv

(* What a load of head_ by the consumer does to its view of the order. *)
LEMMA LoadHead ==
    ASSUME Inv, NEW h \in Slots, h \in Visible(seenHead, head)
    PROVE  /\ Dist(tail, h) + Dist(h, head) = Dist(tail, head)
           /\ Dist(tail, seenHead) <= Dist(tail, h)
           /\ Dist(tail, h) \in 0 .. Capacity /\ Dist(h, head) \in 0 .. Capacity
<1>1. /\ tail \in Slots /\ seenHead \in Slots /\ head \in Slots /\ Capacity \in Nat
      /\ Dist(seenHead, h) <= Dist(seenHead, head)
  BY RingAssumption DEF Inv, TypeOK, Visible
<1>2. /\ Dist(seenHead, h) \in 0 .. Capacity /\ Dist(h, head) \in 0 .. Capacity
      /\ Dist(tail, h) \in 0 .. Capacity
  BY <1>1, DistRange
<1>3. Dist(h, head) = Dist(seenHead, head) - Dist(seenHead, h)
  BY <1>1, DistSplit
<1>4. Dist(tail, seenHead) + Dist(seenHead, h) <= Capacity
  BY <1>1, <1>2, Order, DistRange
<1>5. Dist(tail, h) = Dist(tail, seenHead) + Dist(seenHead, h)
  BY <1>1, <1>4, DistSplit
<1> QED BY <1>1, <1>2, <1>3, <1>5, Order

LEMMA PopCheckInv == ASSUME Inv, NEW h \in Slots, PopCheck(h) PROVE Inv'
<1>1. /\ h \in Visible(seenHead, head) /\ seenHead' = h /\ size' = 0
      /\ cPc = "idle" /\ cPc' = IF h = tail THEN "idle" ELSE "move"
      /\ UNCHANGED <<buffer, head, tail, pPc, pItem, seenTail, cItem>>
      /\ Capacity \in Nat
  BY RingAssumption DEF PopCheck, producer
<1>2. TypeOK' /\ PushCarriesItem'
  BY <1>1 DEF Inv, TypeOK, PushCarriesItem
<1>3. ApproxSizeNeverOverReports'
  BY <1>1, LoadHead DEF ApproxSizeNeverOverReports, Dist
<1>4. IndexOrder'
  <2>1. Dist(seenTail, tail) + Dist(tail, h) + Dist(h, head) = Dist(seenTail, head)
    BY <1>1, LoadHead, Order
  <2> QED BY <2>1, <1>1 DEF Inv, IndexOrder, Dist
<1>5. SlotsFilled'
  BY <1>1 DEF Inv, SlotsFilled, Filled, Published, Dist
<1> QED BY <1>2, <1>3, <1>4, <1>5 DEF Inv

LEMMA SizeHeadInv == ASSUME Inv, NEW h \in Slots, SizeHead(h) PROVE Inv'
<1>1. /\ h \in Visible(seenHead, head) /\ seenHead' = h
      /\ cPc = "idle" /\ cPc' = "size"
      /\ UNCHANGED <<buffer, head, tail, pPc, pItem, seenTail, cItem, size>>
      /\ Capacity \in Nat
  BY RingAssumption DEF SizeHead, producer
<1>2. TypeOK' /\ PushCarriesItem'
  BY <1>1 DEF Inv, TypeOK, PushCarriesItem
<1>3. ApproxSizeNeverOverReports'
  <2>1. size <= Dist(tail, seenHead) /\ size \in Nat /\ Dist(tail, seenHead) \in Nat
    BY Order, <1>1 DEF Inv, TypeOK, ApproxSizeNeverOverReports
  <2>2. size <= Dist(tail, h)
    BY <2>1, <1>1, LoadHead
  <2> QED BY <2>2, <1>1 DEF ApproxSizeNeverOverReports, Dist
<1>4. IndexOrder'
  <2>1. Dist(seenTail, tail) + Dist(tail, h) + Dist(h, head) = Dist(seenTail, head)
    BY <1>1, LoadHead, Order
  <2> QED BY <2>1, <1>1 DEF Inv, IndexOrder, Dist
<1>5. SlotsFilled'
  BY <1>1 DEF Inv, SlotsFilled, Filled, Published, Dist
<1> QED BY <1>2, <1>3, <1>4, <1>5 DEF Inv

LEMMA SizeTailInv == ASSUME Inv, SizeTail PROVE Inv'
<1>1. TypeOK' /\ PushCarriesItem'
  BY Order DEF Inv, TypeOK, SizeTail, PushCarriesItem, producer
<1>2. IndexOrder' /\ ApproxSizeNeverOverReports'
  BY Order DEF Inv, SizeTail, IndexOrder, ApproxSizeNeverOverReports, producer, Dist
<1>3. SlotsFilled'
  BY DEF Inv, SizeTail, SlotsFilled, Filled, Published, producer, Dist
<1> QED BY <1>1, <1>2, <1>3 DEF Inv

(* The slot pop is about to read is queued. *)
LEMMA TailPublished == ASSUME Inv, cPc \in {"move", "release"} PROVE tail \in Published
<1>1. tail \in Slots /\ seenHead \in Slots /\ seenHead # tail /\ Capacity \in Nat
  BY RingAssumption DEF Inv, TypeOK, IndexOrder
<1>2. Dist(tail, tail) = 0 /\ Dist(tail, seenHead) # 0
  BY <1>1, DistRange
<1> QED BY <1>1, <1>2, Order DEF Published

LEMMA PopMoveInv == ASSUME Inv, PopMove PROVE Inv'
<1>1. TypeOK' /\ PushCarriesItem'
  BY DEF Inv, TypeOK, PopMove, PushCarriesItem, producer
<1>2. IndexOrder' /\ ApproxSizeNeverOverReports'
  BY DEF Inv, PopMove, IndexOrder, ApproxSizeNeverOverReports, producer, Dist
<1>3. SlotsFilled'
  <2>1. tail \in Slots /\ cPc = "move" /\ cPc' = "release" /\ UNCHANGED <<head, tail, pPc>>
    BY DEF Inv, TypeOK, PopMove, producer
  <2>2. pPc = "publish" => tail # head
    BY <2>1, InvNoSlotRace DEF NoSlotRace
  <2>3. Published' = Published
    BY <2>1 DEF Published, Dist
  <2>4. Filled' = Filled \ {tail}
    BY <2>1, <2>2, <2>3 DEF Filled
  <2>5. \A i \in Slots : buffer'[i] = IF i = tail THEN Nil ELSE buffer[i]
    BY DEF Inv, TypeOK, PopMove
  <2> QED BY <2>1, <2>4, <2>5 DEF Inv, SlotsFilled
<1> QED BY <1>1, <1>2, <1>3 DEF Inv

LEMMA PopReleaseInv == ASSUME Inv, PopRelease PROVE Inv'
<1>1. /\ seenTail \in Slots /\ tail \in Slots /\ seenHead \in Slots /\ head \in Slots
      /\ cPc = "release" /\ cPc' = "idle" /\ tail' = Increment(tail) /\ size' = 0
      /\ seenHead # tail /\ Capacity \in Nat
      /\ UNCHANGED <<buffer, head, pPc, pItem, seenTail, seenHead, cItem>>
  BY RingAssumption
     DEF Inv, TypeOK, PopRelease, producer, IndexOrder, ApproxSizeNeverOverReports
<1>2. Dist(tail, seenHead) # 0 /\ Dist(tail, head) # 0 /\ tail # head
  BY <1>1, DistRange, Order
<1>3. Dist(tail', seenHead) = Dist(tail, seenHead) - 1 /\ Dist(tail', head) = Dist(tail, head) - 1
  BY <1>1, <1>2, DistIncrementStart
<1>4. Dist(seenTail, tail') = Dist(seenTail, tail) + 1
  <2>1. Dist(seenTail, tail) # Capacity
    BY <1>1, <1>2, Order
  <2> QED BY <2>1, <1>1, DistIncrementEnd
<1>5. tail' \in Slots /\ 0 <= Dist(tail', seenHead)
  BY <1>1, IncrementDef, DistRange
<1>6. TypeOK' /\ PushCarriesItem' /\ ApproxSizeNeverOverReports'
  BY <1>1, <1>5 DEF Inv, TypeOK, PushCarriesItem, ApproxSizeNeverOverReports, Dist
<1>7. IndexOrder'
  <2>1. Dist(seenTail, tail') + Dist(tail', seenHead) + Dist(seenHead, head) = Dist(seenTail, head)
    BY <1>1, <1>3, <1>4, Order
  <2> QED BY <2>1, <1>1 DEF Inv, IndexOrder, Dist
<1>8. SlotsFilled'
  <2>1. Published' = Published \ {tail}
    <3>1. ASSUME NEW i \in Slots, i # tail
          PROVE  Dist(tail', i) < Dist(tail', head) <=> Dist(tail, i) < Dist(tail, head)
      BY <3>1, <1>1, <1>3, DistIncrementStart, DistRange
    <3>2. ~(Dist(tail', tail) < Dist(tail', head))
      <4>1. Dist(tail', tail) = Capacity
        BY <1>1, <1>5, DistIncrementEnd
      <4> QED BY <4>1, <1>1, <1>5, DistRange
    <3>3. Published' = {i \in Slots : Dist(tail', i) < Dist(tail', head)}
      BY <1>1 DEF Published, Dist
    <3> QED BY <3>1, <3>2, <3>3 DEF Published
  <2>2. pPc = "publish" => tail # head
    BY <1>1, <1>2
  <2>3. Filled' = Filled
    BY <1>1, <2>1, <2>2 DEF Filled
  <2> QED BY <1>1, <2>3 DEF Inv, SlotsFilled
<1> QED BY <1>6, <1>7, <1>8 DEF Inv

-----------------------------------------------------------------------------
LEMMA NextInv == Inv /\ [Next]_vars => Inv'
<1> SUFFICES ASSUME Inv, [Next]_vars PROVE Inv'
  OBVIOUS
<1>1. ASSUME NEW v \in Values, PushBegin(v) PROVE Inv'
  BY <1>1, PushBeginInv
<1>2. CASE Push
  BY <1>2, PushCheckInv, PushWriteInv, PushPublishInv DEF Push
<1>3. CASE Pop
  BY <1>3, PopCheckInv, PopMoveInv, PopReleaseInv DEF Pop
<1>4. CASE Size
  BY <1>4, SizeHeadInv, SizeTailInv DEF Size
<1>5. CASE UNCHANGED vars
  BY <1>5 DEF vars, producer, consumer, Inv, TypeOK, IndexOrder, PushCarriesItem,
     SlotsFilled, ApproxSizeNeverOverReports, Filled, Published, Dist
<1> QED BY <1>1, <1>2, <1>3, <1>4, <1>5 DEF Next

(* Every reachable state satisfies the inductive invariant. *)
THEOREM Invariance == Spec => []Inv
<1> QED BY InitInv, NextInv, PTL DEF Spec

(* Types: in particular head_ and tail_ never leave the buffer. *)
THEOREM TypeCorrect == Spec => []TypeOK
<1>1. Inv => TypeOK
  BY DEF Inv
<1> QED BY <1>1, Invariance, PTL

(* No slot is written while it is read: the two threads' non-atomic        *)
(* accesses to buffer_ never meet, however stale their views.              *)
THEOREM SlotRaceFreedom == Spec => []NoSlotRace
<1> QED BY InvNoSlotRace, Invariance, PTL

(* push never overwrites an item not yet popped, and pop never returns a   *)
(* slot that holds none.                                                   *)
THEOREM SlotContents == Spec => []SlotsFilled
<1>1. Inv => SlotsFilled
  BY DEF Inv
<1> QED BY <1>1, Invariance, PTL

(* A positive approx_size in the consumer's loop condition is kept: the    *)
(* pop that follows finds an item.                                         *)
THEOREM PositiveSizeIsKept == Spec => PopAfterPositiveSize
<1> DEFINE Kept == size > 0 /\ size' = 0 => cPc' = "move"
<1>1. Inv /\ [Next]_vars => [Kept]_vars
  <2> SUFFICES ASSUME Inv, Next, size > 0, size' = 0 PROVE cPc' = "move"
    BY DEF vars
  <2>0. /\ size \in Nat /\ tail \in Slots /\ seenHead \in Slots /\ Capacity \in Nat
        /\ size <= Dist(tail, seenHead) /\ Dist(tail, seenHead) \in 0 .. Capacity
    BY Order, RingAssumption DEF Inv, TypeOK, ApproxSizeNeverOverReports
  <2>1. ASSUME NEW h \in Slots, PopCheck(h) PROVE cPc' = "move"
    <3>1. Dist(tail, h) # 0
      BY <2>0, <2>1, LoadHead DEF PopCheck
    <3>2. h # tail
      BY <2>0, <3>1, DistRange
    <3> QED BY <2>1, <3>2 DEF PopCheck
  <2>2. ~SizeTail
    BY <2>0 DEF SizeTail
  <2>3. CASE size' = size
    BY <2>3, <2>0
  <2> QED BY <2>1, <2>2, <2>3 DEF Next, Push, Pop, Size, PushBegin, PushCheck, PushWrite,
          PushPublish, PopMove, PopRelease, SizeHead, consumer
<1> QED BY <1>1, Invariance, PTL DEF Spec, PopAfterPositiveSize

-----------------------------------------------------------------------------
(* Refinement: the ring buffer implements the bounded FIFO queue.          *)

(* The slot d increments after a. *)
Nth(a, d) == (a + d) % N

LEMMA NthDef ==
    ASSUME NEW a \in Slots, NEW d \in 0 .. Capacity
    PROVE  /\ Nth(a, d) = IF a + d > Capacity THEN a + d - N ELSE a + d
           /\ Nth(a, d) \in Slots
<1>0. Capacity \in Nat /\ N \in Nat /\ N = Capacity + 1 /\ a \in 0 .. Capacity
  BY RingAssumption DEF N, Slots
<1>1. CASE a + d > Capacity
  <2>1. (a + d) % N = a + d - N
    BY <1>0, <1>1
  <2> QED BY <2>1, <1>0, <1>1 DEF Nth, Slots
<1>2. CASE ~(a + d > Capacity)
  <2>1. (a + d) % N = a + d
    BY <1>0, <1>2
  <2> QED BY <2>1, <1>0, <1>2 DEF Nth, Slots
<1> QED BY <1>1, <1>2

(* Walking d increments from a covers a distance of d. *)
LEMMA DistNth ==
    ASSUME NEW a \in Slots, NEW d \in 0 .. Capacity
    PROVE  Dist(a, Nth(a, d)) = d
<1>1. Nth(a, d) = IF a + d > Capacity THEN a + d - N ELSE a + d
  BY NthDef
<1> QED BY <1>1, RingAssumption DEF Dist, Slots, N

LEMMA NthDist ==
    ASSUME NEW a \in Slots, NEW b \in Slots
    PROVE  Nth(a, Dist(a, b)) = b
<1> DEFINE d == Dist(a, b)
<1>1. d \in 0 .. Capacity
  BY DistRange
<1>2. Nth(a, d) = IF a + d > Capacity THEN a + d - N ELSE a + d
  BY <1>1, NthDef
<1> QED BY <1>2, RingAssumption DEF Dist, Slots, N

LEMMA NthNext ==
    ASSUME NEW a \in Slots, NEW d \in 0 .. Capacity - 1
    PROVE  Nth(Increment(a), d) = Nth(a, d + 1)
<1>1. d + 1 \in 0 .. Capacity /\ d \in 0 .. Capacity
  BY RingAssumption
<1>2. Nth(a, d + 1) = IF a + (d + 1) > Capacity THEN a + (d + 1) - N ELSE a + (d + 1)
  BY <1>1, NthDef
<1>3. Increment(a) \in Slots /\ Increment(a) = IF a = Capacity THEN 0 ELSE a + 1
  BY IncrementDef
<1>4. Nth(Increment(a), d) = IF Increment(a) + d > Capacity THEN Increment(a) + d - N
                                                         ELSE Increment(a) + d
  BY <1>1, <1>3, NthDef
<1> QED BY <1>1, <1>2, <1>3, <1>4, RingAssumption DEF Slots, N

(* What the refinement mapping is built from. *)
LEMMA FirstFacts ==
    ASSUME Inv
    PROVE  /\ First \in Slots /\ head \in Slots /\ Capacity \in Nat
           /\ Dist(First, head) \in 0 .. Capacity
           /\ Dist(First, head) <= Dist(tail, head)
           /\ cPc = "release" => Dist(First, head) = Dist(tail, head) - 1
           /\ \A k \in 0 .. Capacity : k < Dist(First, head) =>
                  /\ Nth(First, k) \in Slots
                  /\ Nth(First, k) # head
                  /\ Nth(First, k) \in Filled
                  /\ buffer[Nth(First, k)] \in Values
<1>1. tail \in Slots /\ head \in Slots /\ seenHead \in Slots /\ Capacity \in Nat
  BY RingAssumption DEF Inv, TypeOK
<1>2. First \in Slots
  BY <1>1, IncrementDef DEF First
<1>3. cPc = "release" => tail # head /\ Dist(First, head) = Dist(tail, head) - 1
  <2> SUFFICES ASSUME cPc = "release"
               PROVE  tail # head /\ Dist(First, head) = Dist(tail, head) - 1
    OBVIOUS
  <2>1. tail # head
    BY <1>1, TailPublished, DistRange DEF Published
  <2> QED BY <2>1, <1>1, DistIncrementStart DEF First
<1>4. Dist(First, head) \in 0 .. Capacity /\ Dist(First, head) <= Dist(tail, head)
  BY <1>1, <1>2, <1>3, DistRange DEF First
<1>5. ASSUME NEW k \in 0 .. Capacity, k < Dist(First, head)
      PROVE  /\ Nth(First, k) \in Slots
             /\ Nth(First, k) # head
             /\ Nth(First, k) \in Filled
             /\ buffer[Nth(First, k)] \in Values
  <2>1. Nth(First, k) \in Slots /\ Dist(First, Nth(First, k)) = k
    BY <1>2, NthDef, DistNth
  <2>2. Nth(First, k) # head
    BY <2>1, <1>5, <1>4
  <2>3. Nth(First, k) \in Filled
    <3>1. CASE cPc = "release"
      <4>1. k + 1 \in 0 .. Capacity /\ k \in 0 .. Capacity - 1 /\ k + 1 < Dist(tail, head)
        BY <1>1, <1>3, <1>4, <1>5, <3>1, DistRange
      <4>2. Nth(First, k) = Nth(tail, k + 1)
        BY <3>1, <4>1, <1>1, NthNext DEF First
      <4>3. Dist(tail, Nth(First, k)) = k + 1
        BY <4>1, <4>2, <1>1, DistNth
      <4>4. Nth(First, k) \in Published /\ Nth(First, k) # tail
        BY <4>1, <4>3, <2>1, <1>1, DistRange DEF Published
      <4> QED BY <4>4 DEF Filled
    <3>2. CASE cPc # "release"
      BY <2>1, <3>2, <1>5 DEF First, Published, Filled
    <3> QED BY <3>1, <3>2
  <2> QED BY <2>1, <2>2, <2>3 DEF Inv, TypeOK, SlotsFilled
<1> QED BY <1>1, <1>2, <1>3, <1>4, <1>5

(* The mapped queue is a sequence of values, read off the slots in order. *)
QueuedInOrder ==
    /\ Queued \in Seq(Values)
    /\ Len(Queued) = Dist(First, head)
    /\ DOMAIN Queued = 1 .. Dist(First, head)
    /\ \A k \in 1 .. Dist(First, head) : Queued[k] = buffer[Nth(First, k - 1)]

LEMMA QueuedFacts == Inv => QueuedInOrder
<1> SUFFICES ASSUME Inv PROVE QueuedInOrder
  OBVIOUS
<1>1. Dist(First, head) \in Nat /\ Dist(First, head) <= Capacity /\ Capacity \in Nat
  BY FirstFacts
<1>2. \A k \in 1 .. Dist(First, head) : First + k - 1 = First + (k - 1)
  BY FirstFacts DEF Slots
<1>3. \A k \in 1 .. Dist(First, head) : Queued[k] = buffer[Nth(First, k - 1)]
  BY <1>2 DEF Queued, Nth
<1>4. \A k \in 1 .. Dist(First, head) : Queued[k] \in Values
  <2> TAKE k \in 1 .. Dist(First, head)
  <2>1. k - 1 \in 0 .. Capacity /\ k - 1 < Dist(First, head)
    BY <1>1
  <2> QED BY <2>1, <1>3, FirstFacts
<1>5. Queued = [k \in 1 .. Dist(First, head) |-> Queued[k]]
  BY DEF Queued
<1>6. Queued \in Seq(Values)
  BY <1>1, <1>4, <1>5
<1> QED BY <1>1, <1>3, <1>5, <1>6 DEF QueuedInOrder

(* Two equally long queues with equal items are equal. *)
LEMMA QueuedUnchanged ==
    ASSUME Inv, Inv', Dist(First, head)' = Dist(First, head),
           First' = First,
           \A k \in 0 .. Capacity : k < Dist(First, head) =>
               buffer'[Nth(First, k)] = buffer[Nth(First, k)]
    PROVE  Queued' = Queued
<1>0. Dist(First, head) \in 0 .. Capacity /\ Capacity \in Nat
  BY FirstFacts
<1>1. /\ Queued \in Seq(Values) /\ DOMAIN Queued = 1 .. Dist(First, head)
      /\ \A k \in 1 .. Dist(First, head) : Queued[k] = buffer[Nth(First, k - 1)]
  BY QueuedFacts DEF QueuedInOrder
<1>2. /\ Queued' \in Seq(Values) /\ DOMAIN Queued' = 1 .. Dist(First, head)
      /\ \A k \in 1 .. Dist(First, head) : Queued'[k] = buffer'[Nth(First, k - 1)]
  <2>1. QueuedInOrder'
    BY QueuedFacts, PTL
  <2> QED BY <2>1 DEF QueuedInOrder, Nth
<1>3. Queued = [k \in 1 .. Dist(First, head) |-> Queued[k]]
  BY <1>1
<1>4. Queued' = [k \in 1 .. Dist(First, head) |-> Queued'[k]]
  BY <1>2
<1>5. ASSUME NEW k \in 1 .. Dist(First, head) PROVE Queued'[k] = Queued[k]
  <2>1. k - 1 \in 0 .. Capacity /\ k - 1 < Dist(First, head)
    BY <1>0
  <2> QED BY <2>1, <1>1, <1>2
<1> QED BY <1>3, <1>4, <1>5

(* A step of pop or push that moves no item leaves the queue alone. *)
LEMMA StutterStep ==
    ASSUME Inv, Inv', UNCHANGED <<buffer, head, tail, cItem>>,
           cPc' = "release" <=> cPc = "release"
    PROVE  UNCHANGED Fifo!fifoVars
<1>1. First' = First /\ Dist(First, head)' = Dist(First, head)
  BY DEF First, Dist
<1>2. Queued' = Queued
  BY <1>1, QueuedUnchanged
<1> QED BY <1>2 DEF Fifo!fifoVars

(* Filling a free slot is invisible: the item is published later. *)
LEMMA PushWriteStutters == ASSUME Inv, Inv', PushWrite PROVE UNCHANGED Fifo!fifoVars
<1>1. First' = First /\ Dist(First, head)' = Dist(First, head) /\ cItem' = cItem
  BY DEF First, Dist, PushWrite, consumer
<1>2. \A k \in 0 .. Capacity : k < Dist(First, head) =>
          buffer'[Nth(First, k)] = buffer[Nth(First, k)]
  BY FirstFacts DEF PushWrite, Inv, TypeOK
<1>3. Queued' = Queued
  BY <1>1, <1>2, QueuedUnchanged
<1> QED BY <1>1, <1>3 DEF Fifo!fifoVars

(* The tail_ store only announces what PopMove has done. *)
LEMMA PopReleaseStutters == ASSUME Inv, Inv', PopRelease PROVE UNCHANGED Fifo!fifoVars
<1>1. First' = First /\ Dist(First, head)' = Dist(First, head) /\ cItem' = cItem /\ buffer' = buffer
  BY DEF First, Dist, PopRelease, producer
<1>2. Queued' = Queued
  BY <1>1, QueuedUnchanged
<1> QED BY <1>1, <1>2 DEF Fifo!fifoVars

(* The head_ store appends the item written before. *)
LEMMA PushPublishPushes ==
    ASSUME Inv, Inv', PushPublish
    PROVE  Fifo!Push(buffer[head]) /\ buffer[head] \in Values
<1> DEFINE D == Dist(First, head)
<1>0. /\ First \in Slots /\ head \in Slots /\ Capacity \in Nat /\ D \in 0 .. Capacity
      /\ pPc = "publish" /\ head' = Increment(head) /\ First' = First
      /\ buffer' = buffer /\ cItem' = cItem
  BY FirstFacts DEF PushPublish, consumer, First
<1>1. D < Capacity
  <2>1. Dist(seenTail, head) < Capacity
    BY <1>0 DEF Inv, IndexOrder
  <2> QED BY <2>1, <1>0, Order, FirstFacts
<1>2. Dist(First, head)' = D + 1
  <2>1. Dist(First, Increment(head)) = D + 1
    BY <1>0, <1>1, DistIncrementEnd
  <2> QED BY <2>1, <1>0 DEF Dist
<1>3. buffer[head] \in Values
  BY <1>0 DEF Inv, TypeOK, SlotsFilled, Filled
<1>4. /\ Queued \in Seq(Values) /\ Len(Queued) = D /\ DOMAIN Queued = 1 .. D
      /\ \A k \in 1 .. D : Queued[k] = buffer[Nth(First, k - 1)]
  BY QueuedFacts DEF QueuedInOrder
<1>5. /\ Queued' \in Seq(Values) /\ Len(Queued') = D + 1 /\ DOMAIN Queued' = 1 .. D + 1
      /\ \A k \in 1 .. D + 1 : Queued'[k] = buffer[Nth(First, k - 1)]
  <2>1. QueuedInOrder'
    BY QueuedFacts, PTL
  <2> QED BY <2>1, <1>0, <1>2 DEF QueuedInOrder, Nth
<1>6. Nth(First, D) = head
  BY <1>0, NthDist
<1>7. Queued' = Append(Queued, buffer[head])
  <2> DEFINE A == Append(Queued, buffer[head])
  <2>1. A \in Seq(Values) /\ Len(A) = D + 1
    BY <1>3, <1>4
  <2>2. ASSUME NEW k \in 1 .. D + 1 PROVE Queued'[k] = A[k]
    <3>1. CASE k \in 1 .. D
      BY <3>1, <1>0, <1>3, <1>4, <1>5
    <3>2. CASE k = D + 1
      <4>1. k - 1 = D
        BY <3>2, <1>0
      <4>2. Queued'[k] = buffer[head]
        BY <4>1, <1>5, <1>6
      <4>3. A[k] = buffer[head]
        BY <3>2, <1>4
      <4> QED BY <4>2, <4>3
    <3>3. k \in 1 .. D \/ k = D + 1
      BY <1>0
    <3> QED BY <3>1, <3>2, <3>3
  <2> HIDE DEF A
  <2>3. Queued' = A
    BY <2>1, <2>2, <1>5, SeqEqual
  <2> QED BY <2>3 DEF A
<1> QED BY <1>0, <1>1, <1>3, <1>4, <1>7 DEF Fifo!Push, Fifo!Full

(* Moving the oldest item out of its slot takes it off the queue. *)
LEMMA PopMovePops == ASSUME Inv, Inv', PopMove PROVE Fifo!Pop
<1> DEFINE D == Dist(First, head)
<1>0. /\ First = tail /\ First' = Increment(tail) /\ tail \in Slots /\ head \in Slots
      /\ Capacity \in Nat /\ D \in 0 .. Capacity /\ tail # head /\ head' = head
      /\ cItem' = buffer[tail] /\ buffer' = [buffer EXCEPT ![tail] = Nil]
      /\ buffer \in [Slots -> Values \cup {Nil}]
  <2>1. tail # head
    <3>1. tail \in Published
      BY TailPublished DEF PopMove
    <3> QED BY <3>1, FirstFacts, DistRange DEF Published, Inv, TypeOK
  <2> QED BY <2>1, FirstFacts DEF PopMove, First, producer, Inv, TypeOK
<1>1. D # 0 /\ D - 1 \in 0 .. Capacity /\ D \in 1 .. Capacity
  BY <1>0, DistRange
<1>2. Dist(First, head)' = D - 1
  <2>1. Dist(Increment(tail), head) = D - 1
    BY <1>0, DistIncrementStart
  <2> QED BY <2>1, <1>0 DEF Dist
<1>3. /\ Queued \in Seq(Values) /\ Len(Queued) = D /\ DOMAIN Queued = 1 .. D
      /\ \A k \in 1 .. D : Queued[k] = buffer[Nth(First, k - 1)]
  BY QueuedFacts DEF QueuedInOrder
<1>4. /\ Queued' \in Seq(Values) /\ Len(Queued') = D - 1
      /\ \A k \in 1 .. D - 1 : Queued'[k] = buffer'[Nth(Increment(tail), k - 1)]
  <2>1. QueuedInOrder'
    BY QueuedFacts, PTL
  <2> QED BY <2>1, <1>0, <1>2 DEF QueuedInOrder, Nth
<1>5. Queued # << >> /\ cItem' = Head(Queued)
  <2>1. Nth(First, 0) = tail
    <3>1. 0 \in 0 .. Capacity /\ ~(tail + 0 > Capacity) /\ tail + 0 = tail
      BY <1>0 DEF Slots, N
    <3> QED BY <3>1, <1>0, NthDef
  <2>2. 1 \in 1 .. D /\ 1 - 1 = 0
    BY <1>1
  <2>3. Queued[1] = buffer[tail]
    BY <2>1, <2>2, <1>3
  <2> QED BY <2>3, <1>0, <1>1, <1>3
<1>6. Queued' = Tail(Queued)
  <2>1. Tail(Queued) \in Seq(Values) /\ Len(Tail(Queued)) = D - 1
    BY <1>3, <1>5, <1>1, HeadTailProperties
  <2>2. ASSUME NEW k \in 1 .. D - 1 PROVE Queued'[k] = Tail(Queued)[k]
    <3>1. k \in 0 .. Capacity /\ k < D /\ k - 1 \in 0 .. Capacity - 1 /\ (k - 1) + 1 = k
          /\ k + 1 \in 1 .. D /\ (k + 1) - 1 = k
      BY <1>0, <1>1
    <3>2. Nth(Increment(tail), k - 1) = Nth(tail, k) /\ Nth(tail, k) \in Slots
      BY <3>1, <1>0, NthNext, NthDef
    <3>3. Nth(tail, k) # tail
      <4>1. Dist(tail, Nth(tail, k)) = k /\ k # 0
        BY <3>1, <1>0, DistNth
      <4> QED BY <4>1, <1>0, DistRange
    <3>4. Queued'[k] = buffer[Nth(tail, k)]
      BY <3>2, <3>3, <1>0, <1>4
    <3>5. Tail(Queued)[k] = Queued[k + 1]
      BY <1>3, <1>5, <1>1, HeadTailProperties
    <3>6. Queued[k + 1] = buffer[Nth(tail, k)]
      BY <3>1, <1>0, <1>3
    <3> QED BY <3>4, <3>5, <3>6
  <2> QED BY <2>1, <2>2, <1>4, SeqEqual
<1> QED BY <1>5, <1>6 DEF Fifo!Pop, Fifo!Empty

-----------------------------------------------------------------------------
LEMMA InitRefines == Init => Fifo!Init
<1> SUFFICES ASSUME Init PROVE Fifo!Init
  OBVIOUS
<1>1. Dist(First, head) = 0
  BY RingAssumption DEF Init, First, Dist
<1>2. Queued = << >>
  BY <1>1 DEF Queued
<1> QED BY <1>2 DEF Init, Fifo!Init

LEMMA NextRefines == Inv /\ Inv' /\ [Next]_vars => [Fifo!Next]_(Fifo!fifoVars)
<1> SUFFICES ASSUME Inv, Inv', [Next]_vars
             PROVE  Fifo!Next \/ UNCHANGED Fifo!fifoVars
  OBVIOUS
<1>1. ASSUME NEW v \in Values, PushBegin(v) PROVE UNCHANGED Fifo!fifoVars
  BY <1>1, StutterStep DEF PushBegin, consumer
<1>2. ASSUME NEW t \in Slots, PushCheck(t) PROVE UNCHANGED Fifo!fifoVars
  BY <1>2, StutterStep DEF PushCheck, consumer
<1>3. CASE PushWrite
  BY <1>3, PushWriteStutters
<1>4. CASE PushPublish
  BY <1>4, PushPublishPushes DEF Fifo!Next
<1>5. ASSUME NEW h \in Slots, PopCheck(h) PROVE UNCHANGED Fifo!fifoVars
  <2>1. cPc' # "release" /\ cPc # "release"
    BY <1>5 DEF PopCheck
  <2> QED BY <1>5, <2>1, StutterStep DEF PopCheck
<1>6. CASE PopMove
  BY <1>6, PopMovePops DEF Fifo!Next
<1>7. CASE PopRelease
  BY <1>7, PopReleaseStutters
<1>8. ASSUME NEW h \in Slots, SizeHead(h) PROVE UNCHANGED Fifo!fifoVars
  BY <1>8, StutterStep DEF SizeHead
<1>9. CASE SizeTail
  BY <1>9, StutterStep DEF SizeTail
<1>10. CASE UNCHANGED vars
  BY <1>10, StutterStep DEF vars, consumer
<1> QED BY <1>1, <1>2, <1>3, <1>4, <1>5, <1>6, <1>7, <1>8, <1>9, <1>10
       DEF Next, Push, Pop, Size

(* The ring buffer is a bounded first-in first-out queue: whatever the     *)
(* interleaving and however stale the loads, items come out once each, in  *)
(* the order they went in, and never more than Capacity are queued.        *)
THEOREM RefinesFifo == Spec => ImplementsFifo
<1> QED BY InitRefines, NextRefines, Invariance, PTL DEF Spec, Fifo!Spec, ImplementsFifo
=============================================================================
