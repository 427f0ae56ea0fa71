------------------------ MODULE ShmTransport_proofs ------------------------
(***************************************************************************)
(* Proofs about the shared memory transport, for every number of blocks    *)
(* and regions, every size of the shared memory and every width of the     *)
(* descriptor's fields.                                                    *)
(***************************************************************************)
EXTENDS ShmTransport, TLAPS

-----------------------------------------------------------------------------
(* The bounds test of build_frame.                                         *)

(* Multiplication by a natural number is monotonic. *)
LEMMA ProductMonotonic ==
    ASSUME NEW a \in Nat, NEW b \in Nat, NEW c \in Nat, a <= b
    PROVE  a * c \in Nat /\ b * c \in Nat /\ a * c <= b * c
<1>1. (b - a) \in Nat /\ (b - a) * c \in Nat
  OBVIOUS
<1>2. b * c = a * c + (b - a) * c
  OBVIOUS
<1>3. a * c \in Nat /\ b * c \in Nat
  OBVIOUS
<1> DEFINE x == a * c
           y == b * c
           z == (b - a) * c
<1>4. x \in Nat /\ y \in Nat /\ z \in Nat /\ y = x + z
  BY <1>1, <1>2, <1>3
<1> HIDE DEF x, y, z
<1>5. x <= y
  BY <1>4
<1> QED BY <1>4, <1>5 DEF x, y

(* The product of two fields fits twice their width. *)
LEMMA ProductFits ==
    ASSUME NEW m \in Nat \ {0}, NEW a \in 0 .. m - 1, NEW b \in 0 .. m - 1
    PROVE  a * b \in Nat /\ a * b < m * m
<1> DEFINE n == m - 1
<1>1. n \in Nat /\ a \in Nat /\ b \in Nat /\ a <= n /\ b <= n /\ m = n + 1
  OBVIOUS
<1>2. a * b \in Nat /\ a * b <= n * b
  BY <1>1, ProductMonotonic
<1>3. b * n \in Nat /\ b * n <= n * n /\ n * n \in Nat
  BY <1>1, ProductMonotonic
<1>4. n * b = b * n
  BY <1>1
<1>5. m * m = n * n + n + n + 1
  BY <1>1
<1> DEFINE p == a * b
           q == n * b
           r == n * n
           s == m * m
<1>6. p \in Nat /\ q <= r /\ p <= q /\ q \in Nat /\ r \in Nat /\ s = r + n + n + 1
  BY <1>2, <1>3, <1>4, <1>5
<1> HIDE DEF n, p, q, r, s
<1>7. p < s
  BY <1>1, <1>6
<1> QED BY <1>6, <1>7 DEF p, s

(* A number below the modulus is its own remainder. *)
LEMMA ModSmall ==
    ASSUME NEW n \in Nat \ {0}, NEW x \in Nat, x < n
    PROVE  x % n = x
OBVIOUS

(* The test by division is the test of the product, where nothing can      *)
(* wrap.                                                                   *)
LEMMA SampleLimit ==
    ASSUME NEW s \in Nat \ {0}, NEW x \in Nat
    PROVE  x <= (s - 1) \div 4 <=> x * 4 < s
OBVIOUS

(* Of all descriptors, build_frame accepts those that name at least one    *)
(* sample and whose samples lie within the shared memory, although its     *)
(* arithmetic is that of size_t.                                           *)
THEOREM TestIsExact ==
    ASSUME dataPtr, NEW offset \in Field, NEW count \in Field, NEW channels \in Field
    PROVE  Accepts(offset, count, channels) <=>
               /\ count * channels * SampleBytes > 0
               /\ offset + count * channels * SampleBytes <= ShmSize
<1> DEFINE p == count * channels
           m == FieldSpan * FieldSpan
<1>1. /\ FieldSpan \in Nat \ {0} /\ ShmSize \in Nat /\ ShmSize + FieldSpan <= m
      /\ Field = 0 .. FieldSpan - 1
  BY ShmAssumption DEF Field, Largest
<1>2. p \in Nat /\ p < m /\ m \in Nat \ {0}
  BY <1>1, ProductFits
<1>3. count \in Nat /\ channels \in Nat /\ offset \in Nat /\ offset < FieldSpan
  BY <1>1
<1>4. p # 0 => count # 0 /\ channels # 0
  BY <1>3
<1>5. SizeSpan = m
  BY DEF SizeSpan
<1>6. SizeT(p) = p
  BY <1>2, <1>5, ModSmall DEF SizeT
<1>7. Accepts(offset, count, channels) <=>
          /\ count # 0 /\ channels # 0 /\ p # 0 /\ p <= (m - 1) \div 4
          /\ offset <= ShmSize /\ SizeT(p * 4) <= ShmSize /\ SizeT(offset + SizeT(p * 4)) <= ShmSize
  BY <1>5, <1>6 DEF Accepts, SampleBytes
<1> HIDE DEF p, m
<1>8. p <= (m - 1) \div 4 <=> p * 4 < m
  BY <1>2, SampleLimit
<1>9. ASSUME p * 4 < m PROVE SizeT(p * 4) = p * 4
  <2>1. p * 4 \in Nat
    BY <1>2
  <2> QED BY <1>2, <1>5, <1>9, <2>1, ModSmall DEF SizeT
<1>10. ASSUME p * 4 <= ShmSize PROVE SizeT(offset + p * 4) = offset + p * 4
  <2>1. offset + p * 4 \in Nat /\ offset + p * 4 < m
    BY <1>1, <1>2, <1>3, <1>10
  <2> QED BY <1>2, <1>5, <2>1, ModSmall DEF SizeT
<1>11. ASSUME count # 0, channels # 0, p # 0, p * 4 < m, offset <= ShmSize, SizeT(p * 4) <= ShmSize,
              SizeT(offset + SizeT(p * 4)) <= ShmSize
       PROVE  p * 4 > 0 /\ offset + p * 4 <= ShmSize
  <2>1. SizeT(p * 4) = p * 4 /\ p * 4 <= ShmSize
    BY <1>9, <1>11
  <2>2. SizeT(offset + p * 4) = offset + p * 4
    BY <1>10, <2>1
  <2>3. offset + p * 4 <= ShmSize
    BY <1>11, <2>1, <2>2
  <2> QED BY <1>2, <1>11, <2>3
<1>12. ASSUME p * 4 > 0, offset + p * 4 <= ShmSize
       PROVE  /\ count # 0 /\ channels # 0 /\ p # 0 /\ p * 4 < m /\ offset <= ShmSize
              /\ SizeT(p * 4) <= ShmSize /\ SizeT(offset + SizeT(p * 4)) <= ShmSize
  <2>1. p # 0 /\ p * 4 < m /\ offset <= ShmSize /\ p * 4 <= ShmSize
    BY <1>1, <1>2, <1>3, <1>12
  <2>2. SizeT(p * 4) = p * 4 /\ SizeT(offset + p * 4) = offset + p * 4
    BY <1>9, <1>10, <2>1
  <2> QED BY <1>4, <1>12, <2>1, <2>2
<1>13. Accepts(offset, count, channels) <=> p * 4 > 0 /\ offset + p * 4 <= ShmSize
  BY <1>7, <1>8, <1>11, <1>12
<1> QED BY <1>13 DEF p, SampleBytes
-----------------------------------------------------------------------------
(* Types, one conjunct per actor.                                          *)

(* What the assumption says of each constant. *)
LEMMA Constants ==
    /\ NBlocks \in Nat /\ Regions \in Nat \ {0} /\ FieldSpan \in Nat \ {0} /\ ShmSize \in Nat
BY ShmAssumption

R5fTypes ==
    /\ shm \in [0 .. Regions - 1 -> Contents]
    /\ writing \in (1 .. NBlocks + 1) \X Words /\ channel \in Seq(Blocks)

MainTypes ==
    /\ held \subseteq Resources /\ dataPtr \in BOOLEAN
    /\ mPc \in {"rpmsg", "shm", "map", "failed", "start", "run", "join", "stopped"}

ThreadTypes ==
    /\ running \in BOOLEAN
    /\ tPc \in {"off", "check", "poll", "read", "copy", "done"}
    /\ desc \in 0 .. NBlocks /\ fields \in Field \X Field \X Field
    /\ tPc = "copy" => desc \in Blocks
    /\ copied \in Seq(0 .. NBlocks) /\ Len(copied) < 2
    /\ frames \in Seq([block : Blocks, data : Contents])

ConsumerTypes ==
    /\ dspRead \in [Blocks -> Contents \cup {Unread}]
    /\ persistRead \in [Blocks -> Contents \cup {Unread}]

Typed == R5fTypes /\ MainTypes /\ ThreadTypes /\ ConsumerTypes

(* The parts cover the type invariant. *)
LEMMA TypedTypeOK == Typed => TypeOK
BY DEF Typed, R5fTypes, MainTypes, ThreadTypes, ConsumerTypes, TypeOK

(* What a step leaves alone keeps its type. *)
LEMMA Untouched ==
    ASSUME Typed
    PROVE  /\ UNCHANGED r5f => R5fTypes'
           /\ UNCHANGED main => MainTypes'
           /\ UNCHANGED thread => ThreadTypes'
           /\ UNCHANGED consumers => ConsumerTypes'
BY DEF Typed, R5fTypes, MainTypes, ThreadTypes, ConsumerTypes, r5f, main, thread, consumers

(* The items of a sequence, *)
LEMMA ItemOf ==
    ASSUME NEW S, NEW s \in Seq(S)
    PROVE  Len(s) \in Nat /\ s \in [1 .. Len(s) -> S] /\ \A i \in 1 .. Len(s) : s[i] \in S
OBVIOUS

(* and those of one with another item at its end. *)
LEMMA AppendTyped ==
    ASSUME NEW S, NEW s \in Seq(S), NEW e \in S
    PROVE  /\ Append(s, e) \in Seq(S) /\ Len(Append(s, e)) = Len(s) + 1
           /\ \A i \in 1 .. Len(s) : Append(s, e)[i] = s[i]
           /\ Append(s, e)[Len(s) + 1] = e
OBVIOUS

(* Every initial state and every step, one thread at a time, keeps the     *)
(* types.                                                                  *)
LEMMA InitTyped == Init => Typed
<1> SUFFICES ASSUME Init PROVE Typed
  OBVIOUS
<1>1. R5fTypes
  BY Constants DEF Init, R5fTypes, Contents, Words
<1>2. MainTypes
  BY DEF Init, MainTypes
<1>3. ThreadTypes
  <2>1. 0 \in Field
    BY Constants DEF Field, Largest
  <2>2. desc \in 0 .. NBlocks /\ Len(copied) < 2
    BY Constants DEF Init
  <2>3. fields \in Field \X Field \X Field
    BY <2>1 DEF Init
  <2>4. copied \in Seq(0 .. NBlocks) /\ frames \in Seq([block : Blocks, data : Contents])
    BY DEF Init
  <2> QED BY <2>2, <2>3, <2>4 DEF Init, ThreadTypes
<1>4. ConsumerTypes
  BY DEF Init, ConsumerTypes
<1> QED BY <1>1, <1>2, <1>3, <1>4 DEF Typed

LEMMA R5fTyped == ASSUME Typed, R5fWrite PROVE Typed'
<1> DEFINE b == writing[1]
           w == writing[2]
<1>1. /\ b \in Blocks /\ shm' = [shm EXCEPT ![Region(b)][w] = b]
      /\ writing' = IF w = 1 THEN <<b, 2>> ELSE <<b + 1, 1>>
      /\ channel' = IF w = 1 THEN channel ELSE Append(channel, b)
  BY DEF R5fWrite
<1>2. w \in Words /\ channel \in Seq(Blocks) /\ shm \in [0 .. Regions - 1 -> Contents]
  BY DEF Typed, R5fTypes
<1> HIDE DEF b, w
<1>3. b \in 0 .. NBlocks /\ b + 1 \in 1 .. NBlocks + 1 /\ b \in 1 .. NBlocks + 1
  BY <1>1, Constants DEF Blocks
<1>4. Region(b) \in 0 .. Regions - 1
  BY <1>3, <1>1, Constants DEF Region, Blocks
<1>5. shm' \in [0 .. Regions - 1 -> Contents]
  <2>1. \A r \in 0 .. Regions - 1 : shm[r] \in [Words -> 0 .. NBlocks]
    BY <1>2 DEF Contents
  <2>2. [shm[Region(b)] EXCEPT ![w] = b] \in [Words -> 0 .. NBlocks]
    BY <1>2, <1>3, <1>4, <2>1
  <2> QED BY <1>1, <1>2, <1>4, <2>2 DEF Contents
<1>6. writing' \in (1 .. NBlocks + 1) \X Words
  BY <1>1, <1>3 DEF Words
<1>7. channel' \in Seq(Blocks)
  BY <1>1, <1>2
<1>8. UNCHANGED <<main, thread, consumers>>
  BY DEF R5fWrite
<1> QED BY <1>5, <1>6, <1>7, <1>8, Untouched DEF Typed, R5fTypes

LEMMA MainTyped == ASSUME Typed, Main PROVE Typed'
<1>1. MainTypes'
  BY DEF Main, OpenRpmsg, OpenShm, Map, Acquire, InitializeFails, CloseResources, Start, Stop,
     StopJoined, Typed, MainTypes, Resources
<1>2. UNCHANGED <<r5f, consumers>>
  BY DEF Main, OpenRpmsg, OpenShm, Map, Acquire, InitializeFails, Start, Stop, StopJoined
<1>3. ThreadTypes'
  <2>1. /\ UNCHANGED <<desc, fields, copied, frames>>
        /\ \/ UNCHANGED <<running, tPc>>
           \/ running' = TRUE /\ tPc' = "check"
           \/ running' = FALSE /\ tPc' = tPc
    BY DEF Main, OpenRpmsg, OpenShm, Map, Acquire, InitializeFails, Start, Stop, StopJoined, thread
  <2> QED BY <2>1 DEF Typed, ThreadTypes
<1> QED BY <1>1, <1>2, <1>3, Untouched DEF Typed

(* The words that memcpy has copied make up the samples of a frame. *)
LEMMA CopiedData ==
    ASSUME Typed, tPc = "copy"
    PROVE  LET data == Append(copied, shm[Region(desc)][Len(copied) + 1])
           IN  /\ data \in Seq(0 .. NBlocks) /\ Len(data) = Len(copied) + 1
               /\ Len(copied) \in Nat
               /\ ~(Len(data) < 2) => data \in Contents
<1> DEFINE x == shm[Region(desc)][Len(copied) + 1]
           data == Append(copied, x)
<1>1. copied \in Seq(0 .. NBlocks) /\ Len(copied) \in Nat /\ Len(copied) < 2 /\ desc \in Blocks
  BY DEF Typed, ThreadTypes
<1>2. Region(desc) \in 0 .. Regions - 1
  BY <1>1, Constants DEF Region, Blocks
<1>3. x \in 0 .. NBlocks
  <2>1. shm[Region(desc)] \in [Words -> 0 .. NBlocks]
    BY <1>2 DEF Typed, R5fTypes, Contents
  <2>2. Len(copied) + 1 \in Words
    BY <1>1 DEF Words
  <2> QED BY <2>1, <2>2
<1> HIDE DEF x
<1>4. data \in Seq(0 .. NBlocks) /\ Len(data) = Len(copied) + 1
  BY <1>1, <1>3
<1>5. ASSUME ~(Len(data) < 2) PROVE data \in Contents
  <2>1. Len(data) = 2
    BY <1>1, <1>4, <1>5
  <2> HIDE DEF data
  <2>2. data \in [1 .. Len(data) -> 0 .. NBlocks]
    BY <1>4, ItemOf
  <2> QED BY <2>1, <2>2 DEF Contents, Words
<1> QED BY <1>1, <1>4, <1>5 DEF x

LEMMA IngestTyped == ASSUME Typed, Ingest PROVE Typed'
<1>1. UNCHANGED <<main, consumers>>
  BY DEF Ingest, Check, Poll, ReadFails, Read, Copy
<1>2. CASE Check \/ Poll \/ ReadFails
  <2>1. UNCHANGED r5f
    BY <1>2 DEF Check, Poll, ReadFails
  <2>2. ThreadTypes'
    BY <1>2 DEF Check, Poll, ReadFails, Typed, ThreadTypes
  <2> QED BY <1>1, <2>1, <2>2, Untouched DEF Typed
<1>3. CASE Read
  <2>1. channel \in Seq(Blocks) /\ channel # <<>> /\ channel' = Tail(channel) /\ desc' = Head(channel)
    BY <1>3 DEF Read, Typed, R5fTypes
  <2>2. channel' \in Seq(Blocks) /\ desc' \in Blocks
    BY <2>1
  <2>3. R5fTypes'
    BY <1>3, <2>2 DEF Read, Typed, R5fTypes
  <2>4. fields' \in Field \X Field \X Field /\ tPc' \in {"copy", "read"}
    BY <1>3 DEF Read, Descriptors
  <2>5. desc' \in 0 .. NBlocks
    BY <2>2, Constants DEF Blocks
  <2>6. ThreadTypes'
    BY <1>3, <2>2, <2>4, <2>5 DEF Read, Typed, ThreadTypes
  <2> QED BY <1>1, <2>3, <2>6, Untouched DEF Typed
<1>4. CASE Copy
  <2> DEFINE data == Append(copied, shm[Region(desc)][Len(copied) + 1])
  <2>1. /\ data \in Seq(0 .. NBlocks) /\ (~(Len(data) < 2) => data \in Contents)
        /\ desc \in Blocks /\ frames \in Seq([block : Blocks, data : Contents])
    BY <1>4, CopiedData DEF Copy, Typed, ThreadTypes
  <2>2. /\ UNCHANGED <<running, desc, fields, r5f>>
        /\ \/ Len(data) < 2 /\ copied' = data /\ UNCHANGED <<tPc, frames>>
           \/ /\ ~(Len(data) < 2) /\ copied' = <<>> /\ tPc' = "read"
              /\ frames' = Append(frames, [block |-> desc, data |-> data])
    BY <1>4 DEF Copy
  <2> HIDE DEF data
  <2>3. frames' \in Seq([block : Blocks, data : Contents])
    <3>1. CASE Len(data) < 2
      BY <2>1, <2>2, <3>1
    <3>2. CASE ~(Len(data) < 2)
      <4> DEFINE F == [block : Blocks, data : Contents]
                 e == [block |-> desc, data |-> data]
      <4>1. e \in F /\ frames \in Seq(F) /\ frames' = Append(frames, e)
        BY <2>1, <2>2, <3>2
      <4> HIDE DEF F, e
      <4>2. frames' \in Seq(F)
        BY <4>1, AppendTyped
      <4> QED BY <4>2 DEF F
    <3> QED BY <3>1, <3>2
  <2>4. copied' \in Seq(0 .. NBlocks) /\ Len(copied') < 2
    <3>1. Len(<<>>) < 2 /\ <<>> \in Seq(0 .. NBlocks)
      OBVIOUS
    <3> QED BY <2>1, <2>2, <3>1
  <2>5. ThreadTypes'
    BY <2>2, <2>3, <2>4 DEF Typed, ThreadTypes
  <2> QED BY <1>1, <2>2, <2>5, Untouched DEF Typed
<1> QED BY <1>2, <1>3, <1>4 DEF Ingest

LEMMA ConsumersTyped == ASSUME Typed, DspReads \/ PersistReads PROVE Typed'
<1>1. \A i \in 1 .. Len(frames) : frames[i].block \in Blocks /\ frames[i].data \in Contents
  <2> TAKE i \in 1 .. Len(frames)
  <2>1. frames[i] \in [block : Blocks, data : Contents]
    BY ItemOf DEF Typed, ThreadTypes
  <2> QED BY <2>1
<1>2. ConsumerTypes'
  BY <1>1 DEF DspReads, PersistReads, Samples, Typed, ConsumerTypes
<1>3. UNCHANGED <<r5f, main, thread>>
  BY DEF DspReads, PersistReads
<1> QED BY <1>2, <1>3, Untouched DEF Typed

LEMMA NextTyped == Typed /\ [Next]_vars => Typed'
<1>1. ASSUME Typed, UNCHANGED vars PROVE Typed'
  BY <1>1, Untouched DEF vars, Typed
<1> QED BY <1>1, R5fTyped, MainTyped, IngestTyped, ConsumersTyped DEF Next
-----------------------------------------------------------------------------
(* Resources: what main has acquired, and that the thread lives only       *)
(* between start() and the join of stop().                                 *)

Holding ==
    /\ mPc = "rpmsg" => held = {}
    /\ mPc = "shm" => held = {"rpmsg_fd"}
    /\ mPc = "map" => held = {"rpmsg_fd", "shm_fd"}
    /\ mPc \in {"start", "run", "join"} => held = Resources /\ dataPtr
    /\ mPc \in {"rpmsg", "shm", "map", "failed", "start"} => tPc = "off"
    /\ mPc \in {"rpmsg", "shm", "map"} => ~dataPtr
    /\ mPc \in {"failed", "stopped"} => held = {} /\ ~dataPtr
    /\ mPc = "stopped" => tPc = "done"

(* Whoever uses a resource holds it. *)
LEMMA NextHolding == Typed /\ Holding /\ [Next]_vars => Holding'
<1> SUFFICES ASSUME Typed, Holding, [Next]_vars PROVE Holding'
  OBVIOUS
<1>1. CASE UNCHANGED <<main, tPc>>
  BY <1>1 DEF Holding, main
<1>2. CASE OpenRpmsg \/ OpenShm \/ Map
  BY <1>2 DEF OpenRpmsg, OpenShm, Map, Acquire, Holding, Resources, thread
<1>3. CASE InitializeFails \/ Start \/ Stop \/ StopJoined
  BY <1>3 DEF InitializeFails, Start, Stop, StopJoined, CloseResources, Holding, thread
<1>4. CASE Ingest
  <2>1. UNCHANGED main /\ tPc \in {"check", "poll", "read", "copy"}
    BY <1>4 DEF Ingest, Check, Poll, ReadFails, Read, Copy
  <2>2. mPc \in {"run", "join"}
    BY <2>1 DEF Typed, MainTypes, Holding
  <2> QED BY <2>1, <2>2 DEF Holding, main
<1>5. CASE UNCHANGED vars \/ R5fWrite \/ DspReads \/ PersistReads
  BY <1>1, <1>5 DEF vars, R5fWrite, DspReads, PersistReads, thread
<1> QED BY <1>2, <1>3, <1>4, <1>5 DEF Next, Main
-----------------------------------------------------------------------------
(* Every block is announced once and in order, so a frame is known by the  *)
(* number of its block.                                                    *)

ChannelOrder ==
    /\ \A i, j \in 1 .. Len(channel) : i < j => channel[i] < channel[j]
    /\ \A i \in 1 .. Len(channel) : desc < channel[i] /\ channel[i] < writing[1]
    /\ desc < writing[1]

FrameOrder ==
    /\ \A i, j \in 1 .. Len(frames) : i < j => frames[i].block < frames[j].block
    /\ \A i \in 1 .. Len(frames) : /\ frames[i].block <= desc
                                   /\ tPc = "copy" => frames[i].block < desc

(* The numbers of blocks, wherever they are. *)
LEMMA BlockNumbers ==
    ASSUME Typed
    PROVE  /\ Len(channel) \in Nat /\ \A i \in 1 .. Len(channel) : channel[i] \in Nat
           /\ Len(frames) \in Nat /\ \A i \in 1 .. Len(frames) : frames[i].block \in Nat
           /\ desc \in Nat /\ writing[1] \in Nat /\ writing[2] \in Words
<1>1. Blocks \subseteq Nat
  BY Constants DEF Blocks
<1>2. Len(channel) \in Nat /\ \A i \in 1 .. Len(channel) : channel[i] \in Nat
  BY <1>1, ItemOf DEF Typed, R5fTypes
<1>3. Len(frames) \in Nat
  BY DEF Typed, ThreadTypes
<1>4. \A i \in 1 .. Len(frames) : frames[i].block \in Nat
  <2> TAKE i \in 1 .. Len(frames)
  <2>1. frames[i] \in [block : Blocks, data : Contents]
    BY ItemOf DEF Typed, ThreadTypes
  <2> QED BY <1>1, <2>1
<1>5. desc \in Nat /\ writing[1] \in Nat /\ writing[2] \in Words
  BY Constants DEF Typed, R5fTypes, ThreadTypes
<1> QED BY <1>2, <1>3, <1>4, <1>5

(* Blocks are announced, and become frames, in the order they are written. *)
LEMMA NextChannelOrder == Typed /\ ChannelOrder /\ [Next]_vars => ChannelOrder'
<1> SUFFICES ASSUME Typed, ChannelOrder, [Next]_vars PROVE ChannelOrder'
  OBVIOUS
<1>1. CASE UNCHANGED <<channel, desc, writing>>
  BY <1>1 DEF ChannelOrder
<1>2. CASE R5fWrite
  <2> DEFINE b == writing[1]
             w == writing[2]
  <2>1. /\ writing' = IF w = 1 THEN <<b, 2>> ELSE <<b + 1, 1>>
        /\ channel' = IF w = 1 THEN channel ELSE Append(channel, b)
        /\ desc' = desc /\ channel \in Seq(Blocks) /\ b \in Blocks
    BY <1>2 DEF R5fWrite, thread, Typed, R5fTypes
  <2>2. /\ Len(channel) \in Nat /\ \A i \in 1 .. Len(channel) : channel[i] \in Nat
        /\ desc \in Nat /\ b \in Nat
    BY BlockNumbers
  <2>3. /\ \A i, j \in 1 .. Len(channel) : i < j => channel[i] < channel[j]
        /\ \A i \in 1 .. Len(channel) : desc < channel[i] /\ channel[i] < b
        /\ desc < b
    BY DEF ChannelOrder
  <2> HIDE DEF b, w
  <2>4. CASE w = 1
    <3>1. writing'[1] = b /\ channel' = channel
      BY <2>1, <2>4
    <3> QED BY <2>1, <2>3, <3>1 DEF ChannelOrder
  <2>5. CASE w # 1
    <3>1. /\ writing'[1] = b + 1 /\ Len(channel') = Len(channel) + 1
          /\ \A i \in 1 .. Len(channel) : channel'[i] = channel[i]
          /\ channel'[Len(channel) + 1] = b
      BY <2>1, <2>5, AppendTyped
    <3>2. \A i \in 1 .. Len(channel') : i \in 1 .. Len(channel) \/ i = Len(channel) + 1
      BY <2>2, <3>1
    <3>3. \A i \in 1 .. Len(channel') : desc < channel'[i] /\ channel'[i] < b + 1
      BY <2>2, <2>3, <3>1, <3>2
    <3>4. \A i, j \in 1 .. Len(channel') : i < j => channel'[i] < channel'[j]
      <4> TAKE i, j \in 1 .. Len(channel')
      <4> HAVE i < j
      <4>1. i \in 1 .. Len(channel)
        BY <2>2, <3>1
      <4> QED BY <2>3, <3>1, <3>2, <4>1
    <3> QED BY <2>1, <2>2, <2>3, <3>1, <3>3, <3>4 DEF ChannelOrder
  <2> QED BY <2>4, <2>5
<1>3. CASE Read
  <2>1. /\ channel \in Seq(Blocks) /\ channel # <<>> /\ channel' = Tail(channel)
        /\ desc' = Head(channel) /\ writing' = writing
    BY <1>3 DEF Read, Typed, R5fTypes
  <2>2. /\ Len(channel) \in Nat \ {0} /\ Len(channel') = Len(channel) - 1 /\ desc' = channel[1]
        /\ \A i \in 1 .. Len(channel) - 1 : channel'[i] = channel[i + 1]
    BY <2>1
  <2>3. \A i \in 1 .. Len(channel') : i + 1 \in 1 .. Len(channel) /\ channel'[i] = channel[i + 1]
    BY <2>2
  <2>4. \A i \in 1 .. Len(channel') : desc' < channel'[i] /\ channel'[i] < writing'[1]
    <3> TAKE i \in 1 .. Len(channel')
    <3>1. 1 \in 1 .. Len(channel) /\ i + 1 \in 1 .. Len(channel) /\ 1 < i + 1
      BY <2>2
    <3> QED BY <2>1, <2>2, <2>3, <3>1 DEF ChannelOrder
  <2>5. \A i, j \in 1 .. Len(channel') : i < j => channel'[i] < channel'[j]
    <3> TAKE i, j \in 1 .. Len(channel')
    <3> HAVE i < j
    <3>1. i + 1 < j + 1
      BY <2>2
    <3> QED BY <2>3, <3>1 DEF ChannelOrder
  <2>6. desc' < writing'[1]
    <3>1. 1 \in 1 .. Len(channel)
      BY <2>2
    <3> QED BY <2>1, <2>2, <3>1 DEF ChannelOrder
  <2> QED BY <2>4, <2>5, <2>6 DEF ChannelOrder
<1>4. CASE \/ UNCHANGED vars \/ Main \/ Check \/ Poll \/ ReadFails \/ Copy
           \/ DspReads \/ PersistReads
  BY <1>1, <1>4 DEF vars, r5f, thread, Main, OpenRpmsg, OpenShm, Map, Acquire, InitializeFails, Start,
     Stop, StopJoined, Check, Poll, ReadFails, Copy, DspReads, PersistReads
<1> QED BY <1>2, <1>3, <1>4 DEF Next, Ingest

LEMMA NextFrameOrder == Typed /\ ChannelOrder /\ FrameOrder /\ [Next]_vars => FrameOrder'
<1> SUFFICES ASSUME Typed, ChannelOrder, FrameOrder, [Next]_vars PROVE FrameOrder'
  OBVIOUS
<1>1. CASE UNCHANGED <<frames, desc>> /\ tPc' # "copy"
  BY <1>1 DEF FrameOrder
<1>2. CASE UNCHANGED <<frames, desc, tPc>>
  BY <1>2 DEF FrameOrder
<1>3. CASE Read
  <2>1. channel \in Seq(Blocks) /\ channel # <<>> /\ desc' = Head(channel) /\ frames' = frames
    BY <1>3 DEF Read, Typed, R5fTypes
  <2>2. 1 \in 1 .. Len(channel) /\ desc' = channel[1]
    BY <2>1
  <2>3. desc < desc' /\ desc \in Nat /\ desc' \in Nat
    BY <2>2, BlockNumbers DEF ChannelOrder
  <2>4. \A i \in 1 .. Len(frames) : frames[i].block < desc' /\ frames[i].block <= desc'
    <3>1. \A i \in 1 .. Len(frames) : frames[i].block \in Nat /\ frames[i].block <= desc
      BY BlockNumbers DEF FrameOrder
    <3> QED BY <2>3, <3>1
  <2> QED BY <2>1, <2>4 DEF FrameOrder
<1>4. CASE Copy
  <2>1. CASE UNCHANGED <<tPc, frames>>
    BY <1>2, <1>4, <2>1 DEF Copy
  <2>2. ASSUME NEW data, frames' = Append(frames, [block |-> desc, data |-> data]), tPc' = "read"
        PROVE  FrameOrder'
    <3> DEFINE e == [block |-> desc, data |-> data]
    <3>1. /\ \A i, j \in 1 .. Len(frames) : i < j => frames[i].block < frames[j].block
          /\ \A i \in 1 .. Len(frames) : frames[i].block < desc /\ frames[i].block \in Nat
          /\ Len(frames) \in Nat /\ desc \in Nat /\ desc' = desc
      BY <1>4, BlockNumbers DEF FrameOrder, Copy
    <3>2. e.block = desc /\ frames \in Seq([block : Blocks, data : Contents])
          /\ frames' = Append(frames, e)
      BY <2>2 DEF Typed, ThreadTypes
    <3> HIDE DEF e
    <3>3. /\ Len(frames') = Len(frames) + 1 /\ frames'[Len(frames) + 1] = e
          /\ \A i \in 1 .. Len(frames) : frames'[i] = frames[i]
      BY <3>2
    <3>4. \A i \in 1 .. Len(frames') : i \in 1 .. Len(frames) \/ i = Len(frames) + 1
      BY <3>1, <3>3
    <3>5. \A i \in 1 .. Len(frames') : frames'[i].block <= desc
      BY <3>1, <3>2, <3>3, <3>4
    <3>6. \A i, j \in 1 .. Len(frames') : i < j => frames'[i].block < frames'[j].block
      <4> TAKE i, j \in 1 .. Len(frames')
      <4> HAVE i < j
      <4>1. i \in 1 .. Len(frames)
        BY <3>1, <3>3
      <4> QED BY <3>1, <3>2, <3>3, <3>4, <4>1
    <3> QED BY <2>2, <3>1, <3>5, <3>6 DEF FrameOrder
  <2> QED BY <1>4, <2>1, <2>2 DEF Copy
<1>5. CASE UNCHANGED vars \/ R5fWrite \/ Main \/ DspReads \/ PersistReads
  BY <1>1, <1>2, <1>5 DEF vars, thread, R5fWrite, Main, OpenRpmsg, OpenShm, Map, Acquire,
     InitializeFails, Start, Stop, StopJoined, DspReads, PersistReads
<1>6. CASE Check \/ Poll \/ ReadFails
  BY <1>1, <1>6 DEF Check, Poll, ReadFails
<1> QED BY <1>3, <1>4, <1>5, <1>6 DEF Next, Ingest
-----------------------------------------------------------------------------
(* What a consumer has found are the samples of the frame of that block.   *)

FoundIn(read) ==
    \A b \in Blocks : read[b] # Unread =>
        \E i \in 1 .. Len(frames) : frames[i].block = b /\ frames[i].data = read[b]

Found == FoundIn(dspRead) /\ FoundIn(persistRead)

(* What a consumer has found is in the frame. *)
LEMMA NextFound == Typed /\ Found /\ [Next]_vars => Found'
<1> SUFFICES ASSUME Typed, Found, [Next]_vars PROVE Found'
  OBVIOUS
<1>1. CASE UNCHANGED <<frames, consumers>>
  BY <1>1 DEF Found, FoundIn, consumers
<1>2. CASE DspReads
  <2>1. PICK i \in 1 .. Len(frames) : dspRead' = [dspRead EXCEPT ![frames[i].block] = frames[i].data]
    BY <1>2 DEF DspReads, Samples
  <2>2. UNCHANGED <<frames, persistRead>>
    BY <1>2 DEF DspReads, thread
  <2>3. \A b \in Blocks : dspRead'[b] = IF b = frames[i].block THEN frames[i].data ELSE dspRead[b]
    BY <2>1 DEF Typed, ConsumerTypes
  <2> QED BY <2>2, <2>3 DEF Found, FoundIn
<1>3. CASE PersistReads
  <2>1. PICK i \in 1 .. Len(frames) :
            persistRead' = [persistRead EXCEPT ![frames[i].block] = frames[i].data]
    BY <1>3 DEF PersistReads, Samples
  <2>2. UNCHANGED <<frames, dspRead>>
    BY <1>3 DEF PersistReads, thread
  <2>3. \A b \in Blocks :
            persistRead'[b] = IF b = frames[i].block THEN frames[i].data ELSE persistRead[b]
    BY <2>1 DEF Typed, ConsumerTypes
  <2> QED BY <2>2, <2>3 DEF Found, FoundIn
<1>4. CASE Copy
  <2>1. CASE UNCHANGED frames
    BY <1>1, <1>4, <2>1 DEF Copy
  <2>2. ASSUME NEW e, frames' = Append(frames, e) PROVE Found'
    <3>1. /\ Len(frames') = Len(frames) + 1 /\ Len(frames) \in Nat
          /\ \A i \in 1 .. Len(frames) : frames'[i] = frames[i]
      BY <2>2 DEF Typed, ThreadTypes
    <3>2. \A i \in 1 .. Len(frames) : i \in 1 .. Len(frames') /\ frames'[i] = frames[i]
      BY <3>1
    <3>3. UNCHANGED consumers
      BY <1>4 DEF Copy
    <3>4. ASSUME NEW read, FoundIn(read)
          PROVE  \A b \in Blocks : read[b] # Unread =>
                     \E i \in 1 .. Len(frames') : frames'[i].block = b /\ frames'[i].data = read[b]
      BY <3>2, <3>4 DEF FoundIn
    <3>5. UNCHANGED <<dspRead, persistRead>>
      BY <3>3 DEF consumers
    <3>6. FoundIn(dspRead)'
      BY <3>4, <3>5 DEF Found, FoundIn
    <3>7. FoundIn(persistRead)'
      BY <3>4, <3>5 DEF Found, FoundIn
    <3> QED BY <3>6, <3>7 DEF Found
  <2> QED BY <1>4, <2>1, <2>2 DEF Copy
<1>5. CASE UNCHANGED vars \/ R5fWrite \/ Main \/ Check \/ Poll \/ ReadFails \/ Read
  BY <1>1, <1>5 DEF vars, thread, R5fWrite, Main, OpenRpmsg, OpenShm, Map, Acquire, InitializeFails,
     Start, Stop, StopJoined, Check, Poll, ReadFails, Read
<1> QED BY <1>2, <1>3, <1>4, <1>5 DEF Next, Ingest
-----------------------------------------------------------------------------
(* What has become of the last descriptor: its samples lie in the memory   *)
(* while they are copied, and afterwards there is a frame of it, if and    *)
(* only if they did.                                                       *)

InMemory == Bytes > 0 /\ fields[1] + Bytes <= ShmSize

Judged ==
    /\ tPc = "copy" => InMemory
    /\ tPc # "copy" /\ InMemory => frames # <<>> /\ frames[Len(frames)].block = desc

(* Only a descriptor that passes the test leads to a copy. *)
LEMMA NextJudged == Typed /\ Holding /\ Judged /\ [Next]_vars => Judged'
<1> SUFFICES ASSUME Typed, Holding, Judged, [Next]_vars PROVE Judged'
  OBVIOUS
<1>1. CASE UNCHANGED <<fields, desc, frames>> /\ tPc # "copy" /\ tPc' # "copy"
  BY <1>1 DEF Judged, InMemory, Bytes
<1>2. CASE UNCHANGED <<fields, desc, frames, tPc>>
  BY <1>2 DEF Judged, InMemory, Bytes
<1>3. CASE Read
  <2>1. PICK d \in Descriptors :
            /\ fields' = d
            /\ tPc' = IF Accepts(d[1], d[2], d[3]) THEN "copy" ELSE "read"
    BY <1>3 DEF Read
  <2>2. d[1] \in Field /\ d[2] \in Field /\ d[3] \in Field
    BY DEF Descriptors
  <2>3. dataPtr
    BY <1>3 DEF Read, Typed, MainTypes, Holding
  <2>4. Accepts(d[1], d[2], d[3]) <=>
            d[2] * d[3] * SampleBytes > 0 /\ d[1] + d[2] * d[3] * SampleBytes <= ShmSize
    BY <2>2, <2>3, TestIsExact
  <2>5. Accepts(d[1], d[2], d[3]) <=> InMemory'
    BY <2>1, <2>4 DEF InMemory, Bytes
  <2> QED BY <2>1, <2>5 DEF Judged
<1>4. CASE Copy
  <2>1. CASE UNCHANGED <<tPc, frames>>
    BY <1>2, <1>4, <2>1 DEF Copy
  <2>2. ASSUME NEW data, frames' = Append(frames, [block |-> desc, data |-> data]), tPc' = "read"
        PROVE  Judged'
    <3> DEFINE e == [block |-> desc, data |-> data]
    <3>1. e.block = desc /\ frames' = Append(frames, e) /\ desc' = desc
      BY <1>4, <2>2 DEF Copy
    <3> HIDE DEF e
    <3>2. Len(frames') = Len(frames) + 1 /\ frames'[Len(frames) + 1] = e /\ frames' # <<>>
      BY <3>1 DEF Typed, ThreadTypes
    <3> QED BY <2>2, <3>1, <3>2 DEF Judged
  <2> QED BY <1>4, <2>1, <2>2 DEF Copy
<1>5. CASE Main
  <2>1. UNCHANGED <<fields, desc, frames>>
        /\ \/ tPc' = tPc
           \/ mPc = "start" /\ tPc' = "check"
    <3>1. CASE OpenRpmsg \/ OpenShm \/ Map \/ InitializeFails \/ StopJoined
      BY <3>1 DEF OpenRpmsg, OpenShm, Map, Acquire, InitializeFails, StopJoined, thread
    <3>2. CASE Start \/ Stop
      BY <3>2 DEF Start, Stop
    <3> QED BY <1>5, <3>1, <3>2 DEF Main
  <2>2. mPc = "start" => tPc = "off"
    BY DEF Holding
  <2> QED BY <1>1, <1>2, <2>1, <2>2
<1>6. CASE Check \/ Poll \/ ReadFails
  BY <1>1, <1>6 DEF Check, Poll, ReadFails
<1>7. CASE UNCHANGED vars \/ R5fWrite \/ DspReads \/ PersistReads
  BY <1>2, <1>7 DEF vars, thread, R5fWrite, DspReads, PersistReads
<1> QED BY <1>3, <1>4, <1>5, <1>6, <1>7 DEF Next, Ingest
-----------------------------------------------------------------------------
(* The inductive invariant, and what follows from it.                      *)

Inv == Typed /\ Holding /\ ChannelOrder /\ FrameOrder /\ Found /\ Judged

(* The invariant. *)
LEMMA InitInv == Init => Inv
<1> SUFFICES ASSUME Init PROVE Inv
  OBVIOUS
<1>1. Holding
  BY DEF Init, Holding
<1>2. Len(channel) = 0 /\ Len(frames) = 0 /\ writing[1] = 1 /\ desc = 0
  BY DEF Init
<1>3. ChannelOrder /\ FrameOrder
  BY <1>2 DEF ChannelOrder, FrameOrder
<1>4. Found
  BY DEF Init, Found, FoundIn
<1>5. Judged
  <2>1. Bytes = 0
    BY DEF Init, Bytes, SampleBytes
  <2> QED BY <2>1 DEF Init, Judged, InMemory
<1> QED BY <1>1, <1>3, <1>4, <1>5, InitTyped DEF Inv

LEMMA Invariance == Spec => []Inv
<1>1. Inv /\ [Next]_vars => Inv'
  BY NextTyped, NextHolding, NextChannelOrder, NextFrameOrder, NextFound, NextJudged DEF Inv
<1> QED BY <1>1, InitInv, PTL DEF Spec

(* Every variable keeps its type; a frame has all its words.               *)
THEOREM TypeCorrect == Spec => []TypeOK
<1>1. Inv => TypeOK
  BY TypedTypeOK DEF Inv
<1> QED BY <1>1, Invariance, PTL

(* The ingest thread never uses a file or a mapping that has been released *)
(* or was never acquired.                                                  *)
THEOREM ThreadUsesWhatIsHeld == Spec => []UsesWhatIsHeld
<1>1. Inv => UsesWhatIsHeld
  BY DEF Inv, Typed, MainTypes, Holding, UsesWhatIsHeld, Resources
<1> QED BY <1>1, Invariance, PTL

(* A failed initialize() and stop() release everything.                    *)
THEOREM EverythingReleased == Spec => []NothingLeaked
<1>1. Inv => NothingLeaked
  BY DEF Inv, Typed, MainTypes, Holding, NothingLeaked, Resources
<1> QED BY <1>1, Invariance, PTL

(* A descriptor leads to a frame if and only if its samples lie within the *)
(* shared memory.                                                          *)
THEOREM DescriptorsJudged == Spec => []AcceptsExactly
<1>1. Inv => AcceptsExactly
  BY DEF Inv, Judged, InMemory, AcceptsExactly
<1> QED BY <1>1, Invariance, PTL

(* The two consumers find the same samples in a frame.                     *)
THEOREM ConsumersFindTheSame == Spec => []ConsumersAgree
<1>1. ASSUME Inv, NEW b \in Blocks, dspRead[b] # Unread, persistRead[b] # Unread
      PROVE  dspRead[b] = persistRead[b]
  <2>1. PICK i \in 1 .. Len(frames) : frames[i].block = b /\ frames[i].data = dspRead[b]
    BY <1>1 DEF Inv, Found, FoundIn
  <2>2. PICK j \in 1 .. Len(frames) : frames[j].block = b /\ frames[j].data = persistRead[b]
    BY <1>1 DEF Inv, Found, FoundIn
  <2>3. b \in Nat /\ ~(b < b) /\ i \in Int /\ j \in Int
    BY Constants DEF Blocks
  <2>4. ~(i < j) /\ ~(j < i)
    BY <1>1, <2>1, <2>2, <2>3 DEF Inv, FrameOrder
  <2>5. i = j
    BY <2>3, <2>4
  <2> QED BY <2>1, <2>2, <2>5
<1>2. Inv => ConsumersAgree
  BY <1>1 DEF ConsumersAgree
<1> QED BY <1>2, Invariance, PTL
=============================================================================
