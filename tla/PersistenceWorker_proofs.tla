---------------------- MODULE PersistenceWorker_proofs ----------------------
(***************************************************************************)
(* Proofs about the persistence thread and stop(), for every number of     *)
(* frames, every block length, queue capacity and flush threshold, and     *)
(* however the writes are cut.                                             *)
(***************************************************************************)
EXTENDS PersistenceWorker, TLAPS

Stream == 1 .. NFrames * BlockLen

(* Samples of the frames taken from the queue so far. *)
Total == (accepted - Len(queue)) * BlockLen

-----------------------------------------------------------------------------
(* Arithmetic and sequences.                                               *)

(* What the assumption says of each constant. *)
LEMMA Constants ==
    /\ NFrames \in Nat /\ BlockLen \in Nat \ {0} /\ QueueCap \in Nat \ {0}
    /\ FlushLen \in Nat \ {0}
BY PersistAssumption

(* Multiplication by a natural number is monotonic, *)
LEMMA ProductMonotonic ==
    ASSUME NEW a \in Nat, NEW b \in Nat, NEW c \in Nat, a <= b
    PROVE  a * c \in Nat /\ b * c \in Nat /\ a * c <= b * c
<1>1. (b - a) \in Nat /\ (b - a) * c \in Nat
  OBVIOUS
<1>2. b * c = a * c + (b - a) * c
  OBVIOUS
<1>3. a * c \in Nat /\ b * c \in Nat
  OBVIOUS
<1> DEFINE x == a * c
           y == b * c
           z == (b - a) * c
<1>4. x \in Nat /\ y \in Nat /\ z \in Nat /\ y = x + z
  BY <1>1, <1>2, <1>3
<1> HIDE DEF x, y, z
<1>5. x <= y
  BY <1>4
<1> QED BY <1>4, <1>5 DEF x, y

(* and one more factor is one more summand. *)
LEMMA ProductSuccessor ==
    ASSUME NEW a \in Nat, NEW c \in Nat
    PROVE  (a + 1) * c = a * c + c
OBVIOUS

(* An item of a sequence is in its set. *)
LEMMA ItemOf ==
    ASSUME NEW S, NEW s \in Seq(S)
    PROVE  Len(s) \in Nat /\ \A i \in 1 .. Len(s) : s[i] \in S
OBVIOUS

(* What a concatenation holds, *)
LEMMA RangeOfConcat ==
    ASSUME NEW S, NEW s \in Seq(S), NEW t \in Seq(S)
    PROVE  RangeOf(s \o t) = RangeOf(s) \cup RangeOf(t)
<1> DEFINE u == s \o t
<1>1. /\ Len(s) \in Nat /\ Len(t) \in Nat /\ Len(u) = Len(s) + Len(t)
      /\ \A i \in 1 .. Len(s) + Len(t) : u[i] = IF i <= Len(s) THEN s[i] ELSE t[i - Len(s)]
  OBVIOUS
<1> HIDE DEF u
<1>2. \A i \in 1 .. Len(s) : i \in 1 .. Len(u) /\ u[i] = s[i]
  BY <1>1
<1>3. \A i \in 1 .. Len(t) : Len(s) + i \in 1 .. Len(u) /\ u[Len(s) + i] = t[i]
  <2> TAKE i \in 1 .. Len(t)
  <2>1. Len(s) + i \in 1 .. Len(u) /\ ~(Len(s) + i <= Len(s)) /\ (Len(s) + i) - Len(s) = i
    BY <1>1
  <2> QED BY <1>1, <2>1
<1>4. \A i \in 1 .. Len(u) : \/ i \in 1 .. Len(s) /\ u[i] = s[i]
                             \/ i - Len(s) \in 1 .. Len(t) /\ u[i] = t[i - Len(s)]
  BY <1>1
<1>5. RangeOf(u) \subseteq RangeOf(s) \cup RangeOf(t)
  BY <1>4 DEF RangeOf
<1>6. RangeOf(s) \subseteq RangeOf(u)
  BY <1>2 DEF RangeOf
<1>7. RangeOf(t) \subseteq RangeOf(u)
  BY <1>3 DEF RangeOf
<1> QED BY <1>5, <1>6, <1>7 DEF u

(* s holds the numbers after b, one after the other. *)
Run(s, b) == \A i \in 1 .. Len(s) : s[i] = b + i

(* and what a run of consecutive numbers holds. *)
LEMMA RangeOfRun ==
    ASSUME NEW S, NEW s \in Seq(S), NEW b \in Nat, Run(s, b)
    PROVE  RangeOf(s) = b + 1 .. b + Len(s)
<1>1. Len(s) \in Nat /\ \A i \in 1 .. Len(s) : s[i] = b + i
  BY DEF Run
<1>2. \A i \in 1 .. Len(s) : s[i] \in b + 1 .. b + Len(s)
  BY <1>1
<1>3. \A x \in b + 1 .. b + Len(s) : x - b \in 1 .. Len(s) /\ s[x - b] = x
  BY <1>1
<1> QED BY <1>2, <1>3 DEF RangeOf

(* Two runs, the second from where the first ends, are one. *)
LEMMA RunConcat ==
    ASSUME NEW S, NEW s \in Seq(S), NEW t \in Seq(S), NEW b \in Nat,
           Run(s, b), Run(t, b + Len(s))
    PROVE  Run(s \o t, b)
<1> DEFINE u == s \o t
<1>1. /\ Len(s) \in Nat /\ Len(t) \in Nat /\ Len(u) = Len(s) + Len(t)
      /\ \A i \in 1 .. Len(s) + Len(t) : u[i] = IF i <= Len(s) THEN s[i] ELSE t[i - Len(s)]
  OBVIOUS
<1> HIDE DEF u
<1>2. /\ \A i \in 1 .. Len(s) : s[i] = b + i
      /\ \A i \in 1 .. Len(t) : t[i] = (b + Len(s)) + i
  BY DEF Run
<1>3. ASSUME NEW i \in 1 .. Len(u) PROVE u[i] = b + i
  <2>1. CASE i <= Len(s)
    BY <1>1, <1>2, <2>1
  <2>2. CASE ~(i <= Len(s))
    <3>1. i - Len(s) \in 1 .. Len(t) /\ u[i] = t[i - Len(s)]
      BY <1>1, <2>2
    <3>2. t[i - Len(s)] = (b + Len(s)) + (i - Len(s))
      BY <1>2, <3>1
    <3> QED BY <1>1, <3>1, <3>2
  <2> QED BY <2>1, <2>2
<1> QED BY <1>3 DEF Run, u

(* A piece of a run is a run. *)
LEMMA RunPiece ==
    ASSUME NEW S, NEW s \in Seq(S), NEW b \in Nat, Run(s, b),
           NEW d \in Nat, NEW k \in Nat, d + k <= Len(s)
    PROVE  LET t == SubSeq(s, d + 1, d + k)
           IN  t \in Seq(S) /\ Len(t) = k /\ Run(t, b + d)
<1> DEFINE t == SubSeq(s, d + 1, d + k)
<1>1. t \in Seq(S) /\ Len(t) = k /\ \A i \in 1 .. k : t[i] = s[d + i]
  OBVIOUS
<1>2. Len(s) \in Nat /\ \A i \in 1 .. Len(s) : s[i] = b + i
  BY DEF Run
<1> HIDE DEF t
<1>3. \A i \in 1 .. Len(t) : t[i] = (b + d) + i
  BY <1>1, <1>2
<1> QED BY <1>1, <1>3 DEF Run, t

(* The samples of a frame are a run that begins where the frame before     *)
(* ends.                                                                   *)
LEMMA SamplesRun ==
    ASSUME NEW f \in 1 .. NFrames
    PROVE  /\ Samples(f) \in Seq(Stream) /\ Len(Samples(f)) = BlockLen
           /\ Run(Samples(f), (f - 1) * BlockLen)
<1> DEFINE b == (f - 1) * BlockLen
<1>1. b \in Nat /\ b + BlockLen <= NFrames * BlockLen /\ NFrames * BlockLen \in Nat
  <2>1. f - 1 \in Nat /\ f \in Nat /\ f <= NFrames /\ f = (f - 1) + 1
    BY Constants
  <2>2. f * BlockLen = (f - 1) * BlockLen + BlockLen
    BY <2>1, ProductSuccessor, Constants
  <2>3. f * BlockLen <= NFrames * BlockLen /\ NFrames * BlockLen \in Nat
    BY <2>1, ProductMonotonic, Constants
  <2>4. b \in Nat
    BY <2>1, ProductMonotonic, Constants
  <2> QED BY <2>2, <2>3, <2>4
<1>2. Samples(f) = [i \in 1 .. BlockLen |-> b + i]
  BY DEF Samples
<1> HIDE DEF b
<1>3. \A i \in 1 .. BlockLen : b + i \in Stream
  <2> DEFINE n == NFrames * BlockLen
  <2>1. b \in Nat /\ b + BlockLen <= n /\ n \in Nat /\ BlockLen \in Nat
    BY <1>1, Constants
  <2> HIDE DEF n
  <2>2. \A i \in 1 .. BlockLen : b + i \in 1 .. n
    BY <2>1
  <2> QED BY <2>2 DEF Stream, n
<1>4. Samples(f) \in Seq(Stream) /\ Len(Samples(f)) = BlockLen
  BY <1>2, <1>3, Constants
<1> QED BY <1>2, <1>4 DEF Run, b
-----------------------------------------------------------------------------
(* Types, and the queue: the frames it holds are the ones after those      *)
(* that were taken, so their numbers stay below NFrames.                   *)

Typed ==
    /\ fsync \in BOOLEAN /\ running \in BOOLEAN /\ open \in BOOLEAN /\ ioError \in BOOLEAN
    /\ accepted \in 0 .. NFrames
    /\ queue \in Seq(1 .. NFrames) /\ Len(queue) <= QueueCap
    /\ frame \in 0 .. NFrames
    /\ wPc \in {"off", "check", "size", "pop", "flush", "done"}
    /\ mPc \in {"start", "failed", "run", "join", "drain", "drainFlush", "finalFlush",
                "closed", "exited"}
    /\ fPc \in {"none", "write", "failed", "done"}
    /\ cache \in Seq(Stream) /\ file \in Seq(Stream)
    /\ remaining \in 0 .. Len(cache) /\ synced \in 0 .. Len(file)

QueueIsNext ==
    /\ Len(queue) <= accepted
    /\ \A i \in 1 .. Len(queue) : queue[i] + Len(queue) = accepted + i

(* What the three processes may be doing at the same time. *)
Control ==
    /\ mPc \in {"start", "failed"} =>
           wPc = "off" /\ accepted = 0 /\ queue = <<>> /\ cache = <<>> /\ file = <<>>
    /\ mPc \in {"run", "join", "drain", "drainFlush", "finalFlush"} => open
    /\ mPc \in {"drain", "drainFlush", "finalFlush", "closed"} => wPc = "done"
    /\ mPc = "exited" => wPc \in {"off", "done"}
    /\ fPc # "none" => wPc = "flush" \/ mPc \in {"drainFlush", "finalFlush"}
    /\ fPc = "done" => cache = <<>>
    /\ fPc = "failed" => ioError
    /\ mPc \in {"finalFlush", "closed", "exited"} => queue = <<>>
    /\ mPc \in {"closed", "exited"} /\ ~ioError => cache = <<>>

(* How full the cache may be: below the threshold wherever a frame is      *)
(* taken, unless a flush has failed; then the worker stops, and stop()     *)
(* adds at most what the queue still holds.                                *)
Draining == mPc \in {"drain", "drainFlush", "finalFlush", "closed", "exited"}
Fill ==
    /\ wPc \in {"off", "check", "size", "pop"} => Len(cache) < FlushLen
    /\ wPc = "done" /\ ~ioError /\ mPc # "drainFlush" => Len(cache) < FlushLen
    /\ ~Draining \/ ~ioError => Len(cache) < FlushLen + BlockLen
    /\ Draining =>
           Len(cache) + Len(queue) * BlockLen < FlushLen + BlockLen + QueueCap * BlockLen

(* Types, queue, control and fill, one thread at a time. *)
LEMMA InitTyped == Init => Typed /\ QueueIsNext /\ Control /\ Fill
<1> SUFFICES ASSUME Init PROVE Typed /\ QueueIsNext /\ Control /\ Fill
  OBVIOUS
<1>4. Typed
  <2>1. /\ Len(queue) = 0 /\ Len(cache) = 0 /\ Len(file) = 0
        /\ queue \in Seq(1 .. NFrames) /\ cache \in Seq(Stream) /\ file \in Seq(Stream)
    BY DEF Init, Queue!Init
  <2>2. accepted \in 0 .. NFrames /\ frame \in 0 .. NFrames /\ 0 <= QueueCap
    BY Constants DEF Init, Queue!Init
  <2>3. remaining \in 0 .. Len(cache) /\ synced \in 0 .. Len(file)
    BY <2>1 DEF Init
  <2> QED BY <2>1, <2>2, <2>3 DEF Init, Typed
<1>1. QueueIsNext
  BY DEF Init, Queue!Init, QueueIsNext
<1>2. Control
  BY DEF Init, Queue!Init, Control
<1>3. Fill
  BY Constants DEF Init, Queue!Init, Fill, Draining
<1> QED BY <1>1, <1>2, <1>3, <1>4

(* Steps that move neither a frame nor a sample. *)
LEMMA StartTyped == ASSUME Typed, Control, Fill, QueueIsNext, Start
                    PROVE  Typed' /\ QueueIsNext' /\ Control' /\ Fill'
BY Constants DEF Start, Typed, QueueIsNext, Control, Fill, Draining

LEMMA AcceptTyped == ASSUME Typed, Control, Fill, QueueIsNext, Accept
                     PROVE  Typed' /\ QueueIsNext' /\ Control' /\ Fill'
<1>1. /\ accepted < NFrames /\ mPc = "run" /\ accepted' = accepted + 1
      /\ Len(queue) # QueueCap /\ queue' = Append(queue, accepted + 1)
      /\ UNCHANGED <<frame, fsync, running, wPc, mPc, flush>>
  BY DEF Accept, Queue!Push, Queue!Full
<1>2. /\ queue \in Seq(1 .. NFrames) /\ accepted + 1 \in 1 .. NFrames
      /\ accepted \in Nat /\ Len(queue) \in Nat
  BY <1>1, Constants DEF Typed
<1>3. /\ queue' \in Seq(1 .. NFrames) /\ Len(queue') = Len(queue) + 1
      /\ \A i \in 1 .. Len(queue) + 1 :
             queue'[i] = IF i = Len(queue) + 1 THEN accepted + 1 ELSE queue[i]
  BY <1>1, <1>2
<1>4. Typed'
  BY <1>1, <1>2, <1>3, Constants DEF Typed, flush
<1>5. QueueIsNext'
  <2>1. /\ Len(queue) <= accepted
        /\ \A i \in 1 .. Len(queue) : queue[i] + Len(queue) = accepted + i
        /\ \A i \in 1 .. Len(queue) : queue[i] \in Nat
    <3>1. \A i \in 1 .. Len(queue) : queue[i] \in 1 .. NFrames
      BY <1>2, ItemOf
    <3> QED BY <3>1, Constants DEF QueueIsNext
  <2>2. Len(queue') <= accepted'
    BY <1>1, <1>2, <1>3, <2>1
  <2>3. ASSUME NEW i \in 1 .. Len(queue') PROVE queue'[i] + Len(queue') = accepted' + i
    <3>1. CASE i = Len(queue) + 1
      <4>1. queue'[i] = accepted + 1
        BY <1>2, <1>3, <3>1
      <4> QED BY <1>1, <1>2, <1>3, <3>1, <4>1
    <3>2. CASE i \in 1 .. Len(queue)
      <4>1. queue'[i] = queue[i] /\ queue[i] + Len(queue) = accepted + i /\ queue[i] \in Nat
        BY <1>2, <1>3, <2>1, <3>2
      <4> QED BY SMTT(60), <1>1, <1>2, <1>3, <4>1
    <3> QED BY <1>2, <1>3, <3>1, <3>2
  <2> QED BY <2>2, <2>3 DEF QueueIsNext
<1>6. Control' /\ Fill'
  BY <1>1 DEF Control, Fill, Draining, flush
<1> QED BY <1>4, <1>5, <1>6

LEMMA FlushTyped == ASSUME Typed, Control, Fill, QueueIsNext, Flush
                    PROVE  Typed' /\ QueueIsNext' /\ Control' /\ Fill'
<1>1. CASE FlushCalled
  <2>1. Len(cache) \in Nat
    BY DEF Typed
  <2>2. Typed' /\ QueueIsNext'
    BY <1>1, <2>1 DEF FlushCalled, CallFlush, Typed, QueueIsNext
  <2>3. Control' /\ Fill'
    BY <1>1 DEF FlushCalled, CallFlush, Typed, Control, Fill, Draining
  <2> QED BY <2>2, <2>3
<1>2. CASE FlushWrite
  <2>1. PICK k \in 1 .. remaining :
            /\ file' = file \o SubSeq(cache, (Len(cache) - remaining) + 1,
                                             (Len(cache) - remaining) + k)
            /\ remaining' = remaining - k
    BY <1>2 DEF FlushWrite
  <2> DEFINE d == Len(cache) - remaining
             t == SubSeq(cache, d + 1, d + k)
  <2>2. cache \in Seq(Stream) /\ file \in Seq(Stream) /\ Len(cache) \in Nat
        /\ d \in Nat /\ k \in Nat /\ d + k <= Len(cache) /\ remaining \in 0 .. Len(cache)
        /\ Len(file) \in Nat /\ synced \in 0 .. Len(file)
    BY DEF Typed
  <2>3. t \in Seq(Stream)
    <3> HIDE DEF d
    <3> QED BY <2>2
  <2>4. file' = file \o t
    BY <2>1
  <2> HIDE DEF t, d
  <2>5. file' \in Seq(Stream) /\ Len(file') = Len(file) + Len(t) /\ Len(t) \in Nat
    BY <2>2, <2>3, <2>4
  <2>6. remaining' \in 0 .. Len(cache) /\ synced \in 0 .. Len(file')
    BY <2>1, <2>2, <2>5
  <2>7. Typed' /\ QueueIsNext'
    BY <1>2, <2>5, <2>6 DEF FlushWrite, FlushOthers, Typed, QueueIsNext
  <2>8. Control' /\ Fill'
    BY <1>2 DEF FlushWrite, FlushOthers, Typed, Control, Fill, Draining
  <2> QED BY <2>7, <2>8
<1>3. CASE FlushFails
  <2>1. Len(cache) \in Nat
    BY DEF Typed
  <2>2. Typed' /\ QueueIsNext'
    BY <1>3, <2>1 DEF FlushFails, FlushOthers, Typed, QueueIsNext
  <2>3. Control' /\ Fill'
    BY <1>3 DEF FlushFails, FlushOthers, Typed, Control, Fill, Draining
  <2> QED BY <2>2, <2>3
<1>4. CASE FlushSucceeds
  <2>1. Len(file) \in Nat /\ Len(cache) \in Nat /\ cache' = <<>> /\ Len(cache') = 0
        /\ cache' \in Seq(Stream) /\ remaining' \in 0 .. 0 /\ synced' \in 0 .. Len(file)
    BY <1>4 DEF Typed, FlushSucceeds
  <2>2. Typed' /\ QueueIsNext'
    BY <1>4, <2>1 DEF FlushSucceeds, FlushOthers, Typed, QueueIsNext
  <2>3. Control'
    BY <1>4 DEF FlushSucceeds, FlushOthers, Typed, Control
  <2>4. Fill'
    <3>1. Len(queue) \in Nat /\ Len(queue) <= QueueCap
      BY DEF Typed
    <3>2. /\ Len(queue) * BlockLen <= QueueCap * BlockLen /\ QueueCap * BlockLen \in Nat
          /\ Len(queue) * BlockLen \in Nat
      BY <3>1, ProductMonotonic, Constants
    <3> QED BY <1>4, <2>1, <3>2, Constants DEF FlushSucceeds, FlushOthers, Typed, Fill, Draining
  <2> QED BY <2>2, <2>3, <2>4
<1> QED BY <1>1, <1>2, <1>3, <1>4 DEF Flush

(* A frame is taken and its samples appended, by the worker or by stop(). *)
TakesFrame == Queue!Pop /\ cache' = cache \o Samples(frame') /\ accepted' = accepted

(* Taking a frame from the queue, by the worker or by stop(). *)
LEMMA TakeFacts ==
    ASSUME Typed, QueueIsNext, TakesFrame
    PROVE  /\ frame' \in 1 .. NFrames
           /\ Samples(frame') \in Seq(Stream) /\ Len(Samples(frame')) = BlockLen
           /\ queue' \in Seq(1 .. NFrames) /\ Len(queue) \in Nat \ {0}
           /\ Len(queue') = Len(queue) - 1
           /\ cache' \in Seq(Stream) /\ Len(cache') = Len(cache) + BlockLen
           /\ frame' + Len(queue) = accepted + 1
           /\ QueueIsNext'
<1>1. /\ queue \in Seq(1 .. NFrames) /\ queue # <<>> /\ frame' = Head(queue)
      /\ queue' = Tail(queue) /\ cache \in Seq(Stream) /\ accepted \in Nat
  BY Constants DEF Typed, TakesFrame, Queue!Pop, Queue!Empty
<1>2. /\ Len(queue) \in Nat \ {0} /\ queue' \in Seq(1 .. NFrames)
      /\ Len(queue') = Len(queue) - 1
      /\ \A i \in 1 .. Len(queue) - 1 : queue'[i] = queue[i + 1]
      /\ frame' = queue[1]
  BY <1>1
<1>3. \A i \in 1 .. Len(queue) : queue[i] \in 1 .. NFrames
  BY <1>1, ItemOf
<1>4. frame' \in 1 .. NFrames
  BY <1>2, <1>3
<1>5. Samples(frame') \in Seq(Stream) /\ Len(Samples(frame')) = BlockLen
  BY <1>4, SamplesRun
<1>6. cache' \in Seq(Stream) /\ Len(cache') = Len(cache) + BlockLen
  BY <1>1, <1>5 DEF TakesFrame
<1>7. /\ Len(queue) <= accepted
      /\ \A i \in 1 .. Len(queue) : queue[i] + Len(queue) = accepted + i
  BY DEF QueueIsNext
<1>8. frame' + Len(queue) = accepted + 1
  BY <1>2, <1>7
<1>9. QueueIsNext'
  <2>1. accepted' = accepted /\ Len(queue') <= accepted'
    BY <1>1, <1>2, <1>7 DEF TakesFrame
  <2>2. ASSUME NEW i \in 1 .. Len(queue') PROVE queue'[i] + Len(queue') = accepted' + i
    <3>1. i + 1 \in 1 .. Len(queue) /\ queue'[i] = queue[i + 1]
      BY <1>2
    <3>2. queue[i + 1] + Len(queue) = accepted + (i + 1) /\ queue[i + 1] \in Nat
      BY <1>3, <1>7, <3>1, Constants
    <3> QED BY SMTT(60), <1>1, <1>2, <2>1, <3>1, <3>2
  <2> QED BY <2>1, <2>2 DEF QueueIsNext
<1> QED BY <1>2, <1>4, <1>5, <1>6, <1>8, <1>9

(* What one frame less in the queue does to the bound on the cache. *)
LEMMA Backlog ==
    ASSUME Typed, QueueIsNext, TakesFrame
    PROVE  /\ Len(queue') * BlockLen \in Nat /\ QueueCap * BlockLen \in Nat
           /\ Len(queue) * BlockLen = Len(queue') * BlockLen + BlockLen
<1>1. Len(queue') \in Nat /\ Len(queue) = Len(queue') + 1
  BY TakeFacts
<1>2. QueueCap * BlockLen \in Nat
  BY Constants
<1> QED BY <1>1, <1>2, ProductSuccessor, ProductMonotonic, Constants

LEMMA TakeTyped ==
    ASSUME Typed, QueueIsNext, TakesFrame,
           UNCHANGED <<fsync, running, fPc, open, remaining, file, synced, ioError>>,
           \/ wPc' \in {"check", "flush"} /\ mPc' = mPc
           \/ mPc' \in {"drain", "drainFlush"} /\ wPc' = wPc
    PROVE  Typed' /\ QueueIsNext'
<1>1. remaining' \in 0 .. Len(cache') /\ Len(queue') <= QueueCap
  <2>1. /\ Len(cache') = Len(cache) + BlockLen /\ Len(queue') = Len(queue) - 1
        /\ Len(queue) \in Nat
    BY TakeFacts
  <2>2. Len(cache) \in Nat /\ Len(queue) <= QueueCap /\ remaining \in 0 .. Len(cache)
    BY DEF Typed
  <2> QED BY <2>1, <2>2, Constants
<1>2. wPc' \in {"off", "check", "size", "pop", "flush", "done"}
  BY DEF Typed
<1>3. mPc' \in {"start", "failed", "run", "join", "drain", "drainFlush", "finalFlush",
                "closed", "exited"}
  BY DEF Typed
<1>4. frame' \in 0 .. NFrames
  BY TakeFacts, Constants
<1> QED BY <1>1, <1>2, <1>3, <1>4, TakeFacts DEF Typed, TakesFrame

LEMMA WorkerTyped == ASSUME Typed, Control, Fill, QueueIsNext, Worker
                     PROVE  Typed' /\ QueueIsNext' /\ Control' /\ Fill'
<1>1. CASE WorkerCheck \/ WorkerSize \/ (WorkerPop /\ Queue!Empty)
  <2>1. UNCHANGED <<fsync, accepted, queue, frame, running, mPc, flush>>
        /\ wPc \in {"check", "size", "pop"} /\ wPc' \in {"check", "size", "pop", "done"}
    BY <1>1 DEF WorkerCheck, WorkerSize, WorkerPop, Take, Queue!Pop, Queue!Empty
  <2>2. Typed' /\ QueueIsNext'
    BY <2>1 DEF Typed, QueueIsNext, flush
  <2>3. Control' /\ Fill'
    BY <2>1 DEF Typed, Control, Fill, Draining, flush
  <2> QED BY <2>2, <2>3
<1>2. CASE WorkerPop /\ Take(wPc, "check", "flush") /\ UNCHANGED mPc
  <2>1. /\ TakesFrame
        /\ UNCHANGED <<fsync, running, fPc, open, remaining, file, synced, ioError, mPc>>
        /\ wPc = "pop"
        /\ wPc' = IF Len(cache') >= FlushLen THEN "flush" ELSE "check"
    BY <1>2 DEF WorkerPop, Take, TakesFrame
  <2>2. Typed' /\ QueueIsNext'
    <3>1. wPc' \in {"check", "flush"} /\ mPc' = mPc
      BY <2>1
    <3> QED BY <2>1, <3>1, TakeTyped
  <2>3. mPc \in {"run", "join"} /\ queue # <<>>
    <3>1. queue # <<>>
      BY <2>1 DEF TakesFrame, Queue!Pop, Queue!Empty
    <3> QED BY <2>1, <3>1 DEF Typed, Control
  <2>4. Control'
    BY <2>1, <2>3 DEF Control
  <2>5. Fill'
    <3>1. /\ Len(cache') = Len(cache) + BlockLen /\ Len(cache) < FlushLen /\ Len(cache) \in Nat
          /\ Len(cache') \in Nat
      <4>1. Len(cache') = Len(cache) + BlockLen /\ Len(cache) \in Nat
        BY <2>1, TakeFacts DEF Typed
      <4> QED BY <2>1, <4>1, Constants DEF Fill
    <3> QED BY <2>1, <2>3, <3>1, Constants DEF Fill, Draining
  <2> QED BY <2>2, <2>4, <2>5
<1>3. CASE WorkerFlushed
  <2>1. /\ UNCHANGED <<fsync, accepted, queue, frame, mPc, open, cache, remaining, file, synced,
                       ioError>>
        /\ wPc = "flush" /\ fPc' = "none"
        /\ \/ fPc = "done" /\ wPc' = "check" /\ UNCHANGED running
           \/ fPc = "failed" /\ wPc' = "done" /\ running' = FALSE
    BY <1>3 DEF WorkerFlushed, Returned
  <2>2. Typed' /\ QueueIsNext'
    BY <2>1 DEF Typed, QueueIsNext
  <2>3. Control'
    BY <2>1 DEF Typed, Control
  <2>4. Fill'
    <3>1. (fPc = "done" => Len(cache) = 0) /\ (fPc = "failed" => ioError)
      BY DEF Control
    <3> QED BY <2>1, <3>1, Constants DEF Fill, Draining
  <2> QED BY <2>2, <2>3, <2>4
<1> QED BY <1>1, <1>2, <1>3 DEF Worker, WorkerPop

LEMMA MainTyped == ASSUME Typed, Control, Fill, QueueIsNext, Main \/ Stop
                   PROVE  Typed' /\ QueueIsNext' /\ Control' /\ Fill'
<1>1. CASE Stop \/ Join \/ Destroy \/ (Drain /\ Queue!Empty)
  <2>1. /\ UNCHANGED <<fsync, accepted, queue, frame, wPc, flush>>
        /\ \/ mPc = "run" /\ mPc' = "join" /\ running' = FALSE
           \/ UNCHANGED running /\ mPc = "join" /\ wPc = "done" /\ mPc' = "drain"
           \/ UNCHANGED running /\ mPc \in {"closed", "failed"} /\ mPc' = "exited"
           \/ UNCHANGED running /\ mPc = "drain" /\ queue = <<>> /\ mPc' = "finalFlush"
    BY <1>1 DEF Stop, Join, Destroy, Drain, Take, Queue!Pop, Queue!Empty
  <2>2. Typed' /\ QueueIsNext'
    BY ZenonT(60), <2>1 DEF Typed, QueueIsNext, flush
  <2>3. Control'
    BY <2>1 DEF Typed, Control, flush
  <2>4. Fill'
    <3>1. Len(queue) \in Nat /\ Len(queue) <= QueueCap /\ Len(cache) \in Nat
      BY DEF Typed
    <3>2. /\ Len(queue) * BlockLen <= QueueCap * BlockLen /\ QueueCap * BlockLen \in Nat
          /\ Len(queue) * BlockLen \in Nat
      BY <3>1, ProductMonotonic, Constants
    <3>3. mPc \in {"join", "failed"} => Len(cache) < FlushLen + BlockLen
      BY DEF Fill, Draining
    <3> QED BY <2>1, <3>1, <3>2, <3>3, Constants DEF Fill, Draining, flush
  <2> QED BY <2>2, <2>3, <2>4
<1>2. CASE Take(mPc, "drain", "drainFlush") /\ UNCHANGED wPc /\ mPc = "drain"
  <2>1. /\ TakesFrame
        /\ UNCHANGED <<fsync, running, fPc, open, remaining, file, synced, ioError, wPc>>
        /\ mPc = "drain"
        /\ mPc' = IF Len(cache') >= FlushLen THEN "drainFlush" ELSE "drain"
    BY <1>2 DEF Take, TakesFrame
  <2>2. Typed' /\ QueueIsNext'
    BY <2>1, TakeTyped
  <2>3. fPc = "none" /\ wPc = "done" /\ open
    BY <2>1 DEF Typed, Control
  <2>4. Control'
    BY <2>1, <2>3 DEF Control
  <2>5. Fill'
    <3>1. /\ Len(cache') = Len(cache) + BlockLen /\ Len(cache) \in Nat /\ Len(cache') \in Nat
          /\ ~ioError => Len(cache) < FlushLen
          /\ Len(cache) + Len(queue) * BlockLen < FlushLen + BlockLen + QueueCap * BlockLen
      <4>1. Len(cache') = Len(cache) + BlockLen /\ Len(cache) \in Nat
        BY <2>1, TakeFacts DEF Typed
      <4> QED BY <2>1, <2>3, <4>1, Constants DEF Fill, Draining
    <3>2. Len(cache') + Len(queue') * BlockLen < FlushLen + BlockLen + QueueCap * BlockLen
      BY <2>1, <3>1, Backlog, Constants
    <3> QED BY <2>1, <2>3, <3>1, <3>2, Constants DEF Fill, Draining
  <2> QED BY <2>2, <2>4, <2>5
<1>3. CASE DrainFlushed \/ Close
  <2>1. /\ UNCHANGED <<fsync, accepted, queue, frame, running, wPc, cache, remaining, file, synced,
                       ioError>>
        /\ fPc' = "none" /\ fPc \in {"done", "failed"}
        /\ \/ mPc = "drainFlush" /\ mPc' = "drain" /\ open' = open
           \/ mPc = "finalFlush" /\ mPc' = "closed" /\ open' = FALSE
    BY <1>3 DEF DrainFlushed, Close, Returned
  <2>2. Typed' /\ QueueIsNext'
    BY <2>1 DEF Typed, QueueIsNext
  <2>3. Control'
    BY <2>1 DEF Typed, Control
  <2>4. Fill'
    <3>1. (fPc = "done" => Len(cache) = 0) /\ (fPc = "failed" => ioError) /\ wPc = "done"
      BY <2>1 DEF Control
    <3> QED BY <2>1, <3>1, Constants DEF Fill, Draining
  <2> QED BY <2>2, <2>3, <2>4
<1> QED BY <1>1, <1>2, <1>3 DEF Main, Drain

LEMMA NextTyped ==
    Typed /\ QueueIsNext /\ Control /\ Fill /\ [Next]_vars =>
        Typed' /\ QueueIsNext' /\ Control' /\ Fill'
<1>1. ASSUME Typed, QueueIsNext, Control, Fill, UNCHANGED vars
      PROVE  Typed' /\ QueueIsNext' /\ Control' /\ Fill'
  BY <1>1 DEF vars, flush, Typed, QueueIsNext, Control, Fill, Draining
<1> QED BY <1>1, StartTyped, AcceptTyped, FlushTyped, WorkerTyped, MainTyped DEF Next, Exited
-----------------------------------------------------------------------------
(* What the cache and the file hold.  b samples have been taken from the   *)
(* queue and have left the cache again; the cache holds those from b to    *)
(* Total, whether an earlier flush of them failed or not.                  *)

Content(b) ==
    /\ b + Len(cache) = Total
    /\ Run(cache, b)
    /\ RangeOf(file) \subseteq 1 .. Total
    /\ 1 .. b \subseteq RangeOf(file)
    /\ fPc = "write" => 1 .. (b + Len(cache)) - remaining \subseteq RangeOf(file)
    /\ fsync => 1 .. b \subseteq RangeOf(SubSeq(file, 1, synced))
    /\ ~ioError => /\ Run(file, 0)
                   /\ Len(file) + (IF fPc = "write" THEN remaining ELSE Len(cache)) = Total

Contents == \E b \in Nat : Content(b)

(* The number of samples taken so far is a natural number. *)
LEMMA TotalNat == ASSUME Typed, QueueIsNext PROVE Total \in Nat
<1>1. accepted - Len(queue) \in Nat
  BY Constants DEF Typed, QueueIsNext
<1> QED BY <1>1, Constants, ProductMonotonic DEF Total

(* What file and cache hold together; only four steps touch it. *)
LEMMA InitContents == Init => Contents
<1> SUFFICES ASSUME Init PROVE Content(0)
  BY DEF Contents
<1>1. Len(queue) = 0 /\ Len(cache) = 0 /\ Len(file) = 0 /\ accepted = 0 /\ fPc = "none"
      /\ synced = 0 /\ file = <<>>
  BY DEF Init, Queue!Init
<1>2. Total = 0
  <2>1. accepted - Len(queue) = 0 /\ 0 * BlockLen = 0
    BY <1>1, Constants
  <2> QED BY <2>1 DEF Total
<1>3. RangeOf(file) = {}
  BY <1>1 DEF RangeOf
<1> QED BY <1>1, <1>2, <1>3 DEF Content, Run

LEMMA TakeContents ==
    ASSUME Typed, QueueIsNext, Contents, TakesFrame, fPc = "none",
           UNCHANGED <<fsync, fPc, remaining, file, synced, ioError>>
    PROVE  Contents'
<1>1. PICK b \in Nat : Content(b)
  BY DEF Contents
<1> DEFINE t == Samples(frame')
<1>2. /\ t \in Seq(Stream) /\ Len(t) = BlockLen /\ cache' = cache \o t
      /\ Len(cache') = Len(cache) + BlockLen /\ cache \in Seq(Stream) /\ Len(cache) \in Nat
  BY TakeFacts DEF Typed, TakesFrame
<1>3. Run(t, Total)
  <2>1. frame' \in 1 .. NFrames /\ frame' + Len(queue) = accepted + 1 /\ Len(queue) \in Nat
    BY TakeFacts
  <2>2. frame' - 1 = accepted - Len(queue)
    <3>1. accepted \in Nat /\ frame' \in Nat
      BY <2>1, Constants DEF Typed
    <3> QED BY <2>1, <3>1
  <2>3. Run(t, (frame' - 1) * BlockLen)
    BY <2>1, SamplesRun
  <2> QED BY <2>2, <2>3 DEF Total
<1>4. Total' = Total + BlockLen
  <2> DEFINE n == accepted' - Len(queue')
             m == accepted - Len(queue)
  <2>1. /\ accepted' = accepted /\ Len(queue') = Len(queue) - 1 /\ Len(queue) \in Nat
        /\ accepted \in Nat /\ Len(queue) <= accepted
    BY TakeFacts, Constants DEF TakesFrame, Typed, QueueIsNext
  <2>2. n = m + 1 /\ m \in Nat
    BY <2>1
  <2>3. Total = m * BlockLen /\ Total' = n * BlockLen
    BY DEF Total
  <2> HIDE DEF n, m
  <2> QED BY <2>2, <2>3, ProductSuccessor, Constants
<1> HIDE DEF t
<1>5. Run(cache', b)
  <2>1. Run(cache, b) /\ Total = b + Len(cache)
    BY <1>1 DEF Content
  <2> QED BY <1>2, <1>3, <2>1, RunConcat
<1>6. b + Len(cache') = Total' /\ RangeOf(file') \subseteq 1 .. Total'
  <2>1. b + Len(cache) = Total /\ RangeOf(file) \subseteq 1 .. Total /\ Total \in Nat
    BY <1>1, TotalNat DEF Content
  <2>2. 1 .. Total \subseteq 1 .. Total'
    BY <1>4, <2>1, Constants
  <2>3. RangeOf(file') = RangeOf(file)
    BY DEF RangeOf
  <2>4. b + Len(cache') = Total'
    <3>1. Len(cache') = Len(cache) + BlockLen /\ Len(cache) \in Nat
      BY <1>2
    <3> QED BY <1>4, <2>1, <3>1, Constants
  <2> QED BY <2>1, <2>2, <2>3, <2>4
<1>7. /\ 1 .. b \subseteq RangeOf(file')
      /\ fsync' => 1 .. b \subseteq RangeOf(SubSeq(file', 1, synced'))
  BY <1>1 DEF Content, RangeOf
<1>8. ~ioError' => /\ Run(file', 0)
                   /\ Len(file') + (IF fPc' = "write" THEN remaining' ELSE Len(cache')) = Total'
  <2> SUFFICES ASSUME ~ioError
               PROVE  Run(file', 0) /\ Len(file') + Len(cache') = Total'
    OBVIOUS
  <2>1. Run(file, 0) /\ Len(file) + Len(cache) = Total
    BY <1>1 DEF Content
  <2>2. Run(file', 0)
    BY <2>1 DEF Run
  <2>3. Len(file) \in Nat /\ Len(file') = Len(file) /\ Len(cache) \in Nat
    BY DEF Typed
  <2>4. Len(cache') = Len(cache) + BlockLen /\ Total' = Total + BlockLen
    BY <1>2, <1>4
  <2>5. Len(file') + Len(cache') = Total'
    BY <2>1, <2>3, <2>4, Constants
  <2> QED BY <2>2, <2>5
<1>9. Content(b)'
  BY <1>5, <1>6, <1>7, <1>8 DEF Content
<1> QED BY <1>9 DEF Contents

LEMMA WriteContents ==
    ASSUME Typed, QueueIsNext, Contents, FlushWrite
    PROVE  Contents'
<1>1. PICK b \in Nat : Content(b)
  BY DEF Contents
<1>2. PICK k \in 1 .. remaining :
          /\ file' = file \o SubSeq(cache, (Len(cache) - remaining) + 1,
                                           (Len(cache) - remaining) + k)
          /\ remaining' = remaining - k
  BY DEF FlushWrite
<1> DEFINE d == Len(cache) - remaining
           t == SubSeq(cache, d + 1, d + k)
<1>3. /\ UNCHANGED <<fPc, cache, synced, ioError, fsync, accepted, queue>> /\ fPc = "write"
      /\ Total' = Total
  BY DEF FlushWrite, FlushOthers, Total
<1>4. /\ cache \in Seq(Stream) /\ file \in Seq(Stream) /\ Len(cache) \in Nat
      /\ d \in Nat /\ k \in Nat /\ d + k <= Len(cache) /\ d + remaining = Len(cache)
      /\ Len(file) \in Nat /\ synced \in 0 .. Len(file) /\ remaining \in Nat
      /\ k <= remaining /\ Total \in Nat
  BY TotalNat DEF Typed
<1>5. file' = file \o t
  BY <1>2
<1> HIDE DEF d
<1>6. t \in Seq(Stream) /\ Len(t) = k /\ Run(t, b + d)
  BY <1>1, <1>4, RunPiece DEF Content
<1> HIDE DEF t
<1>7. RangeOf(file') = RangeOf(file) \cup (b + d + 1 .. b + d + k)
  <2>1. RangeOf(file') = RangeOf(file) \cup RangeOf(t)
    BY <1>4, <1>5, <1>6, RangeOfConcat
  <2>2. b + d \in Nat
    BY <1>4
  <2>3. RangeOf(t) = (b + d) + 1 .. (b + d) + Len(t)
    BY <1>6, <2>2, RangeOfRun
  <2> QED BY <1>6, <2>1, <2>3
<1>8. /\ b + Len(cache) = Total /\ RangeOf(file) \subseteq 1 .. Total
      /\ 1 .. b \subseteq RangeOf(file)
      /\ 1 .. (b + Len(cache)) - remaining \subseteq RangeOf(file)
  BY <1>1, <1>3 DEF Content
<1>9. RangeOf(file') \subseteq 1 .. Total /\ 1 .. b \subseteq RangeOf(file')
  <2>1. (b + d + 1 .. b + d + k) \subseteq 1 .. Total
    BY <1>4, <1>8
  <2> QED BY <1>7, <1>8, <2>1
<1>10. 1 .. (b + Len(cache)) - remaining' \subseteq RangeOf(file')
  <2>3. remaining = remaining' + k /\ remaining' \in Nat
    BY <1>2, <1>4
  <2>1. (b + Len(cache)) - remaining = b + d /\ (b + Len(cache)) - remaining' = b + d + k
    <3> DEFINE r == remaining'
               n == Len(cache)
    <3>1. remaining = r + k /\ r \in Nat /\ d + remaining = n /\ d \in Nat /\ k \in Nat
      BY <1>4, <2>3
    <3> HIDE DEF r, n
    <3>2. (b + n) - remaining = b + d /\ (b + n) - r = b + d + k
      BY <3>1
    <3> QED BY <3>2 DEF r, n
  <2>2. 1 .. b + d + k \subseteq (1 .. b + d) \cup (b + d + 1 .. b + d + k)
    BY <1>4
  <2> QED BY <1>7, <1>8, <2>1, <2>2
<1>11. fsync => 1 .. b \subseteq RangeOf(SubSeq(file', 1, synced))
  <2>1. SubSeq(file', 1, synced) = SubSeq(file, 1, synced)
    <3>1. \A n \in 0 .. Len(file) : SubSeq(file', 1, n) = SubSeq(file, 1, n)
      <4> TAKE n \in 0 .. Len(file)
      <4> DEFINE u == SubSeq(file', 1, n)
                 v == SubSeq(file, 1, n)
      <4>1. file' \in Seq(Stream) /\ Len(file') = Len(file) + Len(t) /\ Len(t) \in Nat
            /\ \A i \in 1 .. Len(file) : file'[i] = file[i]
        BY SMTT(60), <1>4, <1>5, <1>6
      <4> QED BY SMTT(60), <1>4, <4>1
    <3> QED BY <1>4, <3>1
  <2> QED BY <1>1, <2>1 DEF Content
<1>12. ~ioError => Run(file', 0) /\ Len(file') + remaining' = Total
  <2> SUFFICES ASSUME ~ioError PROVE Run(file', 0) /\ Len(file') + remaining' = Total
    OBVIOUS
  <2>1. Run(file, 0) /\ Len(file) + remaining = Total
    BY <1>1, <1>3 DEF Content
  <2>2. Len(file) = b + d
    BY <1>4, <1>8, <2>1
  <2>3. Run(file', 0)
    <3>1. Run(t, 0 + Len(file))
      BY <1>4, <1>6, <2>2
    <3> QED BY <1>4, <1>5, <1>6, <2>1, <3>1, RunConcat
  <2>4. Len(file') = Len(file) + k
    <3>1. file \in Seq(Stream) /\ t \in Seq(Stream) /\ Len(t) = k
      BY <1>4, <1>6
    <3> QED BY <1>5, <3>1
  <2>5. remaining = remaining' + k /\ remaining' \in Nat
    BY <1>2, <1>4
  <2>6. Len(file') + remaining' = Total
    BY <1>4, <2>1, <2>4, <2>5
  <2> QED BY <2>3, <2>6
<1>13. Content(b)'
  <2>1. Run(cache', b)
    BY <1>1, <1>3 DEF Content, Run
  <2> QED BY <1>3, <1>8, <1>9, <1>10, <1>11, <1>12, <2>1 DEF Content
<1> QED BY <1>13 DEF Contents

LEMMA SucceedContents ==
    ASSUME Typed, QueueIsNext, Contents, FlushSucceeds
    PROVE  Contents'
<1>1. PICK b \in Nat : Content(b)
  BY DEF Contents
<1>2. /\ fPc = "write" /\ remaining = 0 /\ cache' = <<>> /\ fPc' = "done"
      /\ UNCHANGED <<remaining, file, ioError, fsync, accepted, queue>>
      /\ synced' = IF fsync THEN Len(file) ELSE synced
      /\ Total' = Total
  BY DEF FlushSucceeds, FlushOthers, Total
<1>3. /\ Len(cache) \in Nat /\ Total \in Nat /\ file \in Seq(Stream) /\ Len(file) \in Nat
      /\ Len(cache') = 0
  BY <1>2, TotalNat DEF Typed
<1>4. 1 .. Total \subseteq RangeOf(file) /\ RangeOf(file) \subseteq 1 .. Total
  <2>1. (b + Len(cache)) - remaining = Total
    BY <1>1, <1>2, <1>3 DEF Content
  <2> QED BY <1>1, <1>2, <2>1 DEF Content
<1>5. SubSeq(file, 1, Len(file)) = file
  BY <1>3
<1>6. ~ioError => Run(file, 0) /\ Len(file) = Total
  BY <1>1, <1>2, <1>3 DEF Content
<1>7. Run(cache', Total)
  BY <1>3 DEF Run
<1>8. Content(Total)'
  <2>1. RangeOf(file') = RangeOf(file) /\ (Run(file, 0) => Run(file', 0))
    BY <1>2 DEF RangeOf, Run
  <2>2. fsync' => 1 .. Total' \subseteq RangeOf(SubSeq(file', 1, synced'))
    BY <1>2, <1>4, <1>5
  <2> QED BY <1>2, <1>3, <1>4, <1>6, <1>7, <2>1, <2>2 DEF Content
<1> QED BY <1>2, <1>3, <1>8 DEF Contents

LEMMA NextContents ==
    Typed /\ QueueIsNext /\ Control /\ Contents /\ [Next]_vars => Contents'
<1> SUFFICES ASSUME Typed, QueueIsNext, Control, Contents, [Next]_vars PROVE Contents'
  OBVIOUS
<1>1. PICK b \in Nat : Content(b)
  BY DEF Contents
(* What neither moves a frame nor a sample, nor ends or starts a write. *)
<1>2. CASE /\ UNCHANGED <<fsync, cache, file, synced, ioError, remaining>> /\ Total' = Total
           /\ fPc' = "write" => fPc = "write"
           /\ fPc = "write" => fPc' = "write"
  <2>1. Content(b)'
    BY <1>1, <1>2 DEF Content, Run, RangeOf
  <2> QED BY <2>1 DEF Contents
<1>3. CASE UNCHANGED vars
  BY <1>2, <1>3 DEF vars, flush, Total
<1>4. CASE Accept
  <2>1. /\ accepted' = accepted + 1 /\ queue' = Append(queue, accepted + 1)
        /\ UNCHANGED <<fsync, flush>>
    BY <1>4 DEF Accept, Queue!Push
  <2>2. Total' = Total
    <3>1. Len(queue') = Len(queue) + 1 /\ Len(queue) \in Nat /\ accepted \in Nat
      BY <2>1, Constants DEF Typed
    <3>2. accepted' - Len(queue') = accepted - Len(queue)
      BY <2>1, <3>1
    <3> QED BY <3>2 DEF Total
  <2> QED BY <1>2, <2>1, <2>2 DEF flush
<1>5. CASE Start
  BY <1>2, <1>5 DEF Start, Total
<1>6. CASE FlushCalled
  <2>1. CASE ~(open /\ cache # <<>>)
    BY <1>2, <1>6, <2>1 DEF FlushCalled, CallFlush, Total
  <2>2. CASE open /\ cache # <<>>
    <3>1. /\ fPc' = "write" /\ remaining' = Len(cache) /\ Total' = Total /\ fPc = "none"
          /\ UNCHANGED <<cache, file, synced, ioError, fsync>>
      BY <1>6, <2>2 DEF FlushCalled, CallFlush, Total
    <3>2. Len(cache) \in Nat /\ (b + Len(cache)) - Len(cache) = b
      BY DEF Typed
    <3>3. Content(b)'
      BY <1>1, <3>1, <3>2 DEF Content, Run, RangeOf
    <3> QED BY <3>3 DEF Contents
  <2> QED BY <2>1, <2>2
<1>7. CASE FlushFails
  <2>1. /\ fPc' = "failed" /\ ioError' = TRUE /\ UNCHANGED <<cache, file, synced, fsync>>
        /\ Total' = Total
    BY <1>7 DEF FlushFails, FlushOthers, Total
  <2>2. Content(b)'
    BY <1>1, <2>1 DEF Content, Run, RangeOf
  <2> QED BY <2>2 DEF Contents
<1>8. CASE WorkerPop /\ Take(wPc, "check", "flush")
  <2>1. fPc = "none"
    BY <1>8 DEF WorkerPop, Typed, Control
  <2> QED BY <1>8, <2>1, TakeContents DEF Take, TakesFrame
<1>9. CASE Drain /\ Take(mPc, "drain", "drainFlush")
  <2>1. fPc = "none"
    BY <1>9 DEF Drain, Typed, Control
  <2> QED BY <1>9, <2>1, TakeContents DEF Take, TakesFrame
<1>10. CASE WorkerCheck \/ WorkerSize \/ Stop \/ Join \/ Destroy
  BY <1>2, <1>10 DEF WorkerCheck, WorkerSize, Stop, Join, Destroy, flush, Total
<1>11. CASE WorkerPop
  <2>1. CASE UNCHANGED <<fsync, accepted, queue, flush>>
    BY <1>2, <2>1 DEF flush, Total
  <2> QED BY <1>8, <1>11, <2>1 DEF WorkerPop
<1>12. CASE Drain
  <2>1. CASE UNCHANGED <<fsync, accepted, queue, flush>>
    BY <1>2, <2>1 DEF flush, Total
  <2> QED BY <1>9, <1>12, <2>1 DEF Drain
<1>13. CASE WorkerFlushed \/ DrainFlushed \/ Close
  BY <1>2, <1>13 DEF WorkerFlushed, DrainFlushed, Close, Returned, Total
<1>14. CASE Worker \/ Main \/ Stop
  BY <1>10, <1>11, <1>12, <1>13, <1>14 DEF Worker, Main
<1>15. CASE Flush
  BY <1>6, <1>7, <1>15, WriteContents, SucceedContents DEF Flush
<1> QED BY <1>3, <1>4, <1>5, <1>14, <1>15 DEF Next, Exited
-----------------------------------------------------------------------------
(* The inductive invariant, and what follows from it.                      *)

Inv == Typed /\ QueueIsNext /\ Control /\ Fill /\ Contents

LEMMA Invariance == Spec => []Inv
<1>1. Init => Inv
  BY InitTyped, InitContents DEF Inv
<1>2. Inv /\ [Next]_vars => Inv'
  BY NextTyped, NextContents DEF Inv
<1> QED BY <1>1, <1>2, PTL DEF Spec

(* Every variable keeps its type; the queue does not exceed its capacity.  *)
THEOREM TypeCorrect == Spec => []TypeOK
<1>1. Inv => TypeOK
  BY DEF Inv, Typed, TypeOK, Stream
<1> QED BY <1>1, Invariance, PTL

(* Without an I/O error, file and unwritten cache are the sample stream.   *)
THEOREM FileHoldsStream == Spec => []FileIsStream
<1>1. ASSUME Inv, ~ioError
      PROVE  LET sofar == file \o Unwritten
             IN  /\ Len(sofar) = (accepted - Len(queue)) * BlockLen
                 /\ \A i \in 1 .. Len(sofar) : sofar[i] = i
  <2>1. PICK b \in Nat : Content(b)
    BY <1>1 DEF Inv, Contents
  <2>2. /\ b + Len(cache) = Total /\ Run(cache, b) /\ Run(file, 0)
        /\ Len(file) + (IF fPc = "write" THEN remaining ELSE Len(cache)) = Total
    BY <1>1, <2>1 DEF Content
  <2>3. /\ cache \in Seq(Stream) /\ file \in Seq(Stream) /\ remaining \in 0 .. Len(cache)
        /\ Len(cache) \in Nat /\ Len(file) \in Nat /\ Total \in Nat
    BY <1>1, TotalNat DEF Inv, Typed
  <2>4. Unwritten \in Seq(Stream) /\ Run(Unwritten, Len(file))
        /\ Len(file) + Len(Unwritten) = Total
    <3>1. CASE fPc # "write"
      <4>1. b = Len(file) /\ Unwritten = cache
        BY <2>2, <2>3, <3>1 DEF Unwritten
      <4> QED BY <2>2, <2>3, <4>1
    <3>2. CASE fPc = "write"
      <4> DEFINE d == Len(cache) - remaining
      <4>1. d \in Nat /\ remaining \in Nat /\ d + remaining = Len(cache)
        BY <2>3
      <4>2. Unwritten = SubSeq(cache, d + 1, d + remaining)
        BY <3>2, <4>1 DEF Unwritten
      <4> HIDE DEF d
      <4>3. Unwritten \in Seq(Stream) /\ Len(Unwritten) = remaining /\ Run(Unwritten, b + d)
        <5> DEFINE t == SubSeq(cache, d + 1, d + remaining)
        <5>1. cache \in Seq(Stream) /\ Run(cache, b) /\ d + remaining <= Len(cache)
          BY <2>2, <2>3, <4>1
        <5>2. t \in Seq(Stream) /\ Len(t) = remaining /\ Run(t, b + d)
          BY <4>1, <5>1, RunPiece
        <5>3. Unwritten = t
          BY <4>2
        <5> QED BY <5>2, <5>3
      <4>4. Len(file) + remaining = Total
        BY <2>2, <3>2
      <4>5. b + d = Len(file)
        BY <2>2, <2>3, <4>1, <4>4
      <4> QED BY <4>3, <4>4, <4>5
    <3> QED BY <3>1, <3>2
  <2> DEFINE s == file \o Unwritten
  <2>5. Len(s) = Total
    BY <2>3, <2>4
  <2>6. Run(s, 0)
    <3>1. Run(Unwritten, 0 + Len(file))
      BY <2>3, <2>4
    <3> QED BY <2>2, <2>3, <2>4, <3>1, RunConcat
  <2> HIDE DEF s
  <2>7. \A i \in 1 .. Len(s) : s[i] = i
    BY <2>5, <2>6, <2>3 DEF Run
  <2> QED BY <2>5, <2>7 DEF s, Total
<1>2. Inv => FileIsStream
  BY <1>1 DEF FileIsStream
<1> QED BY <1>2, Invariance, PTL

(* Whatever fails, the samples taken from the queue are those in the file  *)
(* and those in the cache.                                                 *)
THEOREM SamplesAreKept == Spec => []NothingForgotten
<1>1. ASSUME Inv PROVE NothingForgotten
  <2>1. PICK b \in Nat : Content(b)
    BY <1>1 DEF Inv, Contents
  <2>2. /\ b + Len(cache) = Total /\ Run(cache, b) /\ cache \in Seq(Stream) /\ Len(cache) \in Nat
        /\ RangeOf(file) \subseteq 1 .. Total /\ 1 .. b \subseteq RangeOf(file)
    BY <1>1, <2>1 DEF Content, Inv, Typed
  <2>3. RangeOf(cache) = b + 1 .. b + Len(cache)
    BY <2>2, RangeOfRun
  <2>4. 1 .. Total = (1 .. b) \cup (b + 1 .. b + Len(cache))
    BY <2>2
  <2>5. RangeOf(file) \cup RangeOf(cache) = 1 .. Total
    BY <2>2, <2>3, <2>4
  <2> QED BY <2>5 DEF NothingForgotten, Total
<1>2. Inv => NothingForgotten
  BY <1>1
<1> QED BY <1>2, Invariance, PTL

(* With fsync on flush, a power failure loses nothing but the cache.       *)
THEOREM SyncedOrCached == Spec => []CrashLosesOnlyCache
<1>1. ASSUME Inv, fsync
      PROVE  1 .. (accepted - Len(queue)) * BlockLen
                 \subseteq RangeOf(SubSeq(file, 1, synced)) \cup RangeOf(cache)
  <2>1. PICK b \in Nat : Content(b)
    BY <1>1 DEF Inv, Contents
  <2>2. /\ b + Len(cache) = Total /\ Run(cache, b) /\ cache \in Seq(Stream) /\ Len(cache) \in Nat
        /\ 1 .. b \subseteq RangeOf(SubSeq(file, 1, synced))
    BY <1>1, <2>1 DEF Content, Inv, Typed
  <2>3. RangeOf(cache) = b + 1 .. b + Len(cache)
    BY <2>2, RangeOfRun
  <2>4. 1 .. Total = (1 .. b) \cup (b + 1 .. b + Len(cache))
    BY <2>2
  <2>5. 1 .. Total \subseteq RangeOf(SubSeq(file, 1, synced)) \cup RangeOf(cache)
    BY <2>2, <2>3, <2>4
  <2> QED BY <2>5 DEF Total
<1>2. Inv => CrashLosesOnlyCache
  BY <1>1 DEF CrashLosesOnlyCache
<1> QED BY <1>2, Invariance, PTL

(* The cache stays within a block of the threshold; after an I/O error,    *)
(* within a full queue more.                                               *)
THEOREM CacheIsBounded == Spec => []CacheBounded
<1>1. ASSUME Inv PROVE CacheBounded
  <2>1. Len(cache) \in Nat /\ Len(queue) \in Nat
    BY <1>1 DEF Inv, Typed
  <2>2. QueueCap * BlockLen \in Nat /\ Len(queue) * BlockLen \in Nat
    BY <2>1, ProductMonotonic, Constants
  <2>3. BlockLen * (1 + QueueCap) = BlockLen + QueueCap * BlockLen /\ BlockLen * 1 = BlockLen
    BY ProductSuccessor, Constants
  <2>4. ~ioError => Len(cache) < FlushLen + BlockLen
    BY <1>1 DEF Inv, Fill
  <2>5. Len(cache) < FlushLen + BlockLen + QueueCap * BlockLen
    <3>1. \/ Len(cache) < FlushLen + BlockLen
          \/ Len(cache) + Len(queue) * BlockLen < FlushLen + BlockLen + QueueCap * BlockLen
      BY <1>1 DEF Inv, Fill
    <3> QED BY <2>1, <2>2, <3>1, Constants
  <2> QED BY <2>1, <2>2, <2>3, <2>4, <2>5, Constants DEF CacheBounded
<1>2. Inv => CacheBounded
  BY <1>1
<1> QED BY <1>2, Invariance, PTL

(* When stop() has returned, the queue is empty and, without an I/O error, *)
(* the file complete.                                                      *)
THEOREM StopEmptiesAll == Spec => []StopDrains
<1>1. ASSUME Inv, mPc \in {"closed", "exited"}
      PROVE  queue = <<>> /\ (~ioError => Len(file) = accepted * BlockLen)
  <2>1. queue = <<>> /\ (~ioError => cache = <<>>) /\ fPc # "write"
    BY <1>1 DEF Inv, Typed, Control
  <2>2. PICK b \in Nat : Content(b)
    BY <1>1 DEF Inv, Contents
  <2>3. Total = accepted * BlockLen
    <3>1. Len(queue) = 0 /\ accepted - 0 = accepted
      BY <1>1, <2>1, Constants DEF Inv, Typed
    <3> QED BY <3>1 DEF Total
  <2>4. Len(file) \in Nat
    BY <1>1 DEF Inv, Typed
  <2>5. ~ioError => Len(file) + Len(cache) = Total /\ Len(cache) = 0
    BY <2>1, <2>2 DEF Content
  <2> QED BY <2>1, <2>3, <2>4, <2>5
<1>2. Inv => StopDrains
  BY <1>1 DEF StopDrains
<1> QED BY <1>2, Invariance, PTL
=============================================================================
