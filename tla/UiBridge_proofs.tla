-------------------------- MODULE UiBridge_proofs ---------------------------
(***************************************************************************)
(* Proofs about the user interface bridge, for any number of frames: the   *)
(* newest frame is never lost and the picture never goes back in time; and *)
(* about what main does before the event loop and the DSP thread does to   *)
(* its blocks: playing a file frame by frame, and processing a block as if *)
(* it were the first.                                                      *)
(***************************************************************************)
EXTENDS UiBridge, TLAPS

-----------------------------------------------------------------------------
(* The inductive invariant *)

EventsTyped == events \in Seq(1 .. NFrames)
FramesTyped == posted \in 0 .. NFrames /\ pending \in 0 .. NFrames /\ rendered \in 0 .. NFrames
ThreadsTyped ==
    /\ running \in BOOLEAN /\ timerDue \in BOOLEAN
    /\ sPc \in {"off", "check", "pop", "post", "done"}
    /\ mPc \in {"start", "playback", "exec", "join", "exited"}

(* a frame is processed only while the bound allows another one            *)
Bounded == sPc = "post" => posted < NFrames

(* the thread is joined before main ends                                   *)
Joining ==
    /\ mPc = "exited" => sPc = "done"
    /\ mPc = "start" => sPc = "off"

(* the frame main has got last *)
Arrived == IF pending = None THEN rendered ELSE pending

(* What is between the DSP thread and the screen is the frames up to the   *)
(* newest, without a gap: main has the newest of those before the queue,   *)
(* and what waits to be drawn is newer than the picture.                   *)
Line ==
    /\ Arrived + Len(events) = posted
    /\ \A i \in 1 .. Len(events) : events[i] = Arrived + i
    /\ pending # None => rendered < pending

Inv == EventsTyped /\ FramesTyped /\ ThreadsTyped /\ Bounded /\ Joining /\ Line

-----------------------------------------------------------------------------
(* What the invariant says of the properties *)

(* The invariant contains both properties. *)
LEMMA InvIsEnough == Inv => TypeOK /\ NewestSurvives
<1>. SUFFICES ASSUME Inv PROVE TypeOK /\ NewestSurvives
  OBVIOUS
<1>1. TypeOK
  BY DEF Inv, EventsTyped, FramesTyped, ThreadsTyped, Joining, TypeOK
<1>2. NewestSurvives
  <2>1. Len(events) \in Nat /\ posted \in Int /\ pending \in Int /\ rendered \in Int
    BY DEF Inv, EventsTyped, FramesTyped
  <2>2. CASE Len(events) = 0
    BY <2>1, <2>2 DEF Inv, Line, Arrived, NewestSurvives
  <2>3. CASE Len(events) # 0
    <3>1. Len(events) \in 1 .. Len(events)
      BY <2>1, <2>3
    <3>2. events[Len(events)] = posted
      BY <2>1, <3>1 DEF Inv, Line, Arrived
    <3>. QED
      BY <3>1, <3>2 DEF NewestSurvives
  <2>. QED
    BY <2>2, <2>3
<1>. QED
  BY <1>1, <1>2

-----------------------------------------------------------------------------
(* The steps *)

(* nothing has been posted *)
LEMMA InitHolds == Init => Inv
<1>. SUFFICES ASSUME Init PROVE Inv
  OBVIOUS
<1>1. /\ running = FALSE /\ timerDue = FALSE /\ sPc = "off" /\ mPc = "start"
      /\ posted = 0 /\ pending = 0 /\ rendered = 0 /\ events = <<>>
  BY DEF Init, None
<1>2. EventsTyped /\ FramesTyped
  BY <1>1, UiAssumption DEF EventsTyped, FramesTyped
<1>3. ThreadsTyped /\ Bounded /\ Joining
  BY <1>1 DEF ThreadsTyped, Bounded, Joining
<1>4. Line
  BY <1>1 DEF Line, Arrived, None
<1>. QED
  BY <1>2, <1>3, <1>4 DEF Inv

(* the head and the tail of the queue of events *)
LEMMA Dequeue ==
    ASSUME NEW S, NEW s \in Seq(S), s # <<>>
    PROVE  /\ Len(s) \in Nat /\ Len(s) >= 1 /\ Head(s) = s[1] /\ s[1] \in S
           /\ Tail(s) \in Seq(S) /\ Len(Tail(s)) + 1 = Len(s) /\ Len(Tail(s)) \in Nat
           /\ \A i \in 1 .. Len(Tail(s)) : Tail(s)[i] = s[i + 1]
OBVIOUS

(* what a step that leaves the frames on their way alone has to show *)
LEMMA LineUntouched ==
    ASSUME EventsTyped, FramesTyped, Line, UNCHANGED <<posted, events, pending, rendered>>
    PROVE  EventsTyped' /\ FramesTyped' /\ Line'
BY DEF EventsTyped, FramesTyped, Line, Arrived

(* The DSP thread touches the queue of events only to append to it. *)
LEMMA DspKeeps == Inv /\ Dsp => Inv'
<1>. SUFFICES ASSUME Inv, Dsp PROVE Inv'
  OBVIOUS
<1>. USE DEF Inv
<1>1. CASE DspCheck \/ DspPopNothing \/ DspPop
  <2>1. EventsTyped' /\ FramesTyped' /\ Line'
    BY <1>1, LineUntouched DEF DspCheck, DspPopNothing, DspPop
  <2>2. ThreadsTyped' /\ Joining' /\ Bounded'
    <3>1. CASE DspCheck
      BY <3>1 DEF DspCheck, ThreadsTyped, Joining, Bounded
    <3>2. CASE DspPopNothing
      BY <3>2 DEF DspPopNothing, ThreadsTyped, Joining, Bounded
    <3>3. CASE DspPop
      BY <3>3 DEF DspPop, ThreadsTyped, Joining, Bounded
    <3>. QED
      BY <1>1, <3>1, <3>2, <3>3
  <2>. QED
    BY <2>1, <2>2
<1>2. CASE DspPost
  <2>1. /\ posted' = posted + 1 /\ events' = Append(events, posted + 1)
        /\ posted < NFrames /\ sPc = "post" /\ sPc' = "check"
        /\ UNCHANGED <<running, timerDue, pending, rendered, mPc>>
    BY <1>2 DEF DspPost, Bounded
  <2>2. ThreadsTyped' /\ Joining' /\ Bounded'
    BY <2>1 DEF ThreadsTyped, Joining, Bounded
  <2>3. FramesTyped' /\ posted + 1 \in 1 .. NFrames
    BY <2>1, UiAssumption DEF FramesTyped
  <2>4. EventsTyped'
    BY <2>1, <2>3 DEF EventsTyped
  <2>5. Line'
    <3>1. /\ Len(events) \in Nat /\ Len(events') = Len(events) + 1
          /\ events'[Len(events) + 1] = posted + 1
          /\ \A i \in 1 .. Len(events) : events'[i] = events[i]
      BY <2>1, <2>3 DEF EventsTyped
    <3>2. Arrived' = Arrived /\ Arrived \in Int /\ posted \in Int
      BY <2>1 DEF Arrived, FramesTyped
    <3>3. pending' # None => rendered' < pending'
      BY <2>1 DEF Line
    <3>4. Arrived + Len(events) = posted /\ \A i \in 1 .. Len(events) : events[i] = Arrived + i
      BY DEF Line
    <3>5. Arrived' + Len(events') = posted'
      BY <2>1, <3>1, <3>2, <3>4
    <3>6. \A i \in 1 .. Len(events') : events'[i] = Arrived' + i
      <4>1. \A i \in 1 .. Len(events') : i \in 1 .. Len(events) \/ i = Len(events) + 1
        BY <3>1
      <4>2. posted + 1 = Arrived + (Len(events) + 1)
        BY <3>1, <3>2, <3>4
      <4>. QED
        BY <3>1, <3>2, <3>4, <4>1, <4>2
    <3>. QED
      BY <3>3, <3>5, <3>6 DEF Line
  <2>. QED
    BY <2>2, <2>3, <2>4, <2>5
<1>. QED
  BY <1>1, <1>2 DEF Dsp

(* the first frame of the queue is newer than all main has seen *)
LEMMA EnqueueFrameKeeps == Inv /\ EnqueueFrame => Inv' /\ rendered' = rendered
<1>. SUFFICES ASSUME Inv, EnqueueFrame PROVE Inv' /\ rendered' = rendered
  OBVIOUS
<1>. USE DEF Inv
<1>1. /\ events # <<>> /\ pending' = Head(events) /\ events' = Tail(events)
      /\ UNCHANGED <<running, sPc, posted, timerDue, rendered, mPc>>
  BY DEF EnqueueFrame, dsp
<1>2. ThreadsTyped' /\ Joining' /\ Bounded'
  BY <1>1 DEF ThreadsTyped, Joining, Bounded
<1>3. /\ Len(events) \in Nat /\ Len(events) >= 1 /\ Head(events) = events[1]
      /\ events[1] \in 1 .. NFrames
      /\ events' \in Seq(1 .. NFrames) /\ Len(events') + 1 = Len(events) /\ Len(events') \in Nat
      /\ \A i \in 1 .. Len(events') : events'[i] = events[i + 1]
  BY <1>1, Dequeue DEF EventsTyped
<1>4. FramesTyped' /\ EventsTyped'
  BY <1>1, <1>3, UiAssumption DEF FramesTyped, EventsTyped
<1>5. Line'
  <2>1. Arrived \in Int /\ posted \in Int /\ rendered \in Int /\ rendered <= Arrived
    BY DEF Line, Arrived, FramesTyped
  <2>2. pending' = Arrived + 1
    BY <1>1, <1>3, <2>1 DEF Line
  <2>3. pending' # None /\ Arrived' = Arrived + 1
    BY <1>1, <1>3, <2>2, UiAssumption DEF Arrived, None
  <2>4. Arrived' + Len(events') = posted'
    BY <1>1, <1>3, <2>1, <2>3 DEF Line
  <2>5. \A i \in 1 .. Len(events') : events'[i] = Arrived' + i
    <3>1. \A i \in 1 .. Len(events') : i + 1 \in 1 .. Len(events)
      BY <1>3
    <3>. QED
      BY <1>3, <2>1, <2>3, <3>1 DEF Line
  <2>6. rendered' < pending'
    BY <1>1, <2>1, <2>2
  <2>. QED
    BY <2>4, <2>5, <2>6 DEF Line
<1>. QED
  BY <1>1, <1>2, <1>4, <1>5

(* what was pending is on the screen, and was newer than the picture *)
LEMMA RenderTickKeeps ==
    Inv /\ RenderTick => Inv' /\ (rendered' # rendered => rendered' > rendered)
<1>. SUFFICES ASSUME Inv, RenderTick
              PROVE  Inv' /\ (rendered' # rendered => rendered' > rendered)
  OBVIOUS
<1>. USE DEF Inv
<1>1. /\ pending' = None /\ rendered' = Arrived /\ timerDue' = FALSE
      /\ UNCHANGED <<running, sPc, posted, events, mPc>>
  BY DEF RenderTick, Arrived, dsp
<1>2. ThreadsTyped' /\ Joining' /\ Bounded' /\ EventsTyped'
  BY <1>1 DEF ThreadsTyped, Joining, Bounded, EventsTyped
<1>3. FramesTyped'
  BY <1>1, UiAssumption DEF FramesTyped, Arrived, None
<1>4. Arrived' = Arrived
  BY <1>1 DEF Arrived
<1>5. Line'
  BY <1>1, <1>4 DEF Line
<1>6. rendered' # rendered => rendered' > rendered
  BY <1>1 DEF Line, Arrived, FramesTyped
<1>. QED
  BY <1>2, <1>3, <1>5, <1>6

(* main and the timer leave the frames alone *)
LEMMA OthersKeep ==
    ASSUME Inv,
           \/ TimerElapses \/ Main \/ Playing(WriteFrames) \/ Quit \/ Exited
           \/ UNCHANGED vars
    PROVE  Inv' /\ rendered' = rendered
<1>. USE DEF Inv, dsp, vars
<1>1. UNCHANGED <<posted, events, pending, rendered>>
  BY DEF TimerElapses, Main, StartDsp, Playing, Exec, Joined, Quit, Exited
<1>2. EventsTyped' /\ FramesTyped' /\ Line'
  BY <1>1, LineUntouched
<1>3. ThreadsTyped'
  BY DEF TimerElapses, Main, StartDsp, Playing, Exec, Joined, Quit, Exited, ThreadsTyped
<1>4. Joining' /\ Bounded'
  BY <1>1 DEF TimerElapses, Main, StartDsp, Playing, Exec, Joined, Quit, Exited, Joining, Bounded
<1>. QED
  BY <1>1, <1>2, <1>3, <1>4

(* Each step keeps the invariant, and draws nothing older than what is     *)
(* shown.                                                                  *)
LEMMA InvStep == Inv /\ [Next]_vars => Inv' /\ (rendered' # rendered => rendered' > rendered)
<1>. SUFFICES ASSUME Inv, [Next]_vars
              PROVE  Inv' /\ (rendered' # rendered => rendered' > rendered)
  OBVIOUS
<1>1. CASE Dsp
  <2>1. rendered' = rendered
    BY <1>1 DEF Dsp, DspCheck, DspPopNothing, DspPop, DspPost
  <2>. QED
    BY <1>1, <2>1, DspKeeps
<1>2. CASE EnqueueFrame
  BY <1>2, EnqueueFrameKeeps
<1>3. CASE RenderTick
  BY <1>3, RenderTickKeeps
<1>4. CASE \/ TimerElapses \/ Main \/ Playing(WriteFrames) \/ Quit \/ Exited
           \/ UNCHANGED vars
  BY <1>4, OthersKeep
<1>. QED
  BY <1>1, <1>2, <1>3, <1>4 DEF Next

LEMMA InvHolds == Spec => []Inv
BY InitHolds, InvStep, PTL DEF Spec

-----------------------------------------------------------------------------
(* The theorems *)

(* The types, and no thread outlives main. *)
THEOREM TypeCorrect == Spec => []TypeOK
BY InvHolds, InvIsEnough, PTL

(* For any number of frames and however long the event loop is kept from   *)
(* its queue: the newest frame posted is on the screen, waits to be drawn, *)
(* or waits for the event loop.                                            *)
THEOREM NewestIsNeverLost == Spec => []NewestSurvives
BY InvHolds, InvIsEnough, PTL

(* The picture never goes back in time, whatever is dropped between.       *)
THEOREM PictureGoesForward == Spec => RenderOrder
<1>1. Inv /\ [Next]_vars => [rendered' # rendered => rendered' > rendered]_vars
  BY InvStep
<1>. QED
  BY <1>1, InvHolds, PTL DEF Spec, RenderOrder

-----------------------------------------------------------------------------
(* The blocks: what process_block makes of one does not depend on those    *)
(* that went through the same buffers before                               *)

FramesIn(b) == Len(b.samples) \div Max({1, b.channels})

(* The size of the transform is a number.  For the sizes of the blocks the *)
(* recursive function in FloorPow2 is written down, so that there is one   *)
(* that satisfies its equation; any other gives the same at 1.             *)
LEMMA PowerIsNumber ==
    ASSUME NEW n \in 0 .. 15
    PROVE  FloorPow2(n) \in Nat
<1>. DEFINE Grows(g) == g = [p \in Nat |-> IF 2 * p <= n THEN g[2 * p] ELSE p]
            top == [p \in Nat |-> IF p = 0 THEN 0
                                  ELSE IF 2 * p > n THEN p
                                  ELSE IF 4 * p > n THEN 2 * p
                                  ELSE IF 8 * p > n THEN 4 * p ELSE 8 * p]
            grow == CHOOSE g : Grows(g)
<1>1. Grows(top)
  <2>1. ASSUME NEW p \in Nat
        PROVE  top[p] = IF 2 * p <= n THEN top[2 * p] ELSE p
    <3>1. 2 * p \in Nat
      OBVIOUS
    <3>. QED
      BY <3>1
  <2>. QED
    BY <2>1
<1>2. Grows(grow)
  BY <1>1
<1>3. FloorPow2(n) = grow[1]
  BY DEF FloorPow2
<1>. HIDE DEF grow
<1>4. \A p \in Nat : grow[p] = IF 2 * p <= n THEN grow[2 * p] ELSE p
  BY <1>2
<1>. HIDE DEF Grows
<1>5. grow[16] = 16 /\ (n < 8 => grow[8] = 8) 
  BY <1>4
<1>6. grow[8] \in Nat /\ grow[4] = IF 8 <= n THEN grow[8] ELSE 4
  BY <1>4, <1>5
<1>7. grow[2] = IF 4 <= n THEN grow[4] ELSE 2
  BY <1>4
<1>8. grow[1] = IF 2 <= n THEN grow[2] ELSE 1
  BY <1>4
<1>. QED
  BY <1>3, <1>6, <1>7, <1>8

LEMMA SizesAreNumbers == \A b \in Blocks : FloorPow2(FramesIn(b)) \in Nat
<1>1. ASSUME NEW c \in Nat, NEW n \in Nat
      PROVE  FramesIn(Block(c, n)) = n \div Max({1, c})
  <2>1. Block(c, n).channels = c /\ Len(Block(c, n).samples) = n
    BY DEF Block
  <2>. QED
    BY <2>1 DEF FramesIn
<1>2. Max({1, 1}) = 1 /\ Max({1, 0}) = 1 /\ Max({1, 2}) = 2
  BY DEF Max
<1>3. 1 \div 1 = 1 /\ 4 \div 1 = 4 /\ 7 \div 1 = 7 /\ 17 \div 2 = 8
  OBVIOUS
<1>4. /\ FramesIn(Block(1, 1)) = 1 /\ FramesIn(Block(0, 4)) = 4
      /\ FramesIn(Block(1, 7)) = 7 /\ FramesIn(Block(2, 17)) = 8
  <2>1. FramesIn(Block(1, 1)) = 1 /\ FramesIn(Block(0, 4)) = 4
    BY <1>1, <1>2, <1>3
  <2>2. FramesIn(Block(1, 7)) = 7 /\ FramesIn(Block(2, 17)) = 8
    BY <1>1, <1>2, <1>3
  <2>. QED
    BY <2>1, <2>2
<1>. QED
  BY <1>4, PowerIsNumber DEF Blocks

(* the window is that of its size                                          *)
WindowFits(w) == w.window = WindowOf(w.windowSize)

ShowsFresh ==
    sPc = "post" => /\ frame.block \in Blocks
                    /\ frame.spectrum = Fresh(frame.block).spectrum
                    /\ frame.envelope = Fresh(frame.block).envelope

(* Before the first block there is no window to be wrong. *)
LEMMA NoWorkspaceFits == WindowFits(NoWorkspace)
BY DEF WindowFits, NoWorkspace, WindowOf

(* the buffers a block is processed in, whatever they were before          *)
LEMMA SizedWorkspace ==
    ASSUME NEW w, WindowFits(w), NEW n, FloorPow2(n) \in Nat
    PROVE  LET sized == EnsureWorkspace(w, n)
           IN  /\ sized = [mono |-> sized.mono, fft |-> sized.fft,
                           window |-> sized.window, windowSize |-> sized.windowSize]
               /\ Len(sized.fft) = FloorPow2(n)
               /\ sized.window = WindowOf(FloorPow2(n))
               /\ sized.windowSize = FloorPow2(n)
<1>. DEFINE size == FloorPow2(n)
<1>1. EnsureWorkspace(w, n) =
          [mono |-> IF Len(w.mono) # n THEN Zero(n) ELSE w.mono,
           fft |-> IF Len(w.fft) # size THEN Zero(size) ELSE w.fft,
           window |-> IF w.windowSize # size THEN WindowOf(size) ELSE w.window,
           windowSize |-> size]
  BY DEF EnsureWorkspace
<1>. HIDE DEF size
<1>2. Len(Zero(size)) = size
  <2>1. size \in Nat
    BY DEF size
  <2>. QED
    BY <2>1 DEF Zero
<1>. QED
  BY <1>1, <1>2 DEF WindowFits, size

(* A block leaves no trace in what the next one is turned into. *)
LEMMA WorkspaceIsForgotten ==
    ASSUME NEW w, WindowFits(w), NEW b, FloorPow2(FramesIn(b)) \in Nat
    PROVE  /\ ProcessBlock(w, b).spectrum = Fresh(b).spectrum
           /\ ProcessBlock(w, b).envelope = Fresh(b).envelope
           /\ WindowFits(ProcessBlock(w, b).ws)
<1>. DEFINE n == FramesIn(b)
            size == FloorPow2(n)
            mono == [i \in 1 .. n |-> b.samples[(i - 1) * Max({1, b.channels}) + 1]]
            filled(v) == [EnsureWorkspace(v, n) EXCEPT !.mono = mono]
            fft(v) == Transformed(Len(filled(v).fft), filled(v).mono, filled(v).window)
<1>1. \A v : ProcessBlock(v, b) =
               IF n < 2 THEN [ws |-> v, spectrum |-> <<>>, envelope |-> <<>>]
               ELSE [ws |-> [filled(v) EXCEPT !.fft = fft(v)],
                     spectrum |-> SubSeq(fft(v), 1, Len(fft(v)) \div 2),
                     envelope |-> EnvelopeOf(filled(v).mono)]
  BY DEF ProcessBlock, FramesIn
<1>2. ASSUME NEW v, WindowFits(v)
      PROVE  /\ filled(v).mono = mono /\ Len(filled(v).fft) = size
             /\ filled(v).window = WindowOf(size) /\ filled(v).windowSize = size
             /\ [filled(v) EXCEPT !.fft = fft(v)].window = WindowOf(size)
             /\ [filled(v) EXCEPT !.fft = fft(v)].windowSize = size
  <2>. DEFINE sized == EnsureWorkspace(v, n)
              kept == fft(v)
  <2>1. /\ sized = [mono |-> sized.mono, fft |-> sized.fft,
                    window |-> sized.window, windowSize |-> sized.windowSize]
        /\ Len(sized.fft) = size /\ sized.window = WindowOf(size) /\ sized.windowSize = size
    BY <1>2, SizedWorkspace
  <2>. HIDE DEF sized, kept, mono, size
  <2>2. /\ [sized EXCEPT !.mono = mono].mono = mono
        /\ [sized EXCEPT !.mono = mono].fft = sized.fft
        /\ [sized EXCEPT !.mono = mono].window = WindowOf(size)
        /\ [sized EXCEPT !.mono = mono].windowSize = size
        /\ [[sized EXCEPT !.mono = mono] EXCEPT !.fft = kept].window = WindowOf(size)
        /\ [[sized EXCEPT !.mono = mono] EXCEPT !.fft = kept].windowSize = size
    BY <2>1
  <2>. QED
    BY <2>1, <2>2 DEF sized, kept
<1>3. WindowFits(NoWorkspace)
  BY NoWorkspaceFits
<1>4. fft(w) = fft(NoWorkspace) /\ filled(w).mono = filled(NoWorkspace).mono
  <2>1. filled(w).mono = mono /\ Len(filled(w).fft) = size /\ filled(w).window = WindowOf(size)
    BY <1>2
  <2>2. /\ filled(NoWorkspace).mono = mono /\ Len(filled(NoWorkspace).fft) = size
        /\ filled(NoWorkspace).window = WindowOf(size)
    BY <1>2, <1>3
  <2>. HIDE DEF filled, mono, size
  <2>. QED
    BY <2>1, <2>2
<1>5. CASE n < 2
  <2>. HIDE DEF n, filled, fft
  <2>. QED
    BY <1>1, <1>5 DEF Fresh
<1>6. CASE ~(n < 2)
  <2>1. /\ [filled(w) EXCEPT !.fft = fft(w)].window = WindowOf(size)
        /\ [filled(w) EXCEPT !.fft = fft(w)].windowSize = size
    BY <1>2
  <2>. HIDE DEF n, filled, fft, size
  <2>2. /\ ProcessBlock(w, b) =
               [ws |-> [filled(w) EXCEPT !.fft = fft(w)],
                spectrum |-> SubSeq(fft(w), 1, Len(fft(w)) \div 2),
                envelope |-> EnvelopeOf(filled(w).mono)]
        /\ Fresh(b) =
               [ws |-> [filled(NoWorkspace) EXCEPT !.fft = fft(NoWorkspace)],
                spectrum |-> SubSeq(fft(NoWorkspace), 1, Len(fft(NoWorkspace)) \div 2),
                envelope |-> EnvelopeOf(filled(NoWorkspace).mono)]
    BY <1>1, <1>6 DEF Fresh
  <2>3. WindowFits(ProcessBlock(w, b).ws)
    <3>. DEFINE left == [filled(w) EXCEPT !.fft = fft(w)]
    <3>1. left.window = WindowOf(size) /\ left.windowSize = size
      BY <2>1
    <3>. HIDE DEF left
    <3>2. left.window = WindowOf(left.windowSize)
      BY <3>1
    <3>3. ProcessBlock(w, b).ws = left
      BY <2>2 DEF left
    <3>. QED
      BY <3>2, <3>3 DEF WindowFits
  <2>. QED
    BY <1>4, <2>2, <2>3
<1>. QED
  BY <1>5, <1>6

BlockInv == WindowFits(ws) /\ ShowsFresh

(* The frame in the hand of the DSP thread, from state to state. *)
LEMMA BlockInit == Init => BlockInv
BY NoWorkspaceFits DEF Init, BlockInv, ShowsFresh

LEMMA BlockStep ==
    ASSUME BlockInv, [Next]_vars
    PROVE  BlockInv'
<1>1. CASE DspPop
  <2>1. PICK b \in Blocks :
            /\ ws' = ProcessBlock(ws, b).ws
            /\ frame' = [block |-> b, spectrum |-> ProcessBlock(ws, b).spectrum,
                         envelope |-> ProcessBlock(ws, b).envelope]
    BY <1>1 DEF DspPop
  <2>2. /\ ProcessBlock(ws, b).spectrum = Fresh(b).spectrum
        /\ ProcessBlock(ws, b).envelope = Fresh(b).envelope
        /\ WindowFits(ProcessBlock(ws, b).ws)
    BY WorkspaceIsForgotten, SizesAreNumbers DEF BlockInv
  <2>3. /\ frame'.block = b /\ frame'.spectrum = Fresh(b).spectrum
        /\ frame'.envelope = Fresh(b).envelope
    BY <2>1, <2>2
  <2>4. WindowFits(ws')
    BY <2>1, <2>2
  <2>. QED
    BY <2>3, <2>4 DEF BlockInv, ShowsFresh, WindowFits
<1>2. CASE UNCHANGED ws /\ (sPc' = "post" => sPc = "post" /\ UNCHANGED frame)
  BY <1>2 DEF BlockInv, ShowsFresh, WindowFits
<1>3. CASE DspCheck \/ DspPopNothing \/ DspPost
  BY <1>2, <1>3 DEF DspCheck, DspPopNothing, DspPost
<1>4. CASE EnqueueFrame \/ TimerElapses \/ RenderTick
  BY <1>2, <1>4 DEF EnqueueFrame, TimerElapses, RenderTick, dsp
<1>5. CASE Main \/ Playing(WriteFrames) \/ Quit
  BY <1>2, <1>5 DEF Main, StartDsp, Playing, Exec, Joined, Quit, dsp
<1>6. CASE Exited \/ UNCHANGED vars
  BY <1>2, <1>6 DEF Exited, vars, dsp
<1>. QED
  BY <1>1, <1>3, <1>4, <1>5, <1>6 DEF Next, Dsp

(* Whatever blocks of whatever sizes went before, the frame that is posted *)
(* is the one an engine with fresh buffers makes of its block.             *)
THEOREM BuffersLeaveNoTrace == Spec => []ShowsFresh
<1>1. BlockInv /\ [Next]_vars => BlockInv'
  BY BlockStep
<1>2. BlockInv => ShowsFresh
  BY DEF BlockInv
<1>. QED
  BY <1>1, <1>2, BlockInit, PTL DEF Spec

(* So if an engine shows the first block it gets as it is, which TLC       *)
(* evaluates for each of the blocks (MCUiBridge), it shows every block so. *)
THEOREM FramesShowTheirBlocks ==
    ASSUME FreshIsRight
    PROVE  Spec => []FrameShowsBlock
<1>1. ShowsFresh => FrameShowsBlock
  BY DEF ShowsFresh, FrameShowsBlock, FreshIsRight
<1>. QED
  BY <1>1, BuffersLeaveNoTrace, PTL

-----------------------------------------------------------------------------
(* The playback                                                            *)

Meanings == {Means(file) : file \in Files} \cup {Unreadable}
Playings == {"idle", "open", "params", "write", "recover", "over"}
Plays ==
    [pc : Playings, total : Nat, written : Nat, heard : Seq(Nat), open : BOOLEAN,
     means : Meanings, ok : BOOLEAN]

(* the device has been handed the frames up to the position of the stream  *)
Heard(p) ==
    /\ p.written <= p.total /\ Len(p.heard) = p.written
    /\ \A i \in 1 .. Len(p.heard) : p.heard[i] = i

(* where the call is says what is open and what has been read              *)
Stages(p) ==
    /\ p.pc = "idle" => p = Idle
    /\ p.pc \notin {"idle", "over"} =>
           /\ p.means.ok /\ ~p.ok
           /\ p.means.rate = PlaybackRate => p.total = p.means.frames
    /\ p.pc = "over" => ~p.open /\ (p.ok => p.means.ok /\ p.written = p.total)

PlayInv == play \in Plays /\ Heard(play) /\ Stages(play)

(* The invariant of the playback contains the property. *)
LEMMA PlayIsEnough == PlayInv => PlaysTheFile
<1>. SUFFICES ASSUME PlayInv PROVE PlaysTheFile
  OBVIOUS
<1>1. play.heard = [i \in 1 .. Len(play.heard) |-> i]
  <2>1. play.heard \in Seq(Nat)
    BY DEF PlayInv, Plays
  <2>. DEFINE h == play.heard
  <2>2. h \in Seq(Nat) /\ \A i \in 1 .. Len(h) : h[i] = i
    BY <2>1 DEF PlayInv, Heard
  <2>. HIDE DEF h
  <2>3. h = [i \in 1 .. Len(h) |-> i]
    BY <2>2
  <2>. QED
    BY <2>3 DEF h
<1>. QED
  BY <1>1 DEF PlayInv, Heard, Stages, PlaysTheFile, Over

(* It holds before the call, *)
LEMMA IdlePlays == Idle \in Plays /\ Heard(Idle) /\ Stages(Idle)
<1>1. Idle \in Plays
  BY DEF Idle, Plays, Playings, Meanings
<1>2. Heard(Idle) /\ Stages(Idle)
  BY DEF Idle, Heard, Stages
<1>. QED
  BY <1>1, <1>2

(* the call ends early *)
LEMMA PlayReturns ==
    ASSUME PlayInv, play.pc \notin {"idle", "over"}, Return(FALSE)
    PROVE  PlayInv'
<1>1. play' \in Plays /\ play'.heard = play.heard /\ play'.written = play.written
      /\ play'.total = play.total /\ play'.pc = "over" /\ ~play'.open /\ ~play'.ok
  BY DEF PlayInv, Return, Plays, Playings
<1>. QED
  BY <1>1 DEF PlayInv, Heard, Stages

(* the call goes on to the next stage *)
LEMMA PlayGoesOn ==
    ASSUME PlayInv, play.pc \notin {"idle", "over"}, NEW pc \in Playings,
           pc \notin {"idle", "over"}, NEW open \in BOOLEAN,
           play' = [play EXCEPT !.pc = pc, !.open = open]
    PROVE  PlayInv'
<1>1. play' \in Plays /\ play'.heard = play.heard /\ play'.written = play.written
      /\ play'.total = play.total /\ play'.pc = pc /\ play'.means = play.means
      /\ play'.ok = play.ok
  BY DEF PlayInv, Plays
<1>. QED
  BY <1>1 DEF PlayInv, Heard, Stages

(* when a file has been read, where the reader has to be right, *)
LEMMA ReadFileKeeps ==
    ASSUME ReaderIsRight, PlayInv, NEW file \in Files, ReadFile(file)
    PROVE  PlayInv'
<1>. DEFINE wav == ReadWav(file)
<1>0. play = Idle /\ Means(file) \in Meanings
  BY DEF ReadFile, PlayInv, Stages, Meanings
<1>1. CASE wav.ok
  <2>1. wav = Means(file) /\ wav.frames \in Nat
    BY <1>1 DEF ReaderIsRight
  <2>2. PICK n \in Resampled(wav) :
            play' = [play EXCEPT !.pc = IF n = 0 /\ wav.rate # PlaybackRate THEN "over" ELSE "open",
                                 !.total = n, !.means = Means(file)]
    BY <1>1 DEF ReadFile
  <2>3. n \in Nat /\ (wav.rate = PlaybackRate => n = wav.frames)
    BY <2>1 DEF Resampled
  <2>4. /\ play' \in Plays /\ play'.pc \in {"over", "open"} /\ play'.total = n
        /\ play'.means = Means(file) /\ play'.written = 0 /\ play'.heard = <<>>
        /\ ~play'.open /\ ~play'.ok
    <3>1. Idle \in Plays
      BY IdlePlays
    <3>. QED
      BY <1>0, <2>2, <2>3, <3>1 DEF Plays, Playings, Idle
  <2>. QED
    BY <1>1, <2>1, <2>3, <2>4 DEF PlayInv, Heard, Stages
<1>2. CASE ~wav.ok
  <2>1. play' = [play EXCEPT !.pc = "over", !.means = Means(file)]
    BY <1>2 DEF ReadFile
  <2>2. /\ play' \in Plays /\ play'.pc = "over" /\ play'.total = 0
        /\ play'.written = 0 /\ play'.heard = <<>> /\ ~play'.open /\ ~play'.ok
    <3>1. Idle \in Plays
      BY IdlePlays
    <3>. QED
      BY <1>0, <2>1, <3>1 DEF Plays, Playings, Idle
  <2>. QED
    BY <2>2 DEF PlayInv, Heard, Stages
<1>. QED
  BY <1>1, <1>2

(* counting on from where a count ended *)
LEMMA CountGoesOn ==
    ASSUME NEW done \in Nat, NEW n \in Nat, NEW old \in Seq(Nat), Len(old) = done,
           \A i \in 1 .. done : old[i] = i
    PROVE  LET new == [i \in 1 .. n |-> done + i]
           IN  /\ old \o new \in Seq(Nat) /\ Len(old \o new) = done + n
               /\ \A i \in 1 .. Len(old \o new) : (old \o new)[i] = i
<1>. DEFINE new == [i \in 1 .. n |-> done + i]
<1>1. new \in Seq(Nat) /\ Len(new) = n /\ \A i \in 1 .. n : new[i] = done + i
  OBVIOUS
<1>. HIDE DEF new
<1>2. old \o new \in Seq(Nat) /\ Len(old \o new) = done + n
  BY <1>1
<1>3. \A i \in 1 .. done + n : (old \o new)[i] = IF i <= done THEN old[i] ELSE new[i - done]
  BY SMTT(60), <1>1
<1>4. \A i \in 1 .. done + n : (old \o new)[i] = i
  <2>. DEFINE all == old \o new
  <2>1. \A i \in 1 .. done + n : all[i] = IF i <= done THEN old[i] ELSE new[i - done]
    BY <1>3
  <2>. HIDE DEF all
  <2>2. ASSUME NEW i \in 1 .. done + n PROVE all[i] = i
    <3>1. i \in Nat /\ i >= 1
      OBVIOUS
    <3>2. CASE i <= done
      <4>1. old[i] = i
        BY <3>1, <3>2
      <4>. QED
        BY <2>1, <3>2, <4>1
    <3>3. CASE ~(i <= done)
      <4>1. i - done \in 1 .. n /\ done + (i - done) = i
        BY <3>1, <3>3
      <4>2. new[i - done] = i
        BY <1>1, <4>1
      <4>. QED
        BY <2>1, <3>3, <4>2
    <3>. QED
      BY <3>2, <3>3
  <2>. QED
    BY <2>2 DEF all
<1>5. \A i \in 1 .. Len(old \o new) : (old \o new)[i] = i
  BY <1>2, <1>4
<1>. QED
  BY <1>2, <1>5 DEF new

(* the frames written are those after the position, in order *)
LEMMA WriteFramesKeeps == ASSUME PlayInv, WriteFrames PROVE PlayInv'
<1>1. play.total \in Nat /\ play.written \in Nat /\ play.heard \in Seq(Nat)
      /\ play.written <= play.total /\ Len(play.heard) = play.written
  BY DEF PlayInv, Plays, Heard
<1>2. PICK n \in 1 .. play.total - play.written :
          play' = [play EXCEPT !.written = @ + n,
                               !.heard = @ \o [i \in 1 .. n |-> play.written + i]]
  BY DEF WriteFrames
<1>. DEFINE done == play.written
            old == play.heard
            new == [i \in 1 .. n |-> done + i]
<1>3. n \in Nat /\ done + n <= play.total /\ done + n \in Nat
  BY <1>1, <1>2
<1>4. \A i \in 1 .. done : old[i] = i
  BY <1>1 DEF PlayInv, Heard
<1>5. /\ old \o new \in Seq(Nat) /\ Len(old \o new) = done + n
      /\ \A i \in 1 .. Len(old \o new) : (old \o new)[i] = i
  BY <1>1, <1>3, <1>4, CountGoesOn
<1>6. play \in Plays /\ play' = [play EXCEPT !.written = done + n, !.heard = old \o new]
  BY <1>2 DEF PlayInv
<1>7. /\ play' \in Plays /\ play'.written = done + n /\ play'.heard = old \o new
      /\ play'.total = play.total /\ play'.pc = play.pc /\ play'.means = play.means
      /\ play'.ok = play.ok /\ play'.open = play.open
  <2>. DEFINE w == done + n
              h == old \o new
  <2>1. w \in Nat /\ h \in Seq(Nat) /\ play' = [play EXCEPT !.written = w, !.heard = h]
    BY <1>3, <1>5, <1>6
  <2>. HIDE DEF w, h
  <2>2. /\ play' \in Plays /\ play'.written = w /\ play'.heard = h
        /\ play'.total = play.total /\ play'.pc = play.pc /\ play'.means = play.means
        /\ play'.ok = play.ok /\ play'.open = play.open
    BY <1>6, <2>1 DEF Plays
  <2>. QED
    BY <2>2 DEF w, h
<1>. HIDE DEF done, old, new
<1>8. Heard(play')
  BY <1>3, <1>5, <1>7 DEF Heard
<1>9. Stages(play')
  BY <1>7 DEF PlayInv, Stages, WriteFrames
<1>. QED
  BY <1>7, <1>8, <1>9 DEF PlayInv

(* by every step of the call, *)
LEMMA PlayStepKeeps ==
    ASSUME ReaderIsRight, PlayInv, PlaySteps
    PROVE  PlayInv'
<1>1. ASSUME NEW file \in Files, ReadFile(file) PROVE PlayInv'
  BY <1>1, ReadFileKeeps
<1>2. play \in Plays
  BY DEF PlayInv
<1>3. CASE OpenDevice
  <2>1. play' = [play EXCEPT !.pc = "params", !.open = TRUE] => PlayInv'
    BY <1>3, PlayGoesOn DEF OpenDevice, Playings
  <2>. QED
    BY <1>3, <2>1, PlayReturns DEF OpenDevice
<1>4. CASE SetParams
  <2>1. play' = [play EXCEPT !.pc = "write"] => play' = [play EXCEPT !.pc = "write", !.open = play.open]
    BY <1>2 DEF Plays
  <2>2. play' = [play EXCEPT !.pc = "write"] => PlayInv'
    BY <1>2, <1>4, <2>1, PlayGoesOn DEF SetParams, Playings, Plays
  <2>. QED
    BY <1>4, <2>2, PlayReturns DEF SetParams
<1>5. CASE WriteNothing
  <2>1. play' = play => PlayInv'
    BY DEF PlayInv, Heard, Stages
  <2>2. play' = [play EXCEPT !.pc = "recover"] => play' = [play EXCEPT !.pc = "recover", !.open = play.open]
    BY <1>2 DEF Plays
  <2>3. play' = [play EXCEPT !.pc = "recover"] => PlayInv'
    BY <1>2, <1>5, <2>2, PlayGoesOn DEF WriteNothing, Playings, Plays
  <2>. QED
    BY <1>5, <2>1, <2>3 DEF WriteNothing
<1>6. CASE Recover
  <2>1. play' = [play EXCEPT !.pc = "write"] => play' = [play EXCEPT !.pc = "write", !.open = play.open]
    BY <1>2 DEF Plays
  <2>2. play' = [play EXCEPT !.pc = "write"] => PlayInv'
    BY <1>2, <1>6, <2>1, PlayGoesOn DEF Recover, Playings, Plays
  <2>. QED
    BY <1>6, <2>2, PlayReturns DEF Recover
<1>7. CASE Drain
  <2>1. PICK ok \in BOOLEAN : Return(ok)
    BY <1>7 DEF Drain
  <2>2. play.pc = "write" /\ play.written = play.total
    BY <1>7 DEF Drain
  <2>3. play' \in Plays /\ play'.heard = play.heard /\ play'.written = play.written
        /\ play'.total = play.total /\ play'.pc = "over" /\ ~play'.open
        /\ play'.means = play.means
    BY <1>2, <2>1 DEF Return, Plays, Playings
  <2>. QED
    BY <2>2, <2>3 DEF PlayInv, Heard, Stages
<1>. QED
  BY <1>1, <1>3, <1>4, <1>5, <1>6, <1>7 DEF PlaySteps

(* and by every step of the system. *)
LEMMA PlayNext ==
    ASSUME ReaderIsRight, PlayInv, [Next]_vars
    PROVE  PlayInv'
<1>1. CASE Playing(PlaySteps) \/ Playing(WriteFrames)
  BY <1>1, PlayStepKeeps, WriteFramesKeeps DEF Playing
<1>2. CASE play' = Idle
  BY <1>2, IdlePlays DEF PlayInv
<1>3. CASE UNCHANGED play
  BY <1>3 DEF PlayInv, Heard, Stages
<1>4. CASE Dsp
  BY <1>3, <1>4 DEF Dsp, DspCheck, DspPopNothing, DspPop, DspPost
<1>5. CASE EnqueueFrame \/ TimerElapses \/ RenderTick
  BY <1>3, <1>5 DEF EnqueueFrame, TimerElapses, RenderTick
<1>6. CASE StartDsp \/ Exec \/ Joined \/ Quit
  BY <1>2, <1>3, <1>6 DEF StartDsp, Exec, Joined, Quit
<1>7. CASE Exited \/ UNCHANGED vars
  BY <1>3, <1>7 DEF Exited, vars
<1>. QED
  BY <1>1, <1>4, <1>5, <1>6, <1>7 DEF Next, Main

(* If files are read as what they mean, which TLC evaluates for each of    *)
(* them (MCUiBridge), every frame is handed to the device once and in      *)
(* order, however few of them the device takes at a time and whatever      *)
(* underruns come between; success means that all were, and the device is  *)
(* closed on every way out.                                                *)
THEOREM PlaybackIsComplete ==
    ASSUME ReaderIsRight
    PROVE  Spec => []PlaysTheFile
<1>1. Init => PlayInv
  BY IdlePlays DEF Init, PlayInit, PlayInv
<1>2. PlayInv /\ [Next]_vars => PlayInv'
  BY PlayNext
<1>. QED
  BY <1>1, <1>2, PlayIsEnough, PTL DEF Spec

=============================================================================
