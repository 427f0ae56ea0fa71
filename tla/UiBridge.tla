------------------------------ MODULE UiBridge ------------------------------
(***************************************************************************)
(* How spectra and envelopes get onto the screen: the DSP thread           *)
(* (k3-code/src/dsp_engine.cpp) posts each processed frame to the Qt main  *)
(* thread, whose event loop runs enqueue_frame for it and, 60 times a      *)
(* second, render_tick (k3-code/src/ui_bridge.cpp).  Both run in the main  *)
(* thread, so frame_mutex_ is never contended and each is one step.        *)
(*                                                                         *)
(* The main thread (k3-code/src/main.cpp) enters the event loop only when  *)
(* the optional playback of a WAV file (Playback) is over, and leaves it   *)
(* to join the DSP thread, which processes blocks (DspProcess) from the    *)
(* start.                                                                  *)
(***************************************************************************)
EXTENDS Playback, DspProcess

CONSTANTS
    NFrames,     (* bound: frames processed *)
    MaxBacklog   (* what is taken for a backlog of the user interface *)

ASSUME UiAssumption == NFrames \in Nat /\ MaxBacklog \in Nat \ {0}

None == 0

VARIABLES
    running, sPc,   (* the DSP thread *)
    posted,         (* the newest frame it has posted *)
    ws,             (* its buffers *)
    frame,          (* the block it has processed, and what became of it *)
    events,         (* external: the main thread's queue of posted events *)
    timerDue,       (* external: the 16 ms interval has passed *)
    pending,        (* pending_frame_ *)
    rendered,       (* the frame on the screen *)
    mPc             (* the main thread *)

NoFrame == [block |-> Block(1, 0), spectrum |-> <<>>, envelope |-> <<>>]

dsp == <<running, sPc, posted, ws, frame>>
vars == <<dsp, play, events, timerDue, pending, rendered, mPc>>

Init ==
    /\ running = FALSE /\ sPc = "off" /\ posted = None
    /\ ws = NoWorkspace /\ frame = NoFrame
    /\ PlayInit
    /\ events = <<>> /\ timerDue = FALSE
    /\ pending = None /\ rendered = None
    /\ mPc = "start"

-----------------------------------------------------------------------------
(* dsp_loop *)

DspCheck ==
    /\ sPc = "check"
    /\ sPc' = IF running THEN "pop" ELSE "done"
    /\ UNCHANGED <<running, posted, ws, frame, play, events, timerDue, pending, rendered, mPc>>

(* the queue of frames is empty *)
DspPopNothing ==
    /\ sPc = "pop" /\ sPc' = "check"
    /\ UNCHANGED <<running, posted, ws, frame, play, events, timerDue, pending, rendered, mPc>>

(* pop, process_block *)
DspPop ==
    /\ sPc = "pop" /\ posted < NFrames
    /\ sPc' = "post"
    /\ \E b \in Blocks :
          LET done == ProcessBlock(ws, b) IN
          /\ ws' = done.ws
          /\ frame' = [block |-> b, spectrum |-> done.spectrum, envelope |-> done.envelope]
    /\ UNCHANGED <<running, posted, play, events, timerDue, pending, rendered, mPc>>

(* Mutation: Qt::BlockingQueuedConnection waits until the main thread has  *)
(* run enqueue_frame.                                                      *)
DspPostBlocking ==
    /\ sPc = "post" /\ mPc = "exec"
    /\ posted' = posted + 1
    /\ pending' = posted + 1
    /\ sPc' = "check"
    /\ frame' = NoFrame
    /\ UNCHANGED <<running, ws, play, events, timerDue, rendered, mPc>>

(* invokeMethod(enqueue_frame, Qt::QueuedConnection) *)
DspPost ==
    /\ sPc = "post"
    /\ posted' = posted + 1
    /\ events' = Append(events, posted + 1)
    /\ sPc' = "check"
    /\ frame' = NoFrame
    /\ UNCHANGED <<running, ws, play, timerDue, pending, rendered, mPc>>

Dsp == DspCheck \/ DspPopNothing \/ DspPop \/ DspPost

-----------------------------------------------------------------------------
(* The event loop *)

(* Mutation: a frame that waits is kept, the new one is discarded. *)
EnqueueFrameKeepsFirst ==
    /\ mPc = "exec" /\ events # <<>>
    /\ pending' = IF pending = None THEN Head(events) ELSE pending
    /\ events' = Tail(events)
    /\ UNCHANGED <<dsp, play, timerDue, rendered, mPc>>

(* enqueue_frame: the newest frame replaces the one that waits *)
EnqueueFrame ==
    /\ mPc = "exec" /\ events # <<>>
    /\ pending' = Head(events)
    /\ events' = Tail(events)
    /\ UNCHANGED <<dsp, play, timerDue, rendered, mPc>>

(* at most one timeout waits, however long the loop has been away *)
TimerElapses ==
    /\ ~timerDue
    /\ timerDue' = TRUE
    /\ UNCHANGED <<dsp, play, events, pending, rendered, mPc>>

(* Mutation: the frame is reset and not rendered. *)
RenderTickDrops ==
    /\ mPc = "exec" /\ timerDue
    /\ timerDue' = FALSE
    /\ pending' = None
    /\ UNCHANGED <<dsp, play, events, rendered, mPc>>

(* Mutation: no frame counts as frame 0 and is rendered. *)
RenderTickUnchecked ==
    /\ mPc = "exec" /\ timerDue
    /\ timerDue' = FALSE
    /\ pending' = None
    /\ rendered' = pending
    /\ UNCHANGED <<dsp, play, events, mPc>>

(* render_tick *)
RenderTick ==
    /\ mPc = "exec" /\ timerDue
    /\ timerDue' = FALSE
    /\ pending' = None
    /\ rendered' = IF pending = None THEN rendered ELSE pending
    /\ UNCHANGED <<dsp, play, events, mPc>>

-----------------------------------------------------------------------------
(* main *)

StartDsp ==
    /\ mPc = "start"
    /\ mPc' = "playback"
    /\ running' = TRUE /\ sPc' = "check"
    /\ UNCHANGED <<posted, ws, frame, play, events, timerDue, pending, rendered>>

(* play_wav_file *)
Playing(step) ==
    /\ mPc = "playback" /\ step
    /\ UNCHANGED <<dsp, events, timerDue, pending, rendered, mPc>>

(* it has returned, whatever it returns, or there was nothing to play; the *)
(* player is local to main's block                                         *)
Exec ==
    /\ mPc = "playback"
    /\ Over \/ play = Idle
    /\ mPc' = "exec"
    /\ play' = Idle
    /\ UNCHANGED <<dsp, events, timerDue, pending, rendered>>

Quit ==
    /\ mPc = "exec"
    /\ mPc' = "join"
    /\ running' = FALSE
    /\ UNCHANGED <<sPc, posted, ws, frame, play, events, timerDue, pending, rendered>>

(* Mutation: the thread is not joined. *)
JoinedAtOnce ==
    /\ mPc = "join" /\ mPc' = "exited"
    /\ UNCHANGED <<dsp, play, events, timerDue, pending, rendered>>

Joined ==
    /\ mPc = "join" /\ sPc = "done"
    /\ mPc' = "exited"
    /\ UNCHANGED <<dsp, play, events, timerDue, pending, rendered>>

Main == StartDsp \/ Playing(PlaySteps) \/ Exec \/ Joined

Exited == mPc = "exited" /\ UNCHANGED vars

Next ==
    \/ Dsp \/ EnqueueFrame \/ TimerElapses \/ RenderTick
    \/ Main \/ Playing(WriteFrames) \/ Quit \/ Exited

(* The threads run, time passes, the event loop starves neither posted     *)
(* events nor the timer, and an audio device that underruns again and      *)
(* again takes frames again and again.                                     *)
Spec == Init /\ [][Next]_vars
FairSpec == Spec /\ WF_vars(Dsp) /\ WF_vars(Main) /\ WF_vars(TimerElapses)
                 /\ WF_vars(EnqueueFrame) /\ WF_vars(RenderTick)
                 /\ SF_vars(Playing(WriteFrames))

-----------------------------------------------------------------------------
(* Types, and the thread is gone before the objects it uses. *)
TypeOK ==
    /\ running \in BOOLEAN /\ timerDue \in BOOLEAN
    /\ sPc \in {"off", "check", "pop", "post", "done"}
    /\ mPc \in {"start", "playback", "exec", "join", "exited"}
    /\ {posted, pending, rendered} \subseteq 0 .. NFrames
    /\ events \in Seq(1 .. NFrames)
    /\ mPc = "exited" => sPc = "done"

(* Frames are dropped for newer ones only: the newest frame posted is on   *)
(* the screen, waits to be drawn, or waits for the event loop.             *)
NewestSurvives ==
    posted = None \/ posted \in {pending, rendered} \cup {events[i] : i \in 1 .. Len(events)}

(* The frame the DSP thread posts shows the block it popped, whatever      *)
(* blocks of other sizes went through the same buffers before.             *)
FrameShowsBlock == sPc = "post" => FrameIsOf(frame.spectrum, frame.envelope, frame.block)

(* The picture never goes back in time. *)
RenderOrder == [][rendered' # rendered => rendered' > rendered]_vars

(* While the window is open, the newest frame gets onto the screen. *)
NewestIsShown ==
    \A f \in 1 .. NFrames :
        (posted = f) ~> (rendered >= f \/ mPc \in {"join", "exited"})

(* Joining the DSP thread from the main thread does not deadlock with the  *)
(* frames the DSP thread hands to the main thread.                         *)
StopReturns == mPc = "join" ~> mPc = "exited"

(* Only the last frame is cached, so that frames do not pile up before the *)
(* user interface.                                                         *)
NoUiBacklog == Len(events) + (IF pending = None THEN 0 ELSE 1) <= MaxBacklog
=============================================================================
