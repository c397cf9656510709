------------------------------ MODULE LiveSource ------------------------------
(***************************************************************************)
(* source/video_source.cpp: a camera's stream decoded by GStreamer.  The   *)
(* streaming thread puts frames into a short queue, the renderer takes     *)
(* them, the watchdog rebuilds a pipeline that broke, the main thread      *)
(* changes the port and stops the source.                                  *)
(*                                                                         *)
(* Times are ages.  input is last_input_ms: "fresh" within a second.       *)
(* output is last_frame_ms: "lost" after signal_timeout_ms, "long" after   *)
(* restart_after_ms.  settled: the pipeline was built restart_after_ms     *)
(* ago.  "none" is zero, never since the last build.  The camera sends     *)
(* unless input is "old"; a working decoder that gets data gives a frame   *)
(* before signal_timeout_ms.  Frames are counted, their statistics and     *)
(* the pictures themselves are left out.                                   *)
(*                                                                         *)
(* Assumed: the atomics are sequentially consistent.  set_udp_port stores  *)
(* both of its words relaxed, so C++ alone does not promise that the port  *)
(* is seen before the wish to rebuild.                                     *)
(***************************************************************************)
EXTENDS Integers

CONSTANTS
    MaxQueue,     \* kMaxQueue
    TargetQueue,  \* cfg.target_queue
    MaxStreak     \* the ceiling of fail_streak

ASSUME LiveSourceAssumption ==
    /\ MaxQueue \in Nat \ {0} /\ MaxStreak \in Nat \ {0}
    /\ TargetQueue \in 0 .. MaxQueue - 1

VARIABLES
    running, stopPc,            \* stop()
    latest, want, setting,      \* the pipeline has port_override; want_rebuild; within set_udp_port
    wdPc, kind, heard,          \* the watchdog: its place, which nap, notified in it
    cause, streak,              \* why it rebuilds, fail_streak
    up, settled,                \* the pipeline: pipeline # nullptr, its age
    trouble,                    \* "hung": the decoder gives nothing; "error": the bus holds an error
    input, output,
    queue, inUse, pushing,      \* frames queued; in_use; on_sample has stamped, not yet queued
    shown                       \* what acquire() told the renderer; "asked" within it

stopVars == <<running, stopPc>>
portVars == <<latest, want, setting>>
wdVars   == <<wdPc, kind, heard, cause, streak>>
pipeVars == <<up, settled, trouble>>
frames   == <<queue, inUse, pushing>>
vars == <<stopVars, portVars, wdVars, pipeVars, input, output, frames, shown>>

Least(a, b) == IF a < b THEN a ELSE b

-----------------------------------------------------------------------------
(* The camera, the decoder, and time. *)

Flowing == up /\ trouble = "none" /\ input = "fresh"

\* A buffer goes into the decoder: on_dec_input.
Feed ==
    /\ up /\ input # "fresh"
    /\ input' = "fresh"
    /\ UNCHANGED <<stopVars, portVars, wdVars, pipeVars, output, frames, shown>>

\* A second without one.
Silence ==
    /\ input = "fresh"
    /\ input' = "old"
    /\ UNCHANGED <<stopVars, portVars, wdVars, pipeVars, output, frames, shown>>

AgeOutput ==
    /\ ~Flowing /\ ~pushing /\ output \in {"fresh", "lost"}
    /\ output' = IF output = "fresh" THEN "lost" ELSE "long"
    /\ UNCHANGED <<stopVars, portVars, wdVars, pipeVars, input, frames, shown>>

\* A pipeline that works has given its first frame by then; a camera that sent
\* nothing in all that time is silent.
Settle ==
    /\ up /\ ~settled /\ (Flowing => output # "none")
    /\ settled' = TRUE
    /\ input' = IF input = "none" THEN "old" ELSE input
    /\ UNCHANGED <<stopVars, portVars, wdVars, up, trouble, output, frames, shown>>

Break ==
    /\ up /\ trouble # "error"
    /\ trouble' \in {"hung", "error"} \ {trouble}
    /\ UNCHANGED <<stopVars, portVars, wdVars, up, settled, input, output, frames, shown>>

-----------------------------------------------------------------------------
(* on_sample, in the streaming thread. *)

Stamp ==
    /\ up /\ trouble # "hung" /\ input = "fresh" /\ ~pushing
    /\ output' = "fresh"
    /\ pushing' = TRUE
    /\ UNCHANGED <<stopVars, portVars, wdVars, pipeVars, input, queue, inUse, shown>>

\* The oldest frame is dropped when there are too many.
Queued == Least(queue + 1, MaxQueue)

Push ==
    /\ pushing
    /\ pushing' = FALSE
    /\ queue' = Queued
    /\ UNCHANGED <<stopVars, portVars, wdVars, pipeVars, input, output, inUse, shown>>

-----------------------------------------------------------------------------
(* acquire(), in the renderer's thread: signal_ok, then the queue under the    *)
(* lock.  main.cpp stops the renderer before the sources.                      *)

SignalOk == output = "fresh"

AskSignal ==
    /\ running /\ shown # "asked"
    /\ shown' = IF SignalOk THEN "asked" ELSE "no"
    /\ UNCHANGED <<stopVars, portVars, wdVars, pipeVars, input, output, frames>>

\* Without a new frame the previous one is given again.
Given_OnlyNew == queue > 0
Given == queue > 0 \/ inUse

Take ==
    /\ shown = "asked"
    /\ shown' = IF Given THEN "yes" ELSE "no"
    /\ inUse' = (queue > 0 \/ inUse)
    /\ queue' = IF queue > 0 THEN Least(queue, TargetQueue + 1) - 1 ELSE 0
    /\ UNCHANGED <<stopVars, portVars, wdVars, pipeVars, input, output, pushing>>

-----------------------------------------------------------------------------
(* set_udp_port, in the main thread. *)

SetOrder_FlagFirst == <<"want", "port">>
SetOrder == <<"port", "want">>

SetStep(n) == IF SetOrder[n] = "port" THEN latest' = FALSE /\ UNCHANGED want
                                      ELSE want' = TRUE /\ UNCHANGED latest

SetPort ==
    /\ running /\ ~setting
    /\ setting' = TRUE
    /\ SetStep(1)
    /\ UNCHANGED <<stopVars, wdVars, pipeVars, input, output, frames, shown>>

\* The notify that follows wakes nobody: the nap tests only running.
SetPortEnds ==
    /\ setting
    /\ setting' = FALSE
    /\ SetStep(2)
    /\ UNCHANGED <<stopVars, wdVars, pipeVars, input, output, frames, shown>>

-----------------------------------------------------------------------------
(* watchdog_loop, with nap and restart. *)

\* A nap is over.  What the one after a restart returns is not looked at.
NapOver ==
    /\ wdPc' = IF kind = "back_off" THEN "nap" ELSE IF running THEN "look" ELSE "ended"
    /\ kind' = "tick" /\ heard' = FALSE
    /\ UNCHANGED <<stopVars, portVars, cause, streak, pipeVars, input, output, frames, shown>>

\* nap tests running; stop() may change it, and notify, before the wait begins.
NapTest ==
    /\ wdPc = "nap"
    /\ IF ~running THEN NapOver
       ELSE /\ wdPc' = "drowsy"
            /\ UNCHANGED <<stopVars, portVars, kind, heard, cause, streak, pipeVars, input, output, frames,
                           shown>>

NapWait ==
    /\ wdPc = "drowsy"
    /\ wdPc' = "asleep"
    /\ UNCHANGED <<stopVars, portVars, kind, heard, cause, streak, pipeVars, input, output, frames, shown>>

TimesOut_Never == FALSE
TimesOut == TRUE

Wake == wdPc = "asleep" /\ (heard \/ TimesOut) /\ NapOver

\* Data go into the decoder, no frame comes out, and the pipeline had its time.
Stuck_Never == FALSE
Stuck == input = "fresh" /\ output \in {"none", "long"} /\ settled

Reason ==
    CASE want -> "port"
      [] ~want /\ (~up \/ trouble = "error" \/ Stuck) -> "fault"
      [] OTHER -> "none"

\* A pipeline that lived long enough and gave a frame forgets the failures before.
Healthy == up /\ settled /\ output # "none"

Look ==
    /\ wdPc = "look"
    /\ want' = FALSE
    /\ cause' = Reason
    /\ wdPc' = IF Reason = "none" THEN "nap" ELSE "tear"
    /\ streak' = CASE Reason \in {"none", "port"} -> streak
                   [] OTHER -> IF Healthy THEN 0 ELSE Least(streak + 1, MaxStreak)
    /\ UNCHANGED <<stopVars, latest, setting, kind, heard, pipeVars, input, output, frames, shown>>

\* The pipeline goes to NULL: that waits for on_sample, and ends the streaming thread.
TearPipeline ==
    /\ ~pushing
    /\ up' = FALSE /\ settled' = FALSE /\ trouble' = "none"
    /\ UNCHANGED <<portVars, kind, heard, cause, streak, input, output, frames, shown>>

Clear ==
    /\ queue' = 0 /\ inUse' = FALSE
    /\ UNCHANGED <<portVars, kind, heard, cause, streak, pipeVars, pushing, shown>>

Tear == wdPc = "tear" /\ TearPipeline /\ wdPc' = "clear" /\ UNCHANGED stopVars

TearClear ==
    /\ wdPc = "clear" /\ Clear
    /\ wdPc' = "build"
    /\ input' = "none" /\ output' = "none"
    /\ UNCHANGED stopVars

\* build() may fail.  A failure is followed by a pause, a change of the port is not.
Build(ok) ==
    /\ wdPc = "build"
    /\ up' = ok
    /\ latest' = TRUE
    /\ wdPc' = "nap"
    /\ kind' = IF cause # "port" /\ streak > 0 THEN "back_off" ELSE "tick"
    /\ cause' = "none"
    /\ UNCHANGED <<stopVars, want, setting, heard, streak, settled, trouble, input, output, frames, shown>>

-----------------------------------------------------------------------------
(* stop(). *)

StopFlag ==
    /\ stopPc = "no" /\ ~setting /\ shown # "asked"
    /\ running' = FALSE
    /\ stopPc' = "notify"
    /\ UNCHANGED <<portVars, wdVars, pipeVars, input, output, frames, shown>>

StopNotify ==
    /\ stopPc = "notify"
    /\ heard' = (heard \/ wdPc = "asleep")
    /\ stopPc' = "join"
    /\ UNCHANGED <<running, portVars, wdPc, kind, cause, streak, pipeVars, input, output, frames, shown>>

Joined == wdPc = "ended"

StopTear == stopPc = "join" /\ Joined /\ TearPipeline /\ stopPc' = "clear" /\ UNCHANGED <<running, wdPc>>

StopClear ==
    /\ stopPc = "clear" /\ Clear
    /\ stopPc' = "done"
    /\ UNCHANGED <<running, wdPc, input, output>>

-----------------------------------------------------------------------------
\* start(): built at once, perhaps in vain; then the watchdog.
Init ==
    /\ running = TRUE /\ stopPc = "no"
    /\ latest = TRUE /\ want = FALSE /\ setting = FALSE
    /\ wdPc = "nap" /\ kind = "tick" /\ heard = FALSE /\ cause = "none" /\ streak = 0
    /\ up \in BOOLEAN /\ settled = FALSE /\ trouble = "none"
    /\ input = "none" /\ output = "none"
    /\ queue = 0 /\ inUse = FALSE /\ pushing = FALSE
    /\ shown = "no"

Stream == Feed \/ Silence \/ Stamp \/ Push
Time == AgeOutput \/ Settle
Renderer == AskSignal \/ Take
SetUdpPort == SetPort \/ SetPortEnds
Watchdog == NapTest \/ NapWait \/ Wake \/ Look \/ Tear \/ TearClear \/ \E ok \in BOOLEAN : Build(ok)
Stop == StopFlag \/ StopNotify \/ StopTear \/ StopClear

Next == Stream \/ Time \/ Break \/ Renderer \/ SetUdpPort \/ Watchdog \/ Stop
Spec == Init /\ [][Next]_vars

(***************************************************************************)
(* Fairness: every thread is scheduled, a stop that began goes on, the     *)
(* pipeline that is told to go to NULL gets no more frames, time passes, a *)
(* camera sends, and build() does not fail for ever.                       *)
(***************************************************************************)
Fairness ==
    /\ WF_vars(Watchdog) /\ SF_vars(Tear) /\ SF_vars(Build(TRUE))
    /\ WF_vars(StopNotify \/ StopClear) /\ SF_vars(StopTear) /\ WF_vars(SetPortEnds)
    /\ WF_vars(Feed) /\ WF_vars(Flowing /\ Stamp) /\ WF_vars(Push)
    /\ WF_vars(AgeOutput) /\ WF_vars(Settle) /\ WF_vars(Renderer)

FairSpec == Spec /\ Fairness

-----------------------------------------------------------------------------
(* Properties. *)

\* Every variable has its type.
TypeOK ==
    /\ running \in BOOLEAN /\ stopPc \in {"no", "notify", "join", "clear", "done"}
    /\ latest \in BOOLEAN /\ want \in BOOLEAN /\ setting \in BOOLEAN /\ shown \in {"yes", "no", "asked"}
    /\ wdPc \in {"nap", "drowsy", "asleep", "look", "tear", "clear", "build", "ended"}
    /\ kind \in {"tick", "back_off"} /\ heard \in BOOLEAN
    /\ cause \in {"none", "port", "fault"} /\ streak \in 0 .. MaxStreak
    /\ trouble \in {"none", "hung", "error"}
    /\ up \in BOOLEAN /\ settled \in BOOLEAN /\ inUse \in BOOLEAN /\ pushing \in BOOLEAN
    /\ input \in {"none", "fresh", "old"} /\ output \in {"none", "fresh", "lost", "long"}
    /\ queue \in 0 .. MaxQueue

\* A picture that was shown goes away only with its signal or for a rebuild:
\* a source of half the rate of the screen must not blink.  After a rebuild the
\* stamp of a frame is set a moment before the frame is queued.
PictureStays ==
    [][Take /\ shown' = "no" => ~SignalOk \/ pushing \/ wdPc = "clear" \/ wdPc = "build"]_vars

\* A call of set_udp_port is never lost to a rebuild that runs meanwhile: the
\* pipeline has the port, or a rebuild is still to come.
PortIsNotForgotten ==
    up /\ ~latest => want \/ setting \/ wdPc = "tear" \/ ~running

\* After stop() nothing runs and no frame is held.
StoppedIsEmpty == stopPc = "done" => ~up /\ wdPc = "ended" /\ queue = 0 /\ ~inUse

\* Together, at any step of the four threads.
Safety == TypeOK /\ PortIsNotForgotten /\ StoppedIsEmpty

\* stop() returns, though its notify may come between the test and the wait.
StopReturns == ~running ~> (stopPc = "done")

\* A decoder that hangs while data go in is rebuilt.
HungIsRebuilt == (trouble = "hung") ~> trouble # "hung" \/ input = "old" \/ ~running

\* When nothing breaks any more and the camera sends, the picture comes back
\* and the pipeline is left in peace, whatever happened before.
PictureComesBack ==
    <>[](running /\ trouble = "none" /\ ~want /\ input # "old") => <>[](shown # "no")

\* No trouble stays.
TroubleEnds == HungIsRebuilt /\ PictureComesBack

\* "If the camera is silent there is nothing to rebuild": a pipeline that works
\* is rebuilt only for a new port.  It does not hold.
HealthyIsLeftAlone == [][wdPc = "look" /\ wdPc' = "tear" => want \/ ~up \/ trouble # "none"]_vars
=============================================================================
