-------------------------- MODULE LiveSourceProofs --------------------------
(***************************************************************************)
(* What is proved of the live source, for queues of any size and any run   *)
(* of failures: a change of the port is not lost to a rebuild that runs at *)
(* that moment, and after stop() nothing runs and nothing is held (Safety);*)
(* and a picture does not blink while the signal is fresh (PictureStays).  *)
(*                                                                         *)
(* The second needs the order in which stop() takes things down: the       *)
(* watchdog, which alone builds, has ended before the pipeline goes, and   *)
(* without a pipeline no streaming thread fills the queue again.  The      *)
(* third needs who may leave the renderer without a frame: only a pop that *)
(* keeps what it popped, and a rebuild, which says so.                     *)
(***************************************************************************)
EXTENDS LiveSource, TLAPS

\* From the teardown in stop() on there is nobody left who could build or push.
TakenDown == stopPc \in {"clear", "done"} => wdPc = "ended" /\ ~up /\ ~pushing

IInv == TypeOK /\ PortIsNotForgotten /\ TakenDown /\ StoppedIsEmpty

LEMMA Consts == 0 \in 0 .. MaxQueue /\ 0 \in 0 .. MaxStreak
  BY LiveSourceAssumption

LEMMA InitInv == Init => IInv
<1> SUFFICES ASSUME Init PROVE IInv
  OBVIOUS
<1>1. TypeOK
  BY Consts DEF Init, TypeOK
<1>2. PortIsNotForgotten /\ TakenDown /\ StoppedIsEmpty
  BY DEF Init, PortIsNotForgotten, TakenDown, StoppedIsEmpty
<1> QED BY <1>1, <1>2 DEF IInv

\* The streaming thread, the decoder and time.
LEMMA StreamInv == IInv /\ (Stream \/ Time \/ Break) => IInv'
<1> SUFFICES ASSUME IInv, Stream \/ Time \/ Break PROVE IInv'
  OBVIOUS
<1> USE DEF IInv, stopVars, portVars, wdVars, pipeVars, frames
<1>1. UNCHANGED <<stopVars, portVars, wdVars, up, inUse, shown>>
  BY DEF Stream, Feed, Silence, Stamp, Push, Time, AgeOutput, Settle, Break
<1>2. /\ settled' \in BOOLEAN /\ pushing' \in BOOLEAN /\ trouble' \in {"none", "hung", "error"}
      /\ input' \in {"none", "fresh", "old"} /\ output' \in {"none", "fresh", "lost", "long"}
  BY DEF Stream, Feed, Silence, Stamp, Push, Time, AgeOutput, Settle, Break, TypeOK
<1>3. queue' \in 0 .. MaxQueue
  <2>1. queue' = queue \/ queue' = Least(queue + 1, MaxQueue)
    BY DEF Stream, Feed, Silence, Stamp, Push, Queued, Time, AgeOutput, Settle, Break
  <2>2. queue \in 0 .. MaxQueue /\ MaxQueue \in Nat
    BY LiveSourceAssumption DEF TypeOK
  <2> HIDE DEF IInv
  <2> QED BY <2>1, <2>2 DEF Least
<1>4. stopPc \in {"clear", "done"} => queue' = queue /\ pushing' = pushing
  BY DEF Stream, Feed, Silence, Stamp, Push, Time, AgeOutput, Settle, Break, TakenDown
<1>5. TypeOK'
  BY <1>1, <1>2, <1>3 DEF TypeOK
<1>6. PortIsNotForgotten' /\ TakenDown' /\ StoppedIsEmpty'
  BY <1>1, <1>4 DEF PortIsNotForgotten, TakenDown, StoppedIsEmpty
<1> QED BY <1>5, <1>6

\* The renderer.
LEMMA RendererInv == IInv /\ Renderer => IInv'
<1> SUFFICES ASSUME IInv, Renderer PROVE IInv'
  OBVIOUS
<1> USE DEF IInv, stopVars, portVars, wdVars, pipeVars, frames
<1>1. UNCHANGED <<stopVars, portVars, wdVars, pipeVars, input, output, pushing>>
  BY DEF Renderer, AskSignal, Take
<1>2. queue \in 0 .. MaxQueue /\ MaxQueue \in Nat /\ TargetQueue \in Nat /\ inUse \in BOOLEAN
  BY LiveSourceAssumption DEF TypeOK
<1>3. queue' \in 0 .. MaxQueue /\ (queue = 0 => queue' = 0)
  <2>1. queue' = queue \/ queue' = IF queue > 0 THEN Least(queue, TargetQueue + 1) - 1 ELSE 0
    BY DEF Renderer, AskSignal, Take
  <2> HIDE DEF IInv
  <2> QED BY <1>2, <2>1 DEF Least
<1>4. inUse' \in BOOLEAN /\ shown' \in {"yes", "no", "asked"} /\ (queue = 0 /\ ~inUse => ~inUse')
  <2>1. CASE AskSignal
    BY <2>1 DEF AskSignal, TypeOK
  <2>2. CASE Take
    BY <1>2, <2>2 DEF Take
  <2> QED BY <2>1, <2>2 DEF Renderer
<1>5. TypeOK'
  BY <1>1, <1>3, <1>4 DEF TypeOK
<1>6. PortIsNotForgotten' /\ TakenDown' /\ StoppedIsEmpty'
  BY <1>1, <1>3, <1>4 DEF PortIsNotForgotten, TakenDown, StoppedIsEmpty
<1> QED BY <1>5, <1>6

\* A change of the port: first the port, then the flag.
LEMMA PortInv == IInv /\ SetUdpPort => IInv'
<1> SUFFICES ASSUME IInv, SetUdpPort PROVE IInv'
  OBVIOUS
<1> USE DEF IInv, stopVars, portVars, wdVars, pipeVars, frames
<1>1. UNCHANGED <<stopVars, wdVars, pipeVars, input, output, frames, shown>>
  BY DEF SetUdpPort, SetPort, SetPortEnds
<1>2. \/ setting' = TRUE /\ latest' = FALSE /\ want' = want
      \/ setting' = FALSE /\ latest' = latest /\ want' = TRUE
  BY DEF SetUdpPort, SetPort, SetPortEnds, SetStep, SetOrder
<1>3. TypeOK'
  <2>1. setting' \in BOOLEAN /\ latest' \in BOOLEAN /\ want' \in BOOLEAN
    BY DEF SetUdpPort, SetPort, SetPortEnds, SetStep, SetOrder, TypeOK
  <2> QED BY <1>1, <2>1 DEF TypeOK
<1>4. PortIsNotForgotten' /\ TakenDown' /\ StoppedIsEmpty'
  BY <1>1, <1>2 DEF PortIsNotForgotten, TakenDown, StoppedIsEmpty
<1> QED BY <1>3, <1>4

\* The watchdog.
LEMMA WatchdogInv == IInv /\ Watchdog => IInv'
<1> SUFFICES ASSUME IInv, Watchdog PROVE IInv'
  OBVIOUS
<1> USE DEF IInv, stopVars, portVars, wdVars, pipeVars, frames
<1>1. UNCHANGED stopVars /\ shown' = shown /\ setting' = setting /\ wdPc # "ended" /\ pushing' = pushing
  BY DEF Watchdog, NapTest, NapWait, Wake, NapOver, Look, Tear, TearPipeline, TearClear, Clear, Build
<1>2. TakenDown' /\ StoppedIsEmpty'
  BY <1>1 DEF TakenDown, StoppedIsEmpty
<1>3. CASE NapTest \/ NapWait \/ Wake
  <2>1. /\ UNCHANGED <<stopVars, portVars, cause, streak, pipeVars, input, output, frames, shown>>
        /\ wdPc \notin {"tear"}
    BY <1>3 DEF NapTest, NapWait, Wake, NapOver
  <2>2. /\ wdPc' \in {"nap", "drowsy", "asleep", "look", "ended"} /\ kind' \in {"tick", "back_off"}
        /\ heard' \in BOOLEAN
    BY <1>3 DEF NapTest, NapWait, Wake, NapOver, TypeOK
  <2>3. TypeOK'
    BY <2>1, <2>2 DEF TypeOK
  <2>4. PortIsNotForgotten'
    BY <2>1 DEF PortIsNotForgotten
  <2> QED BY <1>2, <2>3, <2>4
<1>4. CASE Look
  <2>1. /\ UNCHANGED <<stopVars, latest, setting, kind, heard, pipeVars, input, output, frames, shown>>
        /\ want' \in BOOLEAN /\ wdPc' \in {"nap", "tear"} /\ cause' = Reason
    BY <1>4 DEF Look
  <2>2. Reason \in {"none", "port", "fault"} /\ (want => Reason = "port")
    BY DEF Reason, TypeOK
  <2>3. streak' \in 0 .. MaxStreak
    <3>1. streak' = streak \/ streak' = 0 \/ streak' = Least(streak + 1, MaxStreak)
      BY <1>4, <2>2 DEF Look
    <3>2. streak \in 0 .. MaxStreak /\ MaxStreak \in Nat
      BY LiveSourceAssumption DEF TypeOK
    <3> HIDE DEF IInv
    <3> QED BY <3>1, <3>2 DEF Least
  <2>4. TypeOK'
    BY <2>1, <2>2, <2>3 DEF TypeOK
  <2>5. PortIsNotForgotten'
    BY <1>4, <2>1, <2>2 DEF Look, PortIsNotForgotten
  <2> QED BY <1>2, <2>4, <2>5
<1>5. CASE Tear
  <2>1. /\ UNCHANGED <<stopVars, portVars, kind, heard, cause, streak, input, output, frames, shown>>
        /\ wdPc' = "clear" /\ ~up' /\ up' \in BOOLEAN /\ settled' \in BOOLEAN /\ trouble' = "none"
    BY <1>5 DEF Tear, TearPipeline
  <2>2. TypeOK'
    BY <2>1 DEF TypeOK
  <2>3. PortIsNotForgotten'
    BY <2>1 DEF PortIsNotForgotten
  <2> QED BY <1>2, <2>2, <2>3
<1>6. CASE TearClear
  <2>1. /\ UNCHANGED <<stopVars, portVars, kind, heard, cause, streak, pipeVars, pushing, shown>>
        /\ wdPc = "clear" /\ wdPc' = "build" /\ queue' = 0 /\ ~inUse' /\ inUse' \in BOOLEAN
        /\ input' = "none" /\ output' = "none"
    BY <1>6 DEF TearClear, Clear
  <2>2. TypeOK'
    BY <2>1, Consts DEF TypeOK
  <2>3. PortIsNotForgotten'
    BY <2>1 DEF PortIsNotForgotten
  <2> QED BY <1>2, <2>2, <2>3
<1>7. CASE \E ok \in BOOLEAN : Build(ok)
  <2>1. /\ UNCHANGED <<stopVars, want, setting, heard, streak, settled, trouble, input, output, frames, shown>>
        /\ latest' /\ latest' \in BOOLEAN /\ wdPc' = "nap" /\ kind' \in {"tick", "back_off"} /\ cause' = "none"
        /\ up' \in BOOLEAN
    BY <1>7 DEF Build
  <2>2. TypeOK'
    BY <2>1 DEF TypeOK
  <2>3. PortIsNotForgotten'
    BY <2>1 DEF PortIsNotForgotten
  <2> QED BY <1>2, <2>2, <2>3
<1> QED BY <1>3, <1>4, <1>5, <1>6, <1>7 DEF Watchdog

\* stop().
LEMMA StopInv == IInv /\ Stop => IInv'
<1> SUFFICES ASSUME IInv, Stop PROVE IInv'
  OBVIOUS
<1> USE Consts DEF IInv, stopVars, portVars, wdVars, pipeVars, frames
<1>1. CASE StopFlag \/ StopNotify
  <2>1. /\ UNCHANGED <<portVars, wdPc, kind, cause, streak, pipeVars, input, output, frames, shown>>
        /\ stopPc' \in {"notify", "join"} /\ (~running => ~running')
    BY <1>1 DEF StopFlag, StopNotify
  <2>4. heard' \in BOOLEAN /\ running' \in BOOLEAN
    BY <1>1 DEF StopFlag, StopNotify, TypeOK
  <2>2. TypeOK'
    BY <2>1, <2>4 DEF TypeOK
  <2>3. PortIsNotForgotten' /\ TakenDown' /\ StoppedIsEmpty'
    BY <2>1 DEF PortIsNotForgotten, TakenDown, StoppedIsEmpty
  <2> QED BY <2>2, <2>3
<1>2. CASE StopTear
  <2>1. /\ UNCHANGED <<running, portVars, wdVars, input, output, frames, shown>>
        /\ stopPc' = "clear" /\ wdPc = "ended" /\ ~pushing
        /\ ~up' /\ up' \in BOOLEAN /\ settled' \in BOOLEAN /\ trouble' = "none"
    BY <1>2 DEF StopTear, Joined, TearPipeline
  <2>2. TypeOK'
    BY <2>1 DEF TypeOK
  <2>3. PortIsNotForgotten' /\ TakenDown' /\ StoppedIsEmpty'
    BY <2>1 DEF PortIsNotForgotten, TakenDown, StoppedIsEmpty
  <2> QED BY <2>2, <2>3
<1>3. CASE StopClear
  <2>1. /\ UNCHANGED <<running, portVars, wdVars, pipeVars, input, output, pushing, shown>>
        /\ stopPc = "clear" /\ stopPc' = "done" /\ queue' = 0 /\ ~inUse' /\ inUse' \in BOOLEAN
    BY <1>3 DEF StopClear, Clear
  <2>2. TypeOK'
    BY <2>1 DEF TypeOK
  <2>3. PortIsNotForgotten' /\ TakenDown' /\ StoppedIsEmpty'
    BY <2>1 DEF PortIsNotForgotten, TakenDown, StoppedIsEmpty
  <2> QED BY <2>2, <2>3
<1> QED BY <1>1, <1>2, <1>3 DEF Stop

LEMMA StepInv == IInv /\ [Next]_vars => IInv'
<1> SUFFICES ASSUME IInv, [Next]_vars PROVE IInv'
  OBVIOUS
<1>1. CASE Next
  BY <1>1, StreamInv, RendererInv, PortInv, WatchdogInv, StopInv DEF Next
<1>2. CASE UNCHANGED vars
  BY <1>2 DEF vars, stopVars, portVars, wdVars, pipeVars, frames,
              IInv, TypeOK, PortIsNotForgotten, TakenDown, StoppedIsEmpty
<1> QED BY <1>1, <1>2

\* No change of the port is forgotten, and stop() leaves nothing that runs
\* and no frame that is held.
THEOREM SourceIsSafe == Spec => []Safety
<1>1. IInv => Safety
  BY DEF IInv, Safety
<1> QED
  BY <1>1, InitInv, StepInv, PTL DEF Spec

-----------------------------------------------------------------------------
(* The picture.  A fresh stamp stands for a frame that is queued or shown,  *)
(* but between the stamp and the queue, and while the watchdog or stop()    *)
(* empties the source (FrameAtHand); there no streaming thread stamps       *)
(* again (Emptied), and a renderer that asks is not stopped (AsksInLife).   *)

Rebuilding == wdPc \in {"clear", "build"}

FrameAtHand ==
    SignalOk /\ ~pushing /\ ~Rebuilding /\ stopPc # "done" => queue > 0 \/ inUse

Emptied ==
    /\ Rebuilding => ~up /\ ~pushing
    /\ wdPc = "build" => output = "none"

AsksInLife ==
    /\ running <=> stopPc = "no"
    /\ shown = "asked" => running

PictureInv == IInv /\ FrameAtHand /\ Emptied /\ AsksInLife

LEMMA InitPicture == Init => PictureInv
<1> SUFFICES ASSUME Init PROVE PictureInv
  OBVIOUS
<1>1. FrameAtHand /\ Emptied /\ AsksInLife
  BY DEF Init, FrameAtHand, SignalOk, Emptied, Rebuilding, AsksInLife
<1> QED BY <1>1, InitInv DEF PictureInv

\* Only a stamp makes the signal fresh, and its frame is then queued.
LEMMA StreamPicture ==
    PictureInv /\ (Stream \/ Time \/ Break) => (FrameAtHand /\ Emptied /\ AsksInLife)'
<1> SUFFICES ASSUME PictureInv, Stream \/ Time \/ Break
             PROVE  (FrameAtHand /\ Emptied /\ AsksInLife)'
  OBVIOUS
<1> USE DEF stopVars, portVars, wdVars, pipeVars, frames
<1>1. UNCHANGED <<stopVars, wdVars, up, inUse, shown>>
  BY DEF Stream, Feed, Silence, Stamp, Push, Time, AgeOutput, Settle, Break
<1>2. AsksInLife'
  BY <1>1 DEF PictureInv, AsksInLife
<1>3. /\ ~up => (pushing' => pushing) /\ (output = "none" => output' = "none")
      /\ output' = "fresh" => (output = "fresh" /\ pushing' = pushing /\ queue' = queue)
                              \/ pushing' \/ Push
  BY DEF Stream, Feed, Silence, Stamp, Push, Time, AgeOutput, Settle, Break
<1>4. Emptied'
  BY <1>1, <1>3 DEF PictureInv, Emptied, Rebuilding
<1>5. Push => queue' > 0
  <2> SUFFICES ASSUME Push PROVE queue' > 0
    OBVIOUS
  <2>1. queue \in Nat /\ MaxQueue \in Nat \ {0}
    BY LiveSourceAssumption DEF PictureInv, IInv, TypeOK
  <2> QED
    BY <2>1 DEF Push, Queued, Least
<1>6. FrameAtHand'
  BY <1>1, <1>3, <1>5 DEF PictureInv, FrameAtHand, SignalOk, Rebuilding
<1> QED BY <1>2, <1>4, <1>6

\* The renderer takes a frame and keeps it; what it keeps it gives again.
LEMMA RendererPicture == PictureInv /\ Renderer => (FrameAtHand /\ Emptied /\ AsksInLife)'
<1> SUFFICES ASSUME PictureInv, Renderer
             PROVE  (FrameAtHand /\ Emptied /\ AsksInLife)'
  OBVIOUS
<1> USE DEF stopVars, portVars, wdVars, pipeVars, frames
<1>1. UNCHANGED <<stopVars, wdVars, pipeVars, output, pushing>>
  BY DEF Renderer, AskSignal, Take
<1>2. shown' = "asked" => running
  BY DEF Renderer, AskSignal, Take
<1>3. queue > 0 \/ inUse => queue' > 0 \/ inUse'
  BY DEF Renderer, AskSignal, Take
<1> QED
  BY <1>1, <1>2, <1>3 DEF PictureInv, FrameAtHand, SignalOk, Emptied, Rebuilding, AsksInLife

\* The watchdog empties the source only when its pipeline, and with it the
\* streaming thread, is gone.
LEMMA WatchdogPicture == PictureInv /\ Watchdog => (FrameAtHand /\ Emptied /\ AsksInLife)'
<1> SUFFICES ASSUME PictureInv, Watchdog
             PROVE  (FrameAtHand /\ Emptied /\ AsksInLife)'
  OBVIOUS
<1> USE DEF stopVars, portVars, wdVars, pipeVars, frames
<1>1. UNCHANGED stopVars /\ shown' = shown /\ pushing' = pushing
  BY DEF Watchdog, NapTest, NapWait, Wake, NapOver, Look, Tear, TearPipeline, TearClear, Clear, Build
<1>2. AsksInLife'
  BY <1>1 DEF PictureInv, AsksInLife
<1>3. CASE NapTest \/ NapWait \/ Wake \/ Look
  <2>1. ~Rebuilding /\ ~Rebuilding' /\ UNCHANGED <<output, queue, inUse>>
    BY <1>3 DEF NapTest, NapWait, Wake, NapOver, Look, Rebuilding
  <2>2. wdPc' # "build"
    BY <2>1 DEF Rebuilding
  <2> QED
    BY <1>1, <1>2, <2>1, <2>2 DEF PictureInv, FrameAtHand, SignalOk, Emptied
<1>4. CASE Tear
  BY <1>1, <1>2, <1>4 DEF Tear, TearPipeline, FrameAtHand, Emptied, Rebuilding
<1>5. CASE TearClear
  BY <1>1, <1>2, <1>5 DEF TearClear, Clear, PictureInv, FrameAtHand, Emptied, Rebuilding
<1>6. CASE \E ok \in BOOLEAN : Build(ok)
  <2>1. output' = "none" /\ wdPc' = "nap"
    BY <1>6 DEF Build, PictureInv, Emptied
  <2> QED
    BY <1>2, <2>1 DEF FrameAtHand, SignalOk, Emptied, Rebuilding
<1> QED BY <1>3, <1>4, <1>5, <1>6 DEF Watchdog

\* The port is no matter of the picture, and stop() begins when nobody asks.
LEMMA StopPicture == PictureInv /\ (SetUdpPort \/ Stop) => (FrameAtHand /\ Emptied /\ AsksInLife)'
<1> SUFFICES ASSUME PictureInv, SetUdpPort \/ Stop
             PROVE  (FrameAtHand /\ Emptied /\ AsksInLife)'
  OBVIOUS
<1> USE DEF stopVars, portVars, wdVars, pipeVars, frames
<1>1. UNCHANGED <<wdPc, output, pushing, shown>> /\ (~up => ~up')
  BY DEF SetUdpPort, SetPort, SetPortEnds, Stop, StopFlag, StopNotify, StopTear, StopClear,
         TearPipeline, Clear
<1>2. Emptied'
  BY <1>1 DEF PictureInv, Emptied, Rebuilding
<1>3. /\ stopPc' # "done" => UNCHANGED <<queue, inUse>> /\ stopPc # "done"
      /\ \/ UNCHANGED <<running, stopPc>>
         \/ shown # "asked" /\ ~running' /\ stopPc' # "no"
         \/ stopPc # "no" /\ running' = running /\ stopPc' # "no"
  BY DEF SetUdpPort, SetPort, SetPortEnds, Stop, StopFlag, StopNotify, StopTear, StopClear,
         TearPipeline, Clear
<1>4. AsksInLife'
  BY <1>1, <1>3 DEF PictureInv, AsksInLife
<1>5. FrameAtHand'
  BY <1>1, <1>3 DEF PictureInv, FrameAtHand, SignalOk, Rebuilding
<1> QED BY <1>2, <1>4, <1>5

LEMMA StepPicture == PictureInv /\ [Next]_vars => PictureInv'
<1> SUFFICES ASSUME PictureInv, [Next]_vars PROVE PictureInv'
  OBVIOUS
<1>1. IInv'
  BY StepInv DEF PictureInv
<1>2. CASE Next
  BY <1>1, <1>2, StreamPicture, RendererPicture, WatchdogPicture, StopPicture DEF Next, PictureInv
<1>3. CASE UNCHANGED vars
  BY <1>1, <1>3 DEF vars, stopVars, portVars, wdVars, pipeVars, frames,
                    PictureInv, FrameAtHand, SignalOk, Emptied, Rebuilding, AsksInLife
<1> QED BY <1>2, <1>3

\* A picture does not blink: a renderer that had a fresh signal gets a frame,
\* but in the moment between the stamp of a first frame and its place in the
\* queue, or while the watchdog empties the source for a rebuild.
THEOREM PictureDoesNotBlink == Spec => PictureStays
<1> DEFINE Step == Take /\ shown' = "no" => ~SignalOk \/ pushing \/ wdPc = "clear" \/ wdPc = "build"
<1>1. PictureInv /\ [Next]_vars => [Step]_vars
  <2> SUFFICES ASSUME PictureInv, Take, shown' = "no", SignalOk, ~pushing, ~Rebuilding
               PROVE  FALSE
    BY DEF Rebuilding
  <2>1. stopPc # "done"
    BY DEF Take, PictureInv, AsksInLife
  <2>2. queue > 0 \/ inUse
    BY <2>1 DEF PictureInv, FrameAtHand
  <2> QED
    BY <2>2 DEF Take, Given
<1> QED
  BY <1>1, InitPicture, StepPicture, PTL DEF Spec, PictureStays

=============================================================================
