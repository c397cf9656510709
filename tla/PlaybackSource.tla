---------------------------- MODULE PlaybackSource ----------------------------
(***************************************************************************)
(* source/playback_source.cpp with source/mkv_feeder.cpp: one channel of a *)
(* recording played back.  The pump reads the file and pushes it into the  *)
(* decoder, the streaming thread brings decoded frames to take(), which    *)
(* WAITS for room in the queue, the renderer takes what is due, and the    *)
(* clock of the player moves the target, seeks and stops.                  *)
(*                                                                         *)
(* Time is counted in frames.  The channel has two files: the second one   *)
(* follows the first and is still being written.  It grows to NewLen       *)
(* frames, the journal's marks say how much of it is safe to read, in the  *)
(* end it is closed.  A frame is its file and its number there.  Bytes,    *)
(* clusters and the file's header are left out: a seek begins at some      *)
(* frame the index points to.  The calls of the clock and of close() are   *)
(* taken one at a time here; PlayerSession is about their order.           *)
(***************************************************************************)
EXTENDS Integers, Sequences, FiniteSets

CONSTANTS
    OldLen,      \* frames of the closed file
    NewLen,      \* frames of the file that is written
    QueueDepth,  \* cfg.queue_depth
    PipeDepth    \* frames that appsrc and the decoder hold together

\* A queue of one frame would freeze: acquire() wakes take() only when a frame dies.
ASSUME PlaybackAssumption ==
    /\ OldLen \in Nat \ {0} /\ NewLen \in Nat \ {0} /\ PipeDepth \in Nat \ {0}
    /\ QueueDepth \in Nat \ {0, 1}

VARIABLES
    size, safe, closed,            \* the file that is written; the journal's last mark, its end
    ixLimit,                       \* what the loaded index says of it: NoLimit when closed
    callPc, seekTo,                \* seek() or stop(), where it is; stop() has seekTo = 0
    curFile, anchor, target,       \* cur_file, anchor_us, target_us
    running, up,                   \* running; pipeline # nullptr
    pumpPc, limit, pos, fileSize,  \* the pump; the feeder's limit_, pos_ and size_
    eos, pipe,                     \* appsrc has EOS; the frames on their way
    takePc, held,                  \* take() and its frame
    queue, current

diskVars   == <<size, safe, closed>>
aimVars    == <<callPc, seekTo, curFile, anchor, target, ixLimit>>
feederVars == <<limit, pos, fileSize>>
pumpVars   == <<pumpPc, feederVars>>
pipeVars   == <<running, up, eos, pipe>>
takeVars   == <<takePc, held>>
shownVars  == <<queue, current>>
vars == <<diskVars, aimVars, pumpVars, pipeVars, takeVars, shownVars>>

NoLimit == -1
NoFrame == [file |-> 0, no |-> 0]
Longest == IF OldLen < NewLen THEN NewLen ELSE OldLen
End == OldLen + NewLen
Frame == [file : 1 .. 2, no : 1 .. Longest]

Least(a, b) == IF a < b THEN a ELSE b

\* The place of a frame on the common axis: its own, and what the source takes it for.
TrueTime(f) == (f.file - 1) * OldLen + f.no
SessionTime(f) == (anchor - 1) * OldLen + f.no

-----------------------------------------------------------------------------
(* The recorder, in another thread or an earlier life. *)

Write ==
    /\ ~closed
    /\ \/ size < NewLen /\ size' = size + 1 /\ UNCHANGED <<safe, closed>>
       \/ safe' = size /\ UNCHANGED <<size, closed>>
       \/ closed' = TRUE /\ safe' = size /\ UNCHANGED size
    /\ UNCHANGED <<aimVars, pumpVars, pipeVars, takeVars, shownVars>>

-----------------------------------------------------------------------------
(* The feeder and pump_loop. *)

FileSize(f) == IF f = 1 THEN OldLen ELSE size
LimitOf(f) == IF f = 1 THEN NoLimit ELSE ixLimit

\* MkvFeeder::read: the size is asked again only under a limit, when all is read.
EndOf(s) == IF limit = NoLimit THEN s ELSE Least(limit, s)
SizeAgain == IF pos > EndOf(fileSize) /\ limit # NoLimit THEN FileSize(curFile) ELSE fileSize

Read == pos <= EndOf(SizeAgain)

PumpReads ==
    /\ pumpPc = "read"
    /\ IF ~running THEN pumpPc' = "ended" /\ UNCHANGED feederVars
       ELSE /\ fileSize' = SizeAgain
            /\ pos' = IF Read THEN pos + 1 ELSE pos
            /\ pumpPc' = IF Read THEN "push" ELSE "nothing"
            /\ UNCHANGED limit
    /\ UNCHANGED <<diskVars, aimVars, pipeVars, takeVars, shownVars>>

\* Nothing is the end of a closed file, of a growing one it is a reason to wait.
Growing == limit # NoLimit

PumpFinds ==
    /\ pumpPc = "nothing"
    /\ pumpPc' = IF Growing THEN "rest" ELSE "ended"
    /\ UNCHANGED <<diskVars, aimVars, feederVars, pipeVars, takeVars, shownVars>>

PumpRests ==
    /\ pumpPc = "rest"
    /\ pumpPc' = "read"
    /\ UNCHANGED <<diskVars, aimVars, feederVars, pipeVars, takeVars, shownVars>>

\* push_buffer blocks while appsrc is full; EOS lets it go.
PumpPushes ==
    /\ pumpPc = "push"
    /\ \/ eos /\ pumpPc' = "ended" /\ UNCHANGED pipe
       \/ /\ ~eos /\ Len(pipe) < PipeDepth
          /\ pipe' = Append(pipe, [file |-> curFile, no |-> pos - 1])
          /\ pumpPc' = "read"
    /\ UNCHANGED <<diskVars, aimVars, feederVars, running, up, eos, takeVars, shownVars>>

Pump == PumpReads \/ PumpFinds \/ PumpRests \/ PumpPushes

-----------------------------------------------------------------------------
(* The streaming thread: a decoded frame comes to take(). *)

Deliver ==
    /\ up /\ takePc = "idle" /\ pipe # <<>>
    /\ held' = Head(pipe) /\ pipe' = Tail(pipe)
    /\ takePc' = "test"
    /\ UNCHANGED <<diskVars, aimVars, pumpVars, running, up, eos, shownVars>>

Room == Len(queue) < QueueDepth

\* The test and the wait of room.wait(), one mutex, held from one to the other.
\* Each frame comes with caps, in dmabuf and in a known format: take() drops
\* any other without a word, and that is left out.
TakeTests ==
    /\ takePc = "test"
    /\ IF running /\ ~Room
       THEN takePc' = "drowsy" /\ UNCHANGED <<held, queue>>
       ELSE /\ queue' = IF running THEN Append(queue, held) ELSE queue
            /\ takePc' = "idle" /\ held' = NoFrame
    /\ UNCHANGED <<diskVars, aimVars, pumpVars, pipeVars, current>>

TakeWaits ==
    /\ takePc = "drowsy"
    /\ takePc' = "asleep"
    /\ UNCHANGED <<diskVars, aimVars, pumpVars, pipeVars, held, shownVars>>

Free == takePc # "drowsy"
Notified == IF takePc = "asleep" THEN "test" ELSE takePc

Streaming == Deliver \/ TakeTests \/ TakeWaits

-----------------------------------------------------------------------------
(* acquire(), in the renderer's thread. *)

\* How many frames at the head of the queue are due.
Due == Cardinality({i \in DOMAIN queue : \A j \in 1 .. i : SessionTime(queue[j]) <= target})

\* The one that was current and those in between die, and that makes room.
Dying_Never == FALSE
Dying == Due > 1 \/ current # NoFrame

Acquire ==
    /\ Free /\ Due > 0
    /\ current' = queue[Due]
    /\ queue' = SubSeq(queue, Due + 1, Len(queue))
    /\ takePc' = IF Dying THEN Notified ELSE takePc
    /\ UNCHANGED <<diskVars, aimVars, pumpVars, pipeVars, held>>

-----------------------------------------------------------------------------
(* The calls of the player: the target moves, refresh(), seek(), stop(). *)

SetTarget ==
    /\ callPc = "idle" /\ target < End
    /\ target' = target + 1
    /\ UNCHANGED <<diskVars, callPc, seekTo, curFile, anchor, ixLimit, pumpVars, pipeVars, takeVars, shownVars>>

\* The session has read the journal again.
Refresh ==
    /\ callPc = "idle"
    /\ ixLimit' = IF closed THEN NoLimit ELSE safe
    /\ limit' = IF curFile = 2 THEN ixLimit' ELSE IF curFile = 1 THEN NoLimit ELSE limit
    /\ UNCHANGED <<diskVars, callPc, seekTo, curFile, anchor, target, pumpPc, pos, fileSize, pipeVars, takeVars,
                   shownVars>>

\* SessionIndex::locate; 0 when nothing covers the time.  The end of the growing
\* file is its last mark.
Located(t) ==
    CASE t <= OldLen -> 1
      [] t > OldLen /\ (ixLimit = NoLimit \/ t <= OldLen + ixLimit) -> 2
      [] OTHER -> 0

Anchored_Once(t) == IF anchor = 0 THEN Located(t) ELSE anchor
Anchored(t) == Located(t)

Seek(t) ==
    /\ callPc = "idle" /\ Located(t) # 0
    /\ anchor' = Anchored(t) /\ curFile' = Located(t)
    /\ seekTo' = t
    /\ callPc' = "aim"
    /\ UNCHANGED <<diskVars, target, ixLimit, pumpVars, pipeVars, takeVars, shownVars>>

Aim ==
    /\ callPc = "aim"
    /\ target' = seekTo
    /\ callPc' = "drop"
    /\ UNCHANGED <<diskVars, seekTo, curFile, anchor, ixLimit, pumpVars, pipeVars, takeVars, shownVars>>

Stop ==
    /\ callPc = "idle" /\ up
    /\ callPc' = "drop" /\ seekTo' = 0
    /\ UNCHANGED <<diskVars, curFile, anchor, target, ixLimit, pumpVars, pipeVars, takeVars, shownVars>>

\* teardown().  The condition changes, and is notified, without the mutex.
Drop ==
    /\ callPc = "drop"
    /\ running' = FALSE
    /\ callPc' = "notify"
    /\ UNCHANGED <<diskVars, seekTo, curFile, anchor, target, ixLimit, pumpVars, up, eos, pipe, takeVars, shownVars>>

Heard_NoOne == takePc
Heard == Notified

Notify ==
    /\ callPc = "notify"
    /\ takePc' = Heard
    /\ eos' = up
    /\ callPc' = "join"
    /\ UNCHANGED <<diskVars, seekTo, curFile, anchor, target, ixLimit, pumpVars, running, up, pipe, held, shownVars>>

Joined == pumpPc = "ended"

Join ==
    /\ callPc = "join" /\ Joined
    /\ callPc' = "null"
    /\ UNCHANGED <<diskVars, seekTo, curFile, anchor, target, ixLimit, pumpVars, pipeVars, takeVars, shownVars>>

\* set_state(NULL) waits for the streaming thread, what is on its way is lost.
Idle_NotWaited == TRUE
Idle == takePc = "idle"

Null ==
    /\ callPc = "null" /\ Idle
    /\ up' = FALSE /\ eos' = FALSE /\ pipe' = <<>>
    /\ limit' = NoLimit /\ pos' = 0 /\ fileSize' = 0
    /\ callPc' = "clear"
    /\ UNCHANGED <<diskVars, seekTo, curFile, anchor, target, ixLimit, pumpPc, running, takeVars, shownVars>>

Cleared_NotCurrent == queue' = <<>> /\ UNCHANGED current
Cleared == queue' = <<>> /\ current' = NoFrame

Clear ==
    /\ callPc = "clear" /\ Free
    /\ Cleared
    /\ callPc' = IF seekTo = 0 THEN "idle" ELSE "build"
    /\ UNCHANGED <<diskVars, seekTo, curFile, anchor, target, ixLimit, pumpVars, pipeVars, takeVars>>

\* The limit of the file that is played, set before the place is looked for.
LimitSet == LimitOf(curFile)

\* build() after its teardown: the file may not open, no cluster may be found
\* before the limit, the pipeline may not start.
Build(from) ==
    /\ callPc = "build"
    /\ from <= (IF LimitSet = NoLimit THEN FileSize(curFile) ELSE Least(LimitSet, FileSize(curFile)))
    /\ limit' = LimitSet /\ fileSize' = FileSize(curFile) /\ pos' = from
    /\ running' = TRUE /\ up' = TRUE
    /\ pumpPc' = "read"
    /\ callPc' = "idle"
    /\ UNCHANGED <<diskVars, seekTo, curFile, anchor, target, ixLimit, eos, pipe, takeVars, shownVars>>

BuildFails ==
    /\ callPc = "build"
    /\ callPc' = "idle"
    /\ UNCHANGED <<diskVars, seekTo, curFile, anchor, target, ixLimit, pumpVars, pipeVars, takeVars, shownVars>>

Call == Aim \/ Drop \/ Notify \/ Join \/ Null \/ Clear \/ BuildFails \/ \E n \in 1 .. Longest : Build(n)
Player == SetTarget \/ Refresh \/ Stop \/ \E t \in 1 .. End : Seek(t)

-----------------------------------------------------------------------------
Init ==
    /\ size = 1 /\ safe = 1 /\ closed = FALSE
    /\ callPc = "idle" /\ seekTo = 0
    /\ curFile = 0 /\ anchor = 0 /\ target = 1 /\ ixLimit = 1
    /\ running = FALSE /\ up = FALSE
    /\ pumpPc = "ended" /\ limit = NoLimit /\ pos = 0 /\ fileSize = 0
    /\ eos = FALSE /\ pipe = <<>>
    /\ takePc = "idle" /\ held = NoFrame
    /\ queue = <<>> /\ current = NoFrame

Next == Write \/ Pump \/ Streaming \/ Acquire \/ Call \/ Player
Spec == Init /\ [][Next]_vars

\* Every thread is scheduled: the pump, the streaming thread, the renderer, and
\* the caller once it is inside a call.
Fairness == WF_vars(Pump) /\ WF_vars(Streaming) /\ WF_vars(Acquire) /\ WF_vars(Call)

FairSpec == Spec /\ Fairness

-----------------------------------------------------------------------------
(* Properties. *)

\* The frames between the screen and the file, in the order they will be shown.
One(f) == IF f = NoFrame THEN <<>> ELSE <<f>>
OnTheWay ==
    queue \o One(held) \o pipe \o (IF pumpPc = "push" THEN <<[file |-> curFile, no |-> pos - 1]>> ELSE <<>>)
Chain == One(current) \o OnTheWay

\* Every variable has its type.
TypeOK ==
    /\ size \in 1 .. NewLen /\ safe \in 1 .. size /\ closed \in BOOLEAN
    /\ ixLimit \in NoLimit .. NewLen /\ ixLimit # 0 /\ limit \in NoLimit .. NewLen /\ limit # 0
    /\ callPc \in {"idle", "aim", "drop", "notify", "join", "null", "clear", "build"}
    /\ seekTo \in 0 .. End /\ target \in 1 .. End
    /\ curFile \in 0 .. 2 /\ anchor \in 0 .. 2
    /\ running \in BOOLEAN /\ up \in BOOLEAN /\ eos \in BOOLEAN
    /\ pumpPc \in {"read", "nothing", "rest", "push", "ended"}
    /\ pos \in 0 .. Longest + 1 /\ fileSize \in 0 .. Longest
    /\ takePc \in {"idle", "test", "drowsy", "asleep"}
    /\ held \in Frame \cup {NoFrame} /\ current \in Frame \cup {NoFrame}
    /\ pipe \in Seq(Frame) /\ Len(pipe) <= PipeDepth
    /\ queue \in Seq(Frame) /\ Len(queue) <= QueueDepth

\* From the picture on the screen to the place in the file no frame is missing,
\* doubled or of another place: nothing of what was played before a seek stays,
\* however the seek fell into the work of the other threads.
FeedIsWhole ==
    callPc = "idle" =>
        /\ \A i \in DOMAIN Chain : Chain[i] = [file |-> curFile, no |-> pos - 1 - (Len(Chain) - i)]
        /\ ~running => Chain = <<>> /\ ~up

\* No frame is read that the journal has not said to be safe.
ReadsOnlySafe == up /\ curFile = 2 /\ callPc = "idle" => pos - 1 <= safe

\* Together, at any step of the four threads.
Safety == TypeOK /\ FeedIsWhole /\ ReadsOnlySafe

\* A picture comes to the screen only when its own time has come; while a seek
\* moves the anchor, the frames before it are judged by the new one.
ShownIsDue ==
    [][current' # current /\ current' # NoFrame /\ callPc = "idle" => TrueTime(current') <= target]_vars

\* The next frame of the feed is due, and the feed has it or can read it.
NextFrame == IF OnTheWay # <<>> THEN Head(OnTheWay) ELSE [file |-> curFile, no |-> pos]
Behind ==
    /\ running /\ callPc = "idle"
    /\ SessionTime(NextFrame) <= target
    /\ OnTheWay # <<>> \/ (pos <= EndOf(fileSize) /\ pumpPc # "ended")

\* The picture catches up with the target: pump, decoder, queue and renderer
\* never wait for one another in a ring, whatever is full.
CatchesUp == Behind ~> ~Behind

\* A teardown lets everyone out of his wait and ends, unless its notify falls
\* between the test of take() and the wait.
TeardownEnds == callPc = "notify" /\ takePc # "drowsy" ~> callPc \in {"idle", "build"}

\* "Release the feeder from its wait": every teardown ends.  It does not hold.
FeederIsReleased == callPc = "drop" ~> callPc \in {"idle", "build"}

\* "For a live recording zero is not the end": the pump gives up only when it has
\* read the whole of a closed file.  It does not hold.
ZeroIsNotTheEnd == running /\ pumpPc = "ended" /\ callPc = "idle" => pos > FileSize(curFile)

\* A target past the end of a file brings the file that follows.  It does not hold.
PlaysOn ==
    running /\ callPc = "idle" /\ curFile = 1 /\ target > OldLen
        ~> callPc # "idle" \/ (current # NoFrame /\ current.file = 2)
=============================================================================
