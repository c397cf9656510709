------------------------------ MODULE Recorder ------------------------------
(***************************************************************************)
(* record/recorder.cpp over Storage: every channel has a thread that turns *)
(* the packets of its port into files on the drive.  A turn of loop() takes *)
(* a snapshot of the drive, decides whether the open file must be closed,  *)
(* and whether one may be opened.                                          *)
(*                                                                         *)
(* The camera, the network and GStreamer are external: a pipeline may fail *)
(* to start, report an error, or deliver no frames at any time, and the    *)
(* packets may cease and come back between any two turns.  Bytes, times    *)
(* and the length of a pause are abstracted; a file knows whether its      *)
(* first key frame came and which lines the journal has about it.          *)
(***************************************************************************)
EXTENDS Storage

CONSTANTS
    Channels,     \* the recorders: main, second, ...
    LongSilence   \* an open file may go unwritten for keep_recent_sec: no key
                  \* frame for that long, or the clock is set by hand

ASSUME RecorderAssumption == LongSilence \in BOOLEAN

VARIABLES
    recPc,        \* place in loop(); "pause" while now < next_open_ms
    seen,         \* number of the drive in the snapshot of this turn, if a file
                  \* may be opened by it, else 0
    pipeline,     \* pipeline # nullptr
    current,      \* cur_path: the file at hand, 0 = none
    driveGen,     \* drive_generation
    active,       \* st.active, "recording" to the outside
    why           \* why the file is being closed

recVars == <<recPc, seen, pipeline, current, driveGen, active, why>>
vars == <<storageVars, recVars>>

Reasons == {"none", "port", "stale", "gone", "changed", "bus", "signal", "stall", "rotation", "stop"}
Graceful == {"signal", "rotation", "stop"}
BacksOff == {"stale", "bus", "stall"}

Writing(c) == pipeline[c] /\ files[current[c]].key

-----------------------------------------------------------------------------
(* The world around the recorders. *)

\* A frame goes to the file: on_frame drops all before the first key frame.
Frame(c) ==
    /\ pipeline[c] /\ why[c] = "none"
    /\ ~files[current[c]].key \/ ~files[current[c]].fresh
    /\ files' = [files EXCEPT ![current[c]] = [@ EXCEPT !.key = TRUE, !.fresh = TRUE]]
    /\ UNCHANGED <<driveVars, probeVars, recVars>>

\* keep_recent_sec pass since the last write to file k, which can be found again.
GrowOld(k) ==
    /\ files[k].fresh /\ ~files[k].gone /\ files[k].inst \in {0, mounted}
    /\ LongSilence \/ \A c \in Channels : pipeline[c] => current[c] # k
    /\ files' = [files EXCEPT ![k] = [@ EXCEPT !.fresh = FALSE]]
    /\ UNCHANGED <<driveVars, probeVars, recVars>>

-----------------------------------------------------------------------------
(* close_file, in two steps: between them lie up to ten seconds of flushing. *)

\* It is said at once that nothing is being recorded.
ActiveWhileClosing(c) == FALSE

BeginClose(c, reason) ==
    /\ pipeline[c]
    /\ why' = [why EXCEPT ![c] = reason]
    /\ active' = [active EXCEPT ![c] = ActiveWhileClosing(c)]
    /\ recPc' = [recPc EXCEPT ![c] = "closing"]
    /\ UNCHANGED <<storageVars, pipeline, current, driveGen>>

\* What the closing leaves of file k: a line in the journal if it can be
\* written (through a descriptor: on the system disk always), and no file at
\* all if no frame came.
Closed(k, reason) == [files[k] EXCEPT
    !.open = FALSE,
    !.line = IF files[k].inst \in {0, mounted} THEN "closed" ELSE @,
    !.gone = @ \/ (OnDrive(k) /\ ~files[k].key)]

\* Where the turn goes on: after a change of the port the drive is yet to be
\* looked at; otherwise the next file may be opened by the same snapshot.
AfterClose(reason) ==
    CASE reason = "port" -> "look"
      [] reason = "stop" -> "stopped"
      [] reason \in BacksOff -> "pause"
      [] OTHER -> "open"

\* EOS and its wait when graceful, the pipeline to NULL, the caches asked for.
EndClose(c) ==
    /\ recPc[c] = "closing"
    /\ files' = [files EXCEPT ![current[c]] = Closed(current[c], why[c])]
    /\ pipeline' = [pipeline EXCEPT ![c] = FALSE]
    /\ current' = [current EXCEPT ![c] = 0]
    /\ active' = [active EXCEPT ![c] = FALSE]
    /\ why' = [why EXCEPT ![c] = "none"]
    /\ recPc' = [recPc EXCEPT ![c] = AfterClose(why[c])]
    /\ UNCHANGED <<driveVars, probeVars, seen, driveGen>>

-----------------------------------------------------------------------------
(* A turn of loop(). *)

\* set_udp_port was called: the file is closed, then the turn goes on.
CloseForPort(c) ==
    /\ recPc[c] = "turn"
    /\ BeginClose(c, "port")
    /\ UNCHANGED seen

\* The snapshot of the drive, and what it allows when packets arrive.
Looks(c) == recPc[c] \in {"turn", "look"}
MayOpen(signal) == Usable /\ ~aged /\ signal
See(c, signal) == seen' = [seen EXCEPT ![c] = IF MayOpen(signal) THEN generation ELSE 0]

\* The drive is lost to this file: nothing can be flushed to it any more.
LostDrive_NoAge(c) == ~Usable \/ generation # driveGen[c]
LostDrive(c) == ~Usable \/ generation # driveGen[c] \/ aged
CloseLost(c) ==
    /\ Looks(c) /\ LostDrive(c)
    /\ BeginClose(c, IF aged THEN "stale" ELSE IF ~Usable THEN "gone" ELSE "changed")
    /\ \E signal \in BOOLEAN : See(c, signal)

\* The bus reports an error; or the signal is gone; or frames fail to come;
\* or the file is long enough; in that order.
CloseWorking(c) ==
    /\ Looks(c) /\ pipeline[c] /\ ~LostDrive(c)
    /\ \E signal \in BOOLEAN :
          /\ \/ BeginClose(c, "bus")
             \/ ~signal /\ BeginClose(c, "signal")
             \/ signal /\ BeginClose(c, "stall")
             \/ signal /\ files[current[c]].key /\ BeginClose(c, "rotation")
          /\ See(c, signal)

\* Without a file, the turn goes on to open one.
Look(c) ==
    /\ Looks(c) /\ ~pipeline[c]
    /\ \E signal \in BOOLEAN : See(c, signal)
    /\ recPc' = [recPc EXCEPT ![c] = "open"]
    /\ UNCHANGED <<storageVars, pipeline, current, driveGen, active, why>>

\* The end of a turn, and of the pause after a failure.
Rest_NeverAfterFailure(c) ==
    /\ recPc[c] = "open" /\ seen[c] = 0
    /\ recPc' = [recPc EXCEPT ![c] = "turn"]
    /\ UNCHANGED <<storageVars, seen, pipeline, current, driveGen, active, why>>
Rest(c) ==
    /\ (recPc[c] = "open" /\ seen[c] = 0) \/ recPc[c] = "pause"
    /\ recPc' = [recPc EXCEPT ![c] = "turn"]
    /\ seen' = [seen EXCEPT ![c] = 0]
    /\ UNCHANGED <<storageVars, pipeline, current, driveGen, active, why>>

\* The number of the drive is the one of the snapshot.
Kept(c) == seen[c]

\* make_path has a root, and its mkdir succeeds; it may block.  With the drive
\* just pulled mkdir_p makes the mount point itself.
MakePath(c) ==
    /\ recPc[c] = "open" /\ seen[c] # 0 /\ Usable
    /\ recPc' = [recPc EXCEPT ![c] = "launch"]
    /\ UNCHANGED <<storageVars, seen, pipeline, current, driveGen, active, why>>

NewFile(c, opened) == [inst |-> mounted, by |-> c, key |-> FALSE, fresh |-> TRUE, gone |-> FALSE,
                       open |-> opened, line |-> IF opened THEN "open" ELSE "none"]

\* The pipeline plays: filesink made the file, the journal gets its line.  The
\* directory of the day is there: made just now, or left of an earlier time.
Launch(c) ==
    /\ recPc[c] = "launch" /\ Len(files) < MaxFiles
    /\ files' = Append(files, NewFile(c, TRUE))
    /\ pipeline' = [pipeline EXCEPT ![c] = TRUE]
    /\ current' = [current EXCEPT ![c] = Len(files) + 1]
    /\ driveGen' = [driveGen EXCEPT ![c] = Kept(c)]
    /\ seen' = [seen EXCEPT ![c] = 0]
    /\ active' = [active EXCEPT ![c] = TRUE]
    /\ recPc' = [recPc EXCEPT ![c] = "turn"]
    /\ UNCHANGED <<driveVars, probeVars, why>>

\* No path, or no pipeline: the next attempt waits.
Fails(c) ==
    /\ recPc' = [recPc EXCEPT ![c] = "pause"]
    /\ seen' = [seen EXCEPT ![c] = 0]
    /\ UNCHANGED <<driveVars, probeVars, pipeline,
                   current, driveGen, active, why>>
OpenFails(c) ==
    /\ recPc[c] = "launch" \/ (recPc[c] = "open" /\ seen[c] # 0)
    /\ Fails(c)
    /\ UNCHANGED files

\* The pipeline does not play; the file may have been made by then.  close_file
\* comes before its path is kept: it stays on the drive and out of the journal.
PlayFails(c) ==
    /\ recPc[c] = "launch"
    /\ \/ Len(files) < MaxFiles /\ files' = Append(files, NewFile(c, FALSE))
       \/ UNCHANGED files
    /\ Fails(c)

\* Recorder::stop clears running, which is read at the head of a turn alone:
\* the loop has ended, and what is open is closed gracefully.
LastClose(c) ==
    /\ recPc[c] = "turn"
    /\ BeginClose(c, "stop")
    /\ UNCHANGED seen
LastTurn(c) ==
    /\ recPc[c] = "turn" /\ ~pipeline[c]
    /\ recPc' = [recPc EXCEPT ![c] = "stopped"]
    /\ UNCHANGED <<storageVars, seen, pipeline, current, driveGen, active, why>>

-----------------------------------------------------------------------------
Init ==
    /\ StorageInit
    /\ recPc = [c \in Channels |-> "turn"]
    /\ seen = [c \in Channels |-> 0]
    /\ pipeline = [c \in Channels |-> FALSE]
    /\ current = [c \in Channels |-> 0]
    /\ driveGen = [c \in Channels |-> 0]
    /\ active = [c \in Channels |-> FALSE]
    /\ why = [c \in Channels |-> "none"]

Loop(c) ==
    \/ CloseForPort(c) \/ CloseLost(c) \/ CloseWorking(c) \/ EndClose(c)
    \/ Look(c) \/ Rest(c) \/ MakePath(c) \/ Launch(c) \/ OpenFails(c) \/ PlayFails(c)
    \/ LastClose(c) \/ LastTurn(c)

Next ==
    \/ StorageNext /\ UNCHANGED recVars
    \/ \E c \in Channels : Frame(c) \/ Loop(c)
    \/ \E k \in DOMAIN files : GrowOld(k)

Spec == Init /\ [][Next]_vars

(***************************************************************************)
(* Fairness: the recorders' threads are scheduled, packets come again, and *)
(* a path and a pipeline that can be had are had at last.  Nothing of the  *)
(* outside (the bus, the port, a stall, the stop) has to happen.  The probe thread   *)
(* may hang for ever on a dead drive: then its snapshot grows old.         *)
(***************************************************************************)
Goes(c) ==
    \/ CloseLost(c) \/ EndClose(c) \/ Look(c) \/ Rest(c)
    \/ MakePath(c) \/ Launch(c) \/ OpenFails(c) \/ PlayFails(c)
Fairness ==
    /\ \A c \in Channels :
          /\ WF_vars(Goes(c))
          /\ SF_vars(Look(c) /\ seen'[c] # 0) /\ SF_vars(MakePath(c)) /\ SF_vars(Launch(c))
    /\ WF_vars((Accept \/ Reject \/ Age) /\ UNCHANGED recVars)

FairSpec == Spec /\ Fairness

-----------------------------------------------------------------------------
(* Properties. *)

\* Every variable has its type.
FileRecords == [inst : 0 .. MaxMounts, by : Channels, key : BOOLEAN, fresh : BOOLEAN, gone : BOOLEAN,
                open : BOOLEAN, line : {"none", "open", "closed"}]
TypeOK ==
    /\ StorageTypes
    /\ \A k \in DOMAIN files : files[k] \in FileRecords
    /\ \A c \in Channels :
          /\ pipeline[c] \in BOOLEAN /\ active[c] \in BOOLEAN
          /\ recPc[c] \in {"turn", "look", "closing", "pause", "open", "launch", "stopped"}
          /\ current[c] \in 0 .. Len(files)
          /\ driveGen[c] \in 0 .. generation /\ seen[c] \in 0 .. generation
          /\ why[c] \in Reasons

\* "The recorder compares the number, not the path": a recorder whose number is
\* that of the published drive has its file on that drive or a later one, never
\* on an older one, however the drive was swapped while the file was being
\* opened.  Its file is on the system disk only while the published drive is
\* not the one in place, so that the number has yet to change.
NumberTellsDrive == \A c \in Channels :
    pipeline[c] /\ driveGen[c] = generation =>
        \/ files[current[c]].inst >= mountId
        \/ files[current[c]].inst = 0 /\ mountId # mounted

\* "Old files make room": never the one into which frames go.
RingSparesWritten == \A c \in Channels :
    Writing(c) => ~files[current[c]].gone

\* In the journal a file without its closing line is one being written, or one
\* that was torn off with its drive.
JournalPairs == \A k \in DOMAIN files :
    files[k].line = "open" => files[k].open \/ files[k].inst \notin {0, mounted}

\* "Outside it must not say that a recording goes on": not while a file is
\* flushed for ten seconds, not after it.
ActiveIsTrue == \A c \in Channels : active[c] => pipeline[c] /\ why[c] = "none"

\* Together, through every drive pulled, put back or swapped.
Safety == TypeOK /\ NumberTellsDrive /\ RingSparesWritten /\ JournalPairs /\ ActiveIsTrue

\* The life of every file is the one the abstract specification allows.
Phase(k) == IF files[k].gone THEN "removed" ELSE IF files[k].open THEN "open" ELSE "closed"
lives == [k \in DOMAIN files |-> [by |-> files[k].by, phase |-> Phase(k), content |-> files[k].key]]
Life == INSTANCE FileLife WITH Writers <- Channels, life <- lives
FilesLiveRight == Life!LifeSpec

\* A file whose drive is gone, or that was never on one, is closed, even if the
\* probe thread hangs.
OnNoDrive(k) == files[k].inst = 0 \/ files[k].inst # mounted
TornFileIsClosed == \A c \in Channels :
    (pipeline[c] /\ OnNoDrive(current[c])) ~> ~pipeline[c]

\* With a drive that stays and packets that come again, a recorder that is on
\* records again and again, whatever failed before.
RecordingComesBack == \A c \in Channels :
    <>[](/\ Usable /\ mounted # 0 /\ ~aged /\ recPc[c] # "stopped"
         /\ Len(files) < MaxFiles)
        => []<>pipeline[c]

\* The next three say what comments of the code say.  None holds.

\* What is on the device of "/" is "not a removable drive but the system
\* itself": nothing is recorded there.
OnlyDrivesAreWritten == \A k \in DOMAIN files : files[k].inst # 0

\* "Otherwise every pulled drive would count as a failure of the pipeline": an
\* error of the bus is counted only while the file has its drive.
ErrorsAreOurs == \A c \in Channels :
    why[c] = "bus" => files[current[c]].inst = mounted

\* "An active file always has a fresh time": the ring never removes one, also
\* with LongSilence.
ActiveFileIsKept == RingSparesWritten
=============================================================================
