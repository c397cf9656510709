---------------------------- MODULE PlaybackAudio ----------------------------
(***************************************************************************)
(* The sound of the station: audio/playback_audio.cpp decides ten times a  *)
(* second what an output has to play, audio/audio_out.cpp does it in a     *)
(* thread of its own.  The two meet in the wish under want_mtx and in the  *)
(* atomic want_rebuild, which is set after the wish is written and cleared *)
(* before it is read.                                                      *)
(*                                                                         *)
(* There is an old session and the own one, which is still written, each   *)
(* with one file of sound.  A position is a place in the file; player and  *)
(* output that run at the same rate do not move against each other, so a   *)
(* position changes when the user seeks, when the two clocks have drifted  *)
(* apart, or when the player comes to the part that was written since the  *)
(* journal was read.  Of the several outputs, which do not know of one     *)
(* another, one is here; volume, meter, logging and stop() are left out.   *)
(* The names that PlaybackSource has too begin with Sound, so that both    *)
(* can be extended by one module.                                          *)
(***************************************************************************)
EXTENDS Integers

CONSTANTS
    OldEnd, OwnEnd,   \* places in the file of the old session; of the own one, in the end
    MaxMoves,         \* bound: what the user does
    MaxFaults         \* bound: builds that fail, errors on the bus, journals that do not open

ASSUME PlaybackAudioAssumption ==
    OldEnd \in Nat \ {0} /\ OwnEnd \in Nat \ {0} /\ MaxMoves \in Nat /\ MaxFaults \in Nat

VARIABLES
    on, session, playerPos, paused, \* enabled; the player: its session, position, speed # 1
    port,                           \* port_override
    written,                        \* what the journal says of the own file
    moves, faults,
    st, curPath, curJournal,        \* the dispatcher's state
    ixOk, ixId, ixEnd, ixLive,      \* its index: loaded, id_, the end of the sound, live()
    due, cooled,                    \* reload_ms, seek_cooldown_ms have passed
    dPc, ask,                       \* the dispatcher in step(); its local, the target (OnAir: none)
    setPc,                          \* set_udp_port()
    want, rebuild, moved,           \* the wish; want_rebuild; want_seek_gen # applied_gen
    outPc, got,                     \* loop() of the output; its local, the wish it has read
    outUp, filePos                  \* what the pipeline plays; file_pos_us

userVars  == <<on, session, playerPos, paused, written>>
indexVars == <<ixOk, ixId, ixEnd, ixLive>>
dispVars  == <<st, curPath, curJournal, indexVars, due, cooled, dPc, ask>>
setVars   == <<port, setPc>>
wishVars  == <<want, rebuild, moved>>
outVars   == <<outPc, got, outUp, filePos>>
boundVars == <<moves, faults>>
soundVars == <<userVars, dispVars, setVars, wishVars, outVars, boundVars>>

None == "none"
Nowhere == 0         \* file_pos_us is -1
Sessions == {"old", "own"}
LongestFile == IF OldEnd < OwnEnd THEN OwnEnd ELSE OldEnd
Places == 1 .. LongestFile

Wish(src, path, at, still) == [src |-> src, path |-> path, pos |-> at, paused |-> still]
OnAir == Wish("live", None, Nowhere, FALSE)
NoPipe == [src |-> None, path |-> None, pos |-> Nowhere, paused |-> FALSE, port |-> 0]

-----------------------------------------------------------------------------
(* The user and the recorder. *)

User ==
    /\ moves < MaxMoves /\ moves' = moves + 1
    /\ \/ on' = ~on /\ UNCHANGED <<session, playerPos, paused>>
       \/ \E s \in Sessions \cup {None} :
             session' = s /\ playerPos' = 1 /\ paused' = FALSE /\ UNCHANGED on
       \/ \E p \in Places : playerPos' = p /\ UNCHANGED <<on, session, paused>>
       \/ paused' = ~paused /\ UNCHANGED <<on, session, playerPos>>
    /\ UNCHANGED <<written, faults, dispVars, setVars, wishVars, outVars>>

Record ==
    /\ written < OwnEnd /\ written' = written + 1
    /\ UNCHANGED <<on, session, playerPos, paused, boundVars, dispVars, setVars, wishVars, outVars>>

\* set_udp_port(): the port, then the question whether the output is on the air.
SetPort ==
    /\ setPc = "idle" /\ moves < MaxMoves /\ moves' = moves + 1
    /\ port' = port + 1
    /\ setPc' = "test"
    /\ UNCHANGED <<userVars, faults, dispVars, wishVars, outVars>>

OnTheAir_Never == FALSE
OnTheAir == want.src = "live"

SetPortTests ==
    /\ setPc = "test"
    /\ setPc' = IF OnTheAir THEN "flag" ELSE "idle"
    /\ UNCHANGED <<userVars, port, boundVars, dispVars, wishVars, outVars>>

SetPortFlags ==
    /\ setPc = "flag"
    /\ rebuild' = TRUE
    /\ setPc' = "idle"
    /\ UNCHANGED <<userVars, port, boundVars, dispVars, want, moved, outVars>>

-----------------------------------------------------------------------------
(* PlaybackAudio: one step() of the dispatcher. *)

\* SessionIndex::load of a journal.  The id is taken only when there is none.
Load ==
    /\ ixOk' \in (IF faults < MaxFaults THEN BOOLEAN ELSE {TRUE})
    /\ faults' = IF ixOk' THEN faults ELSE faults + 1
    /\ ixId' = IF ixOk' /\ ixId = None THEN session ELSE ixId
    /\ ixEnd' = IF session = "old" THEN OldEnd ELSE written
    /\ ixLive' = (ixOk' /\ session = "own" /\ ixId' = "own")
    /\ curJournal' = session
    /\ due' = FALSE

Stale_OnlyNew == session # curJournal
Stale == session # curJournal \/ (ixOk /\ ixLive /\ due)

Silence ==
    /\ dPc' = (IF st = "silent" THEN "idle" ELSE "silent")
    /\ st' = "silent" /\ curPath' = (IF st = "silent" THEN curPath ELSE None)

\* The file that covers the moment, or silence.
Follow ==
    IF ~ixOk' \/ playerPos > ixEnd' THEN Silence /\ UNCHANGED cooled
    ELSE /\ st' = "file" /\ curPath' = session
         /\ IF st # "file" \/ curPath # session
            THEN dPc' = "file" /\ cooled' = FALSE
            ELSE dPc' = "pause" /\ UNCHANGED cooled

AirPlan == curPath' = None /\ curJournal' = None /\ ixOk' = FALSE

Decide ==
    /\ dPc = "idle"
    /\ \/ /\ ~on
          /\ Silence
          /\ UNCHANGED <<curJournal, indexVars, due, cooled, faults>>
       \/ /\ on /\ session = None /\ st # "live"
          /\ AirPlan
          /\ st' = "live" /\ dPc' = "live"
          /\ UNCHANGED <<ixId, ixEnd, ixLive, due, cooled, faults>>
       \/ /\ on /\ session # None
          /\ IF Stale THEN Load ELSE UNCHANGED <<curJournal, indexVars, due, faults>>
          /\ Follow
    /\ ask' = IF dPc' \in {"file", "pause"} THEN Wish("file", session, playerPos, paused) ELSE OnAir
    /\ UNCHANGED <<userVars, moves, setVars, wishVars, outVars>>

\* go_silent(), go_live(), play_file(): the wish under the lock, then the flag.
Wished ==
    CASE dPc = "silent" -> [want EXCEPT !.src = "silent", !.path = None]
      [] dPc = "live"   -> [want EXCEPT !.src = "live", !.path = None]
      [] dPc = "file"   -> ask

Differs == want.src # Wished.src \/ want.path # Wished.path

WriteWish ==
    /\ dPc \in {"silent", "live", "file"}
    /\ want' = Wished
    /\ moved' = (moved \/ dPc = "file")
    /\ dPc' = IF Differs THEN "flag" ELSE "idle"
    /\ ask' = OnAir
    /\ UNCHANGED <<userVars, boundVars, st, curPath, curJournal, indexVars, due, cooled, setVars, rebuild, outVars>>

FlagWish ==
    /\ dPc = "flag"
    /\ rebuild' = TRUE
    /\ dPc' = "idle"
    /\ UNCHANGED <<userVars, boundVars, st, curPath, curJournal, indexVars, due, cooled, ask, setVars, want, moved, outVars>>

\* On a file that plays: the pause, then a drift that is too large.
PauseFile ==
    /\ dPc = "pause"
    /\ want' = [want EXCEPT !.paused = ask.paused]
    /\ IF ask.paused \/ ~cooled THEN dPc' = "idle" /\ ask' = OnAir
                                ELSE dPc' = "drift" /\ UNCHANGED ask
    /\ UNCHANGED <<userVars, boundVars, st, curPath, curJournal, indexVars, due, cooled, setVars, rebuild, moved, outVars>>

Drifted == filePos # Nowhere /\ filePos # ask.pos

SeekFile ==
    /\ dPc = "drift"
    /\ IF Drifted THEN want' = [want EXCEPT !.pos = ask.pos] /\ moved' = TRUE /\ cooled' = FALSE
                  ELSE UNCHANGED <<want, moved, cooled>>
    /\ dPc' = "idle" /\ ask' = OnAir
    /\ UNCHANGED <<userVars, boundVars, st, curPath, curJournal, indexVars, due, setVars, rebuild, outVars>>

\* reload_ms and seek_cooldown_ms have passed.
Ages ==
    /\ ~due /\ due' = TRUE
    /\ UNCHANGED <<userVars, boundVars, st, curPath, curJournal, indexVars, cooled, dPc, ask, setVars, wishVars, outVars>>

Cools ==
    /\ ~cooled /\ cooled' = TRUE
    /\ UNCHANGED <<userVars, boundVars, st, curPath, curJournal, indexVars, due, dPc, ask, setVars, wishVars, outVars>>

-----------------------------------------------------------------------------
(* AudioOut: loop(). *)

\* The flag is cleared first, the wish is read after it.
FlagCleared_Not == rebuild
FlagCleared == FALSE

ClearFlag ==
    /\ outPc = "top"
    /\ rebuild' = FlagCleared
    /\ outPc' = "read"
    /\ UNCHANGED <<userVars, boundVars, dispVars, setVars, want, moved, got, outUp, filePos>>

ReadWish ==
    /\ outPc = "read"
    /\ got' = want /\ moved' = FALSE
    /\ outPc' = IF want.src = "silent" THEN "mute" ELSE "build"
    /\ UNCHANGED <<userVars, boundVars, dispVars, setVars, want, rebuild, outUp, filePos>>

\* Silence has no pipeline and waits for the flag alone.
Mute ==
    /\ outPc = "mute" /\ rebuild
    /\ outPc' = "top" /\ got' = OnAir
    /\ UNCHANGED <<userVars, boundVars, dispVars, setVars, wishVars, outUp, filePos>>

\* A file starts at its place.  The seek, here and in RunOut, is taken to
\* succeed: its outcome is not looked at, and it would not be tried again.
BuildOut ==
    /\ outPc = "build"
    /\ outUp' = [src |-> got.src, path |-> got.path, pos |-> got.pos, paused |-> got.paused, port |-> port]
    /\ outPc' = "run"
    /\ UNCHANGED <<userVars, boundVars, dispVars, setVars, wishVars, got, filePos>>

\* The card is taken, the file is not there: the same teardown, then the nap.
Breaks ==
    /\ outPc \in {"build", "run"} /\ faults < MaxFaults
    /\ faults' = faults + 1
    /\ outPc' = "down"
    /\ UNCHANGED <<userVars, moves, dispVars, setVars, wishVars, got, outUp, filePos>>

\* Seek and pause are done on the living pipeline, and its place is published.
Applied == [outUp EXCEPT !.pos = IF moved THEN want.pos ELSE @, !.paused = want.paused]

RunOut ==
    /\ outPc = "run"
    /\ \/ rebuild /\ outPc' = "down" /\ UNCHANGED <<moved, outUp, filePos>>
       \/ /\ ~rebuild /\ outUp.src = "file"
          /\ outUp' = Applied /\ moved' = FALSE /\ filePos' = outUp'.pos
          /\ UNCHANGED outPc
    /\ UNCHANGED <<userVars, boundVars, dispVars, setVars, want, rebuild, got>>

TornPlace == Nowhere

Teardown ==
    /\ outPc = "down"
    /\ outUp' = NoPipe /\ filePos' = TornPlace
    /\ outPc' = IF rebuild THEN "top" ELSE "nap"
    /\ got' = OnAir
    /\ UNCHANGED <<userVars, boundVars, dispVars, setVars, wishVars>>

\* At most eight seconds; a flag ends it sooner.
Nap ==
    /\ outPc = "nap"
    /\ outPc' = "top"
    /\ UNCHANGED <<userVars, boundVars, dispVars, setVars, wishVars, got, outUp, filePos>>

-----------------------------------------------------------------------------
SoundInit ==
    /\ on = TRUE /\ session = None /\ playerPos = 1 /\ paused = FALSE /\ written = 1
    /\ moves = 0 /\ faults = 0
    /\ st = "live" /\ curPath = None /\ curJournal = None
    /\ ixOk = FALSE /\ ixId = None /\ ixEnd = 0 /\ ixLive = FALSE
    /\ due = FALSE /\ cooled = TRUE /\ dPc = "idle" /\ ask = OnAir
    /\ port = 0 /\ setPc = "idle"
    /\ want = OnAir /\ rebuild = FALSE /\ moved = FALSE
    /\ outPc = "top" /\ got = OnAir /\ outUp = NoPipe /\ filePos = Nowhere

Dispatcher == Decide \/ WriteWish \/ FlagWish \/ PauseFile \/ SeekFile
Setter == SetPortTests \/ SetPortFlags
Output == ClearFlag \/ ReadWish \/ Mute \/ BuildOut \/ RunOut \/ Teardown \/ Nap

SoundNext == User \/ Record \/ SetPort \/ Setter \/ Dispatcher \/ Ages \/ Cools \/ Output \/ Breaks
SoundSpec == SoundInit /\ [][SoundNext]_soundVars

\* Both threads are scheduled, time passes, set_udp_port() returns.
SoundFairness ==
    /\ WF_soundVars(Dispatcher) /\ WF_soundVars(Output) /\ WF_soundVars(Setter)
    /\ WF_soundVars(Ages) /\ WF_soundVars(Cools)

SoundFairSpec == SoundSpec /\ SoundFairness

-----------------------------------------------------------------------------
(* Properties. *)

Src == {"live", "file", "silent"}
Paths == Sessions \cup {None}
WishType == [src : Src, path : Paths, pos : 0 .. LongestFile, paused : BOOLEAN]
UpType ==
    [src : Src \cup {None}, path : Paths, pos : 0 .. LongestFile, paused : BOOLEAN, port : 0 .. MaxMoves]

\* Every variable has its type; a place is published only of a living pipeline.
SoundTypeOK ==
    /\ on \in BOOLEAN /\ paused \in BOOLEAN /\ rebuild \in BOOLEAN /\ moved \in BOOLEAN
    /\ ixOk \in BOOLEAN /\ ixLive \in BOOLEAN /\ due \in BOOLEAN /\ cooled \in BOOLEAN
    /\ session \in Paths /\ curPath \in Paths /\ curJournal \in Paths /\ ixId \in Paths
    /\ playerPos \in Places /\ written \in 1 .. OwnEnd
    /\ moves \in 0 .. MaxMoves /\ faults \in 0 .. MaxFaults
    /\ st \in Src /\ ixEnd \in 0 .. LongestFile
    /\ dPc \in {"idle", "silent", "live", "file", "flag", "pause", "drift"}
    /\ want \in WishType /\ got \in WishType
    /\ ask \in WishType
    /\ port \in 0 .. MaxMoves /\ setPc \in {"idle", "test", "flag"}
    /\ outPc \in {"top", "read", "mute", "build", "run", "down", "nap"}
    /\ filePos \in 0 .. LongestFile
    /\ outPc \notin {"run", "down"} => outUp = NoPipe /\ filePos = Nowhere
    /\ outUp \in UpType

\* Whatever the two threads do, an output that is settled in a wish which is no
\* longer the one has the flag, or it is about to be set: no request is lost.
Settled == outPc \in {"mute", "build", "run"}
NoWishIsLost ==
    Settled /\ (got.src # want.src \/ got.path # want.path) => rebuild \/ dPc = "flag"

\* The same for the port, which is read when the pipeline is built, and whose
\* change is told only to an output that is on the air at that moment.
NoPortIsLost ==
    outPc = "run" /\ outUp.src = "live" /\ outUp.port # port => rebuild \/ setPc # "idle" \/ dPc = "flag"

\* No request of another thread is lost by the output.
SoundSafety == SoundTypeOK /\ NoWishIsLost /\ NoPortIsLost

\* What the player plays is heard, at its place, once it stays with it; the user
\* may have come from anywhere, the card may have failed, the journal grows.
\* The own session keeps its sound only if it was the first the player opened.
SoundHeard == outUp.src = "file" /\ outUp.path = session /\ outUp.pos = playerPos /\ ~outUp.paused
Recorded == IF session = "old" THEN playerPos <= OldEnd ELSE playerPos <= written /\ ixId = "own"
SoundFollows ==
    <>[](on /\ session # None /\ ~paused /\ ixOk /\ Recorded) => <>[]SoundHeard

\* Pause is silence: a player that stays paused leaves no output running.
PauseIsHeard == <>[](on /\ paused) => <>[](outUp.src # "file" \/ outUp.paused)

\* Without a session the station is heard, switched off nothing is.
AirComesBack == <>[](on /\ session = None) => <>[](outUp.src = "live" /\ outUp.port = port)
SwitchedOff == <>[](~on) => <>[](outUp = NoPipe)

\* The three together, whatever the two threads were doing.
PlayerIsObeyed == PauseIsHeard /\ AirComesBack /\ SwitchedOff

\* "The journal of a session that is still written is read again": without the
\* proviso on the id.  It does not hold: the index keeps the id of the first
\* session it was loaded with.
LiveSoundGoesOn ==
    <>[](on /\ session = "own" /\ ~paused /\ ixOk /\ playerPos <= written) => <>[]SoundHeard
=============================================================================
