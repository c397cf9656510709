------------------------------- MODULE Presets -------------------------------
(***************************************************************************)
(* The state that ui/screen_presets.cpp keeps: the render thread edits the *)
(* layouts, the saver writes them to their files when the edits have been  *)
(* quiet for a while, stop() writes what is left, the next start loads     *)
(* them; ui/durable_write.hpp writes a file so that it survives a cut of   *)
(* the power at any moment.                                                *)
(*                                                                         *)
(* A layout is its version: every edit makes a new one.  The file system   *)
(* is ext4 in writeback mode, as durable_write.hpp says of it: what was    *)
(* written is in the cache, reaches the disk at fsync or by itself, and a  *)
(* name may reach it before the data it stands for.  A file whose name is  *)
(* there without the data is Torn; the loader takes it for no file.        *)
(***************************************************************************)
EXTENDS Integers

CONSTANTS
    Count,     \* cfg.preset_count
    MaxEdits   \* edits of one preset

ASSUME PresetsAssumption == Count \in Nat \ {0} /\ MaxEdits \in Nat

Presets == 1 .. Count
Nothing == 0      \* no preset; the version of a layout nobody edited
Torn == -1
TmpFile == 0      \* beside the presets, a file whose data may be on the disk

VARIABLES
    edits, memory,       \* the versions made so far; the one on the screen
    dirty, quiet,        \* dirty_mask; autosave_ms have passed since last_edit
    running, saverPc,    \* the saver thread
    stopPc, rendering,   \* stop() and what follows it; the renderer still runs
    writePc, job, version,   \* write_file_durably: for which preset, which snapshot;
                         \* it runs in the saver, or in stop() when the saver has ended
    tmp, safe,           \* the .tmp file; the files whose data are on the disk
    named, onDisk,       \* what the name of a preset stands for: in the cache, on the disk
    damage, late         \* history: a write failed or the power was cut; edited since stop()

memoryVars == <<edits, memory, dirty, quiet>>
threadVars == <<running, saverPc, stopPc, rendering>>
writeVars  == <<writePc, job, version>>
fileVars   == <<tmp, safe, named, onDisk>>
history    == <<damage, late>>
vars == <<memoryVars, threadVars, writeVars, fileVars, history>>

-----------------------------------------------------------------------------
(* The render thread edits under the mutex, as the snapshots below are made. *)

Edit(p) ==
    /\ rendering /\ edits[p] < MaxEdits
    /\ edits' = [edits EXCEPT ![p] = @ + 1]
    /\ memory' = [memory EXCEPT ![p] = edits[p] + 1]
    /\ dirty' = dirty \cup {p}
    /\ quiet' = FALSE
    /\ late' = IF running THEN late ELSE late \cup {p}
    /\ UNCHANGED <<threadVars, writeVars, fileVars, damage>>

Calm ==
    /\ rendering /\ ~quiet
    /\ quiet' = TRUE
    /\ UNCHANGED <<edits, memory, dirty, threadVars, writeVars, fileVars, history>>

-----------------------------------------------------------------------------
(* The saver, and flush_dirty in stop(). *)

\* The lowest bit is cleared with the snapshot, before the file is written.
Snapshot(S) == \E p \in S :
    /\ \A q \in S : p <= q
    /\ job' = p /\ version' = memory[p]
    /\ dirty' = dirty \ {p}
    /\ writePc' = "open"

Settled_Reversed == ~quiet
Settled == quiet

\* running is tested once in 400 ms, before the nap: a stop() that falls into the
\* nap finds one more look.
SaverNaps ==
    /\ saverPc = "rest" /\ writePc = "idle"
    /\ saverPc' = IF running THEN "look" ELSE "ended"
    /\ UNCHANGED <<memoryVars, running, stopPc, rendering, writeVars, fileVars, history>>

SaverLooks ==
    /\ saverPc = "look"
    /\ IF Settled /\ dirty # {} THEN Snapshot(dirty) ELSE UNCHANGED <<dirty, writeVars>>
    /\ saverPc' = "rest"
    /\ UNCHANGED <<edits, memory, quiet, running, stopPc, rendering, fileVars, history>>

StopBegins ==
    /\ stopPc = "no"
    /\ running' = FALSE /\ stopPc' = "join"
    /\ UNCHANGED <<memoryVars, saverPc, rendering, writeVars, fileVars, history>>

\* One pass over the presets, in the thread of main.
Unsaved == {p \in dirty : stopPc = "join" \/ p > job}

StopFlushes ==
    /\ stopPc \in {"join", "flush"} /\ saverPc = "ended" /\ writePc = "idle"
    /\ IF Unsaved = {} THEN stopPc' = "stopped" /\ UNCHANGED <<dirty, writeVars>>
                       ELSE stopPc' = "flush" /\ Snapshot(Unsaved)
    /\ UNCHANGED <<edits, memory, quiet, running, saverPc, rendering, fileVars, history>>

\* main() stops the sound, the storage and the phase loop before the renderer.
RendererStops ==
    /\ stopPc = "stopped" /\ rendering
    /\ rendering' = FALSE
    /\ UNCHANGED <<memoryVars, running, saverPc, stopPc, writeVars, fileVars, history>>

-----------------------------------------------------------------------------
(* write_file_durably.  A step that fails removes the .tmp and gives up; what *)
(* was to be saved is dirty no more.                                          *)

Opens ==
    /\ writePc = "open"
    /\ tmp' = Torn /\ safe' = safe \ {TmpFile}
    /\ writePc' = "write"
    /\ UNCHANGED <<memoryVars, threadVars, job, version, named, onDisk, history>>

\* The loop goes on after a short write.
Written == version

Writes ==
    /\ writePc = "write"
    /\ tmp' = Written
    /\ writePc' = "fsync"
    /\ UNCHANGED <<memoryVars, threadVars, job, version, safe, named, onDisk, history>>

Fsynced_Not == safe
Fsynced == safe \cup {TmpFile}

Fsyncs ==
    /\ writePc = "fsync"
    /\ safe' = Fsynced
    /\ writePc' = "rename"
    /\ UNCHANGED <<memoryVars, threadVars, job, version, tmp, named, onDisk, history>>

Renames ==
    /\ writePc = "rename"
    /\ named' = [named EXCEPT ![job] = tmp]
    /\ safe' = (safe \ {job, TmpFile}) \cup (IF TmpFile \in safe THEN {job} ELSE {})
    /\ tmp' = Torn
    /\ writePc' = "dir"
    /\ UNCHANGED <<memoryVars, threadVars, job, version, onDisk, history>>

\* What the disk gets of a name: with its data, or without them.
Committed(p) == [onDisk EXCEPT ![p] = IF p \in safe THEN named[p] ELSE Torn]

CleanedAtEnd_Again == dirty \ {job}
CleanedAtEnd == dirty

\* A directory that does not open is passed over.
DirFsyncs ==
    /\ writePc = "dir"
    /\ onDisk' \in {Committed(job), onDisk}
    /\ dirty' = CleanedAtEnd
    /\ writePc' = "idle"
    /\ UNCHANGED <<edits, memory, quiet, threadVars, job, version, tmp, safe, named, history>>

Fails ==
    /\ writePc \in {"open", "write", "fsync", "rename"}
    /\ tmp' = Torn /\ safe' = safe \ {TmpFile}
    /\ writePc' = "idle"
    /\ damage' = TRUE
    /\ UNCHANGED <<memoryVars, threadVars, job, version, named, onDisk, late>>

Write == Opens \/ Writes \/ Fsyncs \/ Renames \/ DirFsyncs

-----------------------------------------------------------------------------
(* The kernel writes back when it likes; the power is cut; the next start. *)

WriteBack(f) ==
    /\ f \notin safe /\ (f = TmpFile => tmp # Torn)
    /\ safe' = safe \cup {f}
    /\ UNCHANGED <<memoryVars, threadVars, writeVars, tmp, named, onDisk, history>>

Commit(p) ==
    /\ onDisk # Committed(p)
    /\ onDisk' = Committed(p)
    /\ UNCHANGED <<memoryVars, threadVars, writeVars, tmp, safe, named, history>>

PowerCut ==
    /\ stopPc # "off"
    /\ stopPc' = "off" /\ running' = FALSE /\ rendering' = FALSE /\ saverPc' = "ended"
    /\ writePc' = "idle" /\ job' = Nothing /\ version' = Nothing
    /\ tmp' = Torn /\ safe' = Presets /\ named' = onDisk
    /\ damage' = TRUE
    /\ UNCHANGED <<memoryVars, onDisk, late>>

\* A file that is not whole is passed over: the layout is the default one.
Loaded == [p \in Presets |-> IF named[p] = Torn THEN Nothing ELSE named[p]]

Start ==
    /\ ~rendering
    /\ memory' = Loaded /\ dirty' = {} /\ quiet' = FALSE
    /\ running' = TRUE /\ saverPc' = "rest" /\ stopPc' = "no" /\ rendering' = TRUE
    /\ damage' = FALSE /\ late' = {}
    /\ UNCHANGED <<edits, writeVars, fileVars>>

-----------------------------------------------------------------------------
Init ==
    /\ edits = [p \in Presets |-> Nothing] /\ memory = edits
    /\ dirty = {} /\ quiet = FALSE
    /\ running = TRUE /\ saverPc = "rest" /\ stopPc = "no" /\ rendering = TRUE
    /\ writePc = "idle" /\ job = Nothing /\ version = Nothing
    /\ tmp = Torn /\ safe = Presets
    /\ named = edits /\ onDisk = edits
    /\ damage = FALSE /\ late = {}

Disk == (\E f \in Presets \cup {TmpFile} : WriteBack(f)) \/ \E p \in Presets : Commit(p)
Renderer == (\E p \in Presets : Edit(p)) \/ Calm
Saver == SaverNaps \/ SaverLooks \/ StopFlushes

Next == Renderer \/ Saver \/ StopBegins \/ RendererStops \/ Write \/ Fails \/ Disk \/ PowerCut \/ Start
Spec == Init /\ [][Next]_vars

\* Threads and the file system go on, edits pause, the kernel writes back.
Fairness == WF_vars(Calm) /\ WF_vars(Saver) /\ WF_vars(Write) /\ WF_vars(RendererStops) /\ WF_vars(Disk)

FairSpec == Spec /\ Fairness

-----------------------------------------------------------------------------
(* Properties. *)

\* Every variable has its type; what a name stands for in the cache is whole.
TypeOK ==
    /\ edits \in [Presets -> 0 .. MaxEdits] /\ memory \in [Presets -> 0 .. MaxEdits]
    /\ dirty \subseteq Presets /\ late \subseteq Presets
    /\ quiet \in BOOLEAN /\ running \in BOOLEAN /\ rendering \in BOOLEAN /\ damage \in BOOLEAN
    /\ saverPc \in {"rest", "look", "ended"} /\ stopPc \in {"no", "join", "flush", "stopped", "off"}
    /\ writePc \in {"idle", "open", "write", "fsync", "rename", "dir"}
    /\ job \in 0 .. Count /\ version \in 0 .. MaxEdits
    /\ tmp \in Torn .. MaxEdits /\ safe \subseteq 0 .. Count
    /\ named \in [Presets -> 0 .. MaxEdits] /\ onDisk \in [Presets -> Torn .. MaxEdits]

\* A file of state is at every moment, the power cut at that moment included,
\* one whole version that was asked for, and never goes back to an older one.
Durable == INSTANCE DurableFile WITH Files <- Presets, asked <- edits, content <- onDisk
FileIsAtomic == Durable!Spec

\* A layout that is not dirty is in its file, or on its way there: an edit that
\* falls into a save of the same preset is not taken for saved.
CleanIsSaved ==
    \A p \in Presets \ dirty :
        \/ damage
        \/ named[p] = memory[p]
        \/ job = p /\ version = memory[p] /\ writePc \notin {"idle", "dir"}

\* stop() leaves unsaved only what was edited after it began.
StopSavesEdits == stopPc = "stopped" => dirty \subseteq late

\* No edit is forgotten.
Safety == TypeOK /\ CleanIsSaved /\ StopSavesEdits

\* What is on the screen reaches the disk, when no write fails and no power is
\* cut, and when it was there before stop() began.
EditReachesDisk ==
    \A p \in Presets, v \in 1 .. MaxEdits :
        memory[p] = v ~> onDisk[p] >= v \/ damage \/ p \in late

\* "An edit a moment before the stop must get there too": when the program ends,
\* the files have what was on the screen.  It does not hold.
StopKeepsState == ~rendering /\ ~damage => named = memory

\* A save that failed is tried again.  It does not hold.
FailureIsRetried ==
    \A p \in Presets, v \in 1 .. MaxEdits :
        memory[p] = v ~> onDisk[p] >= v \/ p \in late \/ stopPc = "off"
=============================================================================
