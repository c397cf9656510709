---------------------------- MODULE PresetsProofs ----------------------------
(***************************************************************************)
(* What is proved of the presets, for any number of them and of edits: the *)
(* safety of the saver and of stop() (Safety), and that the files on the   *)
(* disk implement DurableFile (FileIsAtomic).                              *)
(*                                                                         *)
(* All of it follows from one order: of every preset the disk has a        *)
(* version no later than the one its name stands for, that one is no later *)
(* than the one on the screen, and a version on its way lies between.      *)
(***************************************************************************)
EXTENDS Presets, TLAPS

\* Where the two threads can be together.
ThreadsAgree ==
    /\ running <=> stopPc = "no"
    /\ saverPc = "look" => writePc = "idle"
    /\ stopPc \in {"flush", "stopped", "off"} => saverPc = "ended"
    /\ stopPc \in {"stopped", "off"} => writePc = "idle"
    /\ ~rendering => stopPc \in {"stopped", "off"}

\* What write_file_durably has at hand at each of its steps.
WriteIsWhole ==
    /\ Presets \subseteq safe
    /\ writePc # "idle" => job \in Presets
    /\ writePc \in {"open", "write", "fsync", "rename"} =>
          named[job] <= version /\ version <= memory[job]
    /\ writePc \in {"fsync", "rename"} => tmp = version
    /\ writePc = "rename" => TmpFile \in safe

\* Disk, name, screen and the count of the edits are in this order.
Ordered == \A p \in Presets :
    onDisk[p] \in Nat /\ onDisk[p] <= named[p] /\ named[p] <= memory[p] /\ memory[p] <= edits[p]

\* flush_dirty passes the presets in their order.
FlushPasses ==
    stopPc = "flush" => job \in Presets /\ \A p \in dirty \ late : job < p

IInv == TypeOK /\ ThreadsAgree /\ WriteIsWhole /\ Ordered /\ FlushPasses /\ CleanIsSaved /\ StopSavesEdits

\* The constants of the presets, of their files and versions.
LEMMA Consts ==
    /\ Presets \subseteq 0 .. Count /\ Presets \subseteq Int
    /\ TmpFile \in 0 .. Count /\ TmpFile \notin Presets /\ Nothing \in 0 .. Count
    /\ Nothing \in 0 .. MaxEdits /\ Nothing \in Nat
    /\ Torn \in Torn .. MaxEdits /\ 0 .. MaxEdits \subseteq Torn .. MaxEdits
    /\ \A v \in 0 .. MaxEdits : v \in Nat /\ v # Torn
  BY PresetsAssumption DEF Presets, TmpFile, Nothing, Torn

LEMMA InitInv == Init => IInv
<1> SUFFICES ASSUME Init PROVE IInv
  OBVIOUS
<1>1. [p \in Presets |-> Nothing] \in [Presets -> 0 .. MaxEdits]
      /\ [p \in Presets |-> Nothing] \in [Presets -> Torn .. MaxEdits]
  BY Consts
<1>2. TypeOK
  BY <1>1, Consts DEF Init, TypeOK
<1>3. ThreadsAgree /\ WriteIsWhole /\ FlushPasses /\ StopSavesEdits /\ CleanIsSaved
  BY DEF Init, ThreadsAgree, WriteIsWhole, FlushPasses, StopSavesEdits, CleanIsSaved
<1>4. Ordered
  BY Consts DEF Init, Ordered, Nothing
<1> QED BY <1>2, <1>3, <1>4 DEF IInv

\* The edits, and the time that passes after the last of them.
LEMMA RendererInv == IInv /\ Renderer => IInv'
<1> SUFFICES ASSUME IInv, Renderer PROVE IInv'
  OBVIOUS
<1> USE PresetsAssumption DEF IInv, memoryVars, threadVars, writeVars, fileVars, history
<1>1. CASE \E p \in Presets : Edit(p)
  <2>1. PICK p \in Presets : Edit(p)
    BY <1>1
  <2>2. TypeOK'
    <3>1. edits[p] + 1 \in 0 .. MaxEdits
      BY <2>1 DEF Edit, TypeOK
    <3> QED BY <2>1, <3>1 DEF Edit, TypeOK
  <2>3. ThreadsAgree' /\ FlushPasses' /\ StopSavesEdits'
    BY <2>1 DEF Edit, TypeOK, ThreadsAgree, FlushPasses, StopSavesEdits
  <2>4. \A q \in Presets : memory[q] <= memory'[q] /\ memory'[q] <= edits'[q]
    BY <2>1 DEF Edit, TypeOK, Ordered
  <2>5. \A q \in Presets : {named[q], memory[q], memory'[q], version} \subseteq Int
    BY <2>2 DEF TypeOK
  <2>6. WriteIsWhole' /\ Ordered'
    BY <2>1, <2>4, <2>5 DEF Edit, WriteIsWhole, Ordered
  <2>7. CleanIsSaved'
    BY <2>1 DEF Edit, TypeOK, CleanIsSaved
  <2> QED BY <2>2, <2>3, <2>6, <2>7
<1>2. CASE Calm
  BY <1>2 DEF Calm, TypeOK, ThreadsAgree, WriteIsWhole, Ordered, FlushPasses, CleanIsSaved, StopSavesEdits
<1> QED BY <1>1, <1>2 DEF Renderer

\* A snapshot is the version on the screen.
LEMMA SnapshotInv ==
  ASSUME IInv, NEW S \in SUBSET dirty, Snapshot(S), writePc = "idle",
         stopPc' = "flush" => (S = dirty \/ \A p \in dirty \ late : p \in S),
         ThreadsAgree', StopSavesEdits',
         stopPc' \in {"no", "join", "flush", "stopped", "off"}, saverPc' \in {"rest", "look", "ended"},
         UNCHANGED <<edits, memory, quiet, running, rendering, fileVars, history>>
  PROVE  IInv'
<1> USE PresetsAssumption DEF IInv, fileVars, history
<1>1. PICK p \in S : (\A q \in S : p <= q) /\ job' = p /\ version' = memory[p]
                     /\ dirty' = dirty \ {p} /\ writePc' = "open"
  BY DEF Snapshot
<1>2. p \in Presets
  BY DEF TypeOK
<1>3. TypeOK'
  <2>1. p \in 0 .. Count /\ memory[p] \in 0 .. MaxEdits
    BY <1>2, Consts DEF TypeOK
  <2> QED BY <1>1, <2>1 DEF TypeOK
<1>4. WriteIsWhole' /\ Ordered'
  <2>1. named[p] <= memory[p] /\ memory[p] <= memory[p]
    BY <1>2 DEF TypeOK, Ordered
  <2>2. WriteIsWhole'
    BY <1>1, <1>2, <2>1 DEF WriteIsWhole
  <2> QED BY <2>2 DEF Ordered
<1>5. FlushPasses'
  <2> SUFFICES ASSUME stopPc' = "flush" PROVE \A q \in dirty' \ late : p < q
    BY <1>1, <1>2 DEF FlushPasses
  <2> TAKE q \in dirty' \ late
  <2>1. q \in S /\ q # p
    BY <1>1
  <2>2. q \in Int /\ p \in Int
    BY <1>2, <2>1, Consts DEF TypeOK
  <2> QED BY <1>1, <2>1, <2>2
<1>6. CleanIsSaved'
  BY <1>1, <1>2 DEF TypeOK, CleanIsSaved
<1> QED BY <1>3, <1>4, <1>5, <1>6

\* The saver thread, and flush_dirty in stop().
LEMMA SaverInv == IInv /\ (Saver \/ StopBegins \/ RendererStops) => IInv'
<1> SUFFICES ASSUME IInv, Saver \/ StopBegins \/ RendererStops PROVE IInv'
  OBVIOUS
<1> USE DEF memoryVars, threadVars, writeVars, fileVars, history
<1>1. CASE SaverNaps \/ StopBegins \/ RendererStops
  <2>1. UNCHANGED <<edits, memory, dirty, quiet, writeVars, fileVars, history>>
    BY <1>1 DEF SaverNaps, StopBegins, RendererStops
  <2>2. /\ running' \in BOOLEAN /\ rendering' \in BOOLEAN
        /\ saverPc' \in {"rest", "look", "ended"}
        /\ stopPc' \in {"no", "join", "flush", "stopped", "off"}
    BY <1>1 DEF SaverNaps, StopBegins, RendererStops, IInv, TypeOK
  <2>3. TypeOK'
    BY <2>1, <2>2 DEF IInv, TypeOK
  <2>4. ThreadsAgree'
    BY <1>1 DEF SaverNaps, StopBegins, RendererStops, IInv, ThreadsAgree
  <2>5. WriteIsWhole' /\ Ordered' /\ CleanIsSaved'
    BY <2>1 DEF IInv, WriteIsWhole, Ordered, CleanIsSaved
  <2>6. FlushPasses' /\ StopSavesEdits'
    BY <1>1 DEF SaverNaps, StopBegins, RendererStops, IInv, FlushPasses, StopSavesEdits
  <2> QED BY <2>3, <2>4, <2>5, <2>6 DEF IInv
<1>2. CASE SaverLooks
  <2>1. CASE UNCHANGED <<dirty, writeVars>>
    BY <1>2, <2>1 DEF SaverLooks, IInv, TypeOK, ThreadsAgree, WriteIsWhole,
              Ordered, FlushPasses, CleanIsSaved, StopSavesEdits
  <2>2. CASE Snapshot(dirty)
    <3>1. ThreadsAgree' /\ StopSavesEdits' /\ writePc = "idle" /\ stopPc' # "flush"
      BY <1>2, <2>2 DEF SaverLooks, Snapshot, IInv, TypeOK, ThreadsAgree, StopSavesEdits
    <3> QED BY <1>2, <2>2, <3>1, SnapshotInv DEF SaverLooks, IInv, TypeOK
  <2> QED BY <1>2, <2>1, <2>2 DEF SaverLooks
<1>3. CASE StopFlushes
  <2>1. CASE Unsaved = {}
    BY <1>3, <2>1 DEF StopFlushes, Unsaved, IInv, TypeOK, ThreadsAgree, WriteIsWhole,
              Ordered, FlushPasses, CleanIsSaved, StopSavesEdits, Presets
  <2>2. CASE Unsaved # {}
    <3>1. ThreadsAgree' /\ StopSavesEdits' /\ Unsaved \in SUBSET dirty /\ Snapshot(Unsaved)
      BY <1>3, <2>2 DEF StopFlushes, Snapshot, Unsaved, IInv, TypeOK, ThreadsAgree, StopSavesEdits
    <3>2. \A p \in dirty \ late : p \in Unsaved
      BY <1>3 DEF StopFlushes, Unsaved, IInv, FlushPasses, TypeOK, Presets
    <3> QED BY <1>3, <2>2, <3>1, <3>2, SnapshotInv DEF StopFlushes, IInv, TypeOK
  <2> QED BY <2>1, <2>2
<1> QED BY <1>1, <1>2, <1>3 DEF Saver

\* The steps of write_file_durably.
LEMMA WriteInv == IInv /\ (Write \/ Fails) => IInv'
<1> SUFFICES ASSUME IInv, Write \/ Fails PROVE IInv'
  OBVIOUS
<1> USE Consts DEF memoryVars, threadVars, writeVars, fileVars, history, IInv
<1>1. CASE Opens \/ Writes \/ Fsyncs \/ Fails
  <2>1. TypeOK'
    BY <1>1 DEF Opens, Writes, Written, Fsyncs, Fsynced, Fails, TypeOK
  <2>2. ThreadsAgree' /\ FlushPasses' /\ StopSavesEdits' /\ Ordered'
    BY <1>1 DEF Opens, Writes, Fsyncs, Fails, ThreadsAgree, FlushPasses, StopSavesEdits, Ordered
  <2>3. WriteIsWhole'
    BY <1>1 DEF Opens, Writes, Written, Fsyncs, Fsynced, Fails, WriteIsWhole, TypeOK
  <2>4. CleanIsSaved'
    BY <1>1 DEF Opens, Writes, Fsyncs, Fails, CleanIsSaved, TypeOK
  <2> QED BY <2>1, <2>2, <2>3, <2>4
<1>2. CASE Renames
  <2>1. job \in Presets /\ tmp = version /\ TmpFile \in safe /\ version \in 0 .. MaxEdits
    BY <1>2 DEF Renames, WriteIsWhole, TypeOK
  <2>2. TypeOK'
    BY <1>2, <2>1 DEF Renames, TypeOK
  <2>3. ThreadsAgree' /\ FlushPasses' /\ StopSavesEdits'
    BY <1>2 DEF Renames, ThreadsAgree, FlushPasses, StopSavesEdits
  <2>4. WriteIsWhole' /\ Ordered'
    BY <1>2, <2>1 DEF Renames, WriteIsWhole, Ordered, TypeOK
  <2>5. CleanIsSaved'
    BY <1>2, <2>1 DEF Renames, CleanIsSaved, Ordered, WriteIsWhole, TypeOK
  <2> QED BY <2>2, <2>3, <2>4, <2>5
<1>3. CASE DirFsyncs
  <2>1. job \in Presets /\ job \in safe
    BY <1>3 DEF DirFsyncs, WriteIsWhole
  <2>2. onDisk' = [onDisk EXCEPT ![job] = named[job]] \/ onDisk' = onDisk
    BY <1>3, <2>1 DEF DirFsyncs, Committed
  <2>3. TypeOK'
    BY <1>3, <2>1, <2>2 DEF DirFsyncs, CleanedAtEnd, TypeOK
  <2>4. Ordered'
    BY <1>3, <2>1, <2>2 DEF DirFsyncs, Ordered, TypeOK
  <2>5. ThreadsAgree' /\ FlushPasses' /\ StopSavesEdits' /\ WriteIsWhole' /\ CleanIsSaved'
    BY <1>3, <2>1 DEF DirFsyncs, CleanedAtEnd, ThreadsAgree, FlushPasses, StopSavesEdits,
                      WriteIsWhole, CleanIsSaved
  <2> QED BY <2>3, <2>4, <2>5
<1> QED BY <1>1, <1>2, <1>3 DEF Write

\* The kernel, a cut of the power, and the next start.
LEMMA DiskInv == IInv /\ (Disk \/ PowerCut \/ Start) => IInv'
<1> SUFFICES ASSUME IInv, Disk \/ PowerCut \/ Start PROVE IInv'
  OBVIOUS
<1> USE Consts DEF memoryVars, threadVars, writeVars, fileVars, history, IInv
<1>1. CASE \E f \in Presets \cup {TmpFile} : WriteBack(f)
  BY <1>1 DEF WriteBack, TypeOK, ThreadsAgree, WriteIsWhole, Ordered, FlushPasses, CleanIsSaved,
              StopSavesEdits
<1>2. CASE \E p \in Presets : Commit(p)
  <2>1. PICK p \in Presets : Commit(p)
    BY <1>2
  <2>2. onDisk' = [onDisk EXCEPT ![p] = named[p]]
    BY <2>1 DEF Commit, Committed, WriteIsWhole
  <2>3. named[p] \in Torn .. MaxEdits /\ UNCHANGED <<edits, memory, named>>
    BY <2>1 DEF Commit, TypeOK
  <2>4. onDisk' \in [Presets -> Torn .. MaxEdits]
    BY <2>2, <2>3 DEF TypeOK
  <2>5. TypeOK'
    BY <2>1, <2>4 DEF Commit, TypeOK
  <2>6. Ordered'
    <3>1. \A q \in Presets : onDisk'[q] = IF q = p THEN named[q] ELSE onDisk[q]
      BY <2>2 DEF TypeOK
    <3>2. \A q \in Presets : named[q] \in Nat
      BY DEF TypeOK
    <3> QED BY <2>3, <3>1, <3>2 DEF Ordered
  <2>7. ThreadsAgree' /\ FlushPasses' /\ StopSavesEdits' /\ WriteIsWhole' /\ CleanIsSaved'
    BY <2>1 DEF Commit, ThreadsAgree, FlushPasses, StopSavesEdits, WriteIsWhole, CleanIsSaved
  <2> QED BY <2>5, <2>6, <2>7
<1>3. CASE PowerCut
  <2>1. TypeOK'
    <3>1. \A q \in Presets : onDisk[q] \in 0 .. MaxEdits
      BY DEF TypeOK, Ordered
    <3>2. onDisk \in [Presets -> 0 .. MaxEdits]
      BY <3>1 DEF TypeOK
    <3> QED BY <1>3, <3>2 DEF PowerCut, TypeOK
  <2>2. Ordered'
    BY <1>3 DEF PowerCut, Ordered, TypeOK
  <2>3. ThreadsAgree' /\ FlushPasses' /\ StopSavesEdits' /\ WriteIsWhole' /\ CleanIsSaved'
    BY <1>3 DEF PowerCut, ThreadsAgree, FlushPasses, StopSavesEdits, WriteIsWhole, CleanIsSaved
  <2> QED BY <2>1, <2>2, <2>3
<1>4. CASE Start
  <2>1. memory' = named
    BY <1>4 DEF Start, Loaded, Ordered, TypeOK
  <2>2. writePc = "idle" /\ UNCHANGED <<edits, writeVars, fileVars>>
    BY <1>4 DEF Start, ThreadsAgree
  <2>3. TypeOK'
    BY <1>4, <2>1 DEF Start, TypeOK
  <2>4. Ordered' /\ WriteIsWhole'
    BY <2>1, <2>2 DEF Ordered, WriteIsWhole, TypeOK
  <2>5. ThreadsAgree' /\ FlushPasses' /\ StopSavesEdits' /\ CleanIsSaved'
    BY <1>4, <2>1, <2>2 DEF Start, ThreadsAgree, FlushPasses, StopSavesEdits, CleanIsSaved
  <2> QED BY <2>3, <2>4, <2>5
<1> QED BY <1>1, <1>2, <1>3, <1>4 DEF Disk

LEMMA StepInv == IInv /\ [Next]_vars => IInv'
<1> SUFFICES ASSUME IInv, [Next]_vars PROVE IInv'
  OBVIOUS
<1>1. CASE Next
  BY <1>1, RendererInv, SaverInv, WriteInv, DiskInv DEF Next
<1>2. CASE UNCHANGED vars
  BY <1>2 DEF vars, memoryVars, threadVars, writeVars, fileVars, history, IInv, TypeOK,
              ThreadsAgree, WriteIsWhole, Ordered, FlushPasses, CleanIsSaved, StopSavesEdits
<1> QED BY <1>1, <1>2

LEMMA InvHolds == Spec => []IInv
  BY InitInv, StepInv, PTL DEF Spec

\* Types are right, a layout that is not dirty is saved or on its way, and
\* stop() leaves unsaved only what was edited after it began.
THEOREM SavesAreSafe == Spec => []Safety
<1>1. IInv => Safety
  BY DEF IInv, Safety
<1> QED
  BY <1>1, InvHolds, PTL

\* Every step of the program is a step of the durable file, or none at all:
\* only an edit asks for a version, only the disk's commit of a name replaces
\* one, and it replaces it by a later one.
LEMMA StepRefines == IInv /\ IInv' /\ [Next]_vars => [Durable!Next]_<<edits, onDisk>>
<1> SUFFICES ASSUME IInv, IInv', [Next]_vars PROVE [Durable!Next]_<<edits, onDisk>>
  OBVIOUS
<1> USE PresetsAssumption DEF IInv, memoryVars, threadVars, writeVars, fileVars, history
<1>1. CASE \E p \in Presets : Edit(p)
  <2>1. PICK p \in Presets : Edit(p)
    BY <1>1
  <2>2. Durable!Ask(p)
    BY <2>1 DEF Edit, Durable!Ask
  <2> QED BY <2>2 DEF Durable!Next
<1>2. ASSUME NEW p \in Presets, onDisk' = [onDisk EXCEPT ![p] = named[p]], UNCHANGED edits
      PROVE  [Durable!Next]_<<edits, onDisk>>
  <2>1. onDisk[p] \in Nat /\ named[p] \in Nat /\ edits[p] \in Nat
        /\ onDisk[p] <= named[p] /\ named[p] <= edits[p]
    BY DEF Ordered, TypeOK
  <2>2. CASE named[p] = onDisk[p]
    BY <1>2, <2>2 DEF TypeOK
  <2>3. CASE named[p] # onDisk[p]
    <3>1. named[p] \in onDisk[p] + 1 .. edits[p]
      BY <2>1, <2>3
    <3>2. Durable!Replace(p)
      BY <1>2, <3>1 DEF Durable!Replace
    <3> QED BY <3>2 DEF Durable!Next
  <2> QED BY <2>2, <2>3
<1>3. CASE DirFsyncs
  <2>1. job \in Presets /\ UNCHANGED edits
    BY <1>3 DEF DirFsyncs, WriteIsWhole
  <2>2. onDisk' = [onDisk EXCEPT ![job] = named[job]] \/ onDisk' = onDisk
    BY <1>3, <2>1 DEF DirFsyncs, Committed, WriteIsWhole
  <2> QED BY <1>2, <2>1, <2>2
<1>4. CASE \E p \in Presets : Commit(p)
  <2>1. PICK p \in Presets : Commit(p)
    BY <1>4
  <2>2. onDisk' = [onDisk EXCEPT ![p] = named[p]] /\ UNCHANGED edits
    BY <2>1 DEF Commit, Committed, WriteIsWhole
  <2> QED BY <1>2, <2>2
<1>5. CASE Calm \/ Saver \/ StopBegins \/ RendererStops \/ Opens \/ Writes \/ Fsyncs \/ Renames \/ Fails
  BY <1>5 DEF Calm, Saver, SaverNaps, SaverLooks, StopFlushes, StopBegins, RendererStops,
              Opens, Writes, Fsyncs, Renames, Fails
<1>6. CASE (\E f \in Presets \cup {TmpFile} : WriteBack(f)) \/ PowerCut \/ Start \/ UNCHANGED vars
  BY <1>6 DEF WriteBack, PowerCut, Start, vars
<1> QED
  BY <1>1, <1>3, <1>4, <1>5, <1>6 DEF Next, Renderer, Write, Disk

\* The files survive a cut of the power at any moment: they implement the
\* file that is replaced in one step by a later whole version.
THEOREM FilesAreDurable == Spec => FileIsAtomic
<1>1. Init => Durable!Init
  BY DEF Init, Durable!Init, Nothing
<1> QED
  BY <1>1, StepRefines, InvHolds, PTL DEF Spec, FileIsAtomic, Durable!Spec

==============================================================================
