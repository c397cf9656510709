--------------------------- MODULE RecorderProofs ---------------------------
(***************************************************************************)
(* What is proved of the recorders and the drive, for any number of        *)
(* channels, mounts and files: Safety, and that they implement FileLife.   *)
(* Both for a drive on which an open file never goes unwritten for         *)
(* keep_recent_sec, as a comment of the code says: without that the ring   *)
(* may remove an open file.                                                *)
(*                                                                         *)
(* The bond between a thread and its file is in Held: who has a pipeline   *)
(* has one open file, nobody else has one, and the files the ring has      *)
(* listed are closed.  The number of the drive tells because mounts only   *)
(* grow, every change of the published one is counted, and a number is     *)
(* taken only while a drive is published (Mounts, Numbers, Placed): if a   *)
(* file then lands on the system disk, the published drive has gone.       *)
(***************************************************************************)
EXTENDS Recorder, SequenceTheorems, TLAPS

Places == {"turn", "look", "closing", "pause", "open", "launch", "stopped"}

RecTypes ==
    /\ pipeline \in [Channels -> BOOLEAN] /\ active \in [Channels -> BOOLEAN]
    /\ recPc \in [Channels -> Places] /\ why \in [Channels -> Reasons]
    /\ current \in [Channels -> Nat] /\ driveGen \in [Channels -> Nat] /\ seen \in [Channels -> Nat]
FileTypes == files \in Seq(FileRecords)

Mounts ==
    /\ mounted = 0 \/ mounted = mounts
    /\ mountId <= mounts /\ found <= mounts
    /\ \A k \in DOMAIN files : files[k].inst <= mounts

\* Where a file of the published drive may lie.
Located(k) == files[k].inst >= mountId \/ (files[k].inst = 0 /\ mountId # mounted)

Numbers == \A c \in Channels :
    /\ driveGen[c] <= generation /\ seen[c] <= generation
    /\ seen[c] # 0 /\ seen[c] = generation => Usable
    /\ pipeline[c] /\ driveGen[c] = generation => Usable /\ Located(current[c])

Held ==
    /\ \A c \in Channels :
          /\ current[c] <= Len(files)
          /\ pipeline[c] => /\ current[c] \in DOMAIN files
                            /\ files[current[c]].open /\ files[current[c]].by = c
    /\ \A k \in DOMAIN files : files[k].open =>
          /\ pipeline[files[k].by] /\ current[files[k].by] = k
          /\ files[k].fresh /\ ~files[k].gone
    /\ \A k \in victims : ~files[k].open

Placed == \A c \in Channels :
    /\ recPc[c] \in {"pause", "open", "launch", "stopped"} => ~pipeline[c]
    /\ recPc[c] = "closing" => pipeline[c]
    /\ recPc[c] # "closing" => why[c] = "none"
    /\ recPc[c] = "launch" => seen[c] # 0

IInv ==
    /\ StorageTypes /\ RecTypes /\ FileTypes
    /\ Mounts /\ Numbers /\ Held /\ Placed /\ JournalPairs /\ ActiveIsTrue

-----------------------------------------------------------------------------
LEMMA Domain == FileTypes => DOMAIN files = 1 .. Len(files) /\ Len(files) \in Nat
  BY LenProperties DEF FileTypes

LEMMA InitInv == Init => IInv
<1> SUFFICES ASSUME Init PROVE IInv
  OBVIOUS
<1>1. files = <<>> /\ DOMAIN files = {} /\ FileTypes
  BY DEF Init, StorageInit, FileTypes
<1>2. StorageTypes
  <2>1. 0 \in 0 .. MaxMounts /\ 0 \in 0 .. 0 /\ 0 \in Nat
    BY StorageAssumption
  <2>2. victims \subseteq DOMAIN files
    BY DEF Init, StorageInit
  <2> QED BY <2>1, <2>2 DEF Init, StorageInit, StorageTypes
<1>3. RecTypes
  BY DEF Init, RecTypes, Places, Reasons
<1>4. Len(files) = 0
  BY <1>1
<1>5. Mounts /\ Numbers /\ Held
  BY <1>1, <1>4 DEF Init, StorageInit, Mounts, Numbers, Held
<1>6. Placed /\ JournalPairs /\ ActiveIsTrue
  BY <1>1 DEF Init, Placed, JournalPairs, ActiveIsTrue
<1> QED BY <1>1, <1>2, <1>3, <1>5, <1>6 DEF IInv

-----------------------------------------------------------------------------
(* One file changes, or one more is there. *)

\* What a step may do to a file without breaking the bond with its thread.
LEMMA FileChanges ==
    ASSUME IInv, NEW k \in DOMAIN files, NEW r \in FileRecords,
           files' = [files EXCEPT ![k] = r]
    PROVE  /\ FileTypes' /\ Len(files') = Len(files) /\ DOMAIN files' = DOMAIN files
           /\ files'[k] = r /\ \A j \in DOMAIN files : j # k => files'[j] = files[j]
<1>1. k \in 1 .. Len(files) /\ files \in Seq(FileRecords)
  BY Domain DEF IInv, FileTypes
<1>2. /\ files' \in Seq(FileRecords) /\ Len(files') = Len(files)
      /\ \A j \in 1 .. Len(files) : files'[j] = IF j = k THEN r ELSE files[j]
  BY <1>1, ExceptSeq
<1> QED BY <1>1, <1>2, LenProperties DEF FileTypes

LEMMA FileAppears ==
    ASSUME IInv, NEW r \in FileRecords, files' = Append(files, r)
    PROVE  /\ FileTypes' /\ Len(files') = Len(files) + 1 /\ Len(files) \in Nat
           /\ DOMAIN files = 1 .. Len(files) /\ DOMAIN files' = 1 .. Len(files) + 1
           /\ files'[Len(files) + 1] = r /\ \A j \in DOMAIN files : files'[j] = files[j]
<1>1. files \in Seq(FileRecords) /\ DOMAIN files = 1 .. Len(files) /\ Len(files) \in Nat
  BY Domain DEF IInv, FileTypes
<1>2. /\ files' \in Seq(FileRecords) /\ Len(files') = Len(files) + 1
      /\ \A j \in 1 .. Len(files) : files'[j] = files[j] /\ files'[Len(files) + 1] = r
  BY <1>1, AppendProperties
<1> QED BY <1>1, <1>2, LenProperties DEF FileTypes

LEMMA FileIsARecord == ASSUME IInv, NEW k \in DOMAIN files PROVE files[k] \in FileRecords
  BY Domain, ElementOfSeq DEF IInv, FileTypes

-----------------------------------------------------------------------------
(* The drive and the probe. *)

LEMMA DriveInv == IInv /\ (Mount \/ Unmount) /\ UNCHANGED recVars => IInv'
<1> SUFFICES ASSUME IInv, Mount \/ Unmount, UNCHANGED recVars PROVE IInv'
  OBVIOUS
<1>1. /\ UNCHANGED <<files, mountId, generation, aged, probePc, found, victims>>
      /\ UNCHANGED <<recPc, seen, pipeline, current, driveGen, active, why>>
  BY DEF Mount, Unmount, probeVars, recVars
<1>2. /\ mounts \in Nat /\ mounts <= MaxMounts /\ MaxMounts \in Nat /\ mountId \in Nat /\ found \in Nat
      /\ mountId <= mounts
      /\ \A k \in DOMAIN files : files[k].inst \in Nat /\ files[k].inst <= mounts
  BY FileIsARecord, StorageAssumption DEF IInv, StorageTypes, Mounts, FileRecords
<1>3. \/ mounted' = 0 /\ mounts' = mounts
      \/ mounts < MaxMounts /\ mounts' = mounts + 1 /\ mounted' = mounts + 1
  BY DEF Mount, Unmount
<1>4. StorageTypes' /\ Mounts'
  <2>1. mounted' \in 0 .. mounts' /\ mounts' \in 0 .. MaxMounts
    BY <1>2, <1>3
  <2>2. StorageTypes'
    BY <1>1, <2>1 DEF IInv, StorageTypes
  <2>3. mounts <= mounts' /\ mounts' \in Nat
    BY <1>2, <1>3
  <2> QED BY <1>1, <1>2, <1>3, <2>2, <2>3 DEF IInv, Mounts
<1>5. RecTypes' /\ FileTypes' /\ Held' /\ Placed' /\ ActiveIsTrue'
  BY <1>1 DEF IInv, RecTypes, FileTypes, Held, Placed, ActiveIsTrue
<1>6. JournalPairs'
  BY <1>1, <1>2, <1>3 DEF IInv, JournalPairs
<1>7. Numbers'
  <2>1. mountId # 0 => mountId # mounted'
    BY <1>2, <1>3
  <2>2. ASSUME NEW k, mountId # 0, Located(k) PROVE Located(k)'
    BY <1>1, <2>1, <2>2 DEF Located
  <2> QED BY <1>1, <2>2 DEF IInv, Numbers, Usable
<1> QED BY <1>4, <1>5, <1>6, <1>7 DEF IInv

\* A change of the published mount is counted, so an old number tells nothing.
LEMMA PublishInv == IInv /\ (Accept \/ Reject) /\ UNCHANGED recVars => IInv'
<1> SUFFICES ASSUME IInv, Accept \/ Reject, UNCHANGED recVars PROVE IInv'
  OBVIOUS
<1>1. PICK m \in {0, found} : Publish(m)
  BY DEF Accept, Reject
<1>2. /\ UNCHANGED <<files, mounted, mounts, victims>> /\ aged' = FALSE /\ found' = 0 /\ probePc' = "list"
      /\ UNCHANGED <<recPc, seen, pipeline, current, driveGen, active, why>>
      /\ mountId' = m /\ generation' = IF m # mountId THEN generation + 1 ELSE generation
  BY <1>1 DEF Publish, Changed, driveVars, recVars
<1>3. /\ m \in 0 .. MaxMounts /\ m <= mounts /\ 0 <= mounts /\ generation \in Nat /\ 0 \in 0 .. MaxMounts
  BY StorageAssumption DEF IInv, StorageTypes, Mounts
<1>4. StorageTypes'
  <2>1. generation' \in Nat /\ mountId' \in 0 .. MaxMounts /\ found' \in 0 .. MaxMounts
    BY <1>2, <1>3
  <2> QED BY <1>2, <2>1 DEF IInv, StorageTypes
<1>5. Mounts'
  BY <1>2, <1>3 DEF IInv, Mounts
<1>6. Numbers'
  <2>1. \A c \in Channels : driveGen[c] \in Nat /\ seen[c] \in Nat
    BY DEF IInv, RecTypes
  <2> QED BY <1>2, <1>3, <2>1 DEF IInv, Numbers, Usable, Located
<1>7. RecTypes' /\ FileTypes' /\ Held' /\ Placed' /\ JournalPairs' /\ ActiveIsTrue'
  BY <1>2 DEF IInv, RecTypes, FileTypes, Held, Placed, JournalPairs, ActiveIsTrue
<1> QED BY <1>4, <1>5, <1>6, <1>7 DEF IInv

LEMMA ProbeInv ==
    ASSUME LongSilence = FALSE
    PROVE  IInv /\ (Scan \/ List \/ Reclaimed \/ Age) /\ UNCHANGED recVars => IInv'
<1> SUFFICES ASSUME IInv, Scan \/ List \/ Reclaimed \/ Age, UNCHANGED recVars PROVE IInv'
  OBVIOUS
<1>1. /\ UNCHANGED <<files, mounted, mounts, mountId, generation>>
      /\ UNCHANGED <<recPc, seen, pipeline, current, driveGen, active, why>>
  BY DEF Scan, List, Reclaimed, Age, driveVars, recVars
<1>2. found' = found \/ found' = mounted
  BY DEF Scan, List, Reclaimed, Age
<1>3. aged' \in BOOLEAN /\ probePc' \in {"scan", "check", "list", "remove"}
  BY DEF IInv, StorageTypes, Scan, List, Reclaimed, Age
<1>4. victims' \subseteq DOMAIN files /\ \A k \in victims' : ~files[k].open
  <2>1. victims' = victims \/ victims' = {} \/ victims' = {k \in DOMAIN files : Usable /\ Reclaimable(k)}
    BY DEF Scan, List, Reclaimed, Age
  <2>2. \A k \in DOMAIN files : Reclaimable(k) => ~files[k].open
    BY DEF IInv, Held, Reclaimable
  <2> QED BY <2>1, <2>2 DEF IInv, StorageTypes, Held
<1>5. StorageTypes' /\ Mounts'
  <2>1. found' \in 0 .. MaxMounts /\ found' <= mounts
    BY <1>2, StorageAssumption DEF IInv, StorageTypes, Mounts
  <2>2. Mounts'
    BY <1>1, <2>1 DEF IInv, Mounts
  <2> QED BY <1>1, <1>3, <1>4, <2>1, <2>2 DEF IInv, StorageTypes
<1>6. Held'
  BY <1>1, <1>4 DEF IInv, Held
<1>7. RecTypes' /\ FileTypes' /\ Numbers' /\ Placed' /\ JournalPairs' /\ ActiveIsTrue'
  BY <1>1 DEF IInv, RecTypes, FileTypes, Numbers, Usable, Located, Placed, JournalPairs, ActiveIsTrue
<1> QED BY <1>5, <1>6, <1>7 DEF IInv

\* The ring removes a file that is closed; one of the drive, so its journal stays true.
LEMMA RemoveInv == IInv /\ Remove /\ UNCHANGED recVars => IInv'
<1> SUFFICES ASSUME IInv, Remove, UNCHANGED recVars PROVE IInv'
  OBVIOUS
<1>1. PICK k \in victims :
        /\ victims' = victims \ {k}
        /\ \/ OnDrive(k) /\ files' = [files EXCEPT ![k] = [@ EXCEPT !.gone = TRUE]]
           \/ UNCHANGED files
  BY DEF Remove
<1>2. /\ UNCHANGED <<mounted, mounts, mountId, generation, aged, probePc, found>>
      /\ UNCHANGED <<recPc, seen, pipeline, current, driveGen, active, why>>
  BY DEF Remove, driveVars, recVars
<1>3. k \in DOMAIN files /\ ~files[k].open /\ files[k] \in FileRecords
  BY FileIsARecord DEF IInv, StorageTypes, Held
<1>4. /\ FileTypes' /\ Len(files') = Len(files) /\ DOMAIN files' = DOMAIN files
      /\ \A j \in DOMAIN files :
            /\ files'[j].inst = files[j].inst /\ files'[j].by = files[j].by
            /\ files'[j].open = files[j].open /\ files'[j].line = files[j].line
            /\ files[j].open => files'[j] = files[j]
  <2>1. CASE files' = files
    BY <2>1 DEF IInv, FileTypes
  <2>2. CASE files' = [files EXCEPT ![k] = [@ EXCEPT !.gone = TRUE]]
    <3> DEFINE q == [files[k] EXCEPT !.gone = TRUE]
    <3>1. /\ q \in FileRecords /\ q.inst = files[k].inst /\ q.by = files[k].by
          /\ q.open = files[k].open /\ q.line = files[k].line
      BY <1>3 DEF FileRecords
    <3>2. files' = [files EXCEPT ![k] = q]
      BY <2>2
    <3> HIDE DEF q
    <3> QED BY <1>3, <3>1, <3>2, FileChanges
  <2> QED BY <1>1, <2>1, <2>2
<1>5. StorageTypes' /\ Mounts'
  BY <1>1, <1>2, <1>4 DEF IInv, StorageTypes, Mounts
<1>6. Held'
  BY <1>1, <1>2, <1>4 DEF IInv, StorageTypes, Held
<1>7. RecTypes' /\ ActiveIsTrue'
  BY <1>2 DEF IInv, RecTypes, ActiveIsTrue
<1>8. Numbers' /\ Placed' /\ JournalPairs'
  BY <1>2, <1>4 DEF IInv, Numbers, Usable, Located, Held, Placed, JournalPairs
<1> QED BY <1>4, <1>5, <1>6, <1>7, <1>8 DEF IInv

-----------------------------------------------------------------------------
(* The world around the recorders. *)

LEMMA FrameInv == ASSUME NEW c \in Channels PROVE IInv /\ Frame(c) => IInv'
<1> SUFFICES ASSUME IInv, Frame(c) PROVE IInv'
  OBVIOUS
<1> DEFINE k == current[c]
           r == [files[k] EXCEPT !.key = TRUE, !.fresh = TRUE]
<1>1. /\ UNCHANGED <<mounted, mounts, mountId, generation, aged, probePc, found, victims>>
      /\ UNCHANGED <<recPc, seen, pipeline, current, driveGen, active, why>>
      /\ pipeline[c] /\ files' = [files EXCEPT ![k] = r]
  BY DEF Frame, driveVars, probeVars, recVars
<1>2. k \in DOMAIN files
  BY <1>1 DEF IInv, Held
<1>3. /\ r \in FileRecords /\ r.inst = files[k].inst /\ r.by = files[k].by /\ r.open = files[k].open
      /\ r.line = files[k].line /\ r.fresh /\ r.gone = files[k].gone
  BY <1>2, FileIsARecord DEF FileRecords
<1> HIDE DEF r, k
<1>4. /\ FileTypes' /\ Len(files') = Len(files) /\ DOMAIN files' = DOMAIN files
      /\ \A j \in DOMAIN files :
            /\ files'[j].inst = files[j].inst /\ files'[j].by = files[j].by
            /\ files'[j].open = files[j].open /\ files'[j].line = files[j].line
            /\ files'[j].gone = files[j].gone /\ (files[j].fresh => files'[j].fresh)
  BY <1>1, <1>2, <1>3, FileChanges
<1>5. StorageTypes' /\ RecTypes'
  BY <1>1, <1>4 DEF IInv, StorageTypes, RecTypes
<1>6. Mounts' /\ Held'
  BY <1>1, <1>4 DEF IInv, StorageTypes, Mounts, Held
<1>7. Numbers' /\ Placed' /\ JournalPairs' /\ ActiveIsTrue'
  BY <1>1, <1>4 DEF IInv, Numbers, Usable, Located, Held, Placed, JournalPairs, ActiveIsTrue
<1> QED BY <1>4, <1>5, <1>6, <1>7 DEF IInv

LEMMA GrowOldInv ==
    ASSUME LongSilence = FALSE, NEW k \in DOMAIN files
    PROVE  IInv /\ GrowOld(k) => IInv'
<1> SUFFICES ASSUME IInv, GrowOld(k) PROVE IInv'
  OBVIOUS
<1> DEFINE r == [files[k] EXCEPT !.fresh = FALSE]
<1>1. /\ UNCHANGED <<mounted, mounts, mountId, generation, aged, probePc, found, victims>>
      /\ UNCHANGED <<recPc, seen, pipeline, current, driveGen, active, why>>
      /\ files' = [files EXCEPT ![k] = r]
      /\ \A c \in Channels : pipeline[c] => current[c] # k
  BY DEF GrowOld, driveVars, probeVars, recVars
<1>2. ~files[k].open
  BY <1>1, FileIsARecord DEF IInv, Held, FileRecords
<1>3. /\ r \in FileRecords /\ r.inst = files[k].inst /\ r.by = files[k].by /\ r.open = files[k].open
      /\ r.line = files[k].line
  BY FileIsARecord DEF FileRecords
<1> HIDE DEF r
<1>4. /\ FileTypes' /\ Len(files') = Len(files) /\ DOMAIN files' = DOMAIN files
      /\ \A j \in DOMAIN files :
            /\ files'[j].inst = files[j].inst /\ files'[j].by = files[j].by
            /\ files'[j].open = files[j].open /\ files'[j].line = files[j].line
            /\ files[j].open => files'[j] = files[j]
  BY <1>1, <1>2, <1>3, FileChanges
<1>5. StorageTypes' /\ RecTypes'
  BY <1>1, <1>4 DEF IInv, StorageTypes, RecTypes
<1>6. Mounts' /\ Held'
  BY <1>1, <1>4 DEF IInv, StorageTypes, Mounts, Held
<1>7. Numbers' /\ Placed' /\ JournalPairs' /\ ActiveIsTrue'
  BY <1>1, <1>4 DEF IInv, Numbers, Usable, Located, Held, Placed, JournalPairs, ActiveIsTrue
<1> QED BY <1>4, <1>5, <1>6, <1>7 DEF IInv

-----------------------------------------------------------------------------
(* A turn of loop(). *)

CloseBegins(c) == CloseForPort(c) \/ CloseLost(c) \/ CloseWorking(c) \/ LastClose(c)
LEMMA BeginCloseInv == ASSUME NEW c \in Channels PROVE IInv /\ CloseBegins(c) => IInv'
<1> SUFFICES ASSUME IInv, CloseBegins(c) PROVE IInv'
  OBVIOUS
<1>1. PICK reason \in Reasons : BeginClose(c, reason)
  BY DEF CloseBegins, CloseForPort, CloseLost, CloseWorking, LastClose, Reasons
<1>2. /\ UNCHANGED <<files, mounted, mounts, mountId, generation, aged, probePc, found, victims>>
      /\ UNCHANGED <<pipeline, current, driveGen>>
      /\ pipeline[c] /\ why' = [why EXCEPT ![c] = reason]
      /\ active' = [active EXCEPT ![c] = FALSE] /\ recPc' = [recPc EXCEPT ![c] = "closing"]
  BY <1>1 DEF BeginClose, ActiveWhileClosing, storageVars, driveVars, probeVars
<1>3. /\ seen' \in [Channels -> Nat]
      /\ \A d \in Channels : seen'[d] <= generation /\ (seen'[d] # 0 /\ seen'[d] = generation => Usable)
      /\ \A d \in Channels : d # c => seen'[d] = seen[d]
  <2>1. \/ seen' = seen \/ seen' = [seen EXCEPT ![c] = 0]
        \/ Usable /\ seen' = [seen EXCEPT ![c] = generation]
    BY DEF CloseBegins, CloseForPort, CloseLost, CloseWorking, LastClose, See, MayOpen
  <2> QED BY <2>1 DEF IInv, StorageTypes, RecTypes, Numbers
<1>4. StorageTypes' /\ RecTypes' /\ FileTypes'
  BY <1>2, <1>3 DEF IInv, StorageTypes, RecTypes, FileTypes, Places
<1>5. Numbers'
  BY <1>2, <1>3 DEF IInv, Numbers, Usable, Located
<1>6. Placed' /\ ActiveIsTrue'
  BY <1>2, <1>3 DEF IInv, RecTypes, Placed, ActiveIsTrue
<1>7. Mounts' /\ Held' /\ JournalPairs'
  BY <1>2 DEF IInv, Mounts, Held, JournalPairs
<1> QED BY <1>4, <1>5, <1>6, <1>7 DEF IInv

\* The steps of a turn without a pipeline, none of which makes a file.
Walks(c) == Look(c) \/ Rest(c) \/ MakePath(c) \/ OpenFails(c) \/ (PlayFails(c) /\ UNCHANGED files) \/ LastTurn(c)
LEMMA WalksInv == ASSUME NEW c \in Channels PROVE IInv /\ Walks(c) => IInv'
<1> SUFFICES ASSUME IInv, Walks(c) PROVE IInv'
  OBVIOUS
<1>1. /\ UNCHANGED <<files, mounted, mounts, mountId, generation, aged, probePc, found, victims>>
      /\ UNCHANGED <<pipeline, current, driveGen, active, why>>
  BY DEF Walks, Look, Rest, MakePath, OpenFails, PlayFails, Fails, LastTurn, storageVars, driveVars,
         probeVars
<1>2. PICK place \in Places \ {"closing"} : recPc' = [recPc EXCEPT ![c] = place]
  BY DEF Walks, Look, Rest, MakePath, OpenFails, PlayFails, Fails, LastTurn, Places
<1>3. /\ seen' \in [Channels -> Nat]
      /\ \A d \in Channels : seen'[d] <= generation /\ (seen'[d] # 0 /\ seen'[d] = generation => Usable)
      /\ \A d \in Channels : d # c => seen'[d] = seen[d]
  <2>1. \/ seen' = seen \/ seen' = [seen EXCEPT ![c] = 0]
        \/ Usable /\ seen' = [seen EXCEPT ![c] = generation]
    BY DEF Walks, Look, Rest, MakePath, OpenFails, PlayFails, Fails, LastTurn, See, MayOpen
  <2> QED BY <2>1 DEF IInv, StorageTypes, RecTypes, Numbers
<1>4. ~pipeline[c] /\ recPc[c] # "closing"
  BY DEF Walks, Look, Looks, Rest, MakePath, OpenFails, PlayFails, LastTurn, IInv, Placed
<1>5. StorageTypes' /\ RecTypes' /\ FileTypes'
  BY <1>1, <1>2, <1>3 DEF IInv, StorageTypes, RecTypes, FileTypes
<1>6. Numbers'
  BY <1>1, <1>3 DEF IInv, Numbers, Usable, Located
<1>7. Placed'
  <2>1. place = "launch" => seen'[c] # 0
    BY <1>2, <1>4 DEF Walks, Look, Rest, MakePath, OpenFails, PlayFails, Fails, LastTurn, IInv, RecTypes
  <2> QED BY <1>1, <1>2, <1>3, <1>4, <2>1 DEF IInv, RecTypes, Placed
<1>8. Mounts' /\ Held' /\ JournalPairs' /\ ActiveIsTrue'
  BY <1>1 DEF IInv, Mounts, Held, JournalPairs, ActiveIsTrue
<1> QED BY <1>5, <1>6, <1>7, <1>8 DEF IInv

\* The file a closing leaves, and what it has become for FileLife.
LEMMA ClosedFile ==
    ASSUME IInv, NEW k \in DOMAIN files, NEW reason
    PROVE  LET r == Closed(k, reason) IN
           /\ r \in FileRecords /\ r.inst = files[k].inst /\ r.by = files[k].by /\ r.key = files[k].key
           /\ ~r.open
           /\ r.line = (IF files[k].inst \in {0, mounted} THEN "closed" ELSE files[k].line)
           /\ r.gone => files[k].gone \/ ~files[k].key
  BY FileIsARecord DEF Closed, FileRecords

LEMMA EndCloseInv == ASSUME NEW c \in Channels PROVE IInv /\ EndClose(c) => IInv'
<1> SUFFICES ASSUME IInv, EndClose(c) PROVE IInv'
  OBVIOUS
<1> DEFINE k == current[c]
           r == Closed(k, why[c])
<1>1. /\ UNCHANGED <<mounted, mounts, mountId, generation, aged, probePc, found, victims>>
      /\ UNCHANGED <<seen, driveGen>>
      /\ files' = [files EXCEPT ![k] = r]
      /\ pipeline' = [pipeline EXCEPT ![c] = FALSE] /\ current' = [current EXCEPT ![c] = 0]
      /\ active' = [active EXCEPT ![c] = FALSE] /\ why' = [why EXCEPT ![c] = "none"]
      /\ recPc' = [recPc EXCEPT ![c] = AfterClose(why[c])] /\ recPc[c] = "closing"
  BY DEF EndClose, driveVars, probeVars
<1>2. k \in DOMAIN files /\ pipeline[c] /\ files[k].by = c /\ files[k].open
  BY <1>1 DEF IInv, Placed, Held
<1>3. /\ r \in FileRecords /\ r.inst = files[k].inst /\ r.by = files[k].by
      /\ ~r.open /\ r.line = (IF files[k].inst \in {0, mounted} THEN "closed" ELSE files[k].line)
  BY <1>2, ClosedFile
<1> HIDE DEF r
<1>4. /\ FileTypes' /\ Len(files') = Len(files) /\ DOMAIN files' = DOMAIN files
      /\ files'[k] = r /\ \A j \in DOMAIN files : j # k => files'[j] = files[j]
  BY <1>1, <1>2, <1>3, FileChanges
<1>5. AfterClose(why[c]) \in Places \ {"closing", "launch"}
  BY DEF AfterClose, Places
<1>6. StorageTypes' /\ RecTypes'
  BY <1>1, <1>4, <1>5 DEF IInv, StorageTypes, RecTypes, Reasons
<1>7. Mounts'
  BY <1>1, <1>3, <1>4 DEF IInv, Mounts
<1>8. \A d \in Channels : d # c => pipeline'[d] = pipeline[d] /\ current'[d] = current[d]
                                    /\ (pipeline[d] => current[d] # k)
  BY <1>1, <1>2 DEF IInv, RecTypes, Held
<1>9. ~pipeline'[c] /\ current'[c] = 0
  BY <1>1 DEF IInv, RecTypes
<1>10. Numbers'
  BY <1>1, <1>4, <1>8, <1>9 DEF IInv, Numbers, Usable, Located, Held, RecTypes
<1>11. Held'
  <2>1. \A d \in Channels :
          /\ current'[d] <= Len(files')
          /\ pipeline'[d] => /\ current'[d] \in DOMAIN files'
                             /\ files'[current'[d]].open /\ files'[current'[d]].by = d
    BY <1>4, <1>8, <1>9, Domain DEF IInv, Held
  <2>2. \A j \in DOMAIN files' : files'[j].open =>
          /\ pipeline'[files'[j].by] /\ current'[files'[j].by] = j
          /\ files'[j].fresh /\ ~files'[j].gone
    <3> SUFFICES ASSUME NEW j \in DOMAIN files, files'[j].open
                 PROVE  /\ pipeline'[files'[j].by] /\ current'[files'[j].by] = j
                        /\ files'[j].fresh /\ ~files'[j].gone
      BY <1>4
    <3>1. j # k /\ files'[j] = files[j]
      BY <1>3, <1>4
    <3>2. files[j].by \in Channels /\ current[files[j].by] = j
      BY <3>1, FileIsARecord DEF IInv, Held, FileRecords
    <3>3. files[j].by # c
      BY <3>1, <3>2
    <3> QED BY <1>8, <3>1, <3>2, <3>3 DEF IInv, Held
  <2>3. \A j \in victims' : ~files'[j].open
    BY <1>1, <1>2, <1>4 DEF IInv, Held, StorageTypes
  <2> QED BY <2>1, <2>2, <2>3 DEF Held
<1>12. Placed' /\ ActiveIsTrue'
  BY <1>1, <1>5, <1>8, <1>9 DEF IInv, RecTypes, Placed, ActiveIsTrue
<1>13. JournalPairs'
  BY <1>1, <1>3, <1>4 DEF IInv, JournalPairs
<1> QED BY <1>4, <1>6, <1>7, <1>10, <1>11, <1>12, <1>13 DEF IInv

LEMMA NewFileIsARecord ==
    ASSUME IInv, NEW c \in Channels, NEW opened \in BOOLEAN
    PROVE  LET r == NewFile(c, opened) IN
           /\ r \in FileRecords /\ r.inst = mounted /\ r.by = c /\ ~r.key /\ r.fresh /\ ~r.gone
           /\ r.open = opened /\ (r.line = "open" => opened)
  BY StorageAssumption DEF IInv, StorageTypes, NewFile, FileRecords

\* The file is on the newest mount, so on the one published or a later one.
LEMMA LaunchInv == ASSUME NEW c \in Channels PROVE IInv /\ Launch(c) => IInv'
<1> SUFFICES ASSUME IInv, Launch(c) PROVE IInv'
  OBVIOUS
<1> DEFINE n == Len(files) + 1
           r == NewFile(c, TRUE)
<1>1. /\ UNCHANGED <<mounted, mounts, mountId, generation, aged, probePc, found, victims>>
      /\ UNCHANGED <<why>> /\ recPc[c] = "launch"
      /\ files' = Append(files, r)
      /\ pipeline' = [pipeline EXCEPT ![c] = TRUE] /\ current' = [current EXCEPT ![c] = n]
      /\ driveGen' = [driveGen EXCEPT ![c] = seen[c]] /\ seen' = [seen EXCEPT ![c] = 0]
      /\ active' = [active EXCEPT ![c] = TRUE] /\ recPc' = [recPc EXCEPT ![c] = "turn"]
  BY DEF Launch, Kept, driveVars, probeVars
<1>2. /\ r \in FileRecords /\ r.inst = mounted /\ r.by = c /\ r.fresh /\ ~r.gone /\ r.open
  BY <1>1, NewFileIsARecord
<1> HIDE DEF r
<1>3. /\ FileTypes' /\ Len(files') = n /\ Len(files) \in Nat
      /\ DOMAIN files = 1 .. Len(files) /\ DOMAIN files' = 1 .. n
      /\ files'[n] = r /\ \A j \in DOMAIN files : files'[j] = files[j]
  BY <1>1, <1>2, FileAppears
<1>4. ~pipeline[c] /\ why[c] = "none"
  BY <1>1 DEF IInv, Placed
<1>5. StorageTypes'
  <2>1. victims \subseteq DOMAIN files'
    BY <1>3 DEF IInv, StorageTypes
  <2> QED BY <1>1, <2>1 DEF IInv, StorageTypes
<1>6. RecTypes'
  BY <1>1, <1>3 DEF IInv, RecTypes, Places
<1>7. Mounts'
  <2>1. \A j \in DOMAIN files' : files'[j].inst = mounted \/ (j \in DOMAIN files /\ files'[j] = files[j])
    BY <1>2, <1>3
  <2> QED BY <1>1, <2>1 DEF IInv, StorageTypes, Mounts
<1>8. /\ pipeline'[c] /\ current'[c] = n /\ driveGen'[c] = seen[c] /\ seen'[c] = 0
      /\ \A d \in Channels : d # c =>
            /\ pipeline'[d] = pipeline[d] /\ current'[d] = current[d]
            /\ driveGen'[d] = driveGen[d] /\ seen'[d] = seen[d]
  BY <1>1 DEF IInv, RecTypes
<1>9. Numbers'
  <2>1. \A d \in Channels : pipeline[d] => files'[current[d]] = files[current[d]]
    BY <1>3 DEF IInv, Held
  <2>2. files'[n].inst = mounted /\ (Usable => mounted >= mountId \/ (mounted = 0 /\ mountId # mounted))
    BY <1>2, <1>3 DEF IInv, StorageTypes, Mounts, Usable
  <2>3. seen[c] # 0 /\ (seen[c] = generation => Usable) /\ seen[c] <= generation
    BY <1>1 DEF IInv, Numbers, Placed
  <2>4. generation \in Nat
    BY DEF IInv, StorageTypes
  <2>5. ASSUME NEW d \in Channels
        PROVE  /\ driveGen'[d] <= generation /\ seen'[d] <= generation
               /\ seen'[d] # 0 /\ seen'[d] = generation => Usable
               /\ pipeline'[d] /\ driveGen'[d] = generation =>
                     /\ Usable
                     /\ \/ files'[current'[d]].inst >= mountId
                        \/ files'[current'[d]].inst = 0 /\ mountId # mounted
    <3>1. CASE d = c
      BY <1>8, <2>2, <2>3, <2>4, <3>1
    <3>2. CASE d # c
      BY <1>8, <2>1, <3>2 DEF IInv, Numbers, Located
    <3> QED BY <3>1, <3>2
  <2> QED BY <1>1, <2>5 DEF Numbers, Usable, Located
<1>10. Held'
  <2>1. \A d \in Channels :
          /\ current'[d] <= Len(files')
          /\ pipeline'[d] => /\ current'[d] \in DOMAIN files'
                             /\ files'[current'[d]].open /\ files'[current'[d]].by = d
    <3> SUFFICES ASSUME NEW d \in Channels
                 PROVE  /\ current'[d] <= n
                        /\ pipeline'[d] => /\ current'[d] \in DOMAIN files'
                                           /\ files'[current'[d]].open /\ files'[current'[d]].by = d
      BY <1>3
    <3>1. CASE d = c
      BY <1>2, <1>3, <1>8, <3>1
    <3>2. CASE d # c
      <4>1. current[d] \in Nat /\ current[d] <= Len(files)
        BY DEF IInv, RecTypes, Held
      <4> QED BY <1>3, <1>8, <3>2, <4>1 DEF IInv, Held
    <3> QED BY <3>1, <3>2
  <2>2. \A j \in DOMAIN files' : files'[j].open =>
          /\ pipeline'[files'[j].by] /\ current'[files'[j].by] = j
          /\ files'[j].fresh /\ ~files'[j].gone
    <3> SUFFICES ASSUME NEW j \in DOMAIN files', files'[j].open
                 PROVE  /\ pipeline'[files'[j].by] /\ current'[files'[j].by] = j
                        /\ files'[j].fresh /\ ~files'[j].gone
      OBVIOUS
    <3>1. CASE j = n
      BY <1>2, <1>3, <1>8, <3>1
    <3>2. CASE j # n
      <4>1. j \in DOMAIN files /\ files'[j] = files[j]
        BY <1>3, <3>2
      <4>2. files[j].by \in Channels /\ files[j].by # c
        BY <1>4, <4>1, FileIsARecord DEF IInv, Held, FileRecords
      <4> QED BY <1>8, <4>1, <4>2 DEF IInv, Held
    <3> QED BY <3>1, <3>2
  <2>3. \A j \in victims' : ~files'[j].open
    BY <1>1, <1>3 DEF IInv, Held, StorageTypes
  <2> QED BY <2>1, <2>2, <2>3 DEF Held
<1>11. Placed' /\ ActiveIsTrue'
  BY <1>1, <1>4, <1>8 DEF IInv, RecTypes, Placed, ActiveIsTrue
<1>12. JournalPairs'
  BY <1>1, <1>2, <1>3 DEF IInv, JournalPairs
<1> QED BY <1>3, <1>5, <1>6, <1>7, <1>9, <1>10, <1>11, <1>12 DEF IInv

\* The file of a pipeline that did not play belongs to nobody.
LEMMA PlayFailsInv ==
    ASSUME NEW c \in Channels
    PROVE  IInv /\ PlayFails(c) /\ files' = Append(files, NewFile(c, FALSE)) => IInv'
<1> SUFFICES ASSUME IInv, PlayFails(c), files' = Append(files, NewFile(c, FALSE))
             PROVE  IInv'
  OBVIOUS
<1> DEFINE n == Len(files) + 1
           r == NewFile(c, FALSE)
<1>1. /\ UNCHANGED <<mounted, mounts, mountId, generation, aged, probePc, found, victims>>
      /\ UNCHANGED <<pipeline, current, driveGen, active, why>> /\ recPc[c] = "launch"
      /\ seen' = [seen EXCEPT ![c] = 0] /\ recPc' = [recPc EXCEPT ![c] = "pause"]
      /\ files' = Append(files, r)
  BY DEF PlayFails, Fails, driveVars, probeVars
<1>2. r \in FileRecords /\ r.inst = mounted /\ ~r.open /\ r.line # "open"
  BY NewFileIsARecord
<1> HIDE DEF r
<1>3. /\ FileTypes' /\ Len(files') = n /\ Len(files) \in Nat
      /\ DOMAIN files = 1 .. Len(files) /\ DOMAIN files' = 1 .. n
      /\ files'[n] = r /\ \A j \in DOMAIN files : files'[j] = files[j]
  BY <1>1, <1>2, FileAppears
<1>4. ASSUME NEW j \in DOMAIN files'
      PROVE  (j = n /\ files'[j] = r) \/ (j \in DOMAIN files /\ files'[j] = files[j])
  <2>1. CASE j = n
    BY <1>3, <2>1
  <2>2. CASE j # n
    <3>1. j \in DOMAIN files
      BY <1>3, <2>2
    <3> QED BY <1>3, <3>1
  <2> QED BY <2>1, <2>2
<1> HIDE DEF n
<1>5. StorageTypes' /\ RecTypes'
  <2>1. victims \subseteq DOMAIN files'
    BY <1>3 DEF n, IInv, StorageTypes
  <2> QED BY <1>1, <2>1 DEF IInv, StorageTypes, RecTypes, Places
<1>6. Mounts'
  <2>1. mounted <= mounts
    BY DEF IInv, StorageTypes
  <2>2. ASSUME NEW j \in DOMAIN files' PROVE files'[j].inst <= mounts
    BY <1>2, <1>4, <2>1 DEF IInv, Mounts
  <2> QED BY <1>1, <2>2 DEF IInv, Mounts
<1>7. \A d \in Channels : pipeline[d] =>
         /\ current[d] \in DOMAIN files /\ files'[current[d]] = files[current[d]]
         /\ current[d] \in DOMAIN files'
  <2>1. \A j \in DOMAIN files : files'[j] = files[j] /\ j \in DOMAIN files'
    BY <1>3 DEF n
  <2> QED BY <2>1 DEF IInv, Held
<1>8. Numbers'
  <2>1. \A d \in Channels : seen'[d] <= generation /\ (seen'[d] # 0 /\ seen'[d] = generation => Usable)
    BY <1>1 DEF IInv, StorageTypes, RecTypes, Numbers
  <2> QED BY <1>1, <1>7, <2>1 DEF IInv, Numbers, Usable, Located
<1>9. Held'
  <2>1. \A d \in Channels : current[d] <= Len(files')
    BY <1>3 DEF IInv, RecTypes, Held, n
  <2>2. \A d \in Channels : pipeline[d] => /\ current[d] \in DOMAIN files'
                                           /\ files'[current[d]].open /\ files'[current[d]].by = d
    BY <1>7 DEF IInv, Held
  <2>3. \A j \in DOMAIN files' : files'[j].open =>
          /\ pipeline[files'[j].by] /\ current[files'[j].by] = j
          /\ files'[j].fresh /\ ~files'[j].gone
    <3> SUFFICES ASSUME NEW j \in DOMAIN files', files'[j].open
                 PROVE  /\ pipeline[files'[j].by] /\ current[files'[j].by] = j
                        /\ files'[j].fresh /\ ~files'[j].gone
      OBVIOUS
    <3>1. j \in DOMAIN files /\ files'[j] = files[j]
      BY <1>2, <1>4
    <3> QED BY <3>1 DEF IInv, Held
  <2>4. \A j \in victims' : ~files'[j].open
    BY <1>1, <1>3 DEF IInv, Held, StorageTypes
  <2> QED BY <1>1, <2>1, <2>2, <2>3, <2>4 DEF Held
<1>10. Placed' /\ ActiveIsTrue'
  BY <1>1 DEF IInv, RecTypes, Placed, ActiveIsTrue
<1>11. JournalPairs'
  BY <1>1, <1>2, <1>4 DEF IInv, JournalPairs
<1> QED BY <1>3, <1>5, <1>6, <1>8, <1>9, <1>10, <1>11 DEF IInv

LEMMA StutterInv == IInv /\ UNCHANGED vars => IInv'
<1> SUFFICES ASSUME IInv, UNCHANGED vars PROVE IInv'
  OBVIOUS
<1>1. /\ UNCHANGED <<files, mounted, mounts, mountId, generation, aged, probePc, found, victims>>
      /\ UNCHANGED <<recPc, seen, pipeline, current, driveGen, active, why>>
  BY DEF vars, storageVars, driveVars, probeVars, recVars
<1>2. StorageTypes' /\ RecTypes' /\ FileTypes'
  BY <1>1 DEF IInv, StorageTypes, RecTypes, FileTypes
<1>3. Mounts' /\ Numbers' /\ Held' /\ Placed' /\ JournalPairs' /\ ActiveIsTrue'
  BY <1>1 DEF IInv, Mounts, Numbers, Usable, Located, Held, Placed, JournalPairs, ActiveIsTrue
<1> QED BY <1>2, <1>3 DEF IInv

LEMMA LoopInv == ASSUME NEW c \in Channels PROVE IInv /\ Loop(c) => IInv'
<1> SUFFICES ASSUME IInv, Loop(c) PROVE IInv'
  OBVIOUS
<1>1. \/ CloseBegins(c) \/ EndClose(c) \/ Walks(c) \/ Launch(c)
      \/ PlayFails(c) /\ files' = Append(files, NewFile(c, FALSE))
  BY DEF Loop, CloseBegins, Walks, PlayFails
<1> QED BY <1>1, BeginCloseInv, EndCloseInv, WalksInv, LaunchInv, PlayFailsInv

LEMMA NextInv == ASSUME LongSilence = FALSE PROVE IInv /\ [Next]_vars => IInv'
<1> SUFFICES ASSUME IInv, [Next]_vars PROVE IInv'
  OBVIOUS
<1>1. CASE StorageNext /\ UNCHANGED recVars
  BY <1>1, DriveInv, PublishInv, ProbeInv, RemoveInv DEF StorageNext, Probe
<1>2. CASE \E c \in Channels : Frame(c) \/ Loop(c)
  BY <1>2, FrameInv, LoopInv
<1>3. CASE \E k \in DOMAIN files : GrowOld(k)
  BY <1>3, GrowOldInv
<1>4. CASE UNCHANGED vars
  BY <1>4, StutterInv
<1> QED BY <1>1, <1>2, <1>3, <1>4 DEF Next

LEMMA InvSafety == IInv => Safety
<1> SUFFICES ASSUME IInv PROVE Safety
  OBVIOUS
<1>1. TypeOK
  <2>1. \A k \in DOMAIN files : files[k] \in FileRecords
    BY FileIsARecord
  <2>2. ASSUME NEW c \in Channels
        PROVE  /\ pipeline[c] \in BOOLEAN /\ active[c] \in BOOLEAN
               /\ recPc[c] \in Places /\ current[c] \in 0 .. Len(files)
               /\ driveGen[c] \in 0 .. generation /\ seen[c] \in 0 .. generation
               /\ why[c] \in Reasons
    BY Domain DEF IInv, StorageTypes, RecTypes, Numbers, Held
  <2> QED BY <2>1, <2>2 DEF IInv, TypeOK, Places
<1>2. NumberTellsDrive
  BY DEF IInv, Numbers, Located, NumberTellsDrive
<1>3. RingSparesWritten
  BY DEF IInv, Held, RingSparesWritten, Writing
<1> QED BY <1>1, <1>2, <1>3 DEF IInv, Safety

\* However the drive is pulled, put back or swapped between the steps of a
\* turn: the number a recorder keeps never passes an older drive's file for one
\* of the published drive, and one on the system disk only until the probe
\* notices the pull; no file into which frames go is removed; the journal and
\* the flag of recording tell the truth (Recorder::loop, close_file,
\* Storage::make_path, probe_once, reclaim_space).
THEOREM RecorderIsSafe == ASSUME LongSilence = FALSE PROVE Spec => []Safety
<1>1. IInv /\ [Next]_vars => IInv'
  BY NextInv
<1> QED BY InitInv, <1>1, InvSafety, PTL DEF Spec

-----------------------------------------------------------------------------
(* The refinement. *)

\* A step that leaves the phase and the content of every file is a stutter.
LEMMA SameLives ==
    ASSUME DOMAIN files' = DOMAIN files,
           \A k \in DOMAIN files :
              /\ files'[k].by = files[k].by /\ files'[k].open = files[k].open
              /\ files'[k].gone = files[k].gone /\ files'[k].key = files[k].key
    PROVE  lives' = lives
  BY DEF lives, Phase

LEMMA LivesOf ==
    /\ DOMAIN lives = DOMAIN files
    /\ \A k \in DOMAIN files :
          lives[k] = [by |-> files[k].by, phase |-> Phase(k), content |-> files[k].key]
  BY DEF lives

\* One file changes: so does one life.
LEMMA OneLife ==
    ASSUME IInv, NEW k \in DOMAIN files, NEW r \in FileRecords, files' = [files EXCEPT ![k] = r],
           r.by = files[k].by
    PROVE  lives' = [lives EXCEPT ![k] = [by |-> files[k].by, phase |-> Phase(k)', content |-> r.key]]
<1>1. /\ DOMAIN files' = DOMAIN files /\ files'[k] = r
      /\ \A j \in DOMAIN files : j # k => files'[j] = files[j]
  BY FileChanges
<1> QED BY <1>1 DEF lives, Phase

LEMMA NewLifeOf ==
    ASSUME IInv, NEW r \in FileRecords, files' = Append(files, r)
    PROVE  lives' = Append(lives, [by |-> r.by, content |-> r.key,
               phase |-> IF r.gone THEN "removed" ELSE IF r.open THEN "open" ELSE "closed"])
<1> DEFINE e == [by |-> r.by, content |-> r.key,
                 phase |-> IF r.gone THEN "removed" ELSE IF r.open THEN "open" ELSE "closed"]
           n == Len(files)
<1>1. /\ n \in Nat /\ DOMAIN files = 1 .. n /\ DOMAIN files' = 1 .. n + 1
      /\ files'[n + 1] = r /\ \A j \in DOMAIN files : files'[j] = files[j]
  BY FileAppears
<1>2. DOMAIN lives = 1 .. n /\ DOMAIN lives' = 1 .. n + 1
  BY <1>1 DEF lives
<1>3. lives'[n + 1] = e /\ \A j \in 1 .. n : lives'[j] = lives[j]
  BY <1>1 DEF lives, Phase
<1> DEFINE LifeRecords == {lives[j] : j \in 1 .. n} \cup {e}
<1>4. lives \in [1 .. n -> LifeRecords] /\ lives' \in [1 .. n + 1 -> LifeRecords]
  <2>1. lives = [j \in 1 .. n |-> lives[j]]
    BY <1>1, <1>2 DEF lives
  <2>2. lives' = [j \in 1 .. n + 1 |-> lives'[j]]
    BY <1>1, <1>2 DEF lives
  <2>3. \A j \in 1 .. n + 1 : j \in 1 .. n \/ j = n + 1
    BY <1>1
  <2> QED BY <1>3, <2>1, <2>2, <2>3
<1>5. lives \in Seq(LifeRecords) /\ lives' \in Seq(LifeRecords) /\ Len(lives) = n /\ Len(lives') = n + 1
  <2>1. \A m, L, q : m \in Nat /\ q \in [1 .. m -> L] => q \in Seq(L) /\ Len(q) = m
    OBVIOUS
  <2>2. n \in Nat /\ n + 1 \in Nat
    BY <1>1
  <2> HIDE DEF e, n, LifeRecords
  <2> QED BY <1>4, <2>1, <2>2
<1> HIDE DEF e, LifeRecords
<1>6. e \in LifeRecords
  BY DEF LifeRecords
<1>7. /\ Append(lives, e) \in Seq(LifeRecords) /\ Len(Append(lives, e)) = n + 1
      /\ \A j \in 1 .. n : Append(lives, e)[j] = lives[j]
      /\ Append(lives, e)[n + 1] = e
  BY <1>5, <1>6, AppendProperties
<1>8. \A j \in 1 .. n + 1 : lives'[j] = Append(lives, e)[j]
  BY <1>1, <1>3, <1>7
<1>9. lives' = Append(lives, e)
  BY <1>5, <1>7, <1>8, SeqEqual
<1> QED BY <1>9 DEF e

\* The ring removes what is closed; a frame is a write; what a close leaves of a
\* file is closed, or removed if no frame came.
LEMMA RemoveLife == IInv /\ Remove => [Life!LifeNext]_lives
<1> SUFFICES ASSUME IInv, Remove PROVE [Life!LifeNext]_lives
  OBVIOUS
<1>1. PICK k \in victims :
        \/ OnDrive(k) /\ files' = [files EXCEPT ![k] = [@ EXCEPT !.gone = TRUE]]
        \/ UNCHANGED files
  BY DEF Remove
<1>2. CASE UNCHANGED files
  BY <1>2, SameLives
<1>3. CASE OnDrive(k) /\ files' = [files EXCEPT ![k] = [@ EXCEPT !.gone = TRUE]]
  <2> DEFINE r == [files[k] EXCEPT !.gone = TRUE]
  <2>1. k \in DOMAIN files /\ ~files[k].open /\ ~files[k].gone
    BY <1>3 DEF IInv, StorageTypes, Held, OnDrive
  <2>2. r \in FileRecords /\ r.by = files[k].by /\ r.key = files[k].key /\ r.gone
    BY <2>1, FileIsARecord DEF FileRecords
  <2>3. files' = [files EXCEPT ![k] = r]
    BY <1>3
  <2> HIDE DEF r
  <2>4. Phase(k)' = "removed"
    BY <2>1, <2>2, <2>3, FileChanges DEF Phase
  <2>5. lives' = [lives EXCEPT ![k] = [by |-> files[k].by, phase |-> "removed", content |-> files[k].key]]
    BY <2>1, <2>2, <2>3, <2>4, OneLife
  <2>6. lives[k] = [by |-> files[k].by, phase |-> "closed", content |-> files[k].key] /\ k \in DOMAIN lives
    BY <2>1, LivesOf DEF Phase
  <2>7. lives' = [lives EXCEPT ![k].phase = "removed"]
    <3>1. [lives[k] EXCEPT !.phase = "removed"]
            = [by |-> files[k].by, phase |-> "removed", content |-> files[k].key]
      BY <2>6
    <3> QED BY <2>5, <3>1
  <2>8. lives[k].phase = "closed"
    BY <2>6
  <2>9. Life!Remove(k)
    BY <2>7, <2>8 DEF Life!Remove
  <2> QED BY <2>6, <2>9 DEF Life!LifeNext
<1> QED BY <1>1, <1>2, <1>3

LEMMA FrameLife == ASSUME NEW c \in Channels PROVE IInv /\ Frame(c) => [Life!LifeNext]_lives
<1> SUFFICES ASSUME IInv, Frame(c) PROVE [Life!LifeNext]_lives
  OBVIOUS
<1>1. PICK k \in DOMAIN files : k = current[c]
  BY DEF Frame, IInv, Held
<1> DEFINE r == [files[k] EXCEPT !.key = TRUE, !.fresh = TRUE]
<1>2. files' = [files EXCEPT ![k] = r] /\ k \in DOMAIN files /\ files[k].open /\ ~files[k].gone
  BY <1>1 DEF Frame, IInv, Held
<1>3. /\ r \in FileRecords /\ r.by = files[k].by /\ r.open = files[k].open
      /\ r.gone = files[k].gone /\ r.key = TRUE
  BY <1>2, FileIsARecord DEF FileRecords
<1> HIDE DEF r
<1>4. Phase(k)' = "open"
  BY <1>2, <1>3, FileChanges DEF Phase
<1>5. lives' = [lives EXCEPT ![k] = [by |-> files[k].by, phase |-> "open", content |-> TRUE]]
  BY <1>2, <1>3, <1>4, OneLife
<1>6. lives[k] = [by |-> files[k].by, phase |-> "open", content |-> files[k].key] /\ k \in DOMAIN lives
  BY <1>2, LivesOf DEF Phase
<1>7. lives' = [lives EXCEPT ![k].content = TRUE]
  <2>1. \A t : [lives[k] EXCEPT !.content = t]
                 = [by |-> files[k].by, phase |-> "open", content |-> t]
    BY <1>6
  <2>2. [lives[k] EXCEPT !.content = TRUE]
          = [by |-> files[k].by, phase |-> "open", content |-> TRUE]
    BY <2>1, Zenon
  <2> QED BY <1>5, <2>2
<1>8. lives[k].phase = "open"
  BY <1>6
<1>9. Life!Write(k)
  BY <1>7, <1>8 DEF Life!Write, Life!IsOpen
<1> QED BY <1>6, <1>9 DEF Life!LifeNext

LEMMA EndCloseLife == ASSUME NEW c \in Channels PROVE IInv /\ EndClose(c) => [Life!LifeNext]_lives
<1> SUFFICES ASSUME IInv, EndClose(c) PROVE [Life!LifeNext]_lives
  OBVIOUS
<1>1. PICK k \in DOMAIN files : k = current[c]
  BY DEF EndClose, IInv, Placed, Held
<1>2. PICK r : r = Closed(k, why[c])
  OBVIOUS
<1>3. /\ files' = [files EXCEPT ![k] = r]
      /\ files[k].open /\ ~files[k].gone
  BY <1>1, <1>2 DEF EndClose, IInv, Placed, Held
<1>4. /\ r \in FileRecords /\ r.by = files[k].by /\ r.key = files[k].key /\ ~r.open
      /\ r.gone => ~files[k].key
  BY <1>2, <1>3, ClosedFile
<1>5. PICK p : p = IF r.gone THEN "removed" ELSE "closed"
  OBVIOUS
<1>6. Phase(k)' = p
  BY <1>3, <1>4, <1>5, FileChanges DEF Phase
<1>7. lives' = [lives EXCEPT ![k] = [by |-> files[k].by, phase |-> p, content |-> files[k].key]]
  BY <1>3, <1>4, <1>6, OneLife
<1>8. lives[k] = [by |-> files[k].by, phase |-> "open", content |-> files[k].key] /\ k \in DOMAIN lives
  BY <1>3, LivesOf DEF Phase
<1>9. lives' = [lives EXCEPT ![k].phase = p]
  <2>1. [lives[k] EXCEPT !.phase = p] = [by |-> files[k].by, phase |-> p, content |-> files[k].key]
    BY <1>8
  <2> QED BY <1>7, <2>1
<1>10. lives[k].phase = "open" /\ lives[k].content = files[k].key
  BY <1>8
<1>11. CASE r.gone
  <2>1. Life!Drop(k)
    BY <1>4, <1>9, <1>11, <1>5, <1>10 DEF Life!Drop, Life!IsOpen
  <2> QED BY <1>8, <2>1 DEF Life!LifeNext
<1>12. CASE ~r.gone
  <2>1. Life!End(k)
    BY <1>9, <1>12, <1>5, <1>10 DEF Life!End, Life!IsOpen
  <2> QED BY <1>8, <2>1 DEF Life!LifeNext
<1> QED BY <1>11, <1>12

\* A channel that may begin a file has none open.
LEMMA LaunchLife == ASSUME NEW c \in Channels PROVE IInv /\ Launch(c) => [Life!LifeNext]_lives
<1> SUFFICES ASSUME IInv, Launch(c) PROVE [Life!LifeNext]_lives
  OBVIOUS
<1> DEFINE r == NewFile(c, TRUE)
<1>1. files' = Append(files, r) /\ r \in FileRecords /\ r.by = c /\ ~r.key /\ r.key \in BOOLEAN
      /\ r.open /\ ~r.gone
  BY NewFileIsARecord DEF Launch, FileRecords
<1>2. ~pipeline[c]
  BY DEF Launch, IInv, Placed
<1> HIDE DEF r
<1>3. lives' = Append(lives, [by |-> c, phase |-> "open", content |-> FALSE])
  BY <1>1, NewLifeOf
<1>4. \A k \in DOMAIN lives : ~(lives[k].phase = "open" /\ lives[k].by = c)
  BY <1>2, LivesOf DEF Phase, IInv, Held
<1> QED BY <1>3, <1>4 DEF Life!LifeNext, Life!Begin, Life!NewLife, Life!IsOpen

LEMMA PlayFailsLife ==
    ASSUME NEW c \in Channels
    PROVE  IInv /\ files' = Append(files, NewFile(c, FALSE)) => [Life!LifeNext]_lives
<1> SUFFICES ASSUME IInv, files' = Append(files, NewFile(c, FALSE))
             PROVE  [Life!LifeNext]_lives
  OBVIOUS
<1> DEFINE r == NewFile(c, FALSE)
<1>1. files' = Append(files, r) /\ r \in FileRecords /\ r.by = c /\ ~r.key /\ r.key \in BOOLEAN
      /\ ~r.open /\ ~r.gone
  BY NewFileIsARecord DEF FileRecords
<1> HIDE DEF r
<1>2. lives' = Append(lives, [by |-> c, phase |-> "closed", content |-> FALSE])
  BY <1>1, NewLifeOf
<1> QED BY <1>2 DEF Life!LifeNext, Life!Spoil, Life!NewLife

LEMMA GrowOldLife == ASSUME NEW k \in DOMAIN files PROVE IInv /\ GrowOld(k) => lives' = lives
<1> SUFFICES ASSUME IInv, GrowOld(k) PROVE lives' = lives
  OBVIOUS
<1> DEFINE r == [files[k] EXCEPT !.fresh = FALSE]
<1>1. files' = [files EXCEPT ![k] = r]
  BY DEF GrowOld
<1>2. /\ r \in FileRecords /\ r.by = files[k].by /\ r.open = files[k].open
      /\ r.gone = files[k].gone /\ r.key = files[k].key
  BY FileIsARecord DEF FileRecords
<1> HIDE DEF r
<1> QED BY <1>1, <1>2, FileChanges, SameLives

LEMMA NextLife == IInv /\ [Next]_vars => [Life!LifeNext]_lives
<1> SUFFICES ASSUME IInv, [Next]_vars PROVE [Life!LifeNext]_lives
  OBVIOUS
<1>1. CASE UNCHANGED files
  BY <1>1, SameLives
<1>2. CASE Remove
  BY <1>2, RemoveLife
<1>3. CASE \E c \in Channels : Frame(c) \/ EndClose(c) \/ Launch(c)
  BY <1>3, FrameLife, EndCloseLife, LaunchLife
<1>4. CASE \E c \in Channels : files' = Append(files, NewFile(c, FALSE))
  BY <1>4, PlayFailsLife
<1>5. CASE \E k \in DOMAIN files : GrowOld(k)
  BY <1>5, GrowOldLife
<1>6. StorageNext => Remove \/ UNCHANGED files
  BY DEF StorageNext, Mount, Unmount, Probe, Scan, Accept, Reject, Publish, List, Reclaimed, Age
<1>7. \A c \in Channels : CloseBegins(c) => UNCHANGED files
  BY DEF CloseBegins, CloseForPort, CloseLost, CloseWorking, LastClose, BeginClose, storageVars
<1>8. \A c \in Channels : Walks(c) => UNCHANGED files
  BY DEF Walks, Look, Rest, MakePath, OpenFails, LastTurn, storageVars
<1>9. \A c \in Channels : Loop(c) =>
          \/ CloseBegins(c) \/ Walks(c) \/ EndClose(c) \/ Launch(c)
          \/ files' = Append(files, NewFile(c, FALSE))
  BY DEF Loop, CloseBegins, Walks, PlayFails
<1>10. UNCHANGED vars => UNCHANGED files
  BY DEF vars, storageVars
<1> QED BY <1>1, <1>2, <1>3, <1>4, <1>5, <1>6, <1>7, <1>8, <1>9, <1>10 DEF Next

LEMMA InitLife == Init => Life!LifeInit
<1> SUFFICES ASSUME Init PROVE lives = <<>>
  BY DEF Life!LifeInit
<1>1. files = <<>>
  BY DEF Init, StorageInit
<1> QED BY <1>1 DEF lives

\* Every file lives as FileLife allows: one writer at a time has one file, what
\* is closed is not written again, and what has content is not removed before.
THEOREM RecorderImplementsFileLife ==
    ASSUME LongSilence = FALSE PROVE Spec => FilesLiveRight
<1>1. IInv /\ [Next]_vars => IInv'
  BY NextInv
<1> QED BY InitInv, InitLife, <1>1, NextLife, PTL DEF Spec, FilesLiveRight, Life!LifeSpec
=============================================================================
