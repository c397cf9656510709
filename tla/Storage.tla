------------------------------- MODULE Storage -------------------------------
(***************************************************************************)
(* record/storage.cpp: the removable drive as the recorders see it.  The   *)
(* probe thread looks for a mounted drive, publishes what it found and     *)
(* removes the oldest files when space is short.                           *)
(*                                                                         *)
(* The kernel mounts and loses the drive; each mount has a number of its   *)
(* own, from 1.  All mounts have the same path, the case the code is       *)
(* written for.  Until the probe has noticed that the drive was pulled,    *)
(* users of the path make their files under the bare mount point, on the   *)
(* system disk: the file's mount is then 0.  A path leads to the mount     *)
(* that is there, and to the system disk when none is.  Sizes and ages are *)
(* abstracted: fresh says that a file was written within keep_recent_sec,  *)
(* and reclaim_space removes any part of the files that are not.  The      *)
(* pause between attempts of udisks to mount is left out.                  *)
(***************************************************************************)
EXTENDS Integers, Sequences, FiniteSets

CONSTANTS
    MaxMounts,    \* bound: mounts in one run
    MaxNumber,    \* bound: numbers of the drive in one run
    MaxFiles      \* bound: files opened in one run

ASSUME StorageAssumption ==
    MaxMounts \in Nat \ {0} /\ MaxNumber \in Nat \ {0} /\ MaxFiles \in Nat \ {0}

VARIABLES
    mounted,      \* kernel: number of the current mount, 0 = none
    mounts,       \* kernel: numbers given so far
    files,        \* the files opened so far, in order
    mountId,      \* mount_id; root is empty exactly when it is 0
    generation,   \* state.generation
    aged,         \* the snapshot is older than drive_stale_ms
    probePc, found, victims

driveVars == <<mounted, mounts>>
probeVars == <<mountId, generation, aged, probePc, found, victims>>
storageVars == <<driveVars, files, probeVars>>

Usable == mountId # 0
OnDrive(k) == files[k].inst = mounted /\ ~files[k].gone

-----------------------------------------------------------------------------
(* The drive. *)

Mount ==
    /\ mounted = 0 /\ mounts < MaxMounts
    /\ mounts' = mounts + 1
    /\ mounted' = mounts + 1
    /\ UNCHANGED <<files, probeVars>>

Unmount ==
    /\ mounted # 0
    /\ mounted' = 0
    /\ UNCHANGED <<mounts, files, probeVars>>

-----------------------------------------------------------------------------
(* probe_loop: probe_once, then reclaim_space, then a pause. *)

\* The mounts are read from /proc, which never blocks.
Scan ==
    /\ probePc = "scan"
    /\ found' = mounted
    /\ probePc' = "check"
    /\ UNCHANGED <<driveVars, files, mountId, generation, aged, victims>>

\* The snapshot is replaced under state_mtx; a new mount is a new drive.
Changed_ByPath(m) == (m = 0) # (mountId = 0)
Changed(m) == m # mountId

Publish(m) ==
    /\ Changed(m) => generation < MaxNumber
    /\ generation' = IF Changed(m) THEN generation + 1 ELSE generation
    /\ mountId' = m
    /\ aged' = FALSE
    /\ found' = 0
    /\ probePc' = "list"
    /\ UNCHANGED <<driveVars, files, victims>>

\* stat, access and statvfs of the path succeed, perhaps on a later mount than
\* the one whose number was read, or on the tmpfs under a mount point in
\* /run/media; each may block on a dead drive.
Accept == probePc = "check" /\ found # 0 /\ Publish(found)

\* No candidate, or it is full, read-only, or not there any more.
Reject == probePc = "check" /\ Publish(0)

\* Time passes while the probe thread is held up.
Age ==
    /\ ~aged
    /\ aged' = TRUE
    /\ UNCHANGED <<driveVars, files, mountId, generation, probePc, found, victims>>

\* Only what was not written lately may go.
Reclaimable_All(k) == OnDrive(k)
Reclaimable(k) == OnDrive(k) /\ ~files[k].fresh

\* reclaim_space lists the candidates ...
List ==
    /\ probePc = "list"
    /\ \E S \in {{}, {k \in DOMAIN files : Usable /\ Reclaimable(k)}} :
          /\ victims' = S
          /\ probePc' = IF S = {} THEN "scan" ELSE "remove"
    /\ UNCHANGED <<driveVars, files, mountId, generation, aged, found>>

\* ... and removes one after another (unlink may fail) ...
Remove ==
    /\ probePc = "remove"
    /\ \E k \in victims :
          /\ victims' = victims \ {k}
          /\ \/ OnDrive(k) /\ files' = [files EXCEPT ![k] = [@ EXCEPT !.gone = TRUE]]
             \/ UNCHANGED files
    /\ UNCHANGED <<driveVars, mountId, generation, aged, probePc, found>>

\* ... until there is space enough.
Reclaimed ==
    /\ probePc = "remove"
    /\ victims' = {}
    /\ probePc' = "scan"
    /\ UNCHANGED <<driveVars, files, mountId, generation, aged, found>>

Probe == Scan \/ Accept \/ Reject \/ List \/ Remove \/ Reclaimed

-----------------------------------------------------------------------------
StorageInit ==
    /\ mounted = 0 /\ mounts = 0 /\ files = <<>>
    /\ mountId = 0 /\ generation = 0 /\ aged = FALSE
    /\ probePc = "scan" /\ found = 0 /\ victims = {}

StorageNext == Mount \/ Unmount \/ Probe \/ Age

StorageTypes ==
    /\ mounted \in 0 .. mounts /\ mounts \in 0 .. MaxMounts
    /\ mountId \in 0 .. MaxMounts /\ generation \in Nat /\ aged \in BOOLEAN
    /\ probePc \in {"scan", "check", "list", "remove"}
    /\ found \in 0 .. MaxMounts /\ victims \subseteq DOMAIN files
=============================================================================
