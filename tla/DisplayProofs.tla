---------------------------- MODULE DisplayProofs ----------------------------
(***************************************************************************)
(* Theorems about Display and their proofs, in the order they build on     *)
(* each other:                                                             *)
(*   TypeCorrect         from TypeOK /\ TargetAtHand;                      *)
(*   DrawingHeld         from HeldInv, which adds that generations are     *)
(*                       fresh;                                            *)
(*   RingsConsistent, FlipsConfirmed, NeverTears                           *)
(*                       from FlipPre, what the kernel, the queue of flip  *)
(*                       events, the two threads' commits and the ring of  *)
(*                       a slot know of each other;                        *)
(*   BuffersAreAccounted from FlipPre and how far a teardown has come;     *)
(*   RoleByTheRule       from what the event loop knows of the role.       *)
(***************************************************************************)
EXTENDS Display, FiniteSetTheorems, SequenceTheorems, TLAPS

USE DisplayAssumption DEF Slots, Bufs, None, Threads, R, E

LEMMA BufsFinite == IsFiniteSet(Bufs)
  BY FS_Interval

LEMMA ZeroIsASlot == 0 \in Slots /\ 0 \in Bufs
  OBVIOUS

LEMMA EmitType ==
  ASSUME TypeOK, NEW s \in Slots
  PROVE  Emit(s) \in Seq([slot : Slots, gen : Nat])
  <1>1. queued[s] \in Nat \X Index
    BY DEF TypeOK, KernelTypes, FbIds
  <1>2. queued[s][1] \in Nat
    BY <1>1
  <1>3. [slot |-> s, gen |-> queued[s][1]] \in [slot : Slots, gen : Nat]
    BY <1>2
  <1>4. events \in Seq([slot : Slots, gen : Nat])
    BY DEF TypeOK, KernelTypes
  <1> QED
    BY <1>3, <1>4, AppendProperties DEF Emit

LEMMA RingOpsType ==
  ASSUME TypeOK, NEW s \in Slots
  PROVE  /\ Committed(s) \in [Bufs -> BufState]
         /\ Flipped(s) \in [Bufs -> BufState]
         /\ \A i \in Bufs : /\ Presented(s, i) \in [Bufs -> BufState]
                            /\ Undone(s, i) \in [Bufs -> BufState]
  <1>1. ring[s] \in [Bufs -> BufState]
    BY DEF TypeOK, RingTypes
  <1>2. \A i \in Bufs : ring[s][i] \in BufState
    BY <1>1
  <1>3. \A i \in Bufs : Undone(s, i) \in [Bufs -> BufState]
    BY <1>1 DEF Undone, BufState
  <1> QED
    BY <1>2, <1>3 DEF Committed, Flipped, Presented, BufState

LEMMA RmFBType ==
  ASSUME TypeOK, NEW s \in Slots, NEW F, RmFB(s, F), plugged' = plugged
  PROVE  KernelTypes'
  <1>1. NoFb \in FbIds
    BY DEF NoFb, FbIds, Index
  <1>2. Emit(s) \in Seq([slot : Slots, gen : Nat])
    BY EmitType
  <1> QED
    BY <1>1, <1>2 DEF TypeOK, KernelTypes, RmFB

LEMMA InitType == Init => TypeOK
  <1> SUFFICES ASSUME Init PROVE TypeOK
    OBVIOUS
  <1> USE ZeroIsASlot DEF Init, Index, FbIds, NoFb, NoTarget
  <1>1. RingTypes
    BY FS_EmptySet DEF RingTypes, BufState
  <1>2. KernelTypes
    BY DEF KernelTypes
  <1>3. ThreadTypes
    BY DEF ThreadTypes, Labels
  <1> QED
    BY <1>1, <1>2, <1>3 DEF TypeOK

LEMMA PushType ==
  ASSUME TypeOK, NEW t \in Threads, Push(t)
  PROVE  TypeOK'
  <1> USE DEF TypeOK, RingTypes, KernelTypes, ThreadTypes, Labels, BufState, Index, FbIds, NoFb,
              NoTarget, Goto, Return, ringVars, kernVars, jobVars, rendVars, hotVars
  <1>1. CASE TryCommit(t)
    <2>1. PICK s \in Slots : s = cslot[t]
      OBVIOUS
    <2>2. CASE CanCommit(s)
      <3>1. pending[s] \in Bufs /\ gen[s] \in Nat /\ (~modesetDone[s]) \in BOOLEAN
        BY <2>2 DEF CanCommit
      <3>2. Committed(s) \in [Bufs -> BufState]
        BY RingOpsType
      <3>3. /\ ring' = [ring EXCEPT ![s] = Committed(s)]
            /\ inFlight' = [inFlight EXCEPT ![s] = pending[s]]
            /\ pending' = [pending EXCEPT ![s] = None]
            /\ cidx' = [cidx EXCEPT ![t] = pending[s]]
            /\ cgen' = [cgen EXCEPT ![t] = gen[s]]
            /\ cmode' = [cmode EXCEPT ![t] = ~modesetDone[s]]
        BY <1>1, <2>1, <2>2 DEF TryCommit
      <3>4. RingTypes'
        BY <1>1, <3>1, <3>2, <3>3 DEF TryCommit
      <3>5. cmode' \in [Threads -> BOOLEAN]
        BY <3>1, <3>3
      <3>6. cidx' \in [Threads -> Bufs] /\ cgen' \in [Threads -> Nat]
        BY <3>1, <3>3
      <3>7. pc' = [pc EXCEPT ![t] = "commit"]
        BY <1>1, <2>1, <2>2 DEF TryCommit
      <3>8. UNCHANGED <<cslot, rendVars, hotVars, misled>>
        BY <1>1 DEF TryCommit
      <3>9. ThreadTypes'
        BY <3>5, <3>6, <3>7, <3>8
      <3> QED
        BY <1>1, <3>4, <3>9 DEF TryCommit
    <2>3. CASE ~CanCommit(s)
      <3>1. /\ UNCHANGED <<ring, inFlight, pending, cidx, cgen, cmode>>
            /\ pc' = [pc EXCEPT ![t] = "pushed"]
        BY <1>1, <2>1, <2>3 DEF TryCommit
      <3> QED
        BY <1>1, <3>1 DEF TryCommit
    <2> QED
      BY <2>2, <2>3
  <1>2. CASE CommitOk(t)
    BY <1>2 DEF CommitOk
  <1>3. CASE CommitFailed(t)
    BY <1>3 DEF CommitFailed
  <1>4. CASE CommitUndo(t)
    <2>1. ring' = ring \/ ring' = [ring EXCEPT ![cslot[t]] = Undone(cslot[t], cidx[t])]
      BY <1>4 DEF CommitUndo
    <2>2. Undone(cslot[t], cidx[t]) \in [Bufs -> BufState]
      BY RingOpsType
    <2>3. ring' \in [Slots -> [Bufs -> BufState]]
      BY <2>1, <2>2
    <2> QED
      BY <1>4, <2>3, ZeroIsASlot DEF CommitUndo
  <1>5. CASE ModesetMark(t)
    BY <1>5, ZeroIsASlot DEF ModesetMark
  <1> QED
    BY <1>1, <1>2, <1>3, <1>4, <1>5 DEF Push

\* The renderer holds a target exactly while it draws, or stopped drawing.
TargetAtHand ==
    /\ pc[R] \in {"role", "draw"} => tgt # NoTarget
    /\ tgt # NoTarget => pc[R] \in {"role", "draw", "stopped"}

LEMMA RendererType ==
  ASSUME TypeOK, TargetAtHand, Renderer
  PROVE  TypeOK'
  <1> USE ZeroIsASlot
      DEF TypeOK, RingTypes, KernelTypes, ThreadTypes, Labels, BufState, Index, FbIds, NoFb,
          NoTarget, Goto, ringVars, kernVars, jobVars, rendVars, hotVars
  <1>1. CASE Push(R)
    BY <1>1, PushType
  <1>2. CASE LookPrimary
    BY <1>2 DEF LookPrimary, HasPrimary
  <1>3. CASE NextExtra
    BY <1>3 DEF NextExtra
  <1>4. CASE EndOfPass
    BY <1>4 DEF EndOfPass
  <1>5. CASE Acquire
    <2>1. PICK s \in Slots : s = cslot[R]
      OBVIOUS
    <2>2. PICK i \in Bufs : /\ ring' = [ring EXCEPT ![s][i] = "Drawing"]
                            /\ tgt' = [slot |-> s, idx |-> i, gen |-> gen[s]]
      BY <1>5, <2>1 DEF Acquire
    <2>3. ring' \in [Slots -> [Bufs -> BufState]]
      BY <2>2
    <2>4. tgt' \in [slot : Slots, idx : Bufs, gen : Nat]
      BY <2>2
    <2> QED
      BY <1>5, <2>3, <2>4 DEF Acquire
  <1>6. CASE AcquireNothing
    BY <1>6 DEF AcquireNothing
  <1>7. CASE ReadRole
    BY <1>7 DEF ReadRole, Extras
  <1>8. CASE NoFramebuffer
    BY <1>8 DEF NoFramebuffer
  <1>9. CASE PresentQueued
    <2>1. tgt \in [slot : Slots, idx : Bufs, gen : Nat]
      BY <1>9 DEF PresentQueued, TargetAtHand
    <2>2. PICK s \in Slots, i \in Bufs : s = tgt.slot /\ i = tgt.idx
      BY <2>1
    <2>3. Presented(s, i) \in [Bufs -> BufState]
      BY RingOpsType
    <2>4. /\ ring' = [ring EXCEPT ![s] = Presented(s, i)]
          /\ pending' = [pending EXCEPT ![s] = i]
      BY <1>9, <2>2 DEF PresentQueued
    <2>5. ring' \in [Slots -> [Bufs -> BufState]] /\ pending' \in [Slots -> Index]
      BY <2>3, <2>4
    <2>6. /\ pc' = [pc EXCEPT ![R] = "push"] /\ tgt' = NoTarget
          /\ UNCHANGED <<gen, nextGen, conn, inFlight, current, retired, liveBufs,
                         modesetDone, primary, plugged, kernVars, jobVars, main, todo, hotVars,
                         misled>>
      BY <1>9 DEF PresentQueued
    <2>7. RingTypes' /\ KernelTypes'
      BY <2>5, <2>6
    <2>8. ThreadTypes'
      BY <2>6
    <2> QED
      BY <2>7, <2>8
  <1>10. CASE PresentRefused
    BY <1>10 DEF PresentRefused
  <1>11. CASE PresentStale
    <2>1. tgt \in [slot : Slots, idx : Bufs, gen : Nat]
      BY <1>11 DEF PresentStale, TargetAtHand
    <2>2. PICK s \in Slots : s = tgt.slot
      BY <2>1
    <2>3. retired' = retired \ {<<tgt.gen, tgt.idx>>}
      BY <1>11 DEF PresentStale, StillRetired
    <2>4. IsFiniteSet(retired') /\ IsFiniteSet(retired \ retired')
      BY <2>3, FS_Difference, FS_Subset
    <2>5. liveBufs' \in Int
      BY <1>11, <2>4, FS_CardinalityType DEF PresentStale
    <2>6. RingTypes'
      BY <1>11, <2>3, <2>4, <2>5 DEF PresentStale
    <2>7. RmFB(s, retired \ retired')
      BY <1>11, <2>2 DEF PresentStale
    <2>8. KernelTypes'
      BY <1>11, <2>7, RmFBType DEF PresentStale
    <2> QED
      BY <1>11, <2>6, <2>8 DEF PresentStale
  <1>12. CASE StopRenderer
    BY <1>12 DEF StopRenderer
  <1> QED
    BY <1>1, <1>2, <1>3, <1>4, <1>5, <1>6, <1>7, <1>8, <1>9, <1>10, <1>11, <1>12 DEF Renderer

LEMMA EventType ==
  ASSUME TypeOK, EventLoop
  PROVE  TypeOK'
  <1> USE ZeroIsASlot
      DEF TypeOK, RingTypes, KernelTypes, ThreadTypes, Labels, Goto,
          ringVars, kernVars, jobVars, rendVars, hotVars
  <1>a. NoFb \in FbIds /\ None \in Index
    BY DEF NoFb, FbIds, Index
  <1>b. /\ [i \in Bufs |-> "Gone"] \in [Bufs -> BufState]
        /\ [i \in Bufs |-> "Free"] \in [Bufs -> BufState]
    BY DEF BufState
  <1>1. CASE Push(E)
    BY <1>1, PushType
  <1>2. CASE OnFlip
    <2>1. events # <<>> /\ events \in Seq([slot : Slots, gen : Nat])
      BY <1>2 DEF OnFlip
    <2>2. /\ Head(events) \in [slot : Slots, gen : Nat]
          /\ Tail(events) \in Seq([slot : Slots, gen : Nat])
      BY <2>1, HeadTailProperties
    <2>3. PICK s \in Slots : s = Head(events).slot
      BY <2>2
    <2>4. Flipped(s) \in [Bufs -> BufState]
      BY RingOpsType
    <2>5. gen[s] \in Nat /\ inFlight[s] \in Index
      OBVIOUS
    <2>6. /\ ring' = [ring EXCEPT ![s] = Flipped(s)]
          /\ current' = [current EXCEPT ![s] = inFlight[s]]
          /\ inFlight' = [inFlight EXCEPT ![s] = None]
      BY <1>2, <2>3 DEF OnFlip
    <2>7. /\ ring' \in [Slots -> [Bufs -> BufState]]
          /\ current' \in [Slots -> Index] /\ inFlight' \in [Slots -> Index]
      BY <1>a, <2>4, <2>5, <2>6
    <2>8. misled' \in SUBSET Nat
      BY <1>2, <2>2, <2>3, <2>5 DEF OnFlip
    <2>9. /\ cslot' = [cslot EXCEPT ![E] = s] /\ pc' = [pc EXCEPT ![E] = "push"]
          /\ events' = Tail(events)
          /\ UNCHANGED <<gen, nextGen, conn, pending, retired, liveBufs, modesetDone, primary,
                         plugged, act, scan, queued, cidx, cgen, cmode, rendVars, hotVars>>
      BY <1>2, <2>3 DEF OnFlip
    <2>10. RingTypes' /\ KernelTypes'
      BY <2>2, <2>7, <2>8, <2>9
    <2>11. ThreadTypes'
      BY <2>8, <2>9
    <2> QED
      BY <2>10, <2>11
  <1>3. CASE FlipDone
    BY <1>3 DEF FlipDone
  <1>4. CASE Hotplug \/ ForcedTeardown \/ Close
    <2>1. PICK m \in {"hotplug", "test", "close"} : TeardownAll(m)
      BY <1>4 DEF Hotplug, ForcedTeardown, Close
    <2>2. /\ mode' = m /\ slotsLeft' \in SUBSET Slots /\ changed' = FALSE
          /\ pc' = [pc EXCEPT ![E] = "teardown"]
      BY <2>1 DEF TeardownAll, LiveSlots
    <2>3. UNCHANGED <<ringVars, modesetDone, primary, plugged, kernVars, jobVars, rendVars,
                      connsLeft, misled>>
      BY <2>1 DEF TeardownAll
    <2>4. RingTypes' /\ KernelTypes'
      BY <2>3
    <2>5. ThreadTypes'
      BY <2>2, <2>3
    <2> QED
      BY <2>4, <2>5
  <1>5. ASSUME NEW s \in Slots, KeepOutput(s) PROVE TypeOK'
    BY <1>5 DEF KeepOutput
  <1>6. ASSUME NEW s \in Slots, TurnOff(s) PROVE TypeOK'
    <2>1. Emit(s) \in Seq([slot : Slots, gen : Nat])
      BY EmitType
    <2>2. \/ /\ act' = [act EXCEPT ![s] = FALSE]
             /\ scan' = [scan EXCEPT ![s] = NoFb]
             /\ queued' = [queued EXCEPT ![s] = NoFb]
             /\ events' = Emit(s)
          \/ UNCHANGED kernVars
      BY <1>6 DEF TurnOff
    <2>3. /\ cslot' = [cslot EXCEPT ![E] = s] /\ slotsLeft' = slotsLeft \ {s}
          /\ pc' = [pc EXCEPT ![E] = "destroy"]
          /\ UNCHANGED <<ringVars, modesetDone, primary, plugged, cidx, cgen, cmode, rendVars,
                         mode, connsLeft, changed, misled>>
      BY <1>6 DEF TurnOff
    <2>4. KernelTypes'
      <3>1. act' \in [Slots -> BOOLEAN]
        BY <2>2
      <3>2. scan' \in [Slots -> FbIds] /\ queued' \in [Slots -> FbIds]
        <4>1. scan \in [Slots -> FbIds] /\ queued \in [Slots -> FbIds]
          OBVIOUS
        <4> HIDE DEF TypeOK, RingTypes, KernelTypes, ThreadTypes
        <4> QED
          BY <1>a, <2>2, <4>1
      <3>3. events' \in Seq([slot : Slots, gen : Nat])
        BY <2>1, <2>2
      <3> QED
        BY <2>3, <3>1, <3>2, <3>3
    <2>5. RingTypes' /\ ThreadTypes'
      BY <2>3
    <2> QED
      BY <2>4, <2>5
  <1>7. CASE Destroy
    <2>1. PICK s \in Slots : s = cslot[E]
      OBVIOUS
    <2>2. IsFiniteSet(HeldIn(s)) /\ IsFiniteSet(Bufs \ HeldIn(s))
      BY BufsFinite, FS_Subset, FS_Difference DEF HeldIn
    <2>3. Cardinality(Bufs \ HeldIn(s)) \in Nat
      BY <2>2, FS_CardinalityType
    <2>4. IsFiniteSet({Fb(s, i) : i \in HeldIn(s)})
      <3>1. DEFINE fbs == {Fb(s, i) : i \in HeldIn(s)}
                   f == [i \in HeldIn(s) |-> Fb(s, i)]
      <3>2. f \in Surjection(HeldIn(s), fbs)
        BY DEF Surjection
      <3> QED
        BY <2>2, <3>2, FS_Surjection
    <2>5. retired' = retired \cup {Fb(s, i) : i \in HeldIn(s)}
      BY <1>7, <2>1 DEF Destroy
    <2>6. retired' \in SUBSET (Nat \X Bufs)
      <3>1. gen[s] \in Nat /\ retired \subseteq Nat \X Bufs
        OBVIOUS
      <3>2. \A i \in HeldIn(s) : Fb(s, i) \in Nat \X Bufs
        BY <3>1 DEF Fb, HeldIn
      <3>3. {Fb(s, i) : i \in HeldIn(s)} \subseteq Nat \X Bufs
        BY <3>2
      <3> HIDE DEF TypeOK, RingTypes, KernelTypes, ThreadTypes
      <3> QED
        BY <2>5, <3>1, <3>3
    <2>6a. IsFiniteSet(retired')
      BY <2>4, <2>5, FS_Union
    <2>7. liveBufs' \in Int
      BY <1>7, <2>1, <2>3 DEF Destroy
    <2>8. RingTypes'
      BY <1>7, <1>a, <1>b, <2>1, <2>6, <2>6a, <2>7 DEF Destroy
    <2>9. RmFB(s, {Fb(s, i) : i \in Bufs \ HeldIn(s)})
      BY <1>7, <2>1 DEF Destroy
    <2>10. KernelTypes'
      BY <1>7, <2>9, RmFBType DEF Destroy
    <2> QED
      BY <1>7, <2>8, <2>10 DEF Destroy
  <1>8. CASE Probe
    BY <1>8 DEF Probe, Wanted
  <1>9. CASE PlaneOff
    <2>1. PICK s \in Slots : s = cslot[E]
      OBVIOUS
    <2>2. Emit(s) \in Seq([slot : Slots, gen : Nat])
      BY EmitType
    <2> QED
      BY <1>9, <1>a, <2>1, <2>2 DEF PlaneOff
  <1>10. CASE EndOfProbe
    <2>1. Best \subseteq Slots \cup {None}
      BY DEF Best, LiveSlots
    <2> QED
      BY <1>10, <2>1 DEF EndOfProbe
  <1>11. CASE Closed
    <2>1. Cardinality(retired) \in Nat /\ IsFiniteSet({})
      BY FS_CardinalityType, FS_EmptySet
    <2>2. <<>> \in Seq([slot : Slots, gen : Nat])
      OBVIOUS
    <2>3. /\ primary' = None /\ liveBufs' = liveBufs - Cardinality(retired) /\ retired' = {}
          /\ UNCHANGED <<gen, nextGen, conn, ring, pending, inFlight, current,
                         modesetDone, plugged, jobVars, rendVars, hotVars, misled>>
      BY <1>11 DEF Closed
    <2>4. RingTypes'
      <3>1. retired' \in SUBSET (Nat \X Bufs) /\ IsFiniteSet(retired')
        BY <2>1, <2>3
      <3>2. liveBufs' \in Int /\ primary' \in Slots \cup {None}
        BY <2>1, <2>3
      <3> QED
        BY <2>3, <3>1, <3>2
    <2>5. KernelTypes'
      BY <1>11, <1>a, <2>2 DEF Closed
    <2>6. pc' = [pc EXCEPT ![E] = "closed"]
      BY <1>11 DEF Closed
    <2>7. ThreadTypes'
      BY <2>3, <2>6
    <2> QED
      BY <2>4, <2>5, <2>7
  <1>12. ASSUME NEW c \in Conns, SkipConnector(c) PROVE TypeOK'
    BY <1>12 DEF SkipConnector
  <1>13. ASSUME NEW c \in Conns, Configure(c) PROVE TypeOK'
    <2>1. PICK s \in Slots :
            /\ conn' = [conn EXCEPT ![s] = c]
            /\ ring' = [ring EXCEPT ![s] = [i \in Bufs |-> "Free"]]
            /\ pending' = [pending EXCEPT ![s] = None]
            /\ inFlight' = [inFlight EXCEPT ![s] = None]
            /\ current' = [current EXCEPT ![s] = None]
            /\ gen' = [gen EXCEPT ![s] = nextGen + 1]
            /\ cslot' = [cslot EXCEPT ![E] = s]
      BY <1>13 DEF Configure
    <2>2. /\ nextGen' = nextGen + 1 /\ liveBufs' = liveBufs + NBufs
          /\ connsLeft' = connsLeft \ {c} /\ changed' = (mode = "hotplug")
          /\ pc' = [pc EXCEPT ![E] = "planeOff"]
          /\ UNCHANGED <<retired, modesetDone, primary, plugged, kernVars, cidx, cgen,
                         cmode, rendVars, mode, slotsLeft, misled>>
      BY <1>13 DEF Configure
    <2>3. gen' \in [Slots -> Nat] /\ nextGen' \in Nat /\ liveBufs' \in Int
      <3>1. nextGen + 1 \in Nat
        OBVIOUS
      <3>2. liveBufs + NBufs \in Int
        OBVIOUS
      <3> QED
        BY <2>1, <2>2, <3>1, <3>2
    <2>4. /\ conn' \in [Slots -> Conns \cup {NoConn}]
          /\ ring' \in [Slots -> [Bufs -> BufState]]
      BY <1>b, <2>1
    <2>5. /\ pending' \in [Slots -> Index] /\ inFlight' \in [Slots -> Index]
          /\ current' \in [Slots -> Index]
      BY <1>a, <2>1
    <2>6. RingTypes' /\ KernelTypes'
      BY <2>2, <2>3, <2>4, <2>5
    <2>7. changed' \in BOOLEAN /\ cslot' \in [Threads -> Slots]
      BY <2>1, <2>2
    <2>8. ThreadTypes'
      BY <2>2, <2>7
    <2> QED
      BY <2>6, <2>8
  <1> QED
    BY <1>1, <1>2, <1>3, <1>4, <1>5, <1>6, <1>7, <1>8, <1>9, <1>10, <1>11, <1>12, <1>13
    DEF EventLoop

\* The renderer holds a target from acquire to present.
LEMMA TargetAtHandStep ==
  ASSUME TypeOK, TargetAtHand, [Next]_vars
  PROVE  TargetAtHand'
  <1> USE DEF TargetAtHand, Goto, rendVars
  <1>1. ASSUME NEW t \in Threads, Push(t) PROVE TargetAtHand'
    <2>1. pc[t] \in {"push", "commit", "failed", "mark"}
      BY <1>1 DEF Push, TryCommit, CommitOk, CommitFailed, CommitUndo, ModesetMark
    <2>2. tgt' = tgt
      BY <1>1 DEF Push, TryCommit, CommitOk, CommitFailed, CommitUndo, ModesetMark
    <2>3. PICK l \in {"commit", "pushed", "mark", "failed"} : pc' = [pc EXCEPT ![t] = l]
      <3>1. CASE TryCommit(t)
        BY <3>1 DEF TryCommit
      <3>2. CASE CommitOk(t) \/ CommitFailed(t) \/ CommitUndo(t) \/ ModesetMark(t)
        BY <3>2 DEF CommitOk, CommitFailed, CommitUndo, ModesetMark, Return
      <3> QED
        BY <1>1, <3>1, <3>2 DEF Push
    <2> QED
      BY <2>1, <2>2, <2>3 DEF TypeOK, ThreadTypes
  <1>2. CASE Renderer
    <2>1. tgt = NoTarget \/ tgt \in [slot : Slots, idx : Bufs, gen : Nat]
      BY DEF TypeOK, ThreadTypes
    <2>2. CASE Acquire
      <3>1. tgt' # NoTarget
        BY <2>2 DEF Acquire, NoTarget, TypeOK, ThreadTypes
      <3>2. pc'[R] \in {"role", "draw"}
        BY <2>2 DEF Acquire, TypeOK, ThreadTypes
      <3> QED
        BY <3>1, <3>2
    <2>3. CASE LookPrimary \/ NextExtra \/ EndOfPass \/ AcquireNothing
      BY <2>3 DEF LookPrimary, NextExtra, EndOfPass, AcquireNothing, TypeOK, ThreadTypes
    <2>4. CASE ReadRole \/ NoFramebuffer \/ StopRenderer
      BY <2>4 DEF ReadRole, NoFramebuffer, StopRenderer, TypeOK, ThreadTypes
    <2>5. CASE PresentQueued \/ PresentRefused \/ PresentStale
      <3>1. tgt' = NoTarget /\ pc'[R] \in {"push", "pushed"}
        BY <2>5 DEF PresentQueued, PresentRefused, PresentStale, TypeOK, ThreadTypes
      <3> QED
        BY <3>1
    <2> QED
      BY <1>1, <1>2, <2>2, <2>3, <2>4, <2>5 DEF Renderer
  <1>3. CASE EventLoop \/ Kernel \/ (\E c \in Conns : Plug(c)) \/ UNCHANGED vars
    <2>1. CASE Push(E)
      BY <1>1, <2>1
    <2>2. CASE ~Push(E)
      <3>1. tgt' = tgt /\ pc'[R] = pc[R]
        BY <1>3, <2>2
        DEF EventLoop, OnFlip, FlipDone, Hotplug, ForcedTeardown, Close, TeardownAll, KeepOutput,
            TurnOff, Destroy, Probe, PlaneOff, EndOfProbe, Closed, SkipConnector, Configure,
            Kernel, Sweep, Plug, vars, TypeOK, ThreadTypes
      <3> QED
        BY <3>1
    <2> QED
      BY <2>1, <2>2
  <1> QED
    BY <1>2, <1>3 DEF Next

\* One step keeps every variable in its type.
LEMMA TypeStep ==
  ASSUME TypeOK, TargetAtHand, [Next]_vars
  PROVE  TypeOK'
  <1> USE DEF ringVars, kernVars, jobVars, rendVars, hotVars
  <1>1. ASSUME NEW s \in Slots, Sweep(s) PROVE TypeOK'
    <2>1. Emit(s) \in Seq([slot : Slots, gen : Nat])
      BY EmitType
    <2>2. NoFb \in FbIds
      BY DEF NoFb, FbIds, Index
    <2>3. KernelTypes'
      BY <1>1, <2>1, <2>2 DEF Sweep, TypeOK, KernelTypes
    <2>4. RingTypes' /\ ThreadTypes'
      BY <1>1 DEF Sweep, TypeOK, RingTypes, ThreadTypes
    <2> QED
      BY <2>3, <2>4 DEF TypeOK
  <1>2. ASSUME NEW c \in Conns, Plug(c) PROVE TypeOK'
    BY <1>2 DEF Plug, TypeOK, RingTypes, KernelTypes, ThreadTypes
  <1>3. CASE UNCHANGED vars
    BY <1>3 DEF vars, TypeOK, RingTypes, KernelTypes, ThreadTypes
  <1> QED
    BY <1>1, <1>2, <1>3, RendererType, EventType DEF Next, Kernel

\* Every variable keeps its type: no index leaves a ring, no thread is lost,
\* the renderer presents only what it acquired.
THEOREM TypeCorrect == Spec => []TypeOK
  <1>1. Init => TypeOK /\ TargetAtHand
    BY InitType DEF Init, TargetAtHand
  <1>2. TypeOK /\ TargetAtHand /\ [Next]_vars => TypeOK' /\ TargetAtHand'
    BY TypeStep, TargetAtHandStep
  <1> QED
    BY <1>1, <1>2, PTL DEF Spec

-----------------------------------------------------------------------------
(* DrawingIsHeld is not inductive: that a present of a live buffer leaves    *)
(* nothing among the retired needs that a retired buffer is of a             *)
(* configuration that is gone, and that needs generations to be fresh.       *)

GenerationsFresh ==
    /\ \A s \in Slots : gen[s] <= nextGen
    /\ Holding => 1 <= tgt.gen /\ tgt.gen <= nextGen
    /\ \A fb \in retired : tgt.gen # gen[tgt.slot]
HeldInv == TypeOK /\ TargetAtHand /\ GenerationsFresh /\ DrawingIsHeld

\* A step that starts no drawing, holds the same target and leaves the
\* generations alone keeps the two.
LEMMA QuietStep ==
  ASSUME HeldInv, UNCHANGED <<gen, nextGen, tgt>>, retired' \subseteq retired,
         \A s \in Slots, i \in Bufs : ring'[s][i] = "Drawing" => ring[s][i] = "Drawing"
  PROVE  GenerationsFresh' /\ DrawingIsHeld'
  BY DEF HeldInv, GenerationsFresh, DrawingIsHeld, Holding

LEMMA PushIsQuiet ==
  ASSUME TypeOK, NEW t \in Threads, Push(t)
  PROVE  /\ UNCHANGED <<gen, nextGen, tgt, retired>>
         /\ \A s \in Slots, i \in Bufs : ring'[s][i] = "Drawing" => ring[s][i] = "Drawing"
  <1> USE DEF ringVars, rendVars
  <1>1. UNCHANGED <<gen, nextGen, tgt, retired>>
    BY DEF Push, TryCommit, CommitOk, CommitFailed, CommitUndo, ModesetMark
  <1>2. ring \in [Slots -> [Bufs -> BufState]] /\ cslot[t] \in Slots /\ cidx[t] \in Bufs
    BY DEF TypeOK, RingTypes, ThreadTypes
  <1>3. ASSUME NEW s \in Slots, NEW i \in Bufs, ring'[s][i] = "Drawing"
        PROVE  ring[s][i] = "Drawing"
    <2>1. CASE TryCommit(t)
      <3>1. ring' = [ring EXCEPT ![cslot[t]] = Committed(cslot[t])] \/ ring' = ring
        BY <2>1 DEF TryCommit
      <3>2. CASE ring' = [ring EXCEPT ![cslot[t]] = Committed(cslot[t])]
        <4>1. ring'[s] = IF s = cslot[t] THEN Committed(s) ELSE ring[s]
          BY <1>2, <3>2
        <4>2. Committed(s)[i] \in {"InFlight", ring[s][i]}
          BY DEF Committed
        <4> QED
          BY <1>3, <4>1, <4>2
      <3> QED
        BY <1>3, <3>1, <3>2
    <2>2. CASE CommitUndo(t)
      <3>1. ring' = [ring EXCEPT ![cslot[t]] = Undone(cslot[t], cidx[t])] \/ ring' = ring
        BY <2>2 DEF CommitUndo
      <3>2. CASE ring' = [ring EXCEPT ![cslot[t]] = Undone(cslot[t], cidx[t])]
        <4>1. ring'[s][i] \in {"Free", ring[s][i]}
          BY <1>2, <3>2 DEF Undone
        <4> QED
          BY <1>3, <4>1
      <3> QED
        BY <1>3, <3>1, <3>2
    <2>3. CASE CommitOk(t) \/ CommitFailed(t) \/ ModesetMark(t)
      BY <1>3, <2>3 DEF CommitOk, CommitFailed, ModesetMark
    <2> QED
      BY <2>1, <2>2, <2>3 DEF Push
  <1> QED
    BY <1>1, <1>3

LEMMA HeldRenderer ==
  ASSUME HeldInv, Renderer
  PROVE  GenerationsFresh' /\ DrawingIsHeld'
  <1> USE DEF ringVars, rendVars
  <1>t. /\ ring \in [Slots -> [Bufs -> BufState]] /\ gen \in [Slots -> Nat] /\ nextGen \in Nat
        /\ cslot[R] \in Slots
        /\ tgt = NoTarget \/ tgt \in [slot : Slots, idx : Bufs, gen : Nat]
    BY DEF HeldInv, TypeOK, RingTypes, ThreadTypes
  <1>h. TypeOK /\ TargetAtHand /\ GenerationsFresh /\ DrawingIsHeld
    BY DEF HeldInv
  <1>1. CASE Push(R)
    BY <1>1, <1>h, PushIsQuiet, QuietStep
  <1>2. CASE LookPrimary \/ NextExtra \/ EndOfPass \/ AcquireNothing \/ ReadRole \/ NoFramebuffer
             \/ StopRenderer
    <2>1. UNCHANGED <<gen, nextGen, tgt, retired, ring>>
      BY <1>2 DEF LookPrimary, NextExtra, EndOfPass, AcquireNothing, ReadRole, NoFramebuffer,
                  StopRenderer
    <2> QED
      BY <2>1, QuietStep
  <1>3. CASE Acquire
    \* Nothing was held, so nothing was being drawn and nothing was retired.
    <2>1. tgt = NoTarget
      BY <1>3, <1>h DEF Acquire, TargetAtHand
    <2>2. retired = {} /\ \A s \in Slots, i \in Bufs : ring[s][i] # "Drawing"
      <3>1. retired = {}
        BY <2>1, <1>h DEF DrawingIsHeld, Holding
      <3>2. ASSUME NEW s \in Slots, NEW i \in Bufs, ring[s][i] = "Drawing" PROVE FALSE
        <4>1. tgt = [slot |-> s, idx |-> i, gen |-> gen[s]]
          BY <1>h, <3>2 DEF DrawingIsHeld
        <4>2. tgt.slot = s /\ tgt.slot = None
          BY <2>1, <4>1 DEF NoTarget
        <4> QED
          BY <4>2
      <3> QED
        BY <3>1, <3>2
    <2>3. PICK s \in Slots, i \in Bufs :
            /\ Live(s)
            /\ ring' = [ring EXCEPT ![s][i] = "Drawing"]
            /\ tgt' = [slot |-> s, idx |-> i, gen |-> gen[s]]
      BY <1>3, <1>t DEF Acquire
    <2>4. UNCHANGED <<gen, nextGen, retired>>
      BY <1>3 DEF Acquire
    <2>5. GenerationsFresh'
      BY <1>h, <1>t, <2>2, <2>3, <2>4 DEF GenerationsFresh, Live
    <2>6. \A r \in Slots, j \in Bufs : ring'[r][j] = "Drawing" => r = s /\ j = i
      BY <1>t, <2>2, <2>3
    <2>7. DrawingIsHeld'
      BY <2>2, <2>3, <2>4, <2>6 DEF DrawingIsHeld
    <2> QED
      BY <2>5, <2>7
  <1>4. CASE PresentQueued \/ PresentRefused \/ PresentStale
    <2>1. tgt # NoTarget /\ tgt \in [slot : Slots, idx : Bufs, gen : Nat]
      BY <1>4, <1>h, <1>t DEF TargetAtHand, PresentQueued, PresentRefused, PresentStale
    <2>2. tgt' = NoTarget /\ UNCHANGED <<gen, nextGen>>
      BY <1>4 DEF PresentQueued, PresentRefused, PresentStale
    <2>3. PICK s \in Slots, i \in Bufs : s = tgt.slot /\ i = tgt.idx
      BY <2>1
    <2>4. retired' = {}
      <3>1. CASE tgt.gen = gen[s]
        <4>1. retired = {}
          BY <1>h, <2>3, <3>1 DEF GenerationsFresh
        <4>2. retired' = retired
          BY <1>4, <2>3, <3>1 DEF PresentQueued, PresentRefused, PresentStale
        <4> QED
          BY <4>1, <4>2
      <3>2. CASE tgt.gen # gen[s]
        <4>1. retired' = retired \ {<<tgt.gen, tgt.idx>>}
          BY <1>4, <2>3, <3>2 DEF PresentQueued, PresentRefused, PresentStale, StillRetired
        <4> QED
          BY <1>h, <4>1 DEF DrawingIsHeld
      <3> QED
        BY <3>1, <3>2
    <2>5. ASSUME NEW r \in Slots, NEW j \in Bufs PROVE ring'[r][j] # "Drawing"
      <3>1. ring[r][j] = "Drawing" => r = s /\ j = i /\ tgt.gen = gen[s]
        BY <1>h, <2>3 DEF DrawingIsHeld
      <3>2. CASE PresentQueued
        <4>1. ring' = [ring EXCEPT ![s] = Presented(s, i)]
          BY <3>2, <2>3 DEF PresentQueued
        <4> QED
          BY <1>t, <3>1, <4>1 DEF Presented
      <3>3. CASE PresentRefused \/ PresentStale
        BY <2>3, <3>1, <3>3 DEF PresentRefused, PresentStale
      <3> QED
        BY <1>4, <3>2, <3>3
    <2>6. GenerationsFresh'
      BY <1>h, <2>2, <2>4 DEF GenerationsFresh, Holding, NoTarget
    <2>7. DrawingIsHeld'
      BY <2>4, <2>5 DEF DrawingIsHeld
    <2> QED
      BY <2>6, <2>7
  <1> QED
    BY <1>1, <1>2, <1>3, <1>4 DEF Renderer

LEMMA HeldEvent ==
  ASSUME HeldInv, EventLoop
  PROVE  GenerationsFresh' /\ DrawingIsHeld'
  <1> USE DEF ringVars, rendVars
  <1>t. /\ ring \in [Slots -> [Bufs -> BufState]] /\ gen \in [Slots -> Nat] /\ nextGen \in Nat
        /\ cslot[E] \in Slots
        /\ tgt = NoTarget \/ tgt \in [slot : Slots, idx : Bufs, gen : Nat]
    BY DEF HeldInv, TypeOK, RingTypes, ThreadTypes
  <1>h. TypeOK /\ TargetAtHand /\ GenerationsFresh /\ DrawingIsHeld
    BY DEF HeldInv
  <1>1. CASE Push(E)
    BY <1>1, <1>h, PushIsQuiet, QuietStep
  <1>2. CASE OnFlip
    <2>1. PICK s : ring' = [ring EXCEPT ![s] = Flipped(s)]
      BY <1>2 DEF OnFlip
    <2>2. \A r \in Slots, i \in Bufs : ring'[r][i] = "Drawing" => ring[r][i] = "Drawing"
      BY <1>t, <2>1 DEF Flipped
    <2>3. UNCHANGED <<gen, nextGen, tgt, retired>>
      BY <1>2 DEF OnFlip
    <2> QED
      BY <2>2, <2>3, QuietStep
  <1>3. CASE \/ FlipDone \/ Hotplug \/ ForcedTeardown \/ Close \/ Probe \/ PlaneOff \/ EndOfProbe
             \/ \E s \in Slots : KeepOutput(s) \/ TurnOff(s)
             \/ \E c \in Conns : SkipConnector(c)
    <2>1. UNCHANGED <<gen, nextGen, tgt, retired, ring>>
      BY <1>3 DEF FlipDone, Hotplug, ForcedTeardown, Close, TeardownAll, Probe, PlaneOff,
                  EndOfProbe, KeepOutput, TurnOff, SkipConnector
    <2> QED
      BY <2>1, QuietStep
  <1>4. CASE Closed
    <2>1. UNCHANGED <<gen, nextGen, tgt, ring>> /\ retired' = {}
      BY <1>4 DEF Closed
    <2> QED
      BY <2>1, QuietStep
  <1>5. CASE Destroy
    <2>1. PICK s \in Slots : s = cslot[E]
      BY <1>t
    <2>2. /\ retired' = retired \cup {Fb(s, i) : i \in HeldIn(s)}
          /\ ring' = [ring EXCEPT ![s] = [i \in Bufs |-> "Gone"]]
          /\ gen' = [gen EXCEPT ![s] = 0]
          /\ UNCHANGED <<nextGen, tgt>>
      BY <1>5, <2>1 DEF Destroy
    \* What is retired now is the renderer's target, of a configuration now gone.
    <2>3. ASSUME NEW fb \in retired'
          PROVE  Holding /\ fb = <<tgt.gen, tgt.idx>> /\ tgt.gen # gen'[tgt.slot]
      <3>1. CASE fb \in retired
        <4>1. Holding /\ fb = <<tgt.gen, tgt.idx>> /\ tgt.gen # gen[tgt.slot]
          BY <1>h, <3>1 DEF DrawingIsHeld, GenerationsFresh
        <4>2. 1 <= tgt.gen /\ tgt.slot \in Slots
          BY <1>h, <1>t, <4>1 DEF GenerationsFresh, Holding
        <4> QED
          BY <1>t, <2>2, <4>1, <4>2
      <3>2. CASE fb \notin retired
        <4>1. PICK i \in HeldIn(s) : fb = Fb(s, i)
          BY <2>2, <3>2
        <4>2. i \in Bufs /\ tgt = [slot |-> s, idx |-> i, gen |-> gen[s]]
          BY <1>h, <4>1 DEF DrawingIsHeld, HeldIn
        <4>3. Holding
          BY <4>2 DEF Holding, NoTarget
        <4>4. gen[s] # 0
          BY <1>h, <4>2, <4>3 DEF GenerationsFresh
        <4> QED
          BY <1>t, <2>2, <4>1, <4>2, <4>3, <4>4 DEF Fb
      <3> QED
        BY <3>1, <3>2
    <2>4. ASSUME NEW r \in Slots, NEW i \in Bufs, ring'[r][i] = "Drawing"
          PROVE  tgt' = [slot |-> r, idx |-> i, gen |-> gen'[r]]
      <3>1. r # s /\ ring[r][i] = "Drawing"
        BY <1>t, <2>2, <2>4
      <3> QED
        BY <1>h, <1>t, <2>2, <3>1 DEF DrawingIsHeld
    <2>5. GenerationsFresh'
      <3>1. \A r \in Slots : gen'[r] <= nextGen'
        BY <1>h, <1>t, <2>2 DEF GenerationsFresh
      <3>2. Holding' => 1 <= tgt'.gen /\ tgt'.gen <= nextGen'
        BY <1>h, <2>2 DEF GenerationsFresh, Holding
      <3>3. \A fb \in retired' : tgt'.gen # gen'[tgt'.slot]
        BY <2>2, <2>3
      <3> QED
        BY <3>1, <3>2, <3>3 DEF GenerationsFresh
    <2>6. DrawingIsHeld'
      BY <2>2, <2>3, <2>4 DEF DrawingIsHeld, Holding
    <2> QED
      BY <2>5, <2>6
  <1>6. ASSUME NEW c \in Conns, Configure(c) PROVE GenerationsFresh' /\ DrawingIsHeld'
    <2>1. PICK s \in Slots : /\ ring' = [ring EXCEPT ![s] = [i \in Bufs |-> "Free"]]
                             /\ gen' = [gen EXCEPT ![s] = nextGen + 1]
      BY <1>6 DEF Configure
    <2>2. nextGen' = nextGen + 1 /\ UNCHANGED <<tgt, retired>>
      BY <1>6 DEF Configure
    <2>3. ASSUME NEW r \in Slots, NEW i \in Bufs, ring'[r][i] = "Drawing"
          PROVE  tgt' = [slot |-> r, idx |-> i, gen |-> gen'[r]]
      <3>1. r # s /\ ring[r][i] = "Drawing"
        BY <1>t, <2>1, <2>3
      <3> QED
        BY <1>h, <1>t, <2>1, <2>2, <3>1 DEF DrawingIsHeld
    <2>4. ASSUME NEW fb \in retired' PROVE tgt.gen # gen'[tgt.slot]
      <3>1. Holding /\ tgt.gen # gen[tgt.slot]
        BY <1>h, <2>2 DEF DrawingIsHeld, GenerationsFresh
      <3>2. tgt.gen \in Nat /\ tgt.gen <= nextGen /\ tgt.slot \in Slots
        BY <1>h, <1>t, <3>1 DEF GenerationsFresh, Holding
      <3> QED
        BY <1>t, <2>1, <3>1, <3>2
    <2>5. \A r \in Slots : gen'[r] <= nextGen'
      BY <1>h, <1>t, <2>1, <2>2 DEF GenerationsFresh
    <2>6. Holding' => 1 <= tgt'.gen /\ tgt'.gen <= nextGen'
      BY <1>h, <1>t, <2>2 DEF GenerationsFresh, Holding
    <2>7. GenerationsFresh'
      BY <2>2, <2>4, <2>5, <2>6 DEF GenerationsFresh
    <2>8. DrawingIsHeld'
      BY <1>h, <2>2, <2>3 DEF DrawingIsHeld, Holding
    <2> QED
      BY <2>7, <2>8
  <1> QED
    BY <1>1, <1>2, <1>3, <1>4, <1>5, <1>6 DEF EventLoop

\* HeldInv is inductive.
LEMMA InitHeld == Init => HeldInv
  <1> SUFFICES ASSUME Init PROVE HeldInv
    OBVIOUS
  <1>1. TypeOK
    BY InitType
  <1>2. TargetAtHand /\ GenerationsFresh
    BY DEF Init, TargetAtHand, GenerationsFresh, Holding
  <1>3. DrawingIsHeld
    BY DEF Init, DrawingIsHeld
  <1> QED
    BY <1>1, <1>2, <1>3 DEF HeldInv

LEMMA HeldInvStep ==
  ASSUME HeldInv, [Next]_vars
  PROVE  HeldInv'
  <1>1. TypeOK' /\ TargetAtHand'
    BY TypeStep, TargetAtHandStep DEF HeldInv
  <1>2. CASE Renderer \/ EventLoop
    BY <1>1, <1>2, HeldRenderer, HeldEvent DEF HeldInv
  <1>3. CASE Kernel \/ (\E c \in Conns : Plug(c)) \/ UNCHANGED vars
    <2>1. UNCHANGED <<gen, nextGen, tgt, retired, ring>>
      BY <1>3 DEF Kernel, Sweep, Plug, vars, ringVars, rendVars
    <2> QED
      BY <1>1, <2>1, QuietStep DEF HeldInv
  <1> QED
    BY <1>2, <1>3 DEF Next

\* A buffer marked Drawing is the one the renderer holds, and a buffer kept
\* from a destroyed ring waits for the renderer only: what teardown keeps back
\* is given back by the present that follows, whatever happens in between.
THEOREM DrawingHeld == Spec => []DrawingIsHeld
  <1>1. HeldInv /\ [Next]_vars => HeldInv'
    BY HeldInvStep
  <1>2. HeldInv => DrawingIsHeld
    BY DEF HeldInv
  <1> QED
    BY InitHeld, <1>1, <1>2, PTL DEF Spec

-----------------------------------------------------------------------------
(***************************************************************************)
(* The ring, the kernel and the two threads.  None of RingConsistent,      *)
(* FlipConfirmsFrame and NoTear is inductive: that a flip confirms the     *)
(* frame in flight depends on which event is still in the queue, on the    *)
(* framebuffers the kernel has and on the commits that are under way, and  *)
(* on what is left of an earlier configuration of the slot.  FlipPre says  *)
(* of each of them what the others know.                                   *)
(***************************************************************************)
Flips == [slot : Slots, gen : Nat]

\* The flip of configuration g of s is in the queue q, and once.
In(q, s, g) == \E k \in 1 .. Len(q) : q[k] = [slot |-> s, gen |-> g]
Once(q, s, g) == \A j, k \in 1 .. Len(q) :
    q[j] = [slot |-> s, gen |-> g] /\ q[k] = [slot |-> s, gen |-> g] => j = k
UpTo(q, n) == \A k \in 1 .. Len(q) : q[k].gen <= n

\* A thread between the locked part of try_commit and its end (or its undoing).
Job == {"commit", "failed"}

\* A framebuffer the kernel has for s is of the present configuration, or it is
\* the renderer's target, kept back when its ring was destroyed.
FbOf(s, fb) == fb # NoFb =>
    /\ fb[1] \in 1 .. nextGen /\ fb[2] \in Bufs
    /\ fb[1] # gen[s] => /\ Holding /\ tgt.slot = s /\ fb = <<tgt.gen, tgt.idx>>
                         /\ fb \in retired
KernelKnows == \A s \in Slots : FbOf(s, scan[s]) /\ FbOf(s, queued[s])

\* No event and no commit is of a configuration to come; the event thread
\* commits for the present one, since it is the thread that changes it.
EventsKnown == UpTo(events, nextGen)
JobsKnown ==
    /\ \A t \in Threads : pc[t] \in Job => cgen[t] \in 1 .. nextGen
    /\ pc[E] \in Job => cgen[E] = gen[cslot[E]]
TargetOfSlot == Holding => tgt.slot = cslot[R]
DeadIsEmpty == \A s \in Slots : ~Live(s) => pending[s] = None

\* Nothing has happened in the ring of s yet.
FreshRing(s) ==
    /\ pending[s] = None /\ inFlight[s] = None /\ current[s] = None
    /\ \A i \in Bufs : ring[s][i] = "Free"

\* Thread t commits a frame of the present configuration of s.
Valid(t, s) == pc[t] \in Job /\ cslot[t] = s /\ cgen[t] = gen[s]

Matches(s) == \A i \in Bufs :
    /\ pending[s] = i  <=> ring[s][i] = "Pending"
    /\ inFlight[s] = i <=> ring[s][i] = "InFlight"
    /\ current[s] = i  <=> ring[s][i] = "Current"

\* An event in the queue confirms the frame in flight, and no other flip is queued.
EventConfirms(s) == In(events, s, gen[s]) =>
    /\ inFlight[s] # None
    /\ queued[s][1] # gen[s]
    /\ Once(events, s, gen[s])

\* What is queued is the frame in flight; what is scanned is the current frame,
\* or the one in flight if its event is still in the queue.
QueuedIsInFlight(s) == queued[s][1] = gen[s] => queued[s] = Fb(s, inFlight[s])
ScanIsCurrent(s) == scan[s][1] = gen[s] =>
    scan[s] = Fb(s, IF In(events, s, gen[s]) THEN inFlight[s] ELSE current[s])

\* A commit under way is of the frame in flight, and there is one at most.
JobIsInFlight(s) ==
    /\ \A t \in Threads : Valid(t, s) =>
        /\ inFlight[s] = cidx[t]
        /\ ~In(events, s, gen[s])
        /\ queued[s][1] # gen[s]
    /\ ~(Valid(R, s) /\ Valid(E, s))

\* While the renderer is busy with an earlier configuration of s, nothing can
\* happen in the ring of the present one: frames come from the renderer alone.
LateIsFresh(s) ==
    \/ Holding /\ tgt.slot = s /\ tgt.gen # gen[s]
    \/ pc[R] \in Job /\ cslot[R] = s /\ cgen[R] # gen[s]
    => FreshRing(s)
TargetIsDrawing(s) ==
    Holding /\ tgt.slot = s /\ tgt.gen = gen[s] => ring[s][tgt.idx] = "Drawing"
Unjammed(s) == pending[s] # None /\ inFlight[s] = None =>
        \/ \E t \in Threads : pc[t] = "push" /\ cslot[t] = s
        \/ \E i \in Bufs : ring[s][i] \in {"Free", "Drawing"}

SlotInv(s) == Sound(s) =>
    /\ Matches(s) /\ EventConfirms(s) /\ QueuedIsInFlight(s) /\ ScanIsCurrent(s)
    /\ JobIsInFlight(s) /\ LateIsFresh(s) /\ TargetIsDrawing(s) /\ Unjammed(s)
FlipInv ==
    /\ KernelKnows /\ EventsKnown /\ JobsKnown /\ TargetOfSlot /\ DeadIsEmpty
    /\ \A s \in Slots : SlotInv(s)
\* The queue of events: what an event that joins or leaves it changes.
LEMMA AppendIn ==
  ASSUME NEW q \in Seq(Flips), NEW e \in Flips, NEW s, NEW g
  PROVE  /\ In(Append(q, e), s, g) <=> In(q, s, g) \/ e = [slot |-> s, gen |-> g]
         /\ Once(q, s, g) /\ ~(In(q, s, g) /\ e = [slot |-> s, gen |-> g])
              => Once(Append(q, e), s, g)
  <1>1. /\ Len(Append(q, e)) = Len(q) + 1 /\ Len(q) \in Nat
        /\ \A k \in 1 .. Len(q) : Append(q, e)[k] = q[k]
        /\ Append(q, e)[Len(q) + 1] = e
    BY AppendProperties, LenProperties
  <1> QED
    BY <1>1 DEF In, Once

LEMMA TailIn ==
  ASSUME NEW q \in Seq(Flips), q # <<>>, NEW s, NEW g
  PROVE  /\ In(q, s, g) <=> In(Tail(q), s, g) \/ Head(q) = [slot |-> s, gen |-> g]
         /\ Once(q, s, g) => Once(Tail(q), s, g)
         /\ Once(q, s, g) /\ Head(q) = [slot |-> s, gen |-> g] => ~In(Tail(q), s, g)
  <1>1. /\ Len(Tail(q)) = Len(q) - 1 /\ Len(q) \in Nat \ {0}
        /\ \A k \in 1 .. Len(Tail(q)) : Tail(q)[k] = q[k + 1]
        /\ Head(q) = q[1]
    BY HeadTailProperties, LenProperties, EmptySeq
  <1>2. In(q, s, g) <=> In(Tail(q), s, g) \/ Head(q) = [slot |-> s, gen |-> g]
    <2>1. ASSUME NEW k \in 1 .. Len(q), q[k] = [slot |-> s, gen |-> g], k # 1
          PROVE  In(Tail(q), s, g)
      <3>1. k - 1 \in 1 .. Len(Tail(q)) /\ Tail(q)[k - 1] = q[k]
        BY <1>1, <2>1
      <3> QED
        BY <2>1, <3>1 DEF In
    <2> QED
      BY <1>1, <2>1 DEF In
  <1>3. Once(q, s, g) => Once(Tail(q), s, g)
    <2> SUFFICES ASSUME Once(q, s, g), NEW j \in 1 .. Len(Tail(q)), NEW k \in 1 .. Len(Tail(q)),
                        Tail(q)[j] = [slot |-> s, gen |-> g], Tail(q)[k] = [slot |-> s, gen |-> g]
                 PROVE  j = k
      BY DEF Once
    <2>1. j + 1 \in 1 .. Len(q) /\ k + 1 \in 1 .. Len(q) /\ q[j + 1] = q[k + 1]
          /\ q[j + 1] = [slot |-> s, gen |-> g]
      BY <1>1
    <2>2. j + 1 = k + 1
      BY <2>1 DEF Once
    <2> QED
      BY <1>1, <2>2
  <1>4. Once(q, s, g) /\ Head(q) = [slot |-> s, gen |-> g] => ~In(Tail(q), s, g)
    <2> SUFFICES ASSUME Once(q, s, g), Head(q) = [slot |-> s, gen |-> g],
                        NEW k \in 1 .. Len(Tail(q)), Tail(q)[k] = [slot |-> s, gen |-> g]
                 PROVE  FALSE
      BY DEF In
    <2>1. k + 1 \in 1 .. Len(q) /\ q[k + 1] = [slot |-> s, gen |-> g] /\ 1 \in 1 .. Len(q)
          /\ q[1] = [slot |-> s, gen |-> g] /\ k + 1 # 1
      BY <1>1
    <2> QED
      BY <2>1 DEF Once
  <1> QED
    BY <1>2, <1>3, <1>4

LEMMA EmitIn ==
  ASSUME TypeOK, NEW s \in Slots, NEW r \in Slots, NEW g
  PROVE  /\ In(Emit(s), r, g) <=>
               In(events, r, g) \/ (queued[s] # NoFb /\ r = s /\ g = queued[s][1])
         /\ Once(events, r, g) /\ ~(In(events, r, g) /\ queued[s] # NoFb /\ r = s
                                      /\ g = queued[s][1])
              => Once(Emit(s), r, g)
  <1>1. events \in Seq(Flips) /\ queued[s][1] \in Nat
    BY DEF TypeOK, KernelTypes, FbIds, Flips
  <1>2. CASE queued[s] = NoFb
    BY <1>2 DEF Emit
  <1>3. CASE queued[s] # NoFb
    <2> DEFINE e == [slot |-> s, gen |-> queued[s][1]]
    <2>1. e \in Flips /\ Emit(s) = Append(events, e)
      BY <1>1, <1>3 DEF Emit, Flips
    <2>2. e = [slot |-> r, gen |-> g] <=> r = s /\ g = queued[s][1]
      OBVIOUS
    <2> HIDE DEF e
    <2> QED
      BY <1>1, <1>3, <2>1, <2>2, AppendIn
  <1> QED
    BY <1>2, <1>3

FlipPre == HeldInv /\ FlipInv

\* The parts of FlipPre, and the types.
LEMMA FlipPreFacts ==
  ASSUME FlipPre
  PROVE  /\ TypeOK /\ TargetAtHand /\ GenerationsFresh /\ DrawingIsHeld
         /\ KernelKnows /\ EventsKnown /\ JobsKnown /\ TargetOfSlot /\ DeadIsEmpty
         /\ \A s \in Slots : SlotInv(s)
         /\ gen \in [Slots -> Nat] /\ nextGen \in Nat
         /\ ring \in [Slots -> [Bufs -> BufState]]
         /\ pending \in [Slots -> Index] /\ inFlight \in [Slots -> Index]
         /\ current \in [Slots -> Index]
         /\ scan \in [Slots -> FbIds] /\ queued \in [Slots -> FbIds]
         /\ events \in Seq(Flips)
         /\ pc \in [Threads -> Labels]
         /\ cslot \in [Threads -> Slots] /\ cidx \in [Threads -> Bufs] /\ cgen \in [Threads -> Nat]
         /\ tgt = NoTarget \/ tgt \in [slot : Slots, idx : Bufs, gen : Nat]
  BY DEF FlipPre, HeldInv, FlipInv, TypeOK, RingTypes, KernelTypes, ThreadTypes, Flips

\* A job is about a generation that was given out; the event thread's, about
\* the present one.
LEMMA JobsStep ==
  ASSUME FlipPre, [Next]_vars
  PROVE  JobsKnown'
  <1> USE FlipPreFacts DEF Goto, ringVars, jobVars
  <1>1. ASSUME NEW t \in Threads, Push(t) PROVE JobsKnown'
    <2>1. UNCHANGED <<gen, nextGen>> /\ cslot' = cslot
      BY <1>1 DEF Push, TryCommit, CommitOk, CommitFailed, CommitUndo, ModesetMark, Return
    <2>2. CASE TryCommit(t) /\ CanCommit(cslot[t])
      <3>1. pc' = [pc EXCEPT ![t] = "commit"] /\ cgen' = [cgen EXCEPT ![t] = gen[cslot[t]]]
        BY <2>2 DEF TryCommit
      <3>2. Live(cslot[t])
        BY <2>2 DEF CanCommit, DeadIsEmpty
      <3>3. gen[cslot[t]] \in 1 .. nextGen
        BY <3>2 DEF GenerationsFresh, Live
      <3> QED
        BY <2>1, <3>1, <3>3 DEF JobsKnown, Job
    <2>3. CASE TryCommit(t) /\ ~CanCommit(cslot[t])
      <3>1. pc' = [pc EXCEPT ![t] = "pushed"] /\ cgen' = cgen
        BY <2>3 DEF TryCommit
      <3> QED
        BY <2>1, <3>1 DEF JobsKnown, Job
    <2>4. CASE CommitOk(t) \/ CommitFailed(t)
      BY <2>1, <2>4 DEF CommitOk, CommitFailed, JobsKnown, Job
    <2>5. CASE CommitUndo(t) \/ ModesetMark(t)
      BY <2>1, <2>5 DEF CommitUndo, ModesetMark, Return, JobsKnown, Job
    <2> QED
      BY <1>1, <2>2, <2>3, <2>4, <2>5 DEF Push
  <1>2. CASE Renderer /\ ~Push(R)
    <2>1. /\ UNCHANGED <<gen, nextGen, cgen>> /\ pc'[E] = pc[E] /\ cslot'[E] = cslot[E]
          /\ pc'[R] \notin Job
      BY <1>2 DEF Renderer, LookPrimary, NextExtra, EndOfPass, Acquire, AcquireNothing, ReadRole,
           NoFramebuffer, PresentQueued, PresentRefused, PresentStale, StopRenderer, Job
    <2> QED
      BY <2>1 DEF JobsKnown
  <1>3. CASE EventLoop /\ ~Push(E)
    <2>1. /\ cgen' = cgen /\ pc'[R] = pc[R] /\ pc'[E] \notin Job
      BY <1>3 DEF EventLoop, OnFlip, FlipDone, Hotplug, ForcedTeardown, Close, TeardownAll,
          KeepOutput, TurnOff, Destroy, Probe, PlaneOff, EndOfProbe, Closed, SkipConnector,
          Configure, Job
    <2>2. nextGen' \in {nextGen, nextGen + 1}
      BY <1>3 DEF EventLoop, OnFlip, FlipDone, Hotplug, ForcedTeardown, Close, TeardownAll,
          KeepOutput, TurnOff, Destroy, Probe, PlaneOff, EndOfProbe, Closed, SkipConnector,
          Configure, Job
    <2> QED
      BY <2>1, <2>2 DEF JobsKnown
  <1>4. CASE Kernel \/ (\E c \in Conns : Plug(c)) \/ UNCHANGED vars
    BY <1>4 DEF Kernel, Sweep, Plug, vars, JobsKnown
  <1> QED
    BY <1>1, <1>2, <1>3, <1>4 DEF Next, Renderer, EventLoop

\* The target is of the slot the renderer works on.
LEMMA TargetSlotStep ==
  ASSUME FlipPre, [Next]_vars
  PROVE  TargetOfSlot'
  <1> USE DEF jobVars, rendVars
  <1>t. /\ TargetAtHand /\ TargetOfSlot /\ cslot \in [Threads -> Slots]
    BY FlipPreFacts
  <1>1. ASSUME UNCHANGED tgt, cslot'[R] = cslot[R] PROVE TargetOfSlot'
    BY <1>t, <1>1 DEF TargetOfSlot, Holding
  <1>2. ASSUME NEW t \in Threads, Push(t) PROVE TargetOfSlot'
    <2>1. UNCHANGED <<tgt, cslot>>
      BY <1>2 DEF Push, TryCommit, CommitOk, CommitFailed, CommitUndo, ModesetMark, Return
    <2> QED
      BY <1>1, <2>1
  <1>3. CASE Renderer /\ ~Push(R)
    <2>1. CASE Acquire
      BY <1>t, <2>1 DEF Acquire, TargetOfSlot
    <2>2. CASE LookPrimary \/ NextExtra \/ EndOfPass
      <3>1. ~Holding /\ tgt' = tgt
        BY <1>t, <2>2 DEF LookPrimary, NextExtra, EndOfPass, TargetAtHand, Holding
      <3> QED
        BY <3>1 DEF TargetOfSlot, Holding
    <2>3. CASE PresentQueued \/ PresentRefused \/ PresentStale
      BY <2>3 DEF PresentQueued, PresentRefused, PresentStale, TargetOfSlot, Holding
    <2>4. CASE AcquireNothing \/ ReadRole \/ NoFramebuffer \/ StopRenderer
      BY <1>1, <2>4 DEF AcquireNothing, ReadRole, NoFramebuffer, StopRenderer
    <2> QED
      BY <1>3, <2>1, <2>2, <2>3, <2>4 DEF Renderer
  <1>4. CASE EventLoop /\ ~Push(E)
    <2>1. UNCHANGED tgt /\ cslot'[R] = cslot[R]
      BY <1>t, <1>4 DEF EventLoop, OnFlip, FlipDone, Hotplug, ForcedTeardown, Close, TeardownAll,
          KeepOutput, TurnOff, Destroy, Probe, PlaneOff, EndOfProbe, Closed, SkipConnector,
          Configure
    <2> QED
      BY <1>1, <2>1
  <1>5. CASE Kernel \/ (\E c \in Conns : Plug(c)) \/ UNCHANGED vars
    BY <1>1, <1>5 DEF Kernel, Sweep, Plug, vars
  <1> QED
    BY <1>2, <1>3, <1>4, <1>5 DEF Next, Renderer, EventLoop

\* A slot without an output has no frame that waits.
LEMMA DeadStep ==
  ASSUME FlipPre, [Next]_vars
  PROVE  DeadIsEmpty'
  <1> USE FlipPreFacts DEF ringVars
  <1>1. ASSUME NEW t \in Threads, Push(t) PROVE DeadIsEmpty'
    <2>1. gen' = gen /\ \A s \in Slots : pending'[s] \in {pending[s], None}
      BY <1>1 DEF Push, TryCommit, CommitOk, CommitFailed, CommitUndo, ModesetMark
    <2> QED
      BY <2>1 DEF DeadIsEmpty, Live
  <1>2. CASE PresentQueued
    <2>1. tgt # NoTarget /\ tgt \in [slot : Slots, idx : Bufs, gen : Nat]
      BY <1>2 DEF PresentQueued, TargetAtHand
    <2>2. gen' = gen /\ gen[tgt.slot] # 0 /\ pending' = [pending EXCEPT ![tgt.slot] = tgt.idx]
      BY <1>2, <2>1 DEF PresentQueued, GenerationsFresh, Holding
    <2> QED
      BY <2>1, <2>2 DEF DeadIsEmpty, Live
  <1>3. CASE Destroy
    BY <1>3 DEF Destroy, DeadIsEmpty, Live
  <1>4. ASSUME NEW c \in Conns, Configure(c) PROVE DeadIsEmpty'
    BY <1>4 DEF Configure, DeadIsEmpty, Live
  <1>5. CASE /\ Next /\ ~Push(R) /\ ~Push(E) /\ ~PresentQueued /\ ~Destroy
             /\ ~(\E c \in Conns : Configure(c))
    <2>1. gen' = gen /\ pending' = pending
      BY <1>5 DEF Next, Kernel, Sweep, Plug, Renderer, LookPrimary, NextExtra, EndOfPass, Acquire,
          AcquireNothing, ReadRole, NoFramebuffer, PresentRefused, PresentStale, StopRenderer,
          EventLoop, OnFlip, FlipDone, Hotplug, ForcedTeardown, Close, TeardownAll, KeepOutput,
          TurnOff, Probe, PlaneOff, EndOfProbe, Closed, SkipConnector
    <2> QED
      BY <2>1 DEF DeadIsEmpty, Live
  <1>6. CASE UNCHANGED vars
    BY <1>6 DEF vars, DeadIsEmpty, Live
  <1> QED
    BY <1>1, <1>2, <1>3, <1>4, <1>5, <1>6

\* The steps that change what the kernel has.
LEMMA KernelStep ==
  ASSUME FlipPre, [Next]_vars
  PROVE  \/ UNCHANGED <<scan, queued, events>>
         \/ \E s \in Slots : Sweep(s) \/ TurnOff(s)
         \/ \E t \in Threads : CommitOk(t)
         \/ PresentStale \/ OnFlip \/ Destroy \/ PlaneOff \/ Closed
  <1> USE DEF kernVars
  <1>1. CASE Renderer
    BY <1>1 DEF Renderer, Push, TryCommit, CommitFailed, CommitUndo, ModesetMark, LookPrimary,
        NextExtra, EndOfPass, Acquire, AcquireNothing, ReadRole, NoFramebuffer, PresentQueued,
        PresentRefused, StopRenderer
  <1>2. CASE EventLoop
    BY <1>2 DEF EventLoop, Push, TryCommit, CommitFailed, CommitUndo, ModesetMark, FlipDone,
        Hotplug, ForcedTeardown, Close, TeardownAll, KeepOutput, Probe, EndOfProbe, SkipConnector,
        Configure
  <1>3. CASE Kernel \/ (\E c \in Conns : Plug(c)) \/ UNCHANGED vars
    BY <1>3 DEF Kernel, Plug, vars
  <1> QED
    BY <1>1, <1>2, <1>3 DEF Next

\* Generations in a queue of events are bounded by the counter.
LEMMA AppendUpTo ==
  ASSUME NEW q \in Seq(Flips), NEW e \in Flips, NEW n \in Nat, UpTo(q, n), e.gen <= n
  PROVE  UpTo(Append(q, e), n)
  <1>1. /\ Len(Append(q, e)) = Len(q) + 1 /\ Len(q) \in Nat
        /\ \A k \in 1 .. Len(q) : Append(q, e)[k] = q[k]
        /\ Append(q, e)[Len(q) + 1] = e
    BY AppendProperties, LenProperties
  <1> QED
    BY <1>1 DEF UpTo

LEMMA TailUpTo ==
  ASSUME NEW q \in Seq(Flips), q # <<>>, NEW n \in Nat, UpTo(q, n)
  PROVE  UpTo(Tail(q), n)
  <1>1. /\ Len(Tail(q)) = Len(q) - 1 /\ Len(q) \in Nat \ {0}
        /\ \A k \in 1 .. Len(Tail(q)) : Tail(q)[k] = q[k + 1]
    BY HeadTailProperties, LenProperties, EmptySeq
  <1> QED
    BY <1>1 DEF UpTo

LEMMA LaterUpTo ==
  ASSUME NEW q \in Seq(Flips), NEW n \in Nat, NEW m \in Nat, n <= m, UpTo(q, n)
  PROVE  UpTo(q, m)
  <1>1. \A k \in 1 .. Len(q) : q[k] \in Flips
    BY ElementOfSeq
  <1>2. \A k \in 1 .. Len(q) : q[k].gen \in Nat
    BY <1>1 DEF Flips
  <1> QED
    BY <1>2 DEF UpTo

LEMMA EmitKnown ==
  ASSUME FlipPre, NEW s \in Slots
  PROVE  UpTo(Emit(s), nextGen) /\ Emit(s) \in Seq(Flips)
  <1> USE FlipPreFacts
  <1>0. Emit(s) \in Seq(Flips)
    BY EmitType DEF Flips
  <1>1. CASE queued[s] = NoFb
    BY <1>0, <1>1 DEF Emit, EventsKnown
  <1>2. CASE queued[s] # NoFb
    <2> DEFINE g == queued[s][1]
               e == [slot |-> s, gen |-> g]
    <2>1. FbOf(s, queued[s])
      BY DEF KernelKnows
    <2>2. g \in 1 .. nextGen
      BY <1>2, <2>1 DEF FbOf
    <2>3. Emit(s) = Append(events, e)
      BY <1>2 DEF Emit
    <2> HIDE DEF g
    <2>4. g \in Nat /\ g <= nextGen
      BY <2>2
    <2>5. e \in Flips /\ e.gen <= nextGen
      BY <2>4 DEF Flips
    <2> HIDE DEF e
    <2> QED
      BY <1>0, <2>3, <2>5, AppendUpTo DEF EventsKnown
  <1> QED
    BY <1>1, <1>2

LEMMA NextGenGrows ==
  ASSUME FlipPre, [Next]_vars
  PROVE  nextGen' \in Nat /\ nextGen <= nextGen'
  <1> USE FlipPreFacts DEF ringVars
  <1>0. nextGen' \in {nextGen, nextGen + 1}
    <2>1. ASSUME NEW t \in Threads, Push(t) PROVE nextGen' = nextGen
      BY <2>1 DEF Push, TryCommit, CommitOk, CommitFailed, CommitUndo, ModesetMark
    <2>2. CASE Renderer
      BY <2>1, <2>2 DEF Renderer, LookPrimary,
       NextExtra, EndOfPass, Acquire, AcquireNothing, ReadRole, NoFramebuffer, PresentQueued,
       PresentRefused, PresentStale, StopRenderer
    <2>3. CASE Kernel \/ (\E c \in Conns : Plug(c)) \/ UNCHANGED vars
      BY <2>3 DEF Kernel, Sweep, Plug, vars
    <2>4. CASE EventLoop
      BY <2>1, <2>4 DEF EventLoop, OnFlip, FlipDone,
       Hotplug, ForcedTeardown, Close, TeardownAll, KeepOutput, TurnOff, Destroy, Probe, PlaneOff,
       EndOfProbe, Closed, SkipConnector, Configure
    <2> QED
      BY <2>2, <2>3, <2>4 DEF Next
  <1> QED
    BY <1>0

\* No event is of a generation that is still to come.
LEMMA EventsStep ==
  ASSUME FlipPre, [Next]_vars
  PROVE  EventsKnown'
  <1> USE FlipPreFacts
  <1>0. nextGen' \in Nat /\ nextGen <= nextGen'
    BY NextGenGrows
  <1>1. ASSUME NEW s \in Slots, events' = Emit(s) PROVE EventsKnown'
    BY <1>0, <1>1, EmitKnown, LaterUpTo DEF EventsKnown
  <1>2. CASE events' = events
    BY <1>0, <1>2, LaterUpTo DEF EventsKnown
  <1>3. CASE OnFlip
    <2>1. events # <<>> /\ events' = Tail(events) /\ nextGen' = nextGen
      BY <1>3 DEF OnFlip
    <2> QED
      BY <2>1, TailUpTo DEF EventsKnown
  <1>4. CASE Closed
    <2>1. events' = <<>>
      BY <1>4 DEF Closed
    <2> QED
      BY <2>1 DEF EventsKnown, UpTo
  <1>5. ASSUME NEW t \in Threads, CommitOk(t) PROVE EventsKnown'
    BY <1>2, <1>5 DEF CommitOk
  <1>6. CASE PresentStale
    <2>1. tgt.slot \in Slots
      BY <1>6 DEF PresentStale, TargetAtHand
    <2>2. events' = events \/ events' = Emit(tgt.slot)
      BY <1>6 DEF PresentStale, RmFB
    <2> QED
      BY <1>1, <1>2, <2>1, <2>2
  <1>7. CASE Destroy \/ PlaneOff
    <2>1. events' = events \/ events' = Emit(cslot[E])
      BY <1>7 DEF Destroy, PlaneOff, RmFB
    <2>2. cslot[E] \in Slots
      OBVIOUS
    <2> QED
      BY <1>1, <1>2, <2>1, <2>2
  <1>8. ASSUME NEW s \in Slots, Sweep(s) \/ TurnOff(s) PROVE EventsKnown'
    <2>1. events' = events \/ events' = Emit(s)
      BY <1>8 DEF Sweep, TurnOff, kernVars
    <2> QED
      BY <1>1, <1>2, <2>1
  <1> QED
    BY KernelStep, <1>2, <1>3, <1>4, <1>5, <1>6, <1>7, <1>8

\* What teardown keeps back is given back by its present, and only by it.
LEMMA RetiredFacts ==
  ASSUME FlipPre
  PROVE  /\ ~Holding => retired = {}
         /\ Holding => tgt \in [slot : Slots, idx : Bufs, gen : Nat]
         /\ Holding /\ tgt.gen = gen[tgt.slot] => retired = {}
         /\ retired \subseteq {<<tgt.gen, tgt.idx>>}
  BY FlipPreFacts DEF GenerationsFresh, DrawingIsHeld, Holding

\* A framebuffer the kernel has is known after any step but the three that
\* free framebuffers.
LEMMA FbStep ==
  ASSUME FlipPre, [Next]_vars, ~Destroy, ~PresentStale, ~Closed,
         NEW s \in Slots, NEW fb \in FbIds, FbOf(s, fb)
  PROVE  FbOf(s, fb)'
  <1> USE FlipPreFacts DEF ringVars, rendVars
  <1>0. nextGen' \in Nat /\ nextGen <= nextGen'
    BY NextGenGrows
  <1>f. /\ fb[1] \in Nat
        /\ fb # NoFb => /\ 1 <= fb[1] /\ fb[1] <= nextGen /\ fb[1] <= nextGen'
                        /\ fb[2] \in Bufs
    <2>1. fb[1] \in Nat
      BY DEF FbIds
    <2>2. fb # NoFb => 1 <= fb[1] /\ fb[1] <= nextGen /\ fb[2] \in Bufs
      BY <2>1 DEF FbOf
    <2> HIDE FlipPreFacts
    <2>3. nextGen \in Nat
      BY FlipPreFacts
    <2> QED
      BY <1>0, <2>1, <2>2, <2>3
  <1>g. SUFFICES ASSUME fb # NoFb
                 PROVE  fb[1] # gen'[s] => /\ Holding' /\ tgt'.slot = s
                                           /\ fb = <<tgt'.gen, tgt'.idx>> /\ fb \in retired'
    BY <1>0, <1>f DEF FbOf
  <1>h. fb[1] # gen[s] => /\ Holding /\ tgt.slot = s /\ fb = <<tgt.gen, tgt.idx>> /\ fb \in retired
    BY <1>g DEF FbOf
  <1>1. CASE UNCHANGED <<gen, tgt, retired>>
    BY <1>h, <1>1 DEF Holding
  <1>2. CASE \E c \in Conns : Configure(c)
    <2>1. PICK r \in Slots : gen[r] = 0 /\ gen' = [gen EXCEPT ![r] = nextGen + 1]
      BY <1>2 DEF Configure, Live
    <2>1a. gen'[s] = IF s = r THEN nextGen + 1 ELSE gen[s]
      BY <2>1
    <2>2. UNCHANGED <<tgt, retired>>
      BY <1>2 DEF Configure
    <2> HIDE FlipPreFacts
    <2>3. fb[1] # gen'[s] => fb[1] # gen[s]
      <3>1. CASE s = r
        BY <1>f, <1>g, <2>1, <3>1
      <3>2. CASE s # r
        BY <2>1a, <3>2
      <3> QED
        BY <3>1, <3>2
    <2> QED
      BY <1>h, <2>2, <2>3 DEF Holding
  <1>3. CASE Acquire \/ PresentQueued \/ PresentRefused
    <2>1. retired = {} /\ gen' = gen
      BY <1>3, RetiredFacts DEF Acquire, PresentQueued, PresentRefused, TargetAtHand, Holding
    <2> QED
      BY <1>h, <2>1
  <1>4. CASE Renderer /\ ~Acquire /\ ~PresentQueued /\ ~PresentRefused
    <2>1. UNCHANGED <<gen, tgt, retired>>
      BY <1>4, PushIsQuiet DEF Renderer, LookPrimary, NextExtra, EndOfPass, AcquireNothing,
          ReadRole, NoFramebuffer, StopRenderer
    <2> QED
      BY <1>1, <2>1
  <1>5. CASE EventLoop /\ ~(\E c \in Conns : Configure(c))
    <2>1. UNCHANGED <<gen, tgt, retired>>
      BY <1>5, PushIsQuiet DEF EventLoop, OnFlip, FlipDone, Hotplug, ForcedTeardown, Close,
          TeardownAll, KeepOutput, TurnOff, Probe, PlaneOff, EndOfProbe, SkipConnector
    <2> QED
      BY <1>1, <2>1
  <1>6. CASE Kernel \/ (\E c \in Conns : Plug(c)) \/ UNCHANGED vars
    BY <1>1, <1>6 DEF Kernel, Sweep, Plug, vars
  <1> QED
    BY <1>2, <1>3, <1>4, <1>5, <1>6 DEF Next

\* The kernel holds framebuffers of the present configurations, and the one
\* framebuffer of an earlier one that still waits for the renderer.

\* The kernel holds framebuffers of the present configurations, and the one
\* framebuffer of an earlier one that still waits for the renderer.
LEMMA KernelKnowsStep ==
  ASSUME FlipPre, [Next]_vars
  PROVE  KernelKnows'
  <1> DEFINE Ok(s, fb) == fb # NoFb =>
        /\ fb[1] \in 1 .. nextGen' /\ fb[2] \in Bufs
        /\ fb[1] # gen'[s] => /\ Holding' /\ tgt'.slot = s /\ fb = <<tgt'.gen, tgt'.idx>>
                              /\ fb \in retired'
  <1>t. /\ scan \in [Slots -> FbIds] /\ queued \in [Slots -> FbIds] /\ gen \in [Slots -> Nat]
        /\ cslot \in [Threads -> Slots] /\ cidx \in [Threads -> Bufs] /\ cgen \in [Threads -> Nat]
        /\ nextGen \in Nat
    BY FlipPreFacts
  <1>n. \A s \in Slots : Ok(s, NoFb)
    OBVIOUS
  <1>k. \A s \in Slots : FbOf(s, scan[s]) /\ FbOf(s, queued[s])
    BY FlipPreFacts DEF KernelKnows
  <1>o. ASSUME \A s \in Slots : Ok(s, scan'[s]) /\ Ok(s, queued'[s]) PROVE KernelKnows'
    BY <1>o DEF KernelKnows, FbOf
  \* What the kernel had, it may keep.
  <1>s. CASE ~Destroy /\ ~PresentStale /\ ~Closed
    <2>1. ASSUME NEW s \in Slots, NEW fb \in FbIds, FbOf(s, fb) PROVE Ok(s, fb)
      <3>1. FbOf(s, fb)'
        BY <1>s, <2>1, FbStep
      <3> QED
        BY <3>1 DEF FbOf
    <2> HIDE DEF Ok
    <2>2. \A s \in Slots : Ok(s, scan[s]) /\ Ok(s, queued[s])
      BY <1>t, <1>k, <2>1
    <2>3. ASSUME \A s \in Slots : scan'[s] \in {scan[s], queued[s], NoFb},
                 \A s \in Slots : queued'[s] \in {queued[s], NoFb}
          PROVE  KernelKnows'
      BY <1>n, <1>o, <2>2, <2>3
    <2>4. CASE UNCHANGED <<scan, queued>>
      BY <2>3, <2>4
    <2>5. ASSUME NEW s \in Slots, Sweep(s) \/ TurnOff(s) PROVE KernelKnows'
      BY <1>t, <2>3, <2>5 DEF Sweep, TurnOff, kernVars
    <2>6. CASE PlaneOff
      BY <1>t, <2>3, <2>6 DEF PlaneOff
    <2>7. ASSUME NEW t \in Threads, CommitOk(t) PROVE KernelKnows'
      <3>1. PICK s \in Slots : s = cslot[t]
        BY <1>t
      <3>2. /\ scan' = scan /\ gen[s] = cgen[t] /\ UNCHANGED <<gen, nextGen>>
            /\ queued' = [queued EXCEPT ![s] = <<cgen[t], cidx[t]>>]
        BY <2>7, <3>1 DEF CommitOk, ringVars
      <3>3. cgen[t] \in 1 .. nextGen /\ cidx[t] \in Bufs
        BY <1>t, <2>7, FlipPreFacts DEF CommitOk, JobsKnown, Job
      <3>4. Ok(s, <<cgen[t], cidx[t]>>)
        BY <3>2, <3>3 DEF Ok
      <3>5. \A r \in Slots : queued'[r] = IF r = s THEN <<cgen[t], cidx[t]>> ELSE queued[r]
        BY <1>t, <3>2
      <3> QED
        BY <1>o, <2>2, <3>2, <3>4, <3>5
    <2> QED
      BY <1>s, KernelStep, <2>4, <2>5, <2>6, <2>7 DEF OnFlip
  <1>1. CASE Closed
    <2>1. \A s \in Slots : scan'[s] = NoFb /\ queued'[s] = NoFb
      BY <1>1 DEF Closed
    <2> QED
      BY <1>n, <1>o, <2>1
  <1>2. CASE PresentStale
    <2>1. tgt \in [slot : Slots, idx : Bufs, gen : Nat]
      BY <1>2, FlipPreFacts DEF PresentStale, TargetAtHand
    <2>2. PICK r \in Slots : r = tgt.slot
      BY <2>1
    <2>3. retired \ retired' = retired
      BY <1>2, RetiredFacts DEF PresentStale, StillRetired
    <2>4. UNCHANGED <<gen, nextGen>> /\ RmFB(r, retired)
      BY <1>2, <2>2, <2>3 DEF PresentStale
    <2>5. ASSUME NEW s \in Slots, NEW fb \in FbIds, FbOf(s, fb), s = r => fb \notin retired
          PROVE  Ok(s, fb)
      BY <2>2, <2>4, <2>5 DEF FbOf
    <2>6. \A s \in Slots : scan'[s] = IF s = r /\ scan[s] \in retired THEN NoFb ELSE scan[s]
      BY <1>t, <2>4 DEF RmFB
    <2>7. \A s \in Slots : queued'[s] = IF s = r /\ queued[s] \in retired THEN NoFb ELSE queued[s]
      BY <1>t, <2>4 DEF RmFB
    <2> HIDE DEF Ok
    <2> QED
      BY <1>t, <1>k, <1>n, <1>o, <2>5, <2>6, <2>7
  <1>3. CASE Destroy
    <2>1. PICK r \in Slots : r = cslot[E]
      BY <1>t
    <2> DEFINE F == {Fb(r, i) : i \in Bufs \ HeldIn(r)}
    <2>2. /\ RmFB(r, F) /\ retired' = retired \cup {Fb(r, i) : i \in HeldIn(r)}
          /\ gen' = [gen EXCEPT ![r] = 0] /\ UNCHANGED <<nextGen, tgt>>
      BY <1>3, <2>1 DEF Destroy, rendVars
    <2>3. ASSUME NEW s \in Slots, NEW fb \in FbIds, FbOf(s, fb), s = r => fb \notin F
          PROVE  Ok(s, fb)
      <3>1. CASE fb # NoFb /\ (fb[1] # gen[s] \/ s # r)
        BY <1>t, <2>2, <2>3, <3>1 DEF FbOf, Holding
      \* Teardown kept this one back: the renderer draws into it.
      <3>2. CASE fb # NoFb /\ fb[1] = gen[s] /\ s = r
        <4>1. PICK i \in Bufs : fb = Fb(r, i)
          BY <2>3, <3>2 DEF FbOf, FbIds, Fb
        <4>2. i \in HeldIn(r)
          BY <2>3, <3>2, <4>1
        <4>3. tgt = [slot |-> r, idx |-> i, gen |-> gen[r]]
          BY <4>2, FlipPreFacts DEF HeldIn, DrawingIsHeld
        <4>4. fb = <<tgt.gen, tgt.idx>> /\ tgt.slot = s
          BY <3>2, <4>1, <4>3 DEF Fb
        <4>5. fb \in retired'
          BY <2>2, <4>1, <4>2
        <4>6. Holding'
          BY <2>2, <4>3 DEF Holding, NoTarget
        <4>7. fb[1] \in 1 .. nextGen' /\ fb[2] \in Bufs
          BY <2>2, <2>3, <3>2 DEF FbOf
        <4> QED
          BY <2>2, <4>4, <4>5, <4>6, <4>7
      <3> QED
        BY <3>1, <3>2
    <2>4. \A s \in Slots : scan'[s] = IF s = r /\ scan[s] \in F THEN NoFb ELSE scan[s]
      BY <1>t, <2>2 DEF RmFB
    <2>5. \A s \in Slots : queued'[s] = IF s = r /\ queued[s] \in F THEN NoFb ELSE queued[s]
      BY <1>t, <2>2 DEF RmFB
    <2> HIDE DEF F, Ok
    <2> QED
      BY <1>t, <1>k, <1>n, <1>o, <2>3, <2>4, <2>5
  <1> QED
    BY <1>s, <1>1, <1>2, <1>3

\* What the steps of a thread on another slot leave of this one, and more.
Untouched(r) ==
    /\ gen'[r] = gen[r] /\ ring'[r] = ring[r] /\ pending'[r] = pending[r]
    /\ inFlight'[r] = inFlight[r] /\ current'[r] = current[r]
    /\ misled \subseteq misled'
    /\ queued'[r] \in {queued[r], NoFb}
    /\ In(events', r, gen[r]) => In(events, r, gen[r])
    /\ Once(events, r, gen[r]) => Once(events', r, gen[r])
    /\ \/ scan'[r] = NoFb
       \/ scan'[r] = scan[r] /\ (In(events', r, gen[r]) <=> In(events, r, gen[r]))
    /\ \A t \in Threads : pc'[t] \in Job /\ cslot'[t] = r =>
          pc[t] \in Job /\ cslot[t] = r /\ cgen'[t] = cgen[t] /\ cidx'[t] = cidx[t]
    /\ \A t \in Threads : pc[t] = "push" /\ cslot[t] = r =>
          \/ pc'[t] = "push" /\ cslot'[t] = r
          \/ pending[r] = None \/ inFlight[r] # None
    /\ tgt' = tgt \/ tgt' = NoTarget \/ tgt'.slot # r

LEMMA SlotFrame ==
  ASSUME FlipPre, NEW r \in Slots, Untouched(r)
  PROVE  SlotInv(r)'
  <1> SUFFICES ASSUME Sound(r)' PROVE
        /\ Matches(r)' /\ EventConfirms(r)' /\ QueuedIsInFlight(r)' /\ ScanIsCurrent(r)'
        /\ JobIsInFlight(r)' /\ LateIsFresh(r)' /\ TargetIsDrawing(r)' /\ Unjammed(r)'
    BY DEF SlotInv
  <1> USE DEF Untouched
  <1>0. gen[r] \in Nat /\ (tgt = NoTarget \/ tgt \in [slot : Slots, idx : Bufs, gen : Nat])
    BY FlipPreFacts
  <1>1. Sound(r) /\ gen[r] # 0
    BY DEF Sound, Live
  <1>i. SlotInv(r)
    BY FlipPreFacts
  <1>q. /\ queued'[r] = queued[r] \/ queued'[r][1] # gen[r]
        /\ scan'[r] = scan[r] \/ scan'[r][1] # gen[r]
    BY <1>1 DEF NoFb
  <1>2. Matches(r)'
    BY <1>1, <1>i DEF SlotInv, Matches
  <1>3. EventConfirms(r)'
    BY <1>1, <1>i, <1>q DEF SlotInv, EventConfirms
  <1>4. QueuedIsInFlight(r)' /\ ScanIsCurrent(r)'
    BY <1>1, <1>i, <1>q DEF SlotInv, QueuedIsInFlight, ScanIsCurrent, Fb, NoFb
  <1>5. JobIsInFlight(r)'
    BY <1>1, <1>i, <1>q DEF SlotInv, JobIsInFlight, Valid
  <1>6. FreshRing(r) => FreshRing(r)'
    BY DEF FreshRing
  <1>7. LateIsFresh(r)' /\ TargetIsDrawing(r)'
    <2>1. Holding' /\ tgt'.slot = r => Holding /\ tgt' = tgt
      BY <1>0 DEF Holding, NoTarget
    <2> QED
      BY <1>1, <1>i, <1>6, <2>1 DEF SlotInv, LateIsFresh, TargetIsDrawing
  <1>8. Unjammed(r)'
    BY <1>1, <1>i DEF SlotInv, Unjammed
  <1> QED
    BY <1>2, <1>3, <1>4, <1>5, <1>7, <1>8

\* The threads go on, or the renderer lets its target go: no slot notices.
LEMMA QuietSlots ==
  ASSUME FlipPre, UNCHANGED <<gen, ring, pending, inFlight, current, scan, queued, events, misled>>,
         \A t \in Threads : pc'[t] \in Job =>
             pc[t] \in Job /\ cslot'[t] = cslot[t] /\ cgen'[t] = cgen[t] /\ cidx'[t] = cidx[t],
         \A t \in Threads : pc[t] = "push" => pc'[t] = "push" /\ cslot'[t] = cslot[t],
         tgt' = tgt \/ tgt' = NoTarget
  PROVE  \A r \in Slots : SlotInv(r)'
  BY SlotFrame DEF Untouched

\* What holds of a slot that no flip of another configuration misled.
LEMMA SlotFacts ==
  ASSUME FlipPre, NEW s \in Slots, Sound(s)
  PROVE  /\ Matches(s) /\ EventConfirms(s) /\ QueuedIsInFlight(s) /\ ScanIsCurrent(s)
         /\ JobIsInFlight(s) /\ LateIsFresh(s) /\ TargetIsDrawing(s) /\ Unjammed(s)
         /\ gen[s] \in Nat \ {0} /\ gen[s] <= nextGen
         /\ ring[s] \in [Bufs -> BufState]
         /\ pending[s] \in Index /\ inFlight[s] \in Index /\ current[s] \in Index
         /\ queued[s][1] = gen[s] => queued[s][2] \in Bufs /\ inFlight[s] \in Bufs
  <1>1. SlotInv(s) /\ FbOf(s, queued[s]) /\ gen[s] <= nextGen
    BY FlipPreFacts DEF KernelKnows, GenerationsFresh
  <1>2. /\ gen[s] \in Nat \ {0}
        /\ ring[s] \in [Bufs -> BufState]
        /\ pending[s] \in Index /\ inFlight[s] \in Index /\ current[s] \in Index
    BY FlipPreFacts DEF Sound, Live
  <1>3. queued[s][1] = gen[s] => queued[s][2] \in Bufs
    BY <1>1, <1>2 DEF FbOf, NoFb
  <1>4. queued[s][1] = gen[s] => inFlight[s] = queued[s][2]
    BY <1>1 DEF SlotInv, QueuedIsInFlight, Fb
  <1> QED
    BY <1>1, <1>2, <1>3, <1>4 DEF SlotInv

\* A flip that ends without the event thread: at the sweep, or by a commit
\* that takes the plane away.
LEMMA FlipEnds ==
  ASSUME FlipPre, NEW s \in Slots,
         UNCHANGED <<gen, ring, pending, inFlight, current, misled, tgt, cidx, cgen>>,
         scan' = [scan EXCEPT ![s] = NoFb] \/ scan' = [scan EXCEPT ![s] = queued[s]],
         queued' = [queued EXCEPT ![s] = NoFb],
         events' = Emit(s),
         \A t \in Threads : \/ pc'[t] = pc[t] /\ cslot'[t] = cslot[t]
                            \/ pc'[t] \notin Job /\ pc[t] # "push"
  PROVE  \A r \in Slots : SlotInv(r)'
  <1>t. /\ TypeOK /\ gen \in [Slots -> Nat]
        /\ scan \in [Slots -> FbIds] /\ queued \in [Slots -> FbIds]
    BY FlipPreFacts
  <1>1. ASSUME NEW r \in Slots, r # s PROVE SlotInv(r)'
    <2>1. /\ In(events', r, gen[r]) <=> In(events, r, gen[r])
          /\ Once(events, r, gen[r]) => Once(events', r, gen[r])
      BY <1>t, <1>1, EmitIn
    <2>2. scan'[r] = scan[r] /\ queued'[r] = queued[r]
      BY <1>t, <1>1
    <2>3. Untouched(r)
      BY <2>1, <2>2 DEF Untouched
    <2> QED
      BY <2>3, SlotFrame
  <1>2. ASSUME queued[s][1] # gen[s] \/ queued[s] = NoFb PROVE SlotInv(s)'
    <2> SUFFICES ASSUME Sound(s)' PROVE SlotInv(s)'
      BY DEF SlotInv
    <2>0. gen[s] # 0
      BY DEF Sound, Live
    <2>1. /\ In(events', s, gen[s]) <=> In(events, s, gen[s])
          /\ Once(events, s, gen[s]) => Once(events', s, gen[s])
      BY <1>t, <1>2, <2>0, EmitIn DEF NoFb
    <2>2. queued'[s] = NoFb /\ scan'[s] \in {NoFb, queued[s]}
      BY <1>t
    <2>3. CASE scan'[s] = NoFb
      <3>1. Untouched(s)
        BY <2>1, <2>2, <2>3 DEF Untouched
      <3> QED
        BY <3>1, SlotFrame
    <2>4. CASE scan'[s] = queued[s] /\ queued[s] # NoFb
      <3>0. Sound(s) /\ queued'[s][1] # gen[s] /\ scan'[s][1] # gen[s]
        BY <1>2, <2>0, <2>2, <2>4 DEF Sound, Live, NoFb
      <3>1. SlotInv(s)
        BY FlipPreFacts
      <3>2. Matches(s)' /\ TargetIsDrawing(s)' /\ LateIsFresh(s)'
        BY <3>0, <3>1 DEF SlotInv, Matches, TargetIsDrawing, LateIsFresh, FreshRing, Holding
      <3>3. EventConfirms(s)' /\ QueuedIsInFlight(s)' /\ ScanIsCurrent(s)'
        BY <2>1, <3>0, <3>1 DEF SlotInv, EventConfirms, QueuedIsInFlight, ScanIsCurrent
      <3>4. JobIsInFlight(s)'
        BY <2>1, <3>0, <3>1 DEF SlotInv, JobIsInFlight, Valid
      <3>5. Unjammed(s)'
        BY <3>0, <3>1 DEF SlotInv, Unjammed
      <3> QED
        BY <3>2, <3>3, <3>4, <3>5 DEF SlotInv
    <2> QED
      BY <2>2, <2>3, <2>4
  \* The flip is of the present configuration: its event confirms the frame in flight.
  <1>3. ASSUME queued[s][1] = gen[s], queued[s] # NoFb PROVE SlotInv(s)'
    <2> SUFFICES ASSUME Sound(s)' PROVE SlotInv(s)'
      BY DEF SlotInv
    <2>0. Sound(s) /\ gen[s] # 0
      BY DEF Sound, Live
    <2>1. /\ Matches(s) /\ EventConfirms(s) /\ QueuedIsInFlight(s) /\ JobIsInFlight(s)
          /\ LateIsFresh(s) /\ TargetIsDrawing(s) /\ Unjammed(s) /\ inFlight[s] \in Bufs
      BY <1>3, <2>0, SlotFacts
    <2>2. ~In(events, s, gen[s]) /\ In(events', s, gen[s]) /\ Once(events', s, gen[s])
      <3>1. ~In(events, s, gen[s])
        BY <1>3, <2>1 DEF EventConfirms
      <3>2. Once(events, s, gen[s])
        BY <3>1 DEF Once, In
      <3> QED
        BY <1>t, <1>3, <3>1, <3>2, EmitIn
    <2>3. queued'[s] = NoFb /\ scan'[s] \in {NoFb, queued[s]} /\ queued'[s][1] # gen[s]
      BY <1>t, <2>0 DEF NoFb
    <2>4. Matches(s)' /\ TargetIsDrawing(s)' /\ LateIsFresh(s)'
      BY <2>1 DEF Matches, TargetIsDrawing, LateIsFresh, FreshRing, Holding
    <2>5. EventConfirms(s)' /\ QueuedIsInFlight(s)'
      BY <2>1, <2>2, <2>3 DEF EventConfirms, QueuedIsInFlight
    <2>6. ScanIsCurrent(s)'
      BY <2>0, <2>1, <2>2, <2>3, <1>3 DEF ScanIsCurrent, QueuedIsInFlight, Fb, NoFb
    <2>7. JobIsInFlight(s)'
      BY <1>3, <2>1 DEF JobIsInFlight, Valid
    <2>8. Unjammed(s)'
      BY <2>1 DEF Unjammed
    <2> QED
      BY <2>4, <2>5, <2>6, <2>7, <2>8 DEF SlotInv
  <1> QED
    BY <1>1, <1>2, <1>3

LEMMA TryCommitSlots ==
  ASSUME FlipPre, NEW t \in Threads, TryCommit(t)
  PROVE  \A r \in Slots : SlotInv(r)'
  <1>t. /\ pc \in [Threads -> Labels] /\ cslot \in [Threads -> Slots] /\ cidx \in [Threads -> Bufs]
        /\ cgen \in [Threads -> Nat] /\ ring \in [Slots -> [Bufs -> BufState]]
        /\ pending \in [Slots -> Index] /\ inFlight \in [Slots -> Index]
    BY FlipPreFacts
  <1>1. PICK s \in Slots : s = cslot[t]
    BY <1>t
  <1>u. /\ pc[t] = "push" /\ cslot' = cslot
        /\ UNCHANGED <<gen, current, scan, queued, events, misled, tgt>>
    BY DEF TryCommit, kernVars, rendVars
  <1>2. CASE ~CanCommit(s)
    <2>1. /\ UNCHANGED <<ring, inFlight, pending, cidx, cgen>> /\ pc' = [pc EXCEPT ![t] = "pushed"]
      BY <1>1, <1>2 DEF TryCommit, Goto
    <2>2. ASSUME NEW r \in Slots PROVE Untouched(r)
      BY <1>t, <1>1, <1>u, <1>2, <2>1 DEF Untouched, Job, CanCommit
    <2> QED
      BY <2>2, SlotFrame
  <1>3. CASE CanCommit(s)
    <2> DEFINE p == pending[s]
    <2>1. /\ ring' = [ring EXCEPT ![s] = Committed(s)]
          /\ inFlight' = [inFlight EXCEPT ![s] = p]
          /\ pending' = [pending EXCEPT ![s] = None]
          /\ cidx' = [cidx EXCEPT ![t] = p]
          /\ cgen' = [cgen EXCEPT ![t] = gen[s]]
          /\ pc' = [pc EXCEPT ![t] = "commit"]
      BY <1>1, <1>3 DEF TryCommit, Goto
    <2>2. ASSUME NEW r \in Slots, r # s PROVE SlotInv(r)'
      <3>1. Untouched(r)
        BY <1>t, <1>1, <1>u, <2>1, <2>2 DEF Untouched, Job
      <3> QED
        BY <3>1, SlotFrame
    <2>3. ASSUME Sound(s)' PROVE SlotInv(s)'
      <3>0. Sound(s)
        BY <1>u, <2>3 DEF Sound, Live
      <3>1. /\ Matches(s) /\ EventConfirms(s) /\ QueuedIsInFlight(s) /\ ScanIsCurrent(s)
            /\ JobIsInFlight(s) /\ LateIsFresh(s) /\ TargetIsDrawing(s)
            /\ queued[s][1] = gen[s] => inFlight[s] \in Bufs
        BY <3>0, SlotFacts
      <3>2. inFlight[s] = None /\ p # None /\ p \in Bufs /\ p \in Int
        BY <1>t, <1>3 DEF CanCommit, Index
      <3>3. /\ ring'[s] = Committed(s) /\ inFlight'[s] = p /\ pending'[s] = None
            /\ cidx'[t] = p /\ cgen'[t] = gen[s] /\ pc'[t] = "commit"
            /\ \A u \in Threads : u # t =>
                  cidx'[u] = cidx[u] /\ cgen'[u] = cgen[u] /\ pc'[u] = pc[u]
        BY <1>t, <2>1
      <3> HIDE DEF p
      <3>4. Matches(s)'
        <4>1. \A i \in Bufs : ring[s][i] # "InFlight" /\ (ring[s][i] = "Pending" <=> i = p)
          BY <3>1, <3>2 DEF Matches, p
        <4>2. \A i \in Bufs : ring'[s][i] = IF i = p THEN "InFlight" ELSE ring[s][i]
          BY <3>3 DEF Committed, p
        <4> QED
          BY <1>u, <3>1, <3>2, <3>3, <4>1, <4>2 DEF Matches
      <3>5. ~In(events, s, gen[s]) /\ queued[s][1] # gen[s]
        BY <3>1, <3>2 DEF EventConfirms
      <3>6. EventConfirms(s)' /\ QueuedIsInFlight(s)' /\ ScanIsCurrent(s)'
        BY <1>u, <3>1, <3>5 DEF EventConfirms, QueuedIsInFlight, ScanIsCurrent, Fb
      <3>7. \A u \in Threads : ~Valid(u, s)
        BY <1>t, <3>1, <3>2 DEF JobIsInFlight
      <3>8. JobIsInFlight(s)'
        BY <1>u, <3>3, <3>5, <3>7 DEF JobIsInFlight, Valid
      <3>9. LateIsFresh(s)'
        BY <1>u, <3>1, <3>2, <3>3 DEF LateIsFresh, FreshRing, Holding, p
      <3>10. TargetIsDrawing(s)'
        <4>1. \A i \in Bufs : ring[s][i] = "Drawing" => ring'[s][i] = "Drawing"
          BY <3>1, <3>2, <3>3 DEF Committed, Matches, p
        <4>2. Holding => tgt.idx \in Bufs
          BY FlipPreFacts DEF Holding
        <4> QED
          BY <1>u, <3>1, <4>1, <4>2 DEF TargetIsDrawing, Holding
      <3>11. Unjammed(s)'
        BY <3>3 DEF Unjammed
      <3> QED
        BY <3>4, <3>6, <3>8, <3>9, <3>10, <3>11 DEF SlotInv
    <2> QED
      BY <2>2, <2>3 DEF SlotInv
  <1> QED
    BY <1>2, <1>3

LEMMA CommitOkSlots ==
  ASSUME FlipPre, NEW t \in Threads, CommitOk(t)
  PROVE  \A r \in Slots : SlotInv(r)'
  <1>t. /\ pc \in [Threads -> Labels] /\ cslot \in [Threads -> Slots] /\ cidx \in [Threads -> Bufs]
        /\ queued \in [Slots -> FbIds]
    BY FlipPreFacts
  <1>1. PICK s \in Slots : s = cslot[t]
    BY <1>t
  <1>u. /\ UNCHANGED <<gen, ring, pending, inFlight, current, scan, events, misled, tgt, cslot,
                       cidx, cgen>>
        /\ pc[t] = "commit" /\ pc' = [pc EXCEPT ![t] = "mark"]
        /\ cgen[t] = gen[s] /\ queued' = [queued EXCEPT ![s] = <<cgen[t], cidx[t]>>]
    BY <1>1 DEF CommitOk, ringVars, jobVars, rendVars, Goto
  <1>2. ASSUME NEW r \in Slots, r # s PROVE SlotInv(r)'
    <2>1. Untouched(r)
      BY <1>t, <1>1, <1>u, <1>2 DEF Untouched, Job
    <2> QED
      BY <2>1, SlotFrame
  <1>3. ASSUME Sound(s)' PROVE SlotInv(s)'
    <2>0. Sound(s)
      BY <1>u, <1>3 DEF Sound, Live
    <2>1. /\ Matches(s) /\ ScanIsCurrent(s) /\ JobIsInFlight(s)
          /\ LateIsFresh(s) /\ TargetIsDrawing(s) /\ Unjammed(s)
      BY <2>0, SlotFacts
    <2>2. Valid(t, s)
      BY <1>1, <1>u DEF Valid, Job
    <2>3. inFlight[s] = cidx[t] /\ ~In(events, s, gen[s])
          /\ \A u \in Threads : Valid(u, s) => u = t
      BY <2>1, <2>2 DEF JobIsInFlight
    <2>4. queued'[s] = Fb(s, inFlight[s])
      BY <1>t, <1>u, <2>3 DEF Fb
    <2>5. Matches(s)' /\ ScanIsCurrent(s)' /\ TargetIsDrawing(s)'
      BY <1>u, <2>1 DEF Matches, ScanIsCurrent, TargetIsDrawing, Fb, Holding
    <2>6. EventConfirms(s)' /\ QueuedIsInFlight(s)'
      BY <1>u, <2>3, <2>4 DEF EventConfirms, QueuedIsInFlight, Fb
    <2>7. JobIsInFlight(s)'
      <3>1. \A u \in Threads : ~Valid(u, s)'
        BY <1>t, <1>u, <2>3 DEF Valid, Job
      <3> QED
        BY <3>1 DEF JobIsInFlight
    <2>8. LateIsFresh(s)' /\ Unjammed(s)'
      BY <1>t, <1>u, <2>1 DEF LateIsFresh, FreshRing, Unjammed, Job, Holding
    <2> QED
      BY <2>5, <2>6, <2>7, <2>8 DEF SlotInv
  <1> QED
    BY <1>2, <1>3 DEF SlotInv

LEMMA CommitUndoSlots ==
  ASSUME FlipPre, NEW t \in Threads, CommitUndo(t)
  PROVE  \A r \in Slots : SlotInv(r)'
  <1>t. /\ pc \in [Threads -> Labels] /\ cslot \in [Threads -> Slots] /\ cidx \in [Threads -> Bufs]
        /\ cgen \in [Threads -> Nat] /\ ring \in [Slots -> [Bufs -> BufState]]
        /\ inFlight \in [Slots -> Index] /\ JobsKnown
    BY FlipPreFacts
  <1>1. PICK s \in Slots : s = cslot[t]
    BY <1>t
  <1>u. /\ UNCHANGED <<gen, pending, current, scan, queued, events, misled, tgt, cslot>>
        /\ pc[t] = "failed" /\ pc' = [pc EXCEPT ![t] = "pushed"]
        /\ \A u \in Threads : u # t => cidx'[u] = cidx[u] /\ cgen'[u] = cgen[u]
        /\ inFlight' = [inFlight EXCEPT ![s] = None]
        /\ ring' = IF Live(s) THEN [ring EXCEPT ![s] = Undone(s, cidx[t])] ELSE ring
    BY <1>t, <1>1 DEF CommitUndo, Return, kernVars, rendVars, Goto
  <1>2. ASSUME NEW r \in Slots, r # s PROVE SlotInv(r)'
    <2>1. Untouched(r)
      BY <1>t, <1>1, <1>u, <1>2 DEF Untouched, Job
    <2> QED
      BY <2>1, SlotFrame
  <1>3. ASSUME Sound(s)' PROVE SlotInv(s)'
    <2>0. Sound(s) /\ Live(s)
      BY <1>u, <1>3 DEF Sound, Live
    <2>1. /\ Matches(s) /\ ScanIsCurrent(s) /\ JobIsInFlight(s)
          /\ LateIsFresh(s) /\ TargetIsDrawing(s) /\ Unjammed(s)
      BY <2>0, SlotFacts
    <2>2. ring'[s] = [ring[s] EXCEPT ![cidx[t]] = "Free"] /\ inFlight'[s] = None /\ cidx[t] \in Bufs
      BY <1>t, <1>u, <2>0 DEF Undone
    \* The ring is the one the frame was committed from.
    <2>3. CASE cgen[t] = gen[s]
      <3>1. Valid(t, s)
        BY <1>1, <1>u, <2>3 DEF Valid, Job
      <3>2. /\ inFlight[s] = cidx[t] /\ inFlight[s] # None
            /\ ~In(events, s, gen[s]) /\ queued[s][1] # gen[s]
            /\ \A u \in Threads : Valid(u, s) => u = t
        BY <2>1, <2>2, <3>1 DEF JobIsInFlight
      <3>3. Matches(s)'
        BY <1>t, <1>u, <2>1, <2>2, <3>2 DEF Matches
      <3>4. EventConfirms(s)' /\ QueuedIsInFlight(s)' /\ ScanIsCurrent(s)'
        BY <1>u, <2>1, <3>2 DEF EventConfirms, QueuedIsInFlight, ScanIsCurrent, Fb
      <3>5. JobIsInFlight(s)'
        <4>1. \A u \in Threads : ~Valid(u, s)'
          BY <1>t, <1>u, <3>2 DEF Valid, Job
        <4> QED
          BY <4>1 DEF JobIsInFlight
      <3>6. LateIsFresh(s)'
        BY <1>t, <1>u, <2>1, <3>2 DEF LateIsFresh, FreshRing, Holding, Job
      <3>7. TargetIsDrawing(s)'
        <4>1. \A i \in Bufs : ring[s][i] = "Drawing" => ring'[s][i] = "Drawing"
          BY <1>t, <2>1, <2>2, <3>2 DEF Matches
        <4>2. Holding => tgt.idx \in Bufs
          BY FlipPreFacts DEF Holding
        <4> QED
          BY <1>u, <2>1, <4>1, <4>2 DEF TargetIsDrawing, Holding
      <3>8. Unjammed(s)'
        <4>1. ring'[s][cidx[t]] = "Free"
          BY <1>t, <2>2
        <4> QED
          BY <2>2, <4>1 DEF Unjammed
      <3> QED
        BY <3>3, <3>4, <3>5, <3>6, <3>7, <3>8 DEF SlotInv
    \* It is a later one, in which nothing has happened: the renderer's job is late.
    <2>4. CASE cgen[t] # gen[s]
      <3>1. t = R
        BY <1>1, <1>u, <1>t, <2>4 DEF JobsKnown, Job
      <3>2. FreshRing(s)
        BY <1>1, <1>u, <2>1, <2>4, <3>1 DEF LateIsFresh, Job
      <3>3. ring'[s] = ring[s] /\ inFlight'[s] = inFlight[s]
        BY <1>t, <2>2, <3>2 DEF FreshRing
      <3>4. Untouched(s)
        BY <1>t, <1>1, <1>u, <3>3 DEF Untouched, Job
      <3> QED
        BY <3>4, SlotFrame
    <2> QED
      BY <2>3, <2>4
  <1> QED
    BY <1>2, <1>3 DEF SlotInv

LEMMA OnFlipSlots ==
  ASSUME FlipPre, OnFlip
  PROVE  \A r \in Slots : SlotInv(r)'
  <1>t. /\ pc \in [Threads -> Labels] /\ cslot \in [Threads -> Slots]
        /\ ring \in [Slots -> [Bufs -> BufState]] /\ current \in [Slots -> Index]
        /\ inFlight \in [Slots -> Index] /\ events \in Seq(Flips)
    BY FlipPreFacts
  <1>1. events # <<>> /\ Head(events) \in Flips
    BY <1>t, HeadTailProperties DEF OnFlip
  <1>2. PICK s \in Slots : s = Head(events).slot
    BY <1>1 DEF Flips
  <1>u. /\ UNCHANGED <<gen, pending, scan, queued, tgt, cidx, cgen>>
        /\ pc[E] = "poll" /\ pc' = [pc EXCEPT ![E] = "push"]
        /\ cslot' = [cslot EXCEPT ![E] = s]
        /\ events' = Tail(events)
        /\ ring' = [ring EXCEPT ![s] = Flipped(s)]
        /\ current' = [current EXCEPT ![s] = inFlight[s]]
        /\ inFlight' = [inFlight EXCEPT ![s] = None]
        /\ misled \subseteq misled'
        /\ Live(s) /\ Head(events).gen # gen[s] => gen[s] \in misled'
    BY <1>2 DEF OnFlip, rendVars, Goto
  <1>3. ASSUME NEW r \in Slots, r # s PROVE SlotInv(r)'
    <2>1. /\ In(events', r, gen[r]) <=> In(events, r, gen[r])
          /\ Once(events, r, gen[r]) => Once(events', r, gen[r])
      BY <1>t, <1>1, <1>2, <1>u, <1>3, TailIn
    <2>2. Untouched(r)
      BY <1>t, <1>u, <1>3, <2>1 DEF Untouched, Job
    <2> QED
      BY <2>2, SlotFrame
  <1>4. ASSUME Sound(s)' PROVE SlotInv(s)'
    <2>0. Sound(s) /\ Head(events).gen = gen[s]
      BY <1>u, <1>4 DEF Sound, Live
    <2>1. /\ Matches(s) /\ EventConfirms(s) /\ ScanIsCurrent(s) /\ JobIsInFlight(s)
          /\ LateIsFresh(s) /\ TargetIsDrawing(s)
      BY <2>0, SlotFacts
    <2>2. Head(events) = [slot |-> s, gen |-> gen[s]]
      BY <1>1, <1>2, <2>0 DEF Flips
    <2>3. In(events, s, gen[s])
      BY <1>t, <1>1, <2>2, TailIn
    <2>4. inFlight[s] # None /\ queued[s][1] # gen[s] /\ Once(events, s, gen[s])
      BY <2>1, <2>3 DEF EventConfirms
    <2>5. ~In(events', s, gen[s])
      BY <1>t, <1>1, <1>u, <2>2, <2>4, TailIn
    <2>6. /\ ring'[s] = Flipped(s) /\ current'[s] = inFlight[s] /\ inFlight'[s] = None
          /\ inFlight[s] \in Bufs
      BY <1>t, <1>u, <2>4 DEF Index
    <2>7. Matches(s)'
      <3>1. \A i \in Bufs : ring'[s][i] = IF i = inFlight[s] THEN "Current"
                                          ELSE IF i = current[s] THEN "Free" ELSE ring[s][i]
        BY <2>6 DEF Flipped
      <3> QED
        BY <1>u, <2>1, <2>6, <3>1 DEF Matches
    <2>8. EventConfirms(s)' /\ QueuedIsInFlight(s)'
      BY <1>u, <2>4, <2>5 DEF EventConfirms, QueuedIsInFlight
    <2>9. ScanIsCurrent(s)'
      BY <1>u, <2>1, <2>3, <2>5, <2>6 DEF ScanIsCurrent, Fb
    <2>10. JobIsInFlight(s)'
      <3>1. \A t \in Threads : ~Valid(t, s)
        BY <2>1, <2>3 DEF JobIsInFlight
      <3>2. \A t \in Threads : ~Valid(t, s)'
        BY <1>t, <1>u, <3>1 DEF Valid, Job
      <3> QED
        BY <3>2 DEF JobIsInFlight
    <2>11. LateIsFresh(s)'
      BY <1>t, <1>u, <2>1, <2>4 DEF LateIsFresh, FreshRing, Job, Holding
    <2>12. TargetIsDrawing(s)'
      <3>1. \A i \in Bufs : ring[s][i] = "Drawing" => ring'[s][i] = "Drawing"
        BY <2>1, <2>6 DEF Flipped, Matches
      <3>2. Holding => tgt.idx \in Bufs
        BY FlipPreFacts DEF Holding
      <3> QED
        BY <1>u, <2>1, <3>1, <3>2 DEF TargetIsDrawing, Holding
    <2>13. Unjammed(s)'
      BY <1>t, <1>u DEF Unjammed
    <2> QED
      BY <2>7, <2>8, <2>9, <2>10, <2>11, <2>12, <2>13 DEF SlotInv
  <1> QED
    BY <1>3, <1>4 DEF SlotInv

LEMMA DestroySlots ==
  ASSUME FlipPre, Destroy
  PROVE  \A r \in Slots : SlotInv(r)'
  <1>t. /\ pc \in [Threads -> Labels] /\ cslot \in [Threads -> Slots] /\ TypeOK
        /\ gen \in [Slots -> Nat] /\ scan \in [Slots -> FbIds] /\ queued \in [Slots -> FbIds]
        /\ ring \in [Slots -> [Bufs -> BufState]]
        /\ pending \in [Slots -> Index] /\ inFlight \in [Slots -> Index]
        /\ current \in [Slots -> Index]
    BY FlipPreFacts
  <1>1. PICK s \in Slots : s = cslot[E]
    BY <1>t
  <1>u. /\ UNCHANGED <<tgt, cslot, cidx, cgen, misled>>
        /\ pc[E] = "destroy" /\ pc' = [pc EXCEPT ![E] = "teardown"]
        /\ RmFB(s, {Fb(s, i) : i \in Bufs \ HeldIn(s)})
        /\ ring' = [ring EXCEPT ![s] = [i \in Bufs |-> "Gone"]]
        /\ pending' = [pending EXCEPT ![s] = None]
        /\ inFlight' = [inFlight EXCEPT ![s] = None]
        /\ current' = [current EXCEPT ![s] = None]
        /\ gen' = [gen EXCEPT ![s] = 0]
    BY <1>1 DEF Destroy, rendVars, jobVars, Goto
  <1>2. ASSUME NEW r \in Slots, r # s PROVE SlotInv(r)'
    <2>1. /\ In(events', r, gen[r]) <=> In(events, r, gen[r])
          /\ Once(events, r, gen[r]) => Once(events', r, gen[r])
      <3>1. events' = events \/ events' = Emit(s)
        BY <1>u DEF RmFB
      <3> QED
        BY <1>t, <1>2, <3>1, EmitIn
    <2>2. scan'[r] = scan[r] /\ queued'[r] = queued[r]
      BY <1>t, <1>u, <1>2 DEF RmFB
    <2>3. Untouched(r)
      BY <1>t, <1>u, <1>2, <2>1, <2>2 DEF Untouched, Job
    <2> QED
      BY <2>3, SlotFrame
  <1>3. ~Sound(s)'
    BY <1>t, <1>u DEF Sound, Live
  <1> QED
    BY <1>2, <1>3 DEF SlotInv

LEMMA ConfigureSlots ==
  ASSUME FlipPre, NEW c \in Conns, Configure(c)
  PROVE  \A r \in Slots : SlotInv(r)'
  <1>t. /\ pc \in [Threads -> Labels] /\ cslot \in [Threads -> Slots]
        /\ gen \in [Slots -> Nat] /\ nextGen \in Nat
        /\ ring \in [Slots -> [Bufs -> BufState]]
        /\ pending \in [Slots -> Index] /\ inFlight \in [Slots -> Index]
        /\ current \in [Slots -> Index]
        /\ KernelKnows /\ EventsKnown /\ JobsKnown /\ GenerationsFresh
        /\ events \in Seq(Flips)
    BY FlipPreFacts
  <1>1. PICK s \in Slots :
          /\ ring' = [ring EXCEPT ![s] = [i \in Bufs |-> "Free"]]
          /\ pending' = [pending EXCEPT ![s] = None]
          /\ inFlight' = [inFlight EXCEPT ![s] = None]
          /\ current' = [current EXCEPT ![s] = None]
          /\ gen' = [gen EXCEPT ![s] = nextGen + 1]
          /\ cslot' = [cslot EXCEPT ![E] = s]
    BY DEF Configure
  <1>u. /\ UNCHANGED <<tgt, scan, queued, events, cidx, cgen, misled>>
        /\ pc[E] = "probe" /\ pc' = [pc EXCEPT ![E] = "planeOff"]
    BY DEF Configure, rendVars, kernVars, Goto
  <1>2. ASSUME NEW r \in Slots, r # s PROVE SlotInv(r)'
    <2>1. Untouched(r)
      BY <1>t, <1>1, <1>u, <1>2 DEF Untouched, Job
    <2> QED
      BY <2>1, SlotFrame
  \* The generation is new: no framebuffer, event, job or target is of it.
  <1>3. SlotInv(s)'
    <2> DEFINE g == nextGen + 1
    <2>0. gen'[s] = g /\ g \in Nat /\ g # 0 /\ \A n \in Nat : n <= nextGen => n # g
      BY <1>t, <1>1
    <2> HIDE DEF g
    <2>1. FreshRing(s)'
      BY <1>t, <1>1 DEF FreshRing
    <2>2. queued[s][1] # g /\ scan[s][1] # g
      <3>1. ASSUME NEW fb, FbOf(s, fb) PROVE fb[1] # g
        <4>1. CASE fb = NoFb
          BY <2>0, <4>1 DEF NoFb
        <4>2. CASE fb # NoFb
          <5>1. fb[1] \in Nat /\ fb[1] <= nextGen
            BY <1>t, <3>1, <4>2 DEF FbOf
          <5> QED
            BY <2>0, <5>1
        <4> QED
          BY <4>1, <4>2
      <3> QED
        BY <1>t, <3>1 DEF KernelKnows
    <2>3. ~In(events, s, g)
      <3> SUFFICES ASSUME NEW k \in 1 .. Len(events), events[k] = [slot |-> s, gen |-> g]
                   PROVE  FALSE
        BY DEF In
      <3>1. events[k].gen = g /\ events[k].gen <= nextGen
        BY <1>t DEF EventsKnown, UpTo
      <3> QED
        BY <2>0, <3>1
    <2>4. \A t \in Threads : ~Valid(t, s)'
      <3> SUFFICES ASSUME NEW t \in Threads, pc'[t] \in Job PROVE cgen'[t] # g
        BY <2>0 DEF Valid
      <3>1. pc[t] \in Job
        BY <1>t, <1>u DEF Job
      <3>2. cgen[t] \in Nat /\ cgen[t] <= nextGen
        BY <1>t, <3>1 DEF JobsKnown
      <3> QED
        BY <1>u, <2>0, <3>2
    <2>5. Holding => tgt.gen # g
      <3>1. Holding => tgt.gen \in Nat /\ tgt.gen <= nextGen
        BY <1>t, FlipPreFacts DEF GenerationsFresh, Holding
      <3> QED
        BY <2>0, <3>1
    <2>6. Matches(s)'
      BY <2>1 DEF Matches, FreshRing
    <2>7. EventConfirms(s)' /\ QueuedIsInFlight(s)' /\ ScanIsCurrent(s)'
      BY <1>u, <2>0, <2>2, <2>3 DEF EventConfirms, QueuedIsInFlight, ScanIsCurrent
    <2>8. JobIsInFlight(s)' /\ LateIsFresh(s)'
      BY <2>1, <2>4 DEF JobIsInFlight, LateIsFresh
    <2>9. TargetIsDrawing(s)' /\ Unjammed(s)'
      BY <1>u, <2>0, <2>1, <2>5 DEF TargetIsDrawing, Unjammed, FreshRing, Holding
    <2> QED
      BY <2>6, <2>7, <2>8, <2>9 DEF SlotInv
  <1> QED
    BY <1>2, <1>3

LEMMA AcquireSlots ==
  ASSUME FlipPre, Acquire
  PROVE  \A r \in Slots : SlotInv(r)'
  <1>t. /\ pc \in [Threads -> Labels] /\ cslot \in [Threads -> Slots] /\ gen \in [Slots -> Nat]
        /\ ring \in [Slots -> [Bufs -> BufState]]
    BY FlipPreFacts
  <1>1. PICK s \in Slots : s = cslot[R]
    BY <1>t
  <1>2. PICK i \in Bufs : /\ ring[s][i] = "Free"
                          /\ ring' = [ring EXCEPT ![s][i] = "Drawing"]
                          /\ tgt' = [slot |-> s, idx |-> i, gen |-> gen[s]]
    BY <1>1 DEF Acquire
  <1>u. /\ UNCHANGED <<gen, pending, inFlight, current, scan, queued, events, cslot, cidx, cgen,
                       misled>>
        /\ pc[R] = "acquire" /\ pc'[E] = pc[E] /\ pc'[R] \notin Job
    BY <1>t DEF Acquire, kernVars, jobVars, Goto, Job
  <1>3. ASSUME NEW r \in Slots, r # s PROVE SlotInv(r)'
    <2>1. Untouched(r)
      BY <1>t, <1>2, <1>u, <1>3 DEF Untouched, Job
    <2> QED
      BY <2>1, SlotFrame
  <1>4. ASSUME Sound(s)' PROVE SlotInv(s)'
    <2>0. Sound(s)
      BY <1>u, <1>4 DEF Sound, Live
    <2>1. /\ Matches(s) /\ EventConfirms(s) /\ QueuedIsInFlight(s) /\ ScanIsCurrent(s)
          /\ JobIsInFlight(s)
      BY <2>0, SlotFacts
    <2>2. \A j \in Bufs : ring'[s][j] = IF j = i THEN "Drawing" ELSE ring[s][j]
      BY <1>t, <1>2
    <2>3. Matches(s)'
      BY <1>2, <1>u, <2>1, <2>2 DEF Matches
    <2>4. EventConfirms(s)' /\ QueuedIsInFlight(s)' /\ ScanIsCurrent(s)'
      BY <1>u, <2>1 DEF EventConfirms, QueuedIsInFlight, ScanIsCurrent, Fb
    <2>5. JobIsInFlight(s)'
      BY <1>u, <2>1 DEF JobIsInFlight, Valid
    <2>6. LateIsFresh(s)'
      BY <1>2, <1>u DEF LateIsFresh
    <2>7. TargetIsDrawing(s)' /\ Unjammed(s)'
      BY <1>2, <2>2 DEF TargetIsDrawing, Unjammed
    <2> QED
      BY <2>3, <2>4, <2>5, <2>6, <2>7 DEF SlotInv
  <1> QED
    BY <1>3, <1>4 DEF SlotInv

LEMMA PresentQueuedSlots ==
  ASSUME FlipPre, PresentQueued
  PROVE  \A r \in Slots : SlotInv(r)'
  <1>t. /\ pc \in [Threads -> Labels] /\ cslot \in [Threads -> Slots]
        /\ ring \in [Slots -> [Bufs -> BufState]] /\ pending \in [Slots -> Index]
        /\ TargetOfSlot
    BY FlipPreFacts
  <1>0. Holding /\ tgt \in [slot : Slots, idx : Bufs, gen : Nat]
    BY FlipPreFacts DEF PresentQueued, TargetAtHand, Holding
  <1>1. PICK s \in Slots, i \in Bufs : s = tgt.slot /\ i = tgt.idx
    BY <1>0
  <1>u. /\ UNCHANGED <<gen, inFlight, current, scan, queued, events, cslot, cidx, cgen, misled>>
        /\ pc[R] = "draw" /\ pc' = [pc EXCEPT ![R] = "push"] /\ tgt' = NoTarget
        /\ ring[s][i] = "Drawing"
        /\ ring' = [ring EXCEPT ![s] = Presented(s, i)]
        /\ pending' = [pending EXCEPT ![s] = i]
        /\ tgt.gen = gen[s]
    BY <1>1 DEF PresentQueued, kernVars, jobVars, Goto
  <1>2. ASSUME NEW r \in Slots, r # s PROVE SlotInv(r)'
    <2>1. Untouched(r)
      BY <1>t, <1>u, <1>2 DEF Untouched, Job
    <2> QED
      BY <2>1, SlotFrame
  <1>3. ASSUME Sound(s)' PROVE SlotInv(s)'
    <2>0. Sound(s)
      BY <1>u, <1>3 DEF Sound, Live
    <2>1. /\ Matches(s) /\ EventConfirms(s) /\ QueuedIsInFlight(s) /\ ScanIsCurrent(s)
          /\ JobIsInFlight(s)
      BY <2>0, SlotFacts
    <2>2. pending'[s] = i
          /\ \A j \in Bufs : ring'[s][j] = IF j = i THEN "Pending"
                                           ELSE IF j = pending[s] THEN "Free" ELSE ring[s][j]
      BY <1>t, <1>u DEF Presented
    <2>3. Matches(s)'
      BY <1>u, <2>1, <2>2 DEF Matches
    <2>4. EventConfirms(s)' /\ QueuedIsInFlight(s)' /\ ScanIsCurrent(s)'
      BY <1>u, <2>1 DEF EventConfirms, QueuedIsInFlight, ScanIsCurrent, Fb
    <2>5. JobIsInFlight(s)'
      BY <1>t, <1>u, <2>1 DEF JobIsInFlight, Valid, Job
    <2>6. LateIsFresh(s)' /\ TargetIsDrawing(s)'
      BY <1>t, <1>u DEF LateIsFresh, TargetIsDrawing, Holding, Job
    <2>7. Unjammed(s)'
      BY <1>t, <1>0, <1>1, <1>u DEF Unjammed, TargetOfSlot
    <2> QED
      BY <2>3, <2>4, <2>5, <2>6, <2>7 DEF SlotInv
  <1> QED
    BY <1>2, <1>3 DEF SlotInv

LEMMA PresentStaleSlots ==
  ASSUME FlipPre, PresentStale
  PROVE  \A r \in Slots : SlotInv(r)'
  <1>t. /\ pc \in [Threads -> Labels] /\ cslot \in [Threads -> Slots] /\ TypeOK
        /\ scan \in [Slots -> FbIds] /\ queued \in [Slots -> FbIds] /\ gen \in [Slots -> Nat]
    BY FlipPreFacts
  <1>0. Holding /\ tgt \in [slot : Slots, idx : Bufs, gen : Nat]
    BY FlipPreFacts DEF PresentStale, TargetAtHand, Holding
  <1>1. PICK s \in Slots : s = tgt.slot
    BY <1>0
  <1>u. /\ UNCHANGED <<gen, ring, pending, inFlight, current, cslot, cidx, cgen, misled>>
        /\ pc[R] = "draw" /\ pc' = [pc EXCEPT ![R] = "pushed"] /\ tgt' = NoTarget
        /\ RmFB(s, retired \ retired')
        /\ tgt.gen # gen[s]
    BY <1>1 DEF PresentStale, jobVars, Goto
  \* What is freed is of an earlier configuration, and so is the flip that ends.
  <1>2. \A fb \in retired : fb[1] = tgt.gen
    BY RetiredFacts
  <1>3. events' = events \/ (events' = Emit(s) /\ queued[s][1] # gen[s])
    BY <1>u, <1>2 DEF RmFB
  <1>4. ASSUME NEW r \in Slots PROVE SlotInv(r)'
    <2>1. /\ In(events', r, gen[r]) <=> In(events, r, gen[r])
          /\ Once(events, r, gen[r]) => Once(events', r, gen[r])
      BY <1>t, <1>3, EmitIn
    <2>2. scan'[r] \in {scan[r], NoFb} /\ queued'[r] \in {queued[r], NoFb}
      BY <1>t, <1>u DEF RmFB
    <2>3. Untouched(r)
      BY <1>t, <1>u, <2>1, <2>2 DEF Untouched, Job
    <2> QED
      BY <2>3, SlotFrame
  <1> QED
    BY <1>4

LEMMA ClosedSlots ==
  ASSUME FlipPre, Closed
  PROVE  \A r \in Slots : SlotInv(r)'
  <1>1. pc \in [Threads -> Labels]
    BY FlipPreFacts
  <1>2. /\ UNCHANGED <<gen, ring, pending, inFlight, current, cslot, cidx, cgen, misled, tgt>>
        /\ pc[E] = "teardown" /\ pc' = [pc EXCEPT ![E] = "closed"]
        /\ \A s \in Slots : scan'[s] = NoFb /\ queued'[s] = NoFb
        /\ events' = <<>>
    BY DEF Closed, jobVars, rendVars, Goto
  <1>3. \A s \in Slots : ~In(<<>>, s, gen[s]) /\ Once(<<>>, s, gen[s])
    BY DEF In, Once
  <1>4. ASSUME NEW r \in Slots PROVE Untouched(r)
    BY <1>1, <1>2, <1>3 DEF Untouched, Job
  <1> QED
    BY <1>4, SlotFrame

\* Every step keeps what holds of the slots.
LEMMA SlotsStep ==
  ASSUME FlipPre, [Next]_vars
  PROVE  \A r \in Slots : SlotInv(r)'
  <1> USE DEF ringVars, kernVars, jobVars, rendVars, hotVars, Goto, Job
  <1>t. pc \in [Threads -> Labels] /\ cslot \in [Threads -> Slots]
    BY FlipPreFacts
  <1> DEFINE Goal == \A r \in Slots : SlotInv(r)'
  <1>1. ASSUME NEW t \in Threads, Push(t) PROVE Goal
    <2>1. CASE CommitFailed(t)
      BY <1>t, <2>1, QuietSlots DEF CommitFailed
    <2>2. CASE ModesetMark(t)
      BY <1>t, <2>2, QuietSlots DEF ModesetMark, Return
    <2> HIDE DEF Goal
    <2>3. CASE TryCommit(t) \/ CommitOk(t) \/ CommitUndo(t)
      BY <2>3, TryCommitSlots, CommitOkSlots, CommitUndoSlots DEF Goal
    <2> QED
      BY <1>1, <2>1, <2>2, <2>3 DEF Push, Goal
  <1>2. CASE LookPrimary \/ NextExtra \/ EndOfPass
    BY <1>t, <1>2, QuietSlots DEF LookPrimary, NextExtra, EndOfPass
  <1>3. CASE AcquireNothing \/ ReadRole \/ NoFramebuffer \/ PresentRefused \/ StopRenderer
    BY <1>t, <1>3, QuietSlots DEF AcquireNothing, ReadRole, NoFramebuffer, PresentRefused,
        StopRenderer
  <1>4. CASE FlipDone \/ Hotplug \/ ForcedTeardown \/ Close \/ Probe \/ EndOfProbe
    BY <1>t, <1>4, QuietSlots DEF FlipDone, Hotplug, ForcedTeardown, Close, TeardownAll, Probe,
        EndOfProbe
  <1>5. CASE \/ \E s \in Slots : KeepOutput(s)
             \/ \E c \in Conns : SkipConnector(c) \/ Plug(c)
             \/ UNCHANGED vars
    BY <1>t, <1>5, QuietSlots DEF KeepOutput, SkipConnector, Plug, vars
  <1>6. ASSUME NEW s \in Slots, Sweep(s) PROVE Goal
    BY <1>6, FlipEnds DEF Sweep
  <1>7. ASSUME NEW s \in Slots, TurnOff(s) PROVE Goal
    <2>1. /\ UNCHANGED <<gen, ring, pending, inFlight, current, misled, tgt, cidx, cgen>>
          /\ pc[E] = "teardown" /\ pc' = [pc EXCEPT ![E] = "destroy"]
          /\ cslot' = [cslot EXCEPT ![E] = s]
      BY <1>7 DEF TurnOff
    <2>2. CASE UNCHANGED kernVars
      BY <1>t, <2>1, <2>2, QuietSlots
    <2>3. CASE ~UNCHANGED kernVars
      <3>1. /\ scan' = [scan EXCEPT ![s] = NoFb] /\ queued' = [queued EXCEPT ![s] = NoFb]
            /\ events' = Emit(s)
        BY <1>7, <2>3 DEF TurnOff
      <3> QED
        BY <1>t, <2>1, <3>1, FlipEnds
    <2> QED
      BY <2>2, <2>3
  <1>8. CASE PlaneOff
    BY <1>t, <1>8, FlipEnds DEF PlaneOff
  <1> HIDE DEF Goal
  <1>9. CASE Acquire \/ PresentQueued \/ PresentStale
    BY <1>9, AcquireSlots, PresentQueuedSlots, PresentStaleSlots DEF Goal
  <1>10. CASE OnFlip \/ Destroy \/ Closed \/ \E c \in Conns : Configure(c)
    BY <1>10, OnFlipSlots, DestroySlots, ClosedSlots, ConfigureSlots DEF Goal
  <1> QED
    BY <1>1, <1>2, <1>3, <1>4, <1>5, <1>6, <1>7, <1>8, <1>9, <1>10
    DEF Next, Kernel, Renderer, EventLoop, Goal

LEMMA InitFlip == Init => FlipPre
  <1> SUFFICES ASSUME Init PROVE FlipInv
    BY InitHeld DEF FlipPre
  <1>1. KernelKnows /\ EventsKnown
    BY DEF Init, KernelKnows, FbOf, EventsKnown, UpTo
  <1>2. JobsKnown /\ TargetOfSlot /\ DeadIsEmpty
    BY DEF Init, JobsKnown, TargetOfSlot, DeadIsEmpty, Holding, Job
  <1>3. \A s \in Slots : SlotInv(s)
    BY DEF Init, SlotInv, Sound, Live
  <1> QED
    BY <1>1, <1>2, <1>3 DEF FlipInv

LEMMA FlipPreStep ==
  ASSUME FlipPre, [Next]_vars
  PROVE  FlipPre'
  <1>1. HeldInv'
    BY HeldInvStep DEF FlipPre
  <1>2. FlipInv'
    BY KernelKnowsStep, EventsStep, JobsStep, TargetSlotStep, DeadStep, SlotsStep DEF FlipInv
  <1> QED
    BY <1>1, <1>2 DEF FlipPre

\* What it implies.
LEMMA RingIsConsistent ==
  ASSUME FlipPre
  PROVE  RingConsistent
  <1>1. IndicesMatch
    BY SlotFacts DEF IndicesMatch, Matches
  <1>2. NeverJammed
    BY SlotFacts DEF NeverJammed, Unjammed
  <1>3. ASSUME NEW t \in Threads, pc[t] = "failed", Sound(cslot[t])
        PROVE  LET s == cslot[t]
               IN  IF gen[s] = cgen[t] THEN inFlight[s] = cidx[t]
                   ELSE inFlight[s] = None /\ ring[s][cidx[t]] = "Free"
    <2>1. PICK s \in Slots : s = cslot[t]
      BY FlipPreFacts
    <2>2. JobIsInFlight(s) /\ LateIsFresh(s)
      BY <1>3, <2>1, SlotFacts
    <2>3. CASE gen[s] = cgen[t]
      BY <1>3, <2>1, <2>2, <2>3 DEF JobIsInFlight, Valid, Job
    <2>4. CASE gen[s] # cgen[t]
      <3>1. t = R
        BY <1>3, <2>1, <2>4, FlipPreFacts DEF JobsKnown, Job
      <3>2. FreshRing(s) /\ cidx[t] \in Bufs
        BY <1>3, <2>1, <2>2, <2>4, <3>1, FlipPreFacts DEF LateIsFresh, Job
      <3> QED
        BY <2>1, <2>4, <3>2 DEF FreshRing
    <2> QED
      BY <2>1, <2>3, <2>4
  <1> QED
    BY <1>1, <1>2, <1>3 DEF RingConsistent, UndoIsHarmless

LEMMA FlipConfirms ==
  ASSUME FlipPre
  PROVE  FlipConfirmsFrame
  \* A framebuffer of an earlier configuration is the renderer's target, and
  \* then nothing has happened in the new ring.
  <1>1. ASSUME NEW s \in Slots, NEW fb, Sound(s), FbOf(s, fb), fb # NoFb, fb[1] # gen[s]
        PROVE  Holding /\ FreshRing(s)
    <2>1. Holding /\ tgt.slot = s /\ tgt.gen # gen[s]
      BY <1>1 DEF FbOf
    <2>2. LateIsFresh(s)
      BY <1>1, SlotFacts
    <2> QED
      BY <2>1, <2>2 DEF LateIsFresh
  <1>k. \A s \in Slots : FbOf(s, scan[s]) /\ FbOf(s, queued[s])
    BY FlipPreFacts DEF KernelKnows
  <1>2. NeverBusy
    <2> SUFFICES ASSUME NEW t \in Threads, pc[t] = "commit", Sound(cslot[t]),
                        cgen[t] = gen[cslot[t]], queued[cslot[t]] # NoFb
                 PROVE  FALSE
      BY DEF NeverBusy
    <2>1. PICK s \in Slots : s = cslot[t]
      BY FlipPreFacts
    <2>2. Valid(t, s) /\ JobIsInFlight(s) /\ cidx[t] \in Bufs
      BY <2>1, SlotFacts, FlipPreFacts DEF Valid, Job
    <2>3. inFlight[s] \in Bufs /\ queued[s][1] # gen[s]
      BY <2>2 DEF JobIsInFlight
    <2>4. Holding /\ FreshRing(s)
      BY <1>1, <1>k, <2>1, <2>3
    <2> QED
      BY <2>3, <2>4 DEF FreshRing
  <1>3. ASSUME NEW k \in 1 .. Len(events), NEW s \in Slots, s = events[k].slot,
               Sound(s), events[k].gen = gen[s], scan[s] # NoFb
        PROVE  inFlight[s] # None /\ scan[s] = Fb(s, inFlight[s])
    <2>1. events[k] \in Flips
      BY FlipPreFacts, ElementOfSeq
    <2>2. In(events, s, gen[s])
      <3>1. events[k] = [slot |-> s, gen |-> gen[s]]
        BY <1>3, <2>1 DEF Flips
      <3> QED
        BY <3>1 DEF In
    <2>3. inFlight[s] # None
      BY <1>3, <2>2, SlotFacts DEF EventConfirms
    <2>4. scan[s][1] = gen[s]
      BY <1>1, <1>3, <1>k, <2>3 DEF FreshRing
    <2> QED
      BY <1>3, <2>2, <2>3, <2>4, SlotFacts DEF ScanIsCurrent
  <1>4. \A k \in 1 .. Len(events) : events[k].slot \in Slots
    <2>1. \A k \in 1 .. Len(events) : events[k] \in Flips
      BY FlipPreFacts, ElementOfSeq
    <2> QED
      BY <2>1 DEF Flips
  <1> QED
    BY <1>2, <1>3, <1>4 DEF FlipConfirmsFrame

\* What the kernel may have after a step, and the renderer hold.
LEMMA KernelMoves ==
  ASSUME FlipPre, [Next]_vars, NEW s \in Slots
  PROVE  /\ scan'[s] \in {scan[s], queued[s], NoFb}
         /\ queued'[s] \in {queued[s], NoFb} \/ (queued'[s][1] = gen[s] /\ gen' = gen)
  <1>t. /\ scan \in [Slots -> FbIds] /\ queued \in [Slots -> FbIds] /\ cslot \in [Threads -> Slots]
    BY FlipPreFacts
  <1>1. CASE UNCHANGED <<scan, queued, events>>
    BY <1>1
  <1>2. CASE \E r \in Slots : Sweep(r) \/ TurnOff(r)
    BY <1>t, <1>2 DEF Sweep, TurnOff, kernVars
  <1>3. ASSUME NEW t \in Threads, CommitOk(t)
        PROVE  scan' = scan /\ (queued'[s] = queued[s] \/ (queued'[s][1] = gen[s] /\ gen' = gen))
    BY <1>t, <1>3 DEF CommitOk, ringVars
  <1>4. CASE PresentStale \/ Destroy
    BY <1>t, <1>4 DEF PresentStale, Destroy, RmFB
  <1>5. CASE OnFlip \/ PlaneOff \/ Closed
    BY <1>t, <1>5 DEF OnFlip, PlaneOff, Closed
  <1> QED
    BY KernelStep, <1>1, <1>2, <1>3, <1>4, <1>5

LEMMA TargetMoves ==
  ASSUME FlipPre, [Next]_vars
  PROVE  /\ misled \subseteq misled'
         /\ tgt' = tgt \/ tgt' = NoTarget \/ tgt'.gen = gen'[tgt'.slot]
  <1> USE DEF rendVars
  <1>1. ASSUME NEW t \in Threads, Push(t) PROVE misled' = misled /\ tgt' = tgt
    BY <1>1 DEF Push, TryCommit, CommitOk, CommitFailed, CommitUndo, ModesetMark
  <1>2. CASE Renderer /\ ~Push(R)
    <2>1. misled' = misled
      BY <1>2 DEF Renderer, LookPrimary, NextExtra, EndOfPass, Acquire, AcquireNothing, ReadRole,
           NoFramebuffer, PresentQueued, PresentRefused, PresentStale, StopRenderer
    <2>2. CASE Acquire
      BY <2>1, <2>2 DEF Acquire
    <2>3. CASE ~Acquire
      BY <1>2, <2>1, <2>3 DEF Renderer, LookPrimary, NextExtra, EndOfPass, AcquireNothing, ReadRole,
           NoFramebuffer, PresentQueued, PresentRefused, PresentStale, StopRenderer
    <2> QED
      BY <2>2, <2>3
  <1>3. CASE EventLoop /\ ~Push(E)
    BY <1>3 DEF EventLoop, OnFlip, FlipDone, Hotplug, ForcedTeardown, Close, TeardownAll,
        KeepOutput, TurnOff, Destroy, Probe, PlaneOff, EndOfProbe, Closed, SkipConnector, Configure
  <1>4. CASE Kernel \/ (\E c \in Conns : Plug(c)) \/ UNCHANGED vars
    BY <1>4 DEF Kernel, Sweep, Plug, vars
  <1> QED
    BY <1>1, <1>2, <1>3, <1>4 DEF Next, Renderer, EventLoop

\* A target of the present configuration is marked Drawing, what the kernel has
\* is not.
LiveTargetClear ==
    Holding /\ tgt.gen \notin misled /\ tgt.gen = gen[tgt.slot] =>
        /\ scan[tgt.slot] # <<tgt.gen, tgt.idx>>
        /\ queued[tgt.slot] # <<tgt.gen, tgt.idx>>

LEMMA LiveTargetIsClear == FlipPre => LiveTargetClear
  <1> SUFFICES ASSUME FlipPre, Holding, tgt.gen \notin misled, tgt.gen = gen[tgt.slot]
               PROVE  /\ scan[tgt.slot] # <<tgt.gen, tgt.idx>>
                      /\ queued[tgt.slot] # <<tgt.gen, tgt.idx>>
    BY DEF LiveTargetClear
  <1>0. tgt \in [slot : Slots, idx : Bufs, gen : Nat] /\ 1 <= tgt.gen
    BY FlipPreFacts DEF Holding, GenerationsFresh
  <1>1. PICK s \in Slots, i \in Bufs : s = tgt.slot /\ i = tgt.idx
    BY <1>0
  <1>2. Sound(s)
    BY <1>0, <1>1 DEF Sound, Live
  <1>3. Matches(s) /\ ScanIsCurrent(s) /\ QueuedIsInFlight(s) /\ TargetIsDrawing(s)
    BY <1>2, SlotFacts
  <1>4. ring[s][i] = "Drawing" /\ inFlight[s] # i /\ current[s] # i
    BY <1>1, <1>3 DEF TargetIsDrawing, Matches
  <1> QED
    BY <1>1, <1>3, <1>4 DEF ScanIsCurrent, QueuedIsInFlight, Fb

LEMMA NoTearStep ==
  ASSUME FlipPre, NoTear, LiveTargetClear', [Next]_vars
  PROVE  NoTear'
  <1> SUFFICES ASSUME Holding', tgt'.gen \notin misled'
               PROVE  /\ scan'[tgt'.slot] # <<tgt'.gen, tgt'.idx>>
                      /\ queued'[tgt'.slot] # <<tgt'.gen, tgt'.idx>>
    BY DEF NoTear
  <1>2. CASE tgt'.gen = gen'[tgt'.slot]
    BY <1>2 DEF LiveTargetClear
  \* The target was taken from a configuration that is gone: it was clear, and
  \* commits are of the present one.
  <1>3. CASE tgt'.gen # gen'[tgt'.slot]
    <2>1. tgt' = tgt /\ misled \subseteq misled'
      BY <1>3, TargetMoves DEF Holding
    <2>2. Holding /\ tgt \in [slot : Slots, idx : Bufs, gen : Nat]
      BY <2>1, FlipPreFacts DEF Holding
    <2>3. PICK s \in Slots : s = tgt.slot
      BY <2>2
    <2> DEFINE fb == <<tgt.gen, tgt.idx>>
    <2>4. scan[s] # fb /\ queued[s] # fb /\ NoFb # fb
      BY <2>1, <2>2, <2>3 DEF NoTear, NoFb
    <2>5. fb[1] # gen'[s]
      BY <1>3, <2>1, <2>3
    <2> HIDE DEF fb
    <2>6. scan'[s] # fb
      BY <2>4, KernelMoves
    <2>7. queued'[s] # fb
      <3>1. CASE queued'[s] \in {queued[s], NoFb}
        BY <2>4, <3>1
      <3>2. CASE queued'[s][1] = gen'[s]
        BY <2>5, <3>2
      <3> QED
        BY <3>1, <3>2, KernelMoves
    <2> QED
      BY <2>1, <2>3, <2>6, <2>7 DEF fb
  <1> QED
    BY <1>2, <1>3

-----------------------------------------------------------------------------
LEMMA FlipPreHolds == Spec => []FlipPre
  <1>1. FlipPre /\ [Next]_vars => FlipPre'
    BY FlipPreStep
  <1> QED
    BY InitFlip, <1>1, PTL DEF Spec

\* Through every interleaving of present, commit, failed commit, flip and hotplug
\* the indices and the buffer states of a ring agree, the cleanup of a failed
\* commit hits its own buffer or an untouched ring, and a ring never jams.
THEOREM RingsConsistent == Spec => []RingConsistent
  <1>1. FlipPre => RingConsistent
    BY RingIsConsistent
  <1> QED
    BY <1>1, FlipPreHolds, PTL

\* No commit of the present configuration finds a flip queued, and the event that
\* on_flip handles next confirms the frame that is on the screen.
THEOREM FlipsConfirmed == Spec => []FlipConfirmsFrame
  <1>1. FlipPre => FlipConfirmsFrame
    BY FlipConfirms
  <1> QED
    BY <1>1, FlipPreHolds, PTL

\* Display::acquire hands out a buffer that the kernel neither scans nor has
\* queued, and it stays so while the renderer draws, hotplug or not.
THEOREM NeverTears == Spec => []NoTear
  <1>1. Init => NoTear
    BY DEF Init, NoTear, Holding
  <1>2. FlipPre /\ NoTear /\ LiveTargetClear' /\ [Next]_vars => NoTear'
    BY NoTearStep
  <1> QED
    BY <1>1, <1>2, FlipPreHolds, LiveTargetIsClear, PTL DEF Spec

-----------------------------------------------------------------------------
(* How far a teardown has come: the slots left to take down are live, the    *)
(* one being taken down is live and not among them, and while close() runs   *)
(* there is no other.                                                        *)
TornDown ==
    /\ slotsLeft \subseteq LiveSlots
    /\ pc[E] = "destroy" => Live(cslot[E]) /\ cslot[E] \notin slotsLeft
    /\ mode = "close" =>
          /\ pc[E] \in {"teardown", "destroy", "closed"}
          /\ LiveSlots \subseteq slotsLeft \cup (IF pc[E] = "destroy" THEN {cslot[E]} ELSE {})
    /\ pc[E] = "closed" => mode = "close" /\ retired = {} /\ LiveSlots = {}

LEMMA TornDownStep ==
  ASSUME TypeOK, TornDown, [Next]_vars
  PROVE  TornDown'
  <1> USE DEF Goto, ringVars, jobVars, hotVars, Live, LiveSlots
  <1>t. /\ pc \in [Threads -> Labels] /\ cslot \in [Threads -> Slots] /\ gen \in [Slots -> Nat]
        /\ nextGen \in Nat /\ slotsLeft \subseteq Slots /\ mode \in {"hotplug", "test", "close"}
    BY DEF TypeOK, RingTypes, ThreadTypes
  <1>q. ASSUME UNCHANGED <<gen, slotsLeft, mode>>, pc'[E] = pc[E], cslot'[E] = cslot[E],
               retired' \subseteq retired
        PROVE  TornDown'
    BY <1>q DEF TornDown
  <1>1. ASSUME NEW t \in Threads, Push(t) PROVE TornDown'
    <2>1. UNCHANGED <<gen, slotsLeft, mode, cslot, retired>>
      BY <1>1 DEF Push, TryCommit, CommitOk, CommitFailed, CommitUndo, ModesetMark, Return
    <2>2. /\ pc[t] \in {"push", "commit", "failed", "mark"}
          /\ \E l \in {"commit", "pushed", "mark", "failed"} : pc' = [pc EXCEPT ![t] = l]
      <3>1. CASE TryCommit(t)
        BY <3>1 DEF TryCommit
      <3>2. CASE CommitOk(t) \/ CommitFailed(t) \/ CommitUndo(t) \/ ModesetMark(t)
        BY <3>2 DEF CommitOk, CommitFailed, CommitUndo, ModesetMark, Return
      <3> QED
        BY <1>1, <3>1, <3>2 DEF Push
    <2>3. CASE t = R
      BY <1>t, <1>q, <2>1, <2>2, <2>3
    <2>4. CASE t = E
      BY <1>t, <2>1, <2>2, <2>4 DEF TornDown
    <2> QED
      BY <2>3, <2>4
  <1>2. CASE Renderer /\ ~Push(R)
    <2>1. /\ UNCHANGED <<gen, slotsLeft, mode>> /\ pc'[E] = pc[E] /\ cslot'[E] = cslot[E]
          /\ retired' \subseteq retired
      BY <1>2, <1>t DEF Renderer, LookPrimary, NextExtra, EndOfPass, Acquire, AcquireNothing,
          ReadRole, NoFramebuffer, PresentQueued, PresentRefused, PresentStale, StopRenderer,
          StillRetired
    <2> QED
      BY <1>q, <2>1
  <1>3. CASE Kernel \/ (\E c \in Conns : Plug(c) \/ SkipConnector(c)) \/ UNCHANGED vars
    BY <1>q, <1>3 DEF Kernel, Sweep, Plug, vars, SkipConnector
  <1>4. CASE OnFlip \/ FlipDone \/ Probe \/ PlaneOff \/ EndOfProbe
    <2>1. UNCHANGED <<gen, slotsLeft, retired>>
      BY <1>4 DEF OnFlip, FlipDone, Probe, PlaneOff, EndOfProbe
    <2>2. pc[E] \in {"poll", "pushed", "teardown", "planeOff", "probe"} /\ mode # "close"
      BY <1>4 DEF OnFlip, FlipDone, Probe, PlaneOff, EndOfProbe, TornDown
    <2>3. pc'[E] \in {"push", "poll", "probe"} /\ mode' # "close"
      BY <1>4, <1>t, <2>2 DEF OnFlip, FlipDone, Probe, PlaneOff, EndOfProbe
    <2> QED
      BY <2>1, <2>3 DEF TornDown
  <1>5. CASE Hotplug \/ ForcedTeardown \/ Close
    <2>1. /\ UNCHANGED gen /\ slotsLeft' = LiveSlots /\ pc' = [pc EXCEPT ![E] = "teardown"]
      BY <1>5 DEF Hotplug, ForcedTeardown, Close, TeardownAll
    <2> QED
      BY <1>t, <2>1 DEF TornDown
  <1>6. ASSUME NEW s \in Slots, KeepOutput(s) PROVE TornDown'
    BY <1>6 DEF KeepOutput, TakesDown, TornDown
  <1>7. ASSUME NEW s \in Slots, TurnOff(s) PROVE TornDown'
    <2>1. /\ s \in slotsLeft /\ pc[E] = "teardown" /\ pc' = [pc EXCEPT ![E] = "destroy"]
          /\ cslot' = [cslot EXCEPT ![E] = s] /\ slotsLeft' = slotsLeft \ {s}
          /\ UNCHANGED <<gen, mode>>
      BY <1>7 DEF TurnOff, NextSlot
    <2>2. pc'[E] = "destroy" /\ cslot'[E] = s
      BY <1>t, <2>1
    <2> QED
      BY <2>1, <2>2 DEF TornDown
  <1>8. CASE Destroy
    <2>1. PICK s \in Slots : s = cslot[E]
      BY <1>t
    <2>2. /\ pc[E] = "destroy" /\ pc' = [pc EXCEPT ![E] = "teardown"]
          /\ gen' = [gen EXCEPT ![s] = 0] /\ UNCHANGED <<slotsLeft, mode>>
      BY <1>8, <2>1 DEF Destroy
    <2>3. pc'[E] = "teardown" /\ LiveSlots' = LiveSlots \ {s} /\ s \notin slotsLeft
      BY <1>t, <2>1, <2>2 DEF TornDown
    <2> HIDE DEF LiveSlots
    <2> QED
      BY <2>1, <2>2, <2>3 DEF TornDown
  <1>9. ASSUME NEW c \in Conns, Configure(c) PROVE TornDown'
    <2>1. PICK s \in Slots : gen' = [gen EXCEPT ![s] = nextGen + 1]
      BY <1>9 DEF Configure
    <2>2. /\ pc[E] = "probe" /\ pc' = [pc EXCEPT ![E] = "planeOff"]
          /\ UNCHANGED <<slotsLeft, mode>>
      BY <1>9 DEF Configure
    <2>3. LiveSlots \subseteq LiveSlots'
      BY <1>t, <2>1
    <2>4. pc'[E] = "planeOff"
      BY <1>t, <2>2
    <2> HIDE DEF LiveSlots
    <2> QED
      BY <2>2, <2>3, <2>4 DEF TornDown
  <1>10. CASE Closed
    BY <1>t, <1>10 DEF Closed, TornDown
  <1> QED
    BY <1>1, <1>2, <1>3, <1>4, <1>5, <1>6, <1>7, <1>8, <1>9, <1>10 DEF Next, Renderer, EventLoop

\* The steps that change what is allocated.
LEMMA AllocationStep ==
  ASSUME [Next]_vars
  PROVE  \/ UNCHANGED <<gen, conn, retired, liveBufs>>
         \/ PresentStale \/ Destroy \/ Closed \/ \E c \in Conns : Configure(c)
  <1> USE DEF ringVars
  <1>1. ASSUME NEW t \in Threads, Push(t) PROVE UNCHANGED <<gen, conn, retired, liveBufs>>
    BY <1>1 DEF Push, TryCommit, CommitOk, CommitFailed, CommitUndo, ModesetMark
  <1>2. CASE Renderer
    BY <1>1, <1>2 DEF Renderer, LookPrimary, NextExtra, EndOfPass, Acquire, AcquireNothing,
        ReadRole, NoFramebuffer, PresentQueued, PresentRefused, StopRenderer
  <1>3. CASE EventLoop
    BY <1>1, <1>3 DEF EventLoop, OnFlip, FlipDone, Hotplug, ForcedTeardown, Close, TeardownAll,
        KeepOutput, TurnOff, Probe, PlaneOff, EndOfProbe, SkipConnector
  <1>4. CASE Kernel \/ (\E c \in Conns : Plug(c)) \/ UNCHANGED vars
    BY <1>4 DEF Kernel, Sweep, Plug, vars
  <1> QED
    BY <1>2, <1>3, <1>4 DEF Next

\* The two halves of BuffersAccounted that need an induction.
TargetIsKept == Holding /\ tgt.gen \notin misled /\ pc[E] # "closed" =>
    tgt.gen = gen[tgt.slot] \/ <<tgt.gen, tgt.idx>> \in retired
CountIsRight == liveBufs = NBufs * Cardinality(LiveSlots) + Cardinality(retired)

LEMMA ClosedForGood ==
  ASSUME TypeOK, pc[E] = "closed", [Next]_vars
  PROVE  pc'[E] = "closed"
  <1> USE DEF Goto
  <1>t. pc \in [Threads -> Labels]
    BY DEF TypeOK, ThreadTypes
  <1>1. ASSUME NEW t \in Threads, Push(t) PROVE pc'[E] = "closed"
    <2>1. pc[t] # "closed" /\ \E l : pc' = [pc EXCEPT ![t] = l]
      <3>1. CASE TryCommit(t)
        BY <3>1 DEF TryCommit
      <3>2. CASE CommitOk(t) \/ CommitFailed(t) \/ CommitUndo(t) \/ ModesetMark(t)
        BY <3>2 DEF CommitOk, CommitFailed, CommitUndo, ModesetMark, Return
      <3> QED
        BY <1>1, <3>1, <3>2 DEF Push
    <2> QED
      BY <1>t, <2>1
  <1>2. CASE Renderer /\ ~Push(R)
    BY <1>t, <1>2 DEF Renderer, LookPrimary, NextExtra, EndOfPass, Acquire, AcquireNothing,
       ReadRole, NoFramebuffer, PresentQueued, PresentRefused, PresentStale, StopRenderer
  <1>3. CASE EventLoop /\ ~Push(E)
    BY <1>3 DEF EventLoop, OnFlip, FlipDone, Hotplug, ForcedTeardown, Close, TeardownAll,
       KeepOutput, TurnOff, Destroy, Probe, PlaneOff, EndOfProbe, Closed, SkipConnector, Configure
  <1>4. CASE Kernel \/ (\E c \in Conns : Plug(c)) \/ UNCHANGED vars
    BY <1>4 DEF Kernel, Sweep, Plug, vars
  <1> QED
    BY <1>1, <1>2, <1>3, <1>4 DEF Next, Renderer, EventLoop

LEMMA TargetIsKeptStep ==
  ASSUME FlipPre, TargetIsKept, [Next]_vars
  PROVE  TargetIsKept'
  <1>t. /\ pc \in [Threads -> Labels] /\ cslot \in [Threads -> Slots] /\ gen \in [Slots -> Nat]
    BY FlipPreFacts
  <1> SUFFICES ASSUME Holding', tgt'.gen \notin misled', pc'[E] # "closed",
                      tgt'.gen # gen'[tgt'.slot]
               PROVE  <<tgt'.gen, tgt'.idx>> \in retired'
    BY DEF TargetIsKept
  <1>1. tgt' = tgt /\ misled \subseteq misled'
    BY TargetMoves DEF Holding
  <1>2. Holding /\ tgt \in [slot : Slots, idx : Bufs, gen : Nat] /\ 1 <= tgt.gen
    BY <1>1, FlipPreFacts DEF Holding, GenerationsFresh
  <1>3. PICK s \in Slots, i \in Bufs : s = tgt.slot /\ i = tgt.idx
    BY <1>2
  <1>c. pc[E] # "closed"
    BY ClosedForGood, FlipPreFacts
  <1>4. CASE tgt.gen # gen[s]
    <2>1. <<tgt.gen, tgt.idx>> \in retired
      BY <1>1, <1>2, <1>3, <1>c, <1>4 DEF TargetIsKept
    <2>2. retired \subseteq retired'
      BY <1>1, <1>2, <1>t, AllocationStep DEF PresentStale, Destroy, Closed, Configure, Holding,
          Goto
    <2> QED
      BY <1>1, <2>1, <2>2
  \* The configuration of the target goes: what it was drawn into is retired.
  <1>5. CASE tgt.gen = gen[s]
    <2>1. gen'[s] # gen[s] /\ gen[s] # 0
      BY <1>1, <1>2, <1>3, <1>5
    <2>2. ~(\E c \in Conns : Configure(c))
      <3> SUFFICES ASSUME NEW c \in Conns, Configure(c) PROVE FALSE
        OBVIOUS
      <3>1. PICK r \in Slots : gen[r] = 0 /\ gen' = [gen EXCEPT ![r] = nextGen + 1]
        BY DEF Configure, Live
      <3> QED
        BY <1>t, <2>1, <3>1
    <2>3. Destroy
      BY <2>1, <2>2, AllocationStep DEF PresentStale, Closed
    <2>4. cslot[E] = s /\ retired' = retired \cup {Fb(s, j) : j \in HeldIn(s)}
      BY <1>t, <2>1, <2>3 DEF Destroy
    <2>5. Sound(s)
      BY <1>1, <1>5, <2>1 DEF Sound, Live
    <2>6. i \in HeldIn(s)
      BY <1>2, <1>3, <1>5, <2>5, SlotFacts DEF TargetIsDrawing, HeldIn
    <2> QED
      BY <1>1, <1>3, <1>5, <2>4, <2>6 DEF Fb
  <1> QED
    BY <1>4, <1>5

LEMMA CountIsRightStep ==
  ASSUME FlipPre, TornDown, CountIsRight, [Next]_vars
  PROVE  CountIsRight'
  <1>t. /\ cslot \in [Threads -> Slots] /\ gen \in [Slots -> Nat] /\ nextGen \in Nat
    BY FlipPreFacts
  <1>f. IsFiniteSet(retired) /\ Cardinality(retired) \in Nat
    BY FlipPreFacts, FS_CardinalityType DEF TypeOK, RingTypes
  <1>n. IsFiniteSet(LiveSlots) /\ Cardinality(LiveSlots) \in Nat
    <2>1. IsFiniteSet(Slots)
      BY FS_Interval
    <2> QED
      BY <2>1, FS_Subset, FS_CardinalityType DEF LiveSlots
  <1>b. IsFiniteSet(Bufs) /\ Cardinality(Bufs) = NBufs
    BY FS_Interval
  <1>e. Cardinality({}) = 0
    BY FS_EmptySet
  <1>1. CASE UNCHANGED <<gen, retired, liveBufs>>
    BY <1>1 DEF CountIsRight, LiveSlots, Live
  <1>2. CASE PresentStale
    <2>1. retired' = {} /\ retired \ retired' = retired
      BY <1>2, RetiredFacts DEF PresentStale, StillRetired
    <2>2. gen' = gen /\ liveBufs' = liveBufs - Cardinality(retired)
      BY <1>2, <2>1 DEF PresentStale
    <2>3. LiveSlots' = LiveSlots
      BY <2>2 DEF LiveSlots, Live
    <2> QED
      BY <1>e, <1>f, <1>n, <2>1, <2>2, <2>3 DEF CountIsRight
  <1>3. CASE Closed
    <2>1. retired' = {} /\ gen' = gen /\ liveBufs' = liveBufs - Cardinality(retired)
      BY <1>3 DEF Closed
    <2>2. LiveSlots' = LiveSlots
      BY <2>1 DEF LiveSlots, Live
    <2> QED
      BY <1>e, <1>f, <1>n, <2>1, <2>2 DEF CountIsRight
  <1>4. CASE Destroy
    <2>1. PICK s \in Slots : s = cslot[E]
      BY <1>t
    <2>2. /\ gen' = [gen EXCEPT ![s] = 0]
          /\ retired' = retired \cup {Fb(s, i) : i \in HeldIn(s)}
          /\ liveBufs' = liveBufs - Cardinality(Bufs \ HeldIn(s))
      BY <1>4, <2>1 DEF Destroy
    <2>3. s \in LiveSlots
      BY <1>4, <2>1 DEF Destroy, TornDown, LiveSlots
    <2>4. LiveSlots' = LiveSlots \ {s}
      BY <1>t, <2>2 DEF LiveSlots, Live
    <2>5. Cardinality(LiveSlots') = Cardinality(LiveSlots) - 1
      BY <1>n, <2>3, <2>4, FS_RemoveElement
    <2>6. NBufs * Cardinality(LiveSlots') = NBufs * Cardinality(LiveSlots) - NBufs
      <3> DEFINE n == Cardinality(LiveSlots)
      <3>1. n \in Nat /\ Cardinality(LiveSlots') = n - 1
        BY <1>n, <2>5
      <3> HIDE DEF n
      <3>2. NBufs * (n - 1) = NBufs * n - NBufs
        BY <3>1
      <3> QED
        BY <3>1, <3>2 DEF n
    <2>7. Cardinality(retired') = Cardinality(retired) + NBufs - Cardinality(Bufs \ HeldIn(s))
          /\ Cardinality(Bufs \ HeldIn(s)) \in Nat
      <3>1. CASE HeldIn(s) = {}
        <4>1. retired' = retired /\ Bufs \ HeldIn(s) = Bufs
          BY <2>2, <3>1
        <4>2. Cardinality(Bufs \ HeldIn(s)) = NBufs
          BY <1>b, <4>1
        <4> HIDE DEF Bufs
        <4> QED
          BY <1>f, <4>1, <4>2
      <3>2. CASE HeldIn(s) # {}
        <4>1. PICK i \in Bufs : ring[s][i] = "Drawing" /\ i \in HeldIn(s)
          BY <3>2 DEF HeldIn
        <4>2. tgt = [slot |-> s, idx |-> i, gen |-> gen[s]] /\ HeldIn(s) = {i}
          <5>1. \A j \in HeldIn(s) : tgt = [slot |-> s, idx |-> j, gen |-> gen[s]]
            BY FlipPreFacts DEF HeldIn, DrawingIsHeld
          <5>2. \A j \in HeldIn(s) : j = tgt.idx
            BY <5>1
          <5> QED
            BY <4>1, <5>1, <5>2
        <4>3. retired = {}
          BY <4>2, RetiredFacts
        <4>4. retired' = {Fb(s, i)} /\ Bufs \ HeldIn(s) = Bufs \ {i}
          BY <2>2, <4>2, <4>3
        <4>5. Cardinality(retired') = 1
          BY <4>4, FS_Singleton
        <4>6. Cardinality(Bufs \ {i}) = NBufs - 1
          <5>1. Cardinality(Bufs \ {i}) = Cardinality(Bufs) - 1
            <6> HIDE DEF Bufs
            <6> QED
              BY <1>b, <4>1, FS_RemoveElement
          <5> QED
            BY <1>b, <5>1
        <4>7. Cardinality(Bufs \ HeldIn(s)) = NBufs - 1 /\ Cardinality(retired) = 0
          BY <1>e, <4>3, <4>4, <4>6
        <4> HIDE DEF Bufs
        <4> QED
          BY <4>5, <4>7
      <3> QED
        BY <3>1, <3>2
    <2> DEFINE x == NBufs * Cardinality(LiveSlots)
               y == Cardinality(Bufs \ HeldIn(s))
    <2>8. x \in Int
      BY <1>n
    <2>9. /\ liveBufs = x + Cardinality(retired) /\ liveBufs' = liveBufs - y
          /\ NBufs * Cardinality(LiveSlots') = x - NBufs
          /\ Cardinality(retired') = Cardinality(retired) + NBufs - y /\ y \in Nat
      BY <2>2, <2>6, <2>7 DEF CountIsRight
    <2> HIDE DEF x, y
    <2>10. liveBufs' = NBufs * Cardinality(LiveSlots') + Cardinality(retired')
      BY <1>f, <2>8, <2>9
    <2> QED
      BY <2>10 DEF CountIsRight
  <1>5. ASSUME NEW c \in Conns, Configure(c) PROVE CountIsRight'
    <2>1. PICK s \in Slots : gen[s] = 0 /\ gen' = [gen EXCEPT ![s] = nextGen + 1]
      BY <1>5 DEF Configure, Live
    <2>2. retired' = retired /\ liveBufs' = liveBufs + NBufs
      BY <1>5 DEF Configure
    <2>3. LiveSlots' = LiveSlots \cup {s} /\ s \notin LiveSlots
      BY <1>t, <2>1 DEF LiveSlots, Live
    <2>4. Cardinality(LiveSlots') = Cardinality(LiveSlots) + 1
      BY <1>n, <2>3, FS_AddElement
    <2> DEFINE n == Cardinality(LiveSlots)
    <2>5. /\ n \in Nat /\ liveBufs = NBufs * n + Cardinality(retired)
          /\ Cardinality(LiveSlots') = n + 1
      BY <1>n, <2>4 DEF CountIsRight
    <2> HIDE DEF n
    <2>6. NBufs * (n + 1) = NBufs * n + NBufs /\ NBufs * n \in Int
      BY <2>5
    <2>7. liveBufs' = NBufs * Cardinality(LiveSlots') + Cardinality(retired')
      BY <1>f, <2>2, <2>5, <2>6
    <2> QED
      BY <2>7 DEF CountIsRight
  <1> QED
    BY AllocationStep, <1>1, <1>2, <1>3, <1>4, <1>5

\* live_bufs counts the buffers of the live rings and what waits for the
\* renderer, none is left after close(), and the buffer that is drawn into is
\* never freed under the renderer.
THEOREM BuffersAreAccounted == Spec => []BuffersAccounted
  <1>1. Init => TornDown /\ TargetIsKept /\ CountIsRight
    <2> SUFFICES ASSUME Init PROVE TornDown /\ TargetIsKept /\ CountIsRight
      OBVIOUS
    <2>1. LiveSlots = {} /\ retired = {} /\ liveBufs = 0
      BY DEF Init, LiveSlots, Live
    <2>2. CountIsRight
      BY <2>1, FS_EmptySet DEF CountIsRight
    <2>3. TornDown /\ TargetIsKept
      BY <2>1 DEF Init, TornDown, TargetIsKept, Holding
    <2> QED
      BY <2>2, <2>3
  <1>2. FlipPre /\ TornDown /\ TargetIsKept /\ CountIsRight /\ [Next]_vars =>
            TornDown' /\ TargetIsKept' /\ CountIsRight'
    <2>1. FlipPre => TypeOK
      BY FlipPreFacts
    <2> QED
      BY <2>1, TornDownStep, TargetIsKeptStep, CountIsRightStep
  <1>3. TornDown /\ TargetIsKept /\ CountIsRight => BuffersAccounted
    <2> SUFFICES ASSUME TornDown, TargetIsKept, CountIsRight PROVE BuffersAccounted
      OBVIOUS
    <2>1. pc[E] = "closed" => liveBufs = 0
      <3>1. pc[E] = "closed" => LiveSlots = {} /\ retired = {}
        BY DEF TornDown
      <3> QED
        BY <3>1, FS_EmptySet DEF CountIsRight
    <2> QED
      BY <2>1 DEF TargetIsKept, CountIsRight, BuffersAccounted
  <1> QED
    BY <1>1, <1>2, <1>3, FlipPreHolds, PTL DEF Spec

-----------------------------------------------------------------------------
(* The role.  Between two passes of the loop the rule holds; within one, it  *)
(* holds or the loop knows that an output came or went (changed).  This is   *)
(* lost with VRX_TEST_TEARDOWN, which clears the role and not changed.       *)
LiveIsConnected == \A s \in Slots : Live(s) => conn[s] \in Conns
RoleRule ==
    IF LiveSlots = {} THEN primary = None
    ELSE /\ primary \in LiveSlots
         /\ \A s \in LiveSlots : Rank[conn[primary]] <= Rank[conn[s]]
Waiting == {"poll", "push", "commit", "failed", "mark", "pushed"}
RoleInv == ~TestTeardown =>
    /\ mode # "test"
    /\ pc[E] \in Waiting => RoleRule /\ mode = "hotplug"
    /\ pc[E] \in {"teardown", "probe"} => changed \/ RoleRule \/ mode = "close"
    /\ pc[E] = "planeOff" => changed
    /\ pc[E] \in {"probe", "planeOff"} => mode = "hotplug"

LEMMA ConnectedStep ==
  ASSUME TypeOK, LiveIsConnected, [Next]_vars
  PROVE  LiveIsConnected'
  <1> USE DEF ringVars
  <1>t. /\ gen \in [Slots -> Nat] /\ conn \in [Slots -> Conns \cup {NoConn}]
        /\ cslot \in [Threads -> Slots]
    BY DEF TypeOK, RingTypes, ThreadTypes
  <1>1. CASE UNCHANGED <<gen, conn>>
    BY <1>1 DEF LiveIsConnected, Live
  <1>2. CASE Destroy
    BY <1>t, <1>2 DEF Destroy, LiveIsConnected, Live
  <1>3. ASSUME NEW c \in Conns, Configure(c) PROVE LiveIsConnected'
    <2>1. PICK s \in Slots : /\ conn' = [conn EXCEPT ![s] = c]
                             /\ gen' = [gen EXCEPT ![s] = nextGen + 1]
      BY <1>3 DEF Configure
    <2> QED
      BY <1>t, <2>1 DEF LiveIsConnected, Live
  <1> QED
    BY AllocationStep, <1>1, <1>2, <1>3 DEF PresentStale, Closed

\* assign_roles: what it may choose obeys the rule.
LEMMA BestObeys ==
  ASSUME LiveIsConnected, NEW p \in Best
  PROVE  IF LiveSlots = {} THEN p = None
         ELSE p \in LiveSlots /\ \A s \in LiveSlots : Rank[conn[p]] <= Rank[conn[s]]
  <1>1. \A s \in LiveSlots : Rank[conn[s]] \in 0 .. 2
    BY DEF LiveIsConnected, LiveSlots
  <1>2. CASE LiveSlots = {}
    BY <1>2 DEF Best
  <1>3. CASE LiveSlots # {}
    <2>1. p \in LiveSlots
      BY <1>3 DEF Best
    <2>2. ASSUME NEW s \in LiveSlots PROVE Rank[conn[p]] <= Rank[conn[s]]
      <3>1. Rank[conn[p]] < Rank[conn[s]] \/ Rank[conn[p]] = Rank[conn[s]]
        BY <1>3 DEF Best
      <3>2. Rank[conn[p]] \in 0 .. 2 /\ Rank[conn[s]] \in 0 .. 2
        BY <1>1, <2>1
      <3> QED
        BY <3>1, <3>2
    <2> QED
      BY <1>3, <2>1, <2>2
  <1> QED
    BY <1>2, <1>3

LEMMA RoleStep ==
  ASSUME TypeOK, LiveIsConnected, RoleInv, ~TestTeardown, [Next]_vars
  PROVE  RoleInv'
  <1> USE DEF Goto, Waiting, ringVars, hotVars
  <1>t. /\ pc \in [Threads -> Labels] /\ mode \in {"hotplug", "test", "close"}
    BY DEF TypeOK, ThreadTypes
  <1>i. /\ mode # "test"
        /\ pc[E] \in Waiting => RoleRule /\ mode = "hotplug"
        /\ pc[E] \in {"teardown", "probe"} => changed \/ RoleRule \/ mode = "close"
        /\ pc[E] = "planeOff" => changed
        /\ pc[E] \in {"probe", "planeOff"} => mode = "hotplug"
    BY DEF RoleInv
  <1>r. ASSUME UNCHANGED <<gen, conn, primary>> PROVE RoleRule' <=> RoleRule
    BY <1>r DEF RoleRule, LiveSlots, Live
  <1>q. ASSUME UNCHANGED <<gen, conn, primary, mode, changed>>, pc'[E] = pc[E]
        PROVE  RoleInv'
    BY <1>i, <1>q, <1>r DEF RoleInv
  <1>w. ASSUME UNCHANGED <<gen, conn, primary, mode, changed>>,
               pc[E] \in Waiting, pc'[E] \in Waiting
        PROVE  RoleInv'
    BY <1>i, <1>w, <1>r DEF RoleInv
  <1>1. ASSUME NEW t \in Threads, Push(t) PROVE RoleInv'
    <2>1. UNCHANGED <<gen, conn, primary, mode, changed>>
      BY <1>1 DEF Push, TryCommit, CommitOk, CommitFailed, CommitUndo, ModesetMark
    <2>2. /\ pc[t] \in Waiting
          /\ \E l \in Waiting : pc' = [pc EXCEPT ![t] = l]
      <3>1. CASE TryCommit(t)
        BY <3>1 DEF TryCommit
      <3>2. CASE CommitOk(t) \/ CommitFailed(t) \/ CommitUndo(t) \/ ModesetMark(t)
        BY <3>2 DEF CommitOk, CommitFailed, CommitUndo, ModesetMark, Return
      <3> QED
        BY <1>1, <3>1, <3>2 DEF Push
    <2>3. CASE t = R
      BY <1>t, <1>q, <2>1, <2>2, <2>3
    <2>4. CASE t = E
      BY <1>t, <1>w, <2>1, <2>2, <2>4
    <2> QED
      BY <2>3, <2>4
  <1>2. CASE Renderer /\ ~Push(R)
    <2>1. UNCHANGED <<gen, conn, primary, mode, changed>> /\ pc'[E] = pc[E]
      BY <1>2, <1>t DEF Renderer, LookPrimary, NextExtra, EndOfPass, Acquire, AcquireNothing,
          ReadRole, NoFramebuffer, PresentQueued, PresentRefused, PresentStale, StopRenderer
    <2> QED
      BY <1>q, <2>1
  <1>3. CASE Kernel \/ (\E c \in Conns : Plug(c)) \/ UNCHANGED vars
    BY <1>q, <1>3 DEF Kernel, Sweep, Plug, vars
  <1>4. CASE (\E c \in Conns : SkipConnector(c)) \/ (\E s \in Slots : KeepOutput(s))
    BY <1>q, <1>4 DEF SkipConnector, KeepOutput
  <1>5. CASE OnFlip \/ FlipDone
    <2>1. UNCHANGED <<gen, conn, primary, mode, changed>>
      BY <1>5 DEF OnFlip, FlipDone
    <2>2. pc[E] \in Waiting /\ pc'[E] \in Waiting
      BY <1>5, <1>t DEF OnFlip, FlipDone
    <2> QED
      BY <1>w, <2>1, <2>2
  <1>6. CASE Hotplug \/ ForcedTeardown \/ Close
    <2>1. /\ UNCHANGED <<gen, conn, primary>> /\ pc[E] = "poll" /\ pc'[E] = "teardown"
          /\ mode' \in {"hotplug", "close"}
      BY <1>6, <1>t DEF Hotplug, ForcedTeardown, Close, TeardownAll
    <2> QED
      BY <1>i, <1>r, <2>1 DEF RoleInv
  <1>7. ASSUME NEW s \in Slots, TurnOff(s) PROVE RoleInv'
    <2>1. mode' = mode /\ pc'[E] = "destroy"
      BY <1>7, <1>t DEF TurnOff
    <2> QED
      BY <1>i, <2>1 DEF RoleInv
  <1>8. CASE Destroy
    <2>1. mode' = mode /\ changed' = (mode = "hotplug") /\ pc'[E] = "teardown"
      BY <1>8, <1>t DEF Destroy
    <2> QED
      BY <1>i, <1>t, <2>1 DEF RoleInv
  <1>9. CASE Probe
    <2>1. /\ UNCHANGED <<gen, conn, primary, mode, changed>> /\ pc[E] = "teardown" /\ mode # "close"
          /\ pc'[E] = "probe"
      BY <1>9, <1>t, <1>i DEF Probe
    <2> QED
      BY <1>i, <1>r, <1>t, <2>1 DEF RoleInv
  <1>10. ASSUME NEW c \in Conns, Configure(c) PROVE RoleInv'
    <2>1. mode' = mode /\ changed' = (mode = "hotplug") /\ pc[E] = "probe" /\ pc'[E] = "planeOff"
      BY <1>10, <1>t DEF Configure
    <2> QED
      BY <1>i, <2>1 DEF RoleInv
  <1>11. CASE PlaneOff
    <2>1. UNCHANGED <<mode, changed>> /\ pc[E] = "planeOff" /\ pc'[E] = "probe"
      BY <1>11, <1>t DEF PlaneOff
    <2> QED
      BY <1>i, <2>1 DEF RoleInv
  <1>12. CASE EndOfProbe
    <2>1. /\ UNCHANGED <<gen, conn>> /\ mode' = "hotplug" /\ pc[E] = "probe" /\ pc'[E] = "poll"
          /\ primary' \in (IF changed THEN Best ELSE {primary})
      BY <1>12, <1>t DEF EndOfProbe
    <2>2. RoleRule'
      <3>1. CASE changed
        <4>1. primary' \in Best
          BY <2>1, <3>1
        <4>2. LiveSlots' = LiveSlots
          BY <2>1 DEF LiveSlots, Live
        <4> QED
          BY <2>1, <4>1, <4>2, BestObeys DEF RoleRule
      <3>2. CASE ~changed
        <4>1. primary' = primary
          BY <2>1, <3>2
        <4> QED
          BY <1>i, <1>r, <2>1, <3>2, <4>1
      <3> QED
        BY <3>1, <3>2
    <2> QED
      BY <2>1, <2>2 DEF RoleInv
  <1>13. CASE Closed
    <2>1. mode' = mode /\ pc'[E] = "closed"
      BY <1>13, <1>t DEF Closed
    <2> QED
      BY <1>i, <2>1 DEF RoleInv
  <1> QED
    BY <1>1, <1>2, <1>3, <1>4, <1>5, <1>6, <1>7, <1>8, <1>9, <1>10, <1>11, <1>12, <1>13
    DEF Next, Renderer, EventLoop

\* In normal operation (VRX_TEST_TEARDOWN not set) the primary between two passes
\* of the event loop is an output of the lowest rank, whatever was plugged and
\* unplugged in between.
THEOREM RoleByTheRule == Spec => [](~TestTeardown => RoleFollowsRule)
  <1>1. Init => LiveIsConnected /\ RoleInv
    BY DEF Init, LiveIsConnected, RoleInv, Live, Waiting
  <1>2. TypeOK /\ LiveIsConnected /\ RoleInv /\ [Next]_vars => LiveIsConnected' /\ RoleInv'
    <2>1. TestTeardown => RoleInv'
      BY DEF RoleInv
    <2> QED
      BY <2>1, ConnectedStep, RoleStep
  <1>3. RoleInv => (~TestTeardown => RoleFollowsRule)
    BY DEF RoleInv, RoleRule, RoleFollowsRule, Waiting
  <1> QED
    BY <1>1, <1>2, <1>3, TypeCorrect, PTL DEF Spec
============================================================================
