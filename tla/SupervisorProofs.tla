-------------------------- MODULE SupervisorProofs --------------------------
(***************************************************************************)
(* Three invariants of the supervisor, for any number of signals, any set  *)
(* of helpers and forks that fail or not: the screen has one owner,        *)
(* nothing is started beside a process of its kind, and the pause before a *)
(* restart is the one of the failures in a row.                            *)
(*                                                                         *)
(* The first two follow from whom the supervisor knows: a living or        *)
(* unreaped program is the one it waits for (OwnerKnown), and a living or  *)
(* unreaped helper is registered or about to be (HelperKnown).  The third  *)
(* has a part of its own at the end.                                       *)
(***************************************************************************)
EXTENDS Supervisor, TLAPS

Known(h) == IF h = "relay" THEN gRelay ELSE gKeeper

\* The types the proof needs.
Shape ==
    /\ state \in [Procs -> Alive \cup {"none", "dead"}]
    /\ what \in Programs /\ helper \in {"relay", "keeper"}
    /\ gRelay \in BOOLEAN /\ gKeeper \in BOOLEAN

\* A program that is not reaped is the one the supervisor waits for.
OwnerKnown ==
    /\ \A p \in Programs : state[p] # "none" => p = what /\ (pc = "child" \/ gChild = what)
    /\ gChild # "none" => gChild = what /\ pc \in {"wait", "nap", "test", "fork", "set"}
    /\ pc = "wait" => gChild = what

\* A helper that is not reaped is registered, and one being started is not.
HelperKnown ==
    /\ \A h \in {"relay", "keeper"} :
          state[h] # "none" => Known(h) \/ (pc = "set" /\ helper = h)
    /\ pc \in {"nap", "test", "fork", "set"} => ~Known(helper)
    /\ gChild = "none" /\ helper = "relay" /\ pc \in {"test", "fork", "set"} => ~gKeeper
    /\ pc = "nap" => gChild # "none"

KnownInv == Shape /\ OwnerKnown /\ HelperKnown

\* The invariant holds at the start.
LEMMA InitKnown == Init => KnownInv
  BY DEF Init, KnownInv, Shape, OwnerKnown, HelperKnown, Known, Procs, Programs, Alive

\* A signal gives no process an end and starts none.
LEMMA SignalKnown == KnownInv /\ Signal => KnownInv'
<1> SUFFICES ASSUME KnownInv, Signal PROVE KnownInv'
  OBVIOUS
<1>1. state' \in [Procs -> Alive \cup {"none", "dead"}]
  BY DEF KnownInv, Shape, Signal, Told, Alive
<1>2. \A p \in Procs : state'[p] # "none" => state[p] # "none"
  BY DEF KnownInv, Shape, Signal, Told, Alive
<1> QED
  BY <1>1, <1>2 DEF KnownInv, Shape, OwnerKnown, HelperKnown, Known, Signal, Procs, Programs

\* Nor does the life of a process or of the keeper bring forth a program or helper.
LEMMA WorldKnown ==
    KnownInv /\ (Keeper \/ KeeperKilled \/ \E p \in Procs : Exec(p) \/ Exit(p)) => KnownInv'
<1> SUFFICES ASSUME KnownInv, Keeper \/ KeeperKilled \/ \E p \in Procs : Exec(p) \/ Exit(p)
             PROVE  KnownInv'
  OBVIOUS
<1>1. UNCHANGED <<pc, helper, what, gChild, gRelay, gKeeper>>
  BY DEF Keeper, KeeperKilled, Exec, Exit, KeeperStart, KeeperSignal, KeeperLoop, KeeperFork,
         KeeperForkFails, KeeperSetChild, KeeperReap, KeeperSleep, KeeperExit, rest, gVars
<1>2. /\ state' \in [Procs -> Alive \cup {"none", "dead"}]
      /\ \A p \in Procs \ {"rtsp"} : state'[p] # "none" => state[p] # "none"
  <2>1. CASE Keeper
    BY <2>1 DEF Keeper, KeeperStart, KeeperSignal, KeeperLoop, KeeperFork, KeeperForkFails,
                KeeperSetChild, KeeperReap, KeeperSleep, KeeperExit, Told, KnownInv, Shape,
                Alive, Procs, Programs, KeeperRuns
  <2>2. CASE KeeperKilled
    BY <2>2 DEF KeeperKilled, KnownInv, Shape, Alive, Procs, Programs
  <2>3. CASE \E p \in Procs : Exec(p) \/ Exit(p)
    BY <2>3 DEF Exec, Exit, KnownInv, Shape, Alive, Procs, Programs
  <2> QED BY <2>1, <2>2, <2>3
<1> QED
  BY <1>1, <1>2 DEF KnownInv, Shape, OwnerKnown, HelperKnown, Known, Procs, Programs

\* The steps that start a helper.
LEMMA HelperStartKnown == KnownInv /\ StartHelper => KnownInv'
<1> SUFFICES ASSUME KnownInv, StartHelper PROVE KnownInv'
  OBVIOUS
<1> USE DEF KnownInv, Shape, OwnerKnown, HelperKnown, Known, Procs, Programs, Alive, gVars
<1>1. CASE HelperTest
  BY <1>1 DEF HelperTest, HelperDone
<1>2. CASE HelperFork
  BY <1>2 DEF HelperFork
<1>3. CASE HelperForkFails
  BY <1>3 DEF HelperForkFails, HelperDone
<1>4. CASE HelperSet
  BY <1>4 DEF HelperSet, HelperDone
<1>5. CASE Nap
  BY <1>5 DEF Nap
<1> QED
  BY <1>1, <1>2, <1>3, <1>4, <1>5 DEF StartHelper

\* The steps of main and run_and_wait.
LEMMA MainKnown == KnownInv /\ Main => KnownInv'
<1> SUFFICES ASSUME KnownInv, Main PROVE KnownInv'
  OBVIOUS
<1> USE DEF KnownInv, Shape, OwnerKnown, HelperKnown, Known, Procs, Programs, Alive, gVars
<1>1. CASE StartHelper
  BY <1>1, HelperStartKnown
<1>2. CASE Loop
  BY <1>2 DEF Loop
<1>3. CASE Run
  BY <1>3 DEF Run
<1>4. CASE RunFails
  BY <1>4 DEF RunFails
<1>5. CASE SetChild
  BY <1>5 DEF SetChild
<1>6. CASE Reap
  <2>1. PICK p \in Procs : ReapHelper(p) \/ ReapOwn(p)
    BY <1>6 DEF Reap
  <2>2. CASE ReapHelper(p)
    <3>1. p = Kind(p) /\ p \in {"relay", "keeper"}
      BY <2>2 DEF ReapHelper, Reaped, Kind
    <3> QED
      BY <2>2, <3>1 DEF ReapHelper, Reaped, Kind
  <2>3. CASE ReapOwn(p)
    <3>1. p = what
      BY <2>3 DEF ReapOwn, Reaped, Kind
    <3> QED
      BY <2>3, <3>1 DEF ReapOwn, Reaped
  <2> QED BY <2>1, <2>2, <2>3
<1>7. CASE After
  BY <1>7 DEF After
<1>8. CASE Sleep
  BY <1>8 DEF Sleep
<1> QED
  BY <1>1, <1>2, <1>3, <1>4, <1>5, <1>6, <1>7, <1>8 DEF Main

\* Every step keeps the invariant.
LEMMA StepKnown == KnownInv /\ [Next]_vars => KnownInv'
<1> SUFFICES ASSUME KnownInv, [Next]_vars PROVE KnownInv'
  OBVIOUS
<1>1. CASE Next
  BY <1>1, SignalKnown, WorldKnown, MainKnown DEF Next
<1>2. CASE UNCHANGED vars
  BY <1>2 DEF vars, gVars, KnownInv, Shape, OwnerKnown, HelperKnown, Known
<1> QED BY <1>1, <1>2

\* Station and editor never live together, and none outlives the supervisor:
\* run_and_wait gives up a program only when it has reaped it.
THEOREM OneOwner == Spec => []ScreenHasOneOwner
<1>1. KnownInv => ScreenHasOneOwner
  BY DEF KnownInv, OwnerKnown, ScreenHasOneOwner, Programs, Alive
<1> QED
  BY <1>1, InitKnown, StepKnown, PTL DEF Spec

\* Neither a program nor a helper is forked while one of its kind lives or
\* is not reaped.
THEOREM OneOfAKind == Spec => []NoSecondOfAKind
<1>1. KnownInv => NoSecondOfAKind
  BY DEF KnownInv, Shape, OwnerKnown, HelperKnown, NoSecondOfAKind, Programs, Known
<1> QED
  BY <1>1, InitKnown, StepKnown, PTL DEF Spec

-----------------------------------------------------------------------------
(* The pause.  fail_streak is the number of failures in a row, cut at four *)
(* (StreakIsCut): it is what the pause was reckoned from, and nothing      *)
(* between that and the sleep changes it.                                  *)

StreakIsCut == failStreak = Least(shorts, 4)

PauseInv == TypeOK /\ StreakIsCut /\ PauseIsRight

\* The pauses there are: of one to three failures, and of more.
LEMMA PauseValues ==
    /\ Pause(1) = 1 /\ Pause(2) = 2 /\ Pause(3) = 4 /\ Pause(4) = 8
    /\ \A n : (n = 0 => 2 ^ n = 1) /\ (n = 1 => 2 ^ n = 2) /\ (n = 2 => 2 ^ n = 4)
<1>1. 1 - 1 = 0 /\ 2 - 1 = 1 /\ 3 - 1 = 2 /\ 4 - 1 = 3
  OBVIOUS
<1>2. 2 ^ 0 = 1 /\ 2 ^ 1 = 2 /\ 2 ^ 2 = 4 /\ 2 ^ 3 = 8
  OBVIOUS
<1>3. \A n \in {1, 2, 4, 8} : Least(n, 8) = n
  BY DEF Least
<1>4. \A n : (n = 0 => 2 ^ n = 1) /\ (n = 1 => 2 ^ n = 2) /\ (n = 2 => 2 ^ n = 4)
  BY <1>2, Zenon
<1> QED
  BY <1>1, <1>2, <1>3, <1>4 DEF Pause

LEMMA InitPause == Init => PauseInv
<1> SUFFICES ASSUME Init PROVE PauseInv
  OBVIOUS
<1>1. TypeOK
  <2>1. signals \in 0 .. MaxSignals /\ failStreak \in 0 .. 4 /\ back \in 0 .. 8 /\ shorts \in 0 .. 5
    BY SupervisorAssumption DEF Init
  <2>2. state \in [Procs -> Alive \cup {"none", "dead"}]
    BY DEF Init
  <2> QED
    BY <2>1, <2>2 DEF Init, TypeOK, Programs
<1>2. StreakIsCut /\ PauseIsRight
  BY DEF Init, StreakIsCut, PauseIsRight, Least
<1> QED BY <1>1, <1>2 DEF PauseInv

\* A signal, and the life of the processes and of the keeper.
LEMMA WorldPause ==
    PauseInv /\ (Signal \/ Keeper \/ KeeperKilled \/ \E p \in Procs : Exec(p) \/ Exit(p)) => PauseInv'
<1> SUFFICES ASSUME PauseInv, Signal \/ Keeper \/ KeeperKilled \/ \E p \in Procs : Exec(p) \/ Exit(p)
             PROVE  PauseInv'
  OBVIOUS
<1>1. UNCHANGED <<pc, helper, what, gChild, gRelay, gKeeper, failStreak, back, request, shorts>>
  BY DEF Signal, Keeper, KeeperKilled, Exec, Exit, KeeperStart, KeeperSignal, KeeperLoop, KeeperFork,
         KeeperForkFails, KeeperSetChild, KeeperReap, KeeperSleep, KeeperExit, rest, gVars, hist
<1>2. /\ state' \in [Procs -> Alive \cup {"none", "dead"}] /\ gStop' \in BOOLEAN
      /\ kPc' \in {"none", "start", "loop", "fork", "child", "wait", "sleep", "exit"}
      /\ kStop' \in BOOLEAN /\ kChild' \in BOOLEAN
      /\ signals' \in 0 .. MaxSignals /\ wanted' \in BOOLEAN
  <2> USE DEF PauseInv, TypeOK, Alive, rest, gVars, hist, kVars
  <2>1. CASE Signal
    BY <2>1, SupervisorAssumption DEF Signal, Told
  <2>2. CASE Keeper
    BY <2>2 DEF Keeper, KeeperStart, KeeperSignal, KeeperLoop, KeeperFork, KeeperForkFails,
                KeeperSetChild, KeeperReap, KeeperSleep, KeeperExit, Told, KeeperRuns
  <2>3. CASE KeeperKilled
    BY <2>3 DEF KeeperKilled
  <2>4. CASE \E p \in Procs : Exec(p) \/ Exit(p)
    BY <2>4 DEF Exec, Exit
  <2> QED BY <2>1, <2>2, <2>3, <2>4
<1>3. TypeOK'
  BY <1>1, <1>2 DEF PauseInv, TypeOK
<1>4. StreakIsCut' /\ PauseIsRight'
  BY <1>1 DEF PauseInv, StreakIsCut, PauseIsRight
<1> QED BY <1>3, <1>4 DEF PauseInv

\* The steps of main that count no failure and do not lead to the sleep.
LEMMA MainPause == PauseInv /\ Main /\ ~After => PauseInv'
<1> SUFFICES ASSUME PauseInv, Main, ~After PROVE PauseInv'
  OBVIOUS
<1>1. /\ UNCHANGED <<failStreak, back, gStop, signals, shorts, wanted>>
      /\ pc' # "sleep"
  BY DEF Main, StartHelper, HelperTest, HelperFork, HelperForkFails, HelperSet, HelperDone, Nap,
         Loop, Run, RunFails, SetChild, Reap, ReapHelper, ReapOwn, Sleep, kVars, gVars, hist
<1>2. /\ pc' \in {"test", "fork", "set", "nap", "loop", "run", "child", "wait", "after", "ended"}
      /\ helper' \in {"relay", "keeper"} /\ what' \in Programs
  BY DEF PauseInv, TypeOK, Main, StartHelper, HelperTest, HelperFork, HelperForkFails, HelperSet,
         HelperDone, Nap, Loop, Run, RunFails, SetChild, Reap, ReapHelper, ReapOwn, Sleep, Programs
<1>3. /\ gChild' \in Programs \cup {"none"} /\ gRelay' \in BOOLEAN /\ gKeeper' \in BOOLEAN
      /\ request' \in BOOLEAN
  BY DEF PauseInv, TypeOK, Main, StartHelper, HelperTest, HelperFork, HelperForkFails, HelperSet,
         HelperDone, Nap, Loop, Run, RunFails, SetChild, Reap, ReapHelper, ReapOwn, Sleep, gVars, Programs
<1>4. /\ state' \in [Procs -> Alive \cup {"none", "dead"}]
      /\ kPc' \in {"none", "start", "loop", "fork", "child", "wait", "sleep", "exit"}
      /\ kStop' \in BOOLEAN /\ kChild' \in BOOLEAN
  BY DEF PauseInv, TypeOK, Main, StartHelper, HelperTest, HelperFork, HelperForkFails, HelperSet,
         HelperDone, Nap, Loop, Run, RunFails, SetChild, Reap, ReapHelper, ReapOwn, Reaped, Sleep,
         Alive, kVars
<1>5. TypeOK'
  BY <1>1, <1>2, <1>3, <1>4 DEF PauseInv, TypeOK
<1>6. StreakIsCut' /\ PauseIsRight'
  BY <1>1 DEF PauseInv, StreakIsCut, PauseIsRight
<1> QED BY <1>5, <1>6 DEF PauseInv

\* run_and_wait has returned: the failure is counted, or forgotten.
LEMMA AfterPause == PauseInv /\ After => PauseInv'
<1> SUFFICES ASSUME PauseInv, After PROVE PauseInv'
  OBVIOUS
<1>1. UNCHANGED <<helper, gVars, request, kVars, state, signals, wanted>>
  BY DEF After
<1>2. TypeOK
  BY DEF PauseInv
<1>3. pc' \in {"ended", "run", "loop", "sleep"} /\ what' \in Programs
  BY <1>2 DEF After, TypeOK, Programs
<1>4. CASE UNCHANGED <<failStreak, back, shorts>> /\ pc' # "sleep"
  <2>1. TypeOK'
    BY <1>1, <1>2, <1>3, <1>4 DEF TypeOK, gVars, kVars
  <2> QED
    BY <1>4, <2>1 DEF PauseInv, StreakIsCut, PauseIsRight
<1>5. CASE failStreak' = 0 /\ shorts' = 0 /\ back' = back /\ pc' # "sleep"
  <2>1. TypeOK'
    BY <1>1, <1>2, <1>3, <1>5 DEF TypeOK, gVars, kVars
  <2>2. StreakIsCut'
    BY <1>5 DEF StreakIsCut, Least
  <2> QED
    BY <1>5, <2>1, <2>2 DEF PauseInv, PauseIsRight
<1>6. ASSUME NEW healthy \in BOOLEAN,
             failStreak' = Streak(healthy),
             shorts' = Least((IF healthy THEN 0 ELSE shorts) + 1, 5),
             back' = Pause(failStreak')
      PROVE  PauseInv'
  <2>1. shorts \in 0 .. 5 /\ failStreak = Least(shorts, 4)
    BY <1>2 DEF PauseInv, TypeOK, StreakIsCut
  <2>2. shorts' \in 1 .. 5 /\ failStreak' = Least(shorts', 4)
    BY <1>6, <2>1 DEF Streak, Least
  <2>3. \/ shorts' = 1 /\ failStreak' = 1
        \/ shorts' = 2 /\ failStreak' = 2
        \/ shorts' = 3 /\ failStreak' = 3
        \/ shorts' \in {4, 5} /\ failStreak' = 4
    BY <2>2 DEF Least
  <2>4. back' \in {1, 2, 4, 8} /\ back' = (IF shorts' >= 4 THEN 8 ELSE 2 ^ (shorts' - 1))
    <3>1. CASE shorts' \in {4, 5} /\ failStreak' = 4
      BY <1>6, <3>1, PauseValues
    <3>2. CASE shorts' = 1 /\ failStreak' = 1
      <4>1. shorts' - 1 = 0
        BY <3>2
      <4> QED BY <1>6, <3>2, <4>1, PauseValues
    <3>3. CASE shorts' = 2 /\ failStreak' = 2
      <4>1. shorts' - 1 = 1
        BY <3>3
      <4> QED BY <1>6, <3>3, <4>1, PauseValues
    <3>4. CASE shorts' = 3 /\ failStreak' = 3
      <4>1. shorts' - 1 = 2
        BY <3>4
      <4> QED BY <1>6, <3>4, <4>1, PauseValues
    <3> QED BY <2>3, <3>1, <3>2, <3>3, <3>4
  <2>5. failStreak' \in 0 .. 4 /\ shorts' \in 0 .. 5 /\ back' \in 0 .. 8
    BY <2>3, <2>4
  <2>6. TypeOK'
    BY <1>1, <1>2, <1>3, <2>5 DEF TypeOK, gVars, kVars
  <2> QED
    BY <2>2, <2>4, <2>6 DEF PauseInv, StreakIsCut, PauseIsRight
<1>7. \/ UNCHANGED <<failStreak, back, shorts>> /\ pc' # "sleep"
      \/ failStreak' = 0 /\ shorts' = 0 /\ back' = back /\ pc' # "sleep"
      \/ \E healthy \in BOOLEAN :
            /\ failStreak' = Streak(healthy)
            /\ shorts' = Least((IF healthy THEN 0 ELSE shorts) + 1, 5)
            /\ back' = Pause(failStreak')
  BY DEF After
<1> QED
  BY <1>4, <1>5, <1>6, <1>7

LEMMA StepPause == PauseInv /\ [Next]_vars => PauseInv'
<1> SUFFICES ASSUME PauseInv, [Next]_vars PROVE PauseInv'
  OBVIOUS
<1>1. CASE Next
  BY <1>1, WorldPause, MainPause, AfterPause DEF Next
<1>2. CASE UNCHANGED vars
  BY <1>2 DEF vars, gVars, kVars, hist, PauseInv, TypeOK, StreakIsCut, PauseIsRight
<1> QED BY <1>1, <1>2

\* The pause before a restart is the one of the failures in a row since the
\* last healthy life or editor, whatever helpers, signals and forks do between.
THEOREM PauseFollows == Spec => []PauseFollowsFailures
<1>1. PauseInv => PauseFollowsFailures
  BY DEF PauseInv, PauseFollowsFailures
<1> QED
  BY <1>1, InitPause, StepPause, PTL DEF Spec

=============================================================================
