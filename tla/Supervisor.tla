----------------------------- MODULE Supervisor -----------------------------
(***************************************************************************)
(* supervisor/supervisor.c: the process that runs the station or the       *)
(* editor on the screen, the relay of the USB camera beside them, and a    *)
(* keeper, forked from itself, that runs the RTSP server.                  *)
(*                                                                         *)
(* One step is one system call or one assignment that a signal may come    *)
(* before or after.  A process is named by what it runs: the supervisor    *)
(* starts one of a kind only after it has reaped the last (NoSecondOfAKind *)
(* checks it).  A child between fork and exec still has the handler of its *)
(* parent, so a signal sent to it then is spent.  Length of life is        *)
(* "healthy" (above HEALTHY_MS) or not, a pause is one step.               *)
(***************************************************************************)
EXTENDS Integers

CONSTANTS
    Helpers,      \* of "relay" and "keeper", those that are configured
    ForkFails,    \* fork may fail
    MaxSignals    \* bound: signals sent to the supervisor

ASSUME SupervisorAssumption ==
    Helpers \subseteq {"relay", "keeper"} /\ ForkFails \in BOOLEAN /\ MaxSignals \in Nat

VARIABLES
    pc, helper, what,           \* the supervisor: its place, the helper being started, argv of run_and_wait
    gStop, gChild, gRelay, gKeeper,   \* g_stop, g_child, g_relay, g_rtsp_keeper (TRUE: above zero)
    failStreak, back,           \* fail_streak, back in seconds
    request,                    \* rc is EXIT_RUN_EDITOR
    kPc, kStop, kChild,         \* the keeper: its place, k_stop, k_child
    state,                      \* of each process
    signals,                    \* signals sent so far
    shorts,                     \* history: failures in a row since a healthy life or an editor, up to 5
    wanted                      \* the last station exited with EXIT_RUN_EDITOR

kVars == <<kPc, kStop, kChild>>
gVars == <<gStop, gChild, gRelay, gKeeper>>
hist  == <<signals, shorts, wanted>>
vars  == <<pc, helper, what, gVars, failStreak, back, request, kVars, state, hist>>

Programs == {"station", "editor"}
Procs == Programs \cup {"relay", "keeper", "rtsp"}
Alive == {"forked", "live", "told"}

Least(a, b) == IF a < b THEN a ELSE b

-----------------------------------------------------------------------------
(* Processes and signals. *)

\* A signal sent to p; it works only on a process that has its own handler.
Told(s, ps) == [p \in Procs |-> IF p \in ps /\ s[p] = "live" THEN "told" ELSE s[p]]

\* on_signal: the registered processes get the same signal.
Registered == (IF gChild = "none" THEN {} ELSE {gChild})
              \cup (IF gRelay THEN {"relay"} ELSE {}) \cup (IF gKeeper THEN {"keeper"} ELSE {})

Signal ==
    /\ pc # "ended" /\ signals < MaxSignals
    /\ signals' = signals + 1
    /\ gStop' = TRUE
    /\ state' = Told(state, Registered)
    /\ UNCHANGED <<pc, helper, what, gChild, gRelay, gKeeper, failStreak, back, request, kVars,
                   shorts, wanted>>

\* execv, or its failure: _exit(127).
Exec(p) ==
    /\ p # "keeper" /\ state[p] = "forked"
    /\ \/ state' = [state EXCEPT ![p] = "live"] /\ UNCHANGED wanted
       \/ /\ state' = [state EXCEPT ![p] = "dead"]
          /\ wanted' = IF p = "station" THEN FALSE ELSE wanted
    /\ UNCHANGED <<pc, helper, what, gVars, failStreak, back, request, kVars, signals, shorts>>

\* A process ends: told to, of itself or killed.
Exit(p) ==
    /\ p # "keeper" /\ state[p] \in {"live", "told"}
    /\ state' = [state EXCEPT ![p] = "dead"]
    /\ IF p = "station" THEN wanted' \in BOOLEAN ELSE UNCHANGED wanted
    /\ UNCHANGED <<pc, helper, what, gVars, failStreak, back, request, kVars, signals, shorts>>

-----------------------------------------------------------------------------
(* start_relay, start_rtsp_keeper, run_and_wait. *)

\* start_relay and start_rtsp_keeper return: to the wait, or on to the loop of main.
HelperDone ==
    IF gChild # "none" THEN pc' = "wait" /\ UNCHANGED helper
    ELSE IF helper = "relay" THEN pc' = "test" /\ helper' = "keeper"
    ELSE pc' = "loop" /\ UNCHANGED helper

HelperTest ==
    /\ pc = "test"
    /\ IF gStop \/ helper \notin Helpers THEN HelperDone ELSE pc' = "fork" /\ UNCHANGED helper
    /\ UNCHANGED <<what, gVars, failStreak, back, request, kVars, state, hist>>

HelperFork ==
    /\ pc = "fork"
    /\ state' = [state EXCEPT ![helper] = "forked"]
    /\ pc' = "set"
    /\ IF helper = "keeper" THEN kPc' = "start" /\ kStop' = FALSE /\ kChild' = FALSE
                            ELSE UNCHANGED kVars
    /\ UNCHANGED <<helper, what, gVars, failStreak, back, request, hist>>

HelperForkFails ==
    /\ ForkFails /\ pc = "fork"
    /\ HelperDone
    /\ UNCHANGED <<what, gVars, failStreak, back, request, kVars, state, hist>>

HelperSet ==
    /\ pc = "set"
    /\ gRelay' = (gRelay \/ helper = "relay")
    /\ gKeeper' = (gKeeper \/ helper = "keeper")
    /\ HelperDone
    /\ UNCHANGED <<what, gStop, gChild, failStreak, back, request, kVars, state, hist>>

\* while (!g_stop) of main.
Loop ==
    /\ pc = "loop"
    /\ pc' = IF gStop THEN "ended" ELSE "run"
    /\ what' = "station"
    /\ UNCHANGED <<helper, gVars, failStreak, back, request, kVars, state, hist>>

Run ==
    /\ pc = "run"
    /\ state' = [state EXCEPT ![what] = "forked"]
    /\ pc' = "child"
    /\ UNCHANGED <<helper, what, gVars, failStreak, back, request, kVars, hist>>

\* fork failed: run_and_wait returns -2.
RunFails ==
    /\ ForkFails /\ pc = "run"
    /\ pc' = "after" /\ request' = FALSE
    /\ UNCHANGED <<helper, what, gVars, failStreak, back, kVars, state, hist>>

SetChild ==
    /\ pc = "child"
    /\ gChild' = what
    /\ pc' = "wait"
    /\ UNCHANGED <<helper, what, gStop, gRelay, gKeeper, failStreak, back, request, kVars, state, hist>>

\* waitpid(-1) gives a dead child: a registered helper, or the child waited
\* for.  There is no other, and an interrupted call is made again.
Kind_AnyEndsWait(p) == "own"
Kind_NoRelay(p) == IF gKeeper /\ p = "keeper" THEN "keeper" ELSE IF p = what THEN "own" ELSE "other"
Kind_OtherIsRelay(p) == IF p = what THEN "own" ELSE "relay"
Kind(p) ==
    CASE gRelay /\ p = "relay"   -> "relay"
      [] gKeeper /\ p = "keeper" -> "keeper"
      [] p = what                -> "own"

Reaped(p) ==
    /\ pc = "wait" /\ p # "rtsp" /\ state[p] = "dead"
    /\ state' = [state EXCEPT ![p] = "none"]

ReapHelper(p) ==
    /\ Reaped(p) /\ Kind(p) \in {"relay", "keeper"}
    /\ helper' = Kind(p)
    /\ gRelay' = (gRelay /\ helper' # "relay")
    /\ gKeeper' = (gKeeper /\ helper' # "keeper")
    /\ pc' = "nap"
    /\ UNCHANGED <<what, gStop, gChild, failStreak, back, request, kVars, hist>>

ReapOwn(p) ==
    /\ Reaped(p) /\ Kind(p) = "own"
    /\ gChild' = "none"
    /\ request' = (p = "station" /\ wanted)
    /\ pc' = "after"
    /\ UNCHANGED <<helper, what, gStop, gRelay, gKeeper, failStreak, back, kVars, hist>>

\* The pause of half a second before a helper is started again.
Nap ==
    /\ pc = "nap"
    /\ pc' = "test"
    /\ UNCHANGED <<helper, what, gVars, failStreak, back, request, kVars, state, hist>>

-----------------------------------------------------------------------------
(* The rest of the loop of main. *)

\* The failures counted after one more; a healthy life forgets those before it.
Streak_NeverReset(healthy) == Least(failStreak + 1, 4)
Streak(healthy) == Least((IF healthy THEN 0 ELSE failStreak) + 1, 4)
Pause(n) == Least(2 ^ (n - 1), 8)

\* The test of g_stop after the station: the only way out of the loop.
Stops_OnCrash == gStop \/ ~request
Stops_UnlessRequest == gStop /\ ~request
Stops == gStop

\* run_and_wait returned.
After ==
    /\ pc = "after"
    /\ \/ /\ what = "station" /\ Stops
          /\ pc' = "ended"
          /\ UNCHANGED <<what, failStreak, back, shorts>>
       \/ /\ what = "station" /\ ~Stops /\ request
          /\ what' = "editor" /\ pc' = "run"
          /\ UNCHANGED <<failStreak, back, shorts>>
       \/ /\ what = "editor"
          /\ failStreak' = 0 /\ shorts' = 0
          /\ pc' = "loop"
          /\ UNCHANGED <<what, back>>
       \/ /\ what = "station" /\ ~Stops /\ ~request
          /\ \E healthy \in BOOLEAN :
                /\ failStreak' = Streak(healthy)
                /\ shorts' = Least((IF healthy THEN 0 ELSE shorts) + 1, 5)
          /\ back' = Pause(failStreak')
          /\ pc' = "sleep"
          /\ UNCHANGED what
    /\ UNCHANGED <<helper, gVars, request, kVars, state, signals, wanted>>

Sleep ==
    /\ pc = "sleep"
    /\ pc' = "loop"
    /\ UNCHANGED <<helper, what, gVars, failStreak, back, request, kVars, state, hist>>

-----------------------------------------------------------------------------
(* rtsp_keeper, a process of its own. *)

rest == <<pc, helper, what, gVars, failStreak, back, request, hist>>

\* sigaction: from here a signal is the keeper's own.
KeeperStart ==
    /\ state["keeper"] = "forked" /\ kPc = "start"
    /\ state' = [state EXCEPT !["keeper"] = "live"]
    /\ kPc' = "loop"
    /\ UNCHANGED <<kStop, kChild, rest>>

\* keeper_on_signal.
KeeperSignal ==
    /\ state["keeper"] = "told" /\ ~kStop
    /\ kStop' = TRUE
    /\ state' = IF kChild THEN Told(state, {"rtsp"}) ELSE state
    /\ UNCHANGED <<kPc, kChild, rest>>

KeeperRuns == state["keeper"] \in {"live", "told"}

KeeperLoop ==
    /\ KeeperRuns /\ kPc = "loop"
    /\ kPc' = IF kStop THEN "exit" ELSE "fork"
    /\ UNCHANGED <<kStop, kChild, state, rest>>

KeeperFork ==
    /\ KeeperRuns /\ kPc = "fork"
    /\ state' = [state EXCEPT !["rtsp"] = "forked"]
    /\ kPc' = "child"
    /\ UNCHANGED <<kStop, kChild, rest>>

KeeperForkFails ==
    /\ ForkFails /\ KeeperRuns /\ kPc = "fork"
    /\ kPc' = "sleep"
    /\ UNCHANGED <<kStop, kChild, state, rest>>

KeeperSetChild ==
    /\ KeeperRuns /\ kPc = "child"
    /\ kChild' = TRUE
    /\ kPc' = "wait"
    /\ UNCHANGED <<kStop, state, rest>>

KeeperReap ==
    /\ KeeperRuns /\ kPc = "wait" /\ state["rtsp"] = "dead"
    /\ state' = [state EXCEPT !["rtsp"] = "none"]
    /\ kChild' = FALSE
    /\ kPc' = IF kStop THEN "exit" ELSE "sleep"
    /\ UNCHANGED <<kStop, rest>>

KeeperSleep ==
    /\ KeeperRuns /\ kPc = "sleep"
    /\ kPc' = "loop"
    /\ UNCHANGED <<kStop, kChild, state, rest>>

KeeperExit ==
    /\ KeeperRuns /\ kPc = "exit"
    /\ state' = [state EXCEPT !["keeper"] = "dead"]
    /\ kPc' = "none"
    /\ UNCHANGED <<kStop, kChild, rest>>

\* Somebody kills the keeper: its server, if there is one, is init's.
KeeperKilled ==
    /\ state["keeper"] \in Alive
    /\ state' = [state EXCEPT !["keeper"] = "dead", !["rtsp"] = "none"]
    /\ kPc' = "none"
    /\ UNCHANGED <<kStop, kChild, rest>>

-----------------------------------------------------------------------------
Init ==
    /\ pc = "test" /\ helper = "relay" /\ what = "station"
    /\ gStop = FALSE /\ gChild = "none" /\ gRelay = FALSE /\ gKeeper = FALSE
    /\ failStreak = 0 /\ back = 0 /\ request = FALSE
    /\ kPc = "none" /\ kStop = FALSE /\ kChild = FALSE
    /\ state = [p \in Procs |-> "none"]
    /\ signals = 0 /\ shorts = 0 /\ wanted = FALSE

StartHelper == HelperTest \/ HelperFork \/ HelperForkFails \/ HelperSet \/ Nap
Reap == \E p \in Procs : ReapHelper(p) \/ ReapOwn(p)
Main == StartHelper \/ Loop \/ Run \/ RunFails \/ SetChild \/ Reap \/ After \/ Sleep
Keeper ==
    \/ KeeperStart \/ KeeperSignal \/ KeeperLoop \/ KeeperFork \/ KeeperForkFails
    \/ KeeperSetChild \/ KeeperReap \/ KeeperSleep \/ KeeperExit
Next ==
    \/ Signal \/ Main \/ Keeper \/ KeeperKilled
    \/ \E p \in Procs : Exec(p) \/ Exit(p)

Spec == Init /\ [][Next]_vars

\* The system schedules every process, fork does not fail for ever, waitpid
\* gives the oldest child first, and a station or an editor that was told to
\* end ends.
FairSpec ==
    /\ Spec
    /\ WF_vars(Main) /\ WF_vars(Keeper) /\ SF_vars(Run) /\ SF_vars(HelperFork)
    /\ \A p \in Procs \ {"rtsp"} : SF_vars(ReapHelper(p) \/ ReapOwn(p))
    /\ \A p \in Procs : WF_vars(Exec(p)) /\ WF_vars(state[p] = "told" /\ Exit(p))

-----------------------------------------------------------------------------
(* Properties. *)

\* Every variable has its type; fail_streak never passes four.
TypeOK ==
    /\ pc \in {"test", "fork", "set", "nap", "loop", "run", "child", "wait", "after", "sleep", "ended"}
    /\ helper \in {"relay", "keeper"} /\ what \in Programs
    /\ gStop \in BOOLEAN /\ gChild \in Programs \cup {"none"} /\ gRelay \in BOOLEAN /\ gKeeper \in BOOLEAN
    /\ failStreak \in 0 .. 4 /\ back \in 0 .. 8 /\ request \in BOOLEAN
    /\ kPc \in {"none", "start", "loop", "fork", "child", "wait", "sleep", "exit"}
    /\ kStop \in BOOLEAN /\ kChild \in BOOLEAN
    /\ state \in [Procs -> Alive \cup {"none", "dead"}]
    /\ signals \in 0 .. MaxSignals /\ shorts \in 0 .. 5 /\ wanted \in BOOLEAN

\* "Station and editor cannot run together, the DRM master is exclusive": not
\* when a helper dies during the wait, not after a failed fork or a signal.
ScreenHasOneOwner ==
    /\ ~(state["station"] \in Alive /\ state["editor"] \in Alive)
    /\ pc = "ended" => \A p \in Programs : state[p] \notin Alive

\* Nothing is started beside a living or unreaped process of its kind.
NoSecondOfAKind ==
    /\ pc = "fork" => state[helper] = "none"
    /\ pc = "run" => state[what] = "none"

\* The pause is that of the failures in a row: 1, 2, 4, 8 and 8 from then on.
PauseIsRight == pc = "sleep" => back = (IF shorts >= 4 THEN 8 ELSE 2 ^ (shorts - 1))

\* fail_streak is capped and the pause follows it, whatever runs and fails between.
PauseFollowsFailures == TypeOK /\ PauseIsRight

\* "There is no state of showing nothing": after the station or the editor
\* dies one of them is started, unless the supervisor is stopped.
ScreenComesBack ==
    (\E p \in Programs : state[p] = "dead") ~> (\E p \in Programs : state[p] = "forked") \/ gStop

\* A relay that dies is started again, whatever the station does meanwhile.
RelayComesBack == (state["relay"] = "dead") ~> (state["relay"] = "forked" \/ gStop)

\* A station that got the signal ends the supervisor, though a helper may
\* have died and be on its way back at that moment.
ToldStationEndsAll == (gStop /\ state["station"] = "told") ~> (pc = "ended")

\* The last two say what a comment of the code says.  Neither holds.

\* "Both children are told by the same signal": the supervisor that is told
\* to stop stops.
StopStops == gStop ~> (pc = "ended")

\* The same of the relay: when the supervisor has ended, none runs untold.
StopTellsRelay == pc = "ended" => state["relay"] # "live"

=============================================================================
