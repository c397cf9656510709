---------------------------- MODULE PhaseControl ----------------------------
(***************************************************************************)
(* control/phase_controller.cpp and control/camera_api.cpp: the loop that  *)
(* trims the frequency of the camera whose video is received, over HTTP.   *)
(* A request or its answer may be lost, an answer may be cut at the        *)
(* timeout, a camera restarts with the trim at zero, and the video may     *)
(* start to come from another camera.                                      *)
(*                                                                         *)
(* What the two links of the regulator ask for is any of Raws; the clamp,  *)
(* the step and the heartbeat that decide what is sent are the code's.     *)
(* The lock indicator and the counters of the log are left out.            *)
(***************************************************************************)
EXTENDS Integers

CONSTANTS
    Cameras, OldCameras,  \* all of them; those that know only /api/v1/set
    NoCamera,             \* an address nothing answers at; no packet yet
    Bands,                \* the ranges <<lo, hi>> a camera may report
    TrimLimit, TrimMax,   \* our own: -TrimLimit .. TrimMax
    MinStep,              \* min_step_mhz
    Raws,                 \* what the regulator may ask for, before the clamp
    MaxFaults, MaxMoves   \* bounds: losses, cuts and restarts; changes of src

ASSUME PhaseControlAssumption ==
    /\ OldCameras \subseteq Cameras /\ NoCamera \notin Cameras
    /\ \A b \in Bands : b \in Int \X Int /\ b[1] <= 0 /\ b[2] >= 0
    /\ TrimLimit \in Nat /\ TrimMax \in Nat /\ MinStep \in Nat \ {0}
    /\ \A r \in Raws : r \in Int
    /\ Bands # {} /\ Raws # {} /\ MaxFaults \in Nat /\ MaxMoves \in Nat

VARIABLES
    trim, band,        \* each camera's own
    src, moves,        \* host_provider(): where the video comes from
    running, pc, warm, \* the thread; "stopped" means once its last call is over
    host, dialect,     \* CameraApi
    call,              \* the request under way: its path, its value, the answer
    known,             \* cam_lo, cam_hi when cam_known, else NoBand
    applied, want, due,  \* applied_mhz, the last value asked for, the heartbeat
    failed,            \* st.last_write_failed
    faults,
    doubt, refusals    \* history: the camera may differ from applied; out_of_range since

camVars  == <<trim, band>>
airVars  == <<src, moves>>
apiVars  == <<host, dialect, call>>
trimVars == <<known, applied, want, due, failed>>
seen     == <<doubt, refusals>>
vars == <<camVars, airVars, running, pc, warm, apiVars, trimVars, faults, seen>>

Larger(a, b)  == IF a > b THEN a ELSE b
Smaller(a, b) == IF a < b THEN a ELSE b
Distance(a, b) == Larger(a - b, b - a)
Clamp(v, lo, hi) == IF v < lo THEN lo ELSE IF v > hi THEN hi ELSE v

NoBand == <<>>
Idle   == [path |-> "none", val |-> 0, answer |-> "none", trim |-> 0, band |-> NoBand]
Request(path, val) == [Idle EXCEPT !.path = path, !.val = val]

\* The intersection of our limits and the camera's.
EffLo == IF known = NoBand THEN -TrimLimit ELSE Larger(-TrimLimit, known[1])
EffHi == IF known = NoBand THEN TrimMax ELSE Smaller(TrimMax, known[2])

-----------------------------------------------------------------------------
(* The camera and the link. *)

Asked == call.path # "none" /\ call.answer = "none"
Accepts(c, v) == v >= band[c][1] /\ v <= band[c][2]

\* An answer of the JSON contract, with the state; an HTTP code alone.
State(c, answer, t) == [call EXCEPT !.answer = answer, !.trim = t, !.band = band[c]]
Bare(answer) == [call EXCEPT !.answer = answer]

\* "Refuse, never clamp", and "a refusal carries the current state".
NewCameraServes(c) ==
    LET t == IF call.path # "status" /\ Accepts(c, call.val) THEN call.val ELSE trim[c]
        answer == IF call.path = "status" \/ Accepts(c, call.val) THEN "ok" ELSE "refused"
    IN /\ c \notin OldCameras
       /\ trim' = [trim EXCEPT ![c] = t]
       /\ call' = IF call.path = "set" THEN Bare(answer) ELSE State(c, answer, t)

\* No limits, no state; a path it does not know gets a page of HTML.
OldCameraServes(c) ==
    /\ c \in OldCameras
    /\ trim' = [trim EXCEPT ![c] = IF call.path = "set" THEN call.val ELSE @]
    /\ call' = Bare(IF call.path = "set" THEN "ok" ELSE "bare")

Serve ==
    /\ Asked /\ host \in Cameras
    /\ NewCameraServes(host) \/ OldCameraServes(host)
    /\ doubt' = (doubt /\ ~(call'.path = "phase" /\ call'.answer # "bare")
                       /\ ~(call'.path = "set" /\ call'.answer = "ok"))
    /\ refusals' = IF call'.path = "phase" /\ call'.answer = "refused" THEN refusals + 1 ELSE refusals
    /\ UNCHANGED <<band, airVars, running, pc, warm, host, dialect, trimVars, faults>>

NobodyThere ==
    /\ Asked /\ host = NoCamera
    /\ call' = Bare("silence")
    /\ UNCHANGED <<camVars, airVars, running, pc, warm, host, dialect, trimVars, faults, seen>>

Fault == faults < MaxFaults /\ faults' = faults + 1

LoseRequest ==
    /\ Asked /\ host \in Cameras /\ Fault
    /\ call' = Bare("silence")
    /\ UNCHANGED <<camVars, airVars, running, pc, warm, host, dialect, trimVars, seen>>

\* The connection breaks before a byte came back, or after the status line.
LoseAnswer ==
    /\ call.answer \in {"ok", "refused", "bare"} /\ Fault
    /\ \/ call' = Bare("silence")
       \/ call.path # "set" /\ call.answer # "bare" /\ call' = Bare("bare")
    /\ doubt' = TRUE /\ refusals' = 0
    /\ UNCHANGED <<camVars, airVars, running, pc, warm, host, dialect, trimVars>>

\* A new session of the camera may have another mode, so another range.
Restart(c) ==
    /\ Fault
    /\ trim' = [trim EXCEPT ![c] = 0]
    /\ \E b \in Bands : band' = [band EXCEPT ![c] = b]
    /\ doubt' = (doubt \/ c = host)
    /\ refusals' = IF c = host THEN 0 ELSE refusals
    /\ UNCHANGED <<airVars, running, pc, warm, apiVars, trimVars>>

VideoMoves ==
    /\ moves < MaxMoves /\ moves' = moves + 1
    /\ src' \in Cameras \ {src}
    /\ UNCHANGED <<camVars, running, pc, warm, apiVars, trimVars, faults, seen>>

\* Time: warmup_ms from the start, heartbeat_ms from the last send.
Warms ==
    /\ ~warm /\ warm' = TRUE
    /\ UNCHANGED <<camVars, airVars, running, pc, apiVars, trimVars, faults, seen>>

HeartbeatIsDue ==
    /\ ~due /\ call = Idle /\ due' = TRUE
    /\ UNCHANGED <<camVars, airVars, running, pc, warm, apiVars, known, applied, want, failed,
                   faults, seen>>

-----------------------------------------------------------------------------
(* CameraApi and push(): what an answer does. *)

\* A command goes where the dialect says.
Write(v) == Request(IF dialect = "legacy" THEN "set" ELSE "phase", v)

\* A value is reported, so adopted, in a refusal as well.
Adopted_Command(c) == c.val
Adopted(c) == c.trim
LearnedBand(c) == c.band

\* lock_new(): only from auto.
Locked == IF dialect = "auto" THEN "new" ELSE dialect

TakeStatus ==
    /\ call.path = "status" /\ call.answer # "none"
    /\ known' = IF call.answer = "ok" THEN LearnedBand(call) ELSE known
    /\ dialect' = CASE call.answer = "ok" -> Locked
                    [] call.answer = "bare" -> "legacy"
                    [] OTHER -> dialect
    /\ call' = Idle
    /\ UNCHANGED <<host, applied, failed, due, seen>>

TakeState ==
    /\ call.path = "phase" /\ call.answer \in {"ok", "refused"}
    /\ dialect' = Locked
    /\ known' = LearnedBand(call)
    /\ applied' = Adopted(call)
    /\ failed' = (call.answer = "refused")
    /\ due' = FALSE /\ call' = Idle
    /\ UNCHANGED <<host, seen>>

\* A code without an envelope: an old camera. The command goes again its way.
Redirected_Again(c) == Request("phase", c.val)
Redirected(c) == Request("set", c.val)
TakeBare ==
    /\ call.path = "phase" /\ call.answer = "bare"
    /\ dialect' = "legacy"
    /\ call' = Redirected(call)
    /\ UNCHANGED <<host, known, applied, failed, due, seen>>

\* An old camera's word is its HTTP code.
TakeCode ==
    /\ call.path = "set" /\ call.answer \in {"ok", "refused"}
    /\ applied' = IF call.answer = "ok" THEN call.val ELSE applied
    /\ failed' = (call.answer # "ok")
    /\ due' = FALSE /\ call' = Idle
    /\ UNCHANGED <<host, dialect, known, seen>>

TakeSilence ==
    /\ call.path \in {"phase", "set"} /\ call.answer = "silence"
    /\ failed' = TRUE /\ due' = FALSE /\ call' = Idle
    /\ UNCHANGED <<host, dialect, known, applied, seen>>

Answered ==
    /\ TakeStatus \/ TakeState \/ TakeBare \/ TakeCode \/ TakeSilence
    /\ UNCHANGED <<camVars, airVars, running, pc, warm, want, faults>>

-----------------------------------------------------------------------------
(* The thread. A call blocks it; pc is where it goes on after the call. *)

At(p) == pc = p /\ call = Idle

Begin ==
    /\ At("begin")
    /\ call' = Request("status", 0) /\ pc' = "zero"
    /\ UNCHANGED <<camVars, airVars, running, warm, host, dialect, trimVars, faults, seen>>

PushZero ==
    /\ At("zero")
    /\ call' = Write(0) /\ pc' = "nap"
    /\ UNCHANGED <<camVars, airVars, running, warm, host, dialect, trimVars, faults, seen>>

\* update_ms, or stop().
Wake ==
    /\ At("nap") /\ running
    /\ pc' = IF warm THEN "tick" ELSE "nap"
    /\ UNCHANGED <<camVars, airVars, running, warm, apiVars, trimVars, faults, seen>>

\* The last write, then the thread ends.
Farewell == Write(0)
Leave ==
    /\ At("nap") /\ ~running
    /\ call' = Farewell /\ pc' = "stopped"
    /\ UNCHANGED <<camVars, airVars, running, warm, host, dialect, trimVars, faults, seen>>

\* retarget(): another camera, so its own range and its own dialect.
Moved == src # NoCamera /\ src # host
ForgottenDialect_Kept == dialect
ForgottenDialect == "auto"
Retarget ==
    /\ At("tick") /\ pc' = "aimed"
    /\ IF Moved
       THEN /\ host' = src /\ dialect' = ForgottenDialect /\ known' = NoBand
            /\ doubt' = TRUE /\ refusals' = 0
       ELSE UNCHANGED <<host, dialect, known, doubt, refusals>>
    /\ UNCHANGED <<camVars, airVars, running, warm, call, applied, want, due, failed, faults>>

\* No rate of the screen, or no new frame.
Hold ==
    /\ At("aimed") /\ pc' = "nap"
    /\ UNCHANGED <<camVars, airVars, running, warm, apiVars, trimVars, faults, seen>>

Sends_NoHeartbeat(v) == Distance(v, applied) >= MinStep
Sends(v) == Distance(v, applied) >= MinStep \/ due
Steer ==
    /\ At("aimed") /\ pc' = "nap"
    /\ \E raw \in Raws :
         LET v == Clamp(raw, EffLo, EffHi) IN
         /\ want' = v
         /\ call' = IF Sends(v) THEN Write(v) ELSE call
    /\ UNCHANGED <<camVars, airVars, running, warm, host, dialect, known, applied, due, failed,
                   faults, seen>>

\* stop(), from the main thread, which then joins.
Stop ==
    /\ running /\ running' = FALSE
    /\ UNCHANGED <<camVars, airVars, pc, warm, apiVars, trimVars, faults, seen>>

-----------------------------------------------------------------------------
Init ==
    /\ band \in [Cameras -> Bands]
    /\ trim \in [Cameras -> {0, -TrimLimit}] /\ \A c \in Cameras : Accepts(c, trim[c])
    /\ src = NoCamera /\ moves = 0
    /\ running = TRUE /\ pc = "begin" /\ warm = FALSE
    /\ host \in Cameras \cup {NoCamera} /\ dialect = "auto" /\ call = Idle
    /\ known = NoBand /\ applied = 0 /\ want = 0 /\ due = TRUE /\ failed = FALSE
    /\ faults = 0 /\ doubt = TRUE /\ refusals = 0

Loop == Begin \/ PushZero \/ Wake \/ Leave \/ Retarget \/ Hold \/ Steer \/ Answered
Link == Serve \/ NobodyThere
World == LoseRequest \/ LoseAnswer \/ VideoMoves \/ \E c \in Cameras : Restart(c)
Next == Loop \/ Link \/ Warms \/ HeartbeatIsDue \/ World \/ Stop

Spec == Init /\ [][Next]_vars

\* The thread runs, what is not lost is answered, time passes, and frames are
\* seen again and again.
FairSpec ==
    /\ Spec /\ WF_vars(Loop) /\ WF_vars(Link) /\ WF_vars(Warms)
    /\ WF_vars(HeartbeatIsDue) /\ SF_vars(Steer)

-----------------------------------------------------------------------------
Stopped == pc = "stopped" /\ call = Idle

\* The thread's places, the answers a path can get, trims within somebody's limits.
TypeOK ==
    /\ pc \in {"begin", "zero", "nap", "tick", "aimed", "stopped"}
    /\ dialect \in {"auto", "new", "legacy"}
    /\ \/ call = Idle
       \/ call.path \in {"status", "phase"} /\ dialect # "legacy"
       \/ call.path = "set" /\ dialect = "legacy" /\ call.answer # "bare"
    /\ known \in Bands \cup {NoBand} /\ refusals \in Nat
    /\ \A v \in {applied, want, call.val} : v \in -TrimLimit .. TrimMax
    /\ \A c \in Cameras : trim[c] \in -TrimLimit .. TrimMax

\* What the loop believes of the camera is what the camera has, unless the
\* camera changed or an answer was lost since they last agreed (adopt, push).
AppliedIsTrue == call = Idle /\ ~doubt => host \in Cameras /\ applied = trim[host]

\* A command outside the camera's range is refused once at most: the refusal
\* brings the range, and the loop stays inside it (adopt, eff_lo, eff_hi).
RefusedOnce == refusals <= 1

\* stop() gives the camera its nominal frequency back, or the last write is
\* reported as failed (loop's end, PhaseStats::last_write_failed).
StopGivesBack == Stopped /\ host \in Cameras => trim[host] = 0 \/ failed

\* Together, whatever is lost and whoever restarts.
Safety == TypeOK /\ AppliedIsTrue /\ RefusedOnce /\ StopGivesBack

\* When the link and the cameras are quiet, the camera whose video is received
\* comes to what the loop asks for and stays there: after a restart by the
\* heartbeat, after a move by retarget(). (A new camera taken for an old one
\* after a cut answer is the exception.)
MistakenForOld == host \in Cameras \ OldCameras /\ dialect = "legacy"
TrimIsRestored ==
    <>[](At("nap") /\ running /\ src \in Cameras =>
            Distance(trim[src], want) < MinStep \/ MistakenForOld)

\* stop() returns.
StopReturns == ~running ~> Stopped

-----------------------------------------------------------------------------
(* Do not hold. *)

\* camera_api.hpp:148: a valid envelope settles the contract, and only its path is used.
DialectIsKept == [][dialect = "new" /\ host' = host => dialect' = "new"]_vars

\* Every camera the loop trimmed is at its nominal frequency after stop().
NobodyIsLeftTrimmed == Stopped /\ ~failed /\ faults = 0 => \A c \in Cameras : trim[c] = 0

\* phase_controller.cpp:380: the range of a new camera is asked for first.
NeverRefused == refusals = 0
=============================================================================
