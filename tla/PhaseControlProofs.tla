------------------------- MODULE PhaseControlProofs -------------------------
(***************************************************************************)
(* What is proved of the control of the phase, for any cameras, ranges and *)
(* limits, and for any number of losses and restarts: the loop's idea of   *)
(* the camera, the single refusal and the farewell (Safety).               *)
(*                                                                         *)
(* Each of the three speaks of a moment without a request under way; the   *)
(* invariant says what holds meanwhile: which of the answer and of the     *)
(* loop's own variables is the camera's value (Linked) and its range       *)
(* (Informed), and that nothing but zero is on the way after the loop's    *)
(* end (Parting).                                                          *)
(***************************************************************************)
EXTENDS PhaseControl, TLAPS

Calls == [path : {"none", "status", "phase", "set"}, val : -TrimLimit .. TrimMax,
          answer : {"none", "ok", "refused", "bare", "silence"},
          trim : -TrimLimit .. TrimMax, band : Bands \cup {NoBand}]

CamTypes == trim \in [Cameras -> -TrimLimit .. TrimMax] /\ band \in [Cameras -> Bands]
ApiTypes ==
    /\ host \in Cameras \cup {NoCamera} /\ dialect \in {"auto", "new", "legacy"}
    /\ call \in Calls
LoopTypes ==
    /\ src \in Cameras \cup {NoCamera}
    /\ pc \in {"begin", "zero", "nap", "tick", "aimed", "stopped"}
    /\ known \in Bands \cup {NoBand}
    /\ applied \in -TrimLimit .. TrimMax /\ want \in -TrimLimit .. TrimMax
    /\ failed \in BOOLEAN /\ doubt \in BOOLEAN /\ refusals \in Nat
Types == CamTypes /\ ApiTypes /\ LoopTypes

\* The dialect a request was made in is the dialect of its moment.
Spoken ==
    /\ \/ call = Idle
       \/ call.path \in {"status", "phase"} /\ dialect # "legacy"
       \/ call.path = "set" /\ dialect = "legacy" /\ call.answer # "bare"
    /\ call.answer \in {"ok", "refused", "bare"} => host \in Cameras
    /\ call.path = "status" => pc = "zero"
    /\ call.path \in {"phase", "set"} => pc \in {"nap", "stopped"}
    /\ pc = "begin" => dialect # "legacy"

\* Where the camera's trim is to be read.
Reported == call.path = "phase" /\ call.answer \in {"ok", "refused"}
Confirmed == call.path = "set" /\ call.answer = "ok"
Linked ==
    ~doubt =>
        /\ host \in Cameras
        /\ trim[host] = IF Reported THEN call.trim ELSE IF Confirmed THEN call.val ELSE applied

\* Where its range is to be read once it refused, and that the next is within.
Informed ==
    refusals # 0 =>
        /\ refusals = 1 /\ host \in Cameras /\ pc \notin {"begin", "zero"}
        /\ band[host] = IF Reported THEN call.band ELSE known
        /\ call.path = "phase" /\ call.answer = "none" => Accepts(host, call.val)

Parting ==
    pc = "stopped" =>
        /\ call.path # "none" => call.val = 0
        /\ call.answer = "ok" => trim[host] = 0
        /\ call.path = "none" /\ host \in Cameras => trim[host] = 0 \/ failed

IInv == Types /\ Spoken /\ Linked /\ Informed /\ Parting

LEMMA Consts ==
    /\ TrimLimit \in Nat /\ TrimMax \in Nat /\ NoCamera \notin Cameras
    /\ \A b \in Bands : b[1] \in Int /\ b[2] \in Int /\ b[1] <= 0 /\ b[2] >= 0
    /\ \A r \in Raws : r \in Int
  BY PhaseControlAssumption

LEMMA ZeroInRange == 0 \in -TrimLimit .. TrimMax /\ -TrimLimit \in -TrimLimit .. TrimMax
  BY Consts

LEMMA IdleIsACall == Idle \in Calls
  BY ZeroInRange DEF Idle, Calls

\* What the loop asks for is within its limits, and the camera's once it knows them.
LEMMA WishIsInRange ==
    ASSUME known \in Bands \cup {NoBand}, NEW raw \in Raws
    PROVE  LET v == Clamp(raw, EffLo, EffHi) IN
           /\ v \in -TrimLimit .. TrimMax
           /\ known \in Bands => v >= known[1] /\ v <= known[2]
<1>1. /\ raw \in Int /\ EffLo \in Int /\ EffHi \in Int
      /\ EffLo <= 0 /\ 0 <= EffHi /\ -TrimLimit <= EffLo /\ EffHi <= TrimMax
  BY Consts DEF EffLo, EffHi, Larger, Smaller
<1>2. known \in Bands => known[1] <= EffLo /\ EffHi <= known[2] /\ known[1] \in Int /\ known[2] \in Int
  <2>1. known \in Bands => known # NoBand
    BY PhaseControlAssumption DEF NoBand
  <2> QED BY <2>1, Consts DEF EffLo, EffHi, Larger, Smaller
<1> HIDE DEF EffLo, EffHi
<1>3. DEFINE v == Clamp(raw, EffLo, EffHi)
<1>4. v \in Int /\ EffLo <= v /\ v <= EffHi
  BY <1>1 DEF Clamp
<1> QED BY <1>1, <1>2, <1>4, Consts

LEMMA InitInv == Init => IInv
<1> SUFFICES ASSUME Init PROVE IInv
  OBVIOUS
<1>1. CamTypes
  BY ZeroInRange DEF Init, CamTypes
<1>2. ApiTypes /\ LoopTypes
  BY ZeroInRange, IdleIsACall DEF Init, ApiTypes, LoopTypes
<1>3. Spoken /\ Linked /\ Informed /\ Parting
  BY DEF Init, Spoken, Linked, Informed, Parting, Idle
<1> QED BY <1>1, <1>2, <1>3 DEF IInv, Types

-----------------------------------------------------------------------------
(* The camera and the link. *)

LEMMA ServeInv == IInv /\ Serve => IInv'
<1> SUFFICES ASSUME IInv, Serve PROVE IInv'
  OBVIOUS
<1>1. /\ UNCHANGED <<band, src, pc, host, dialect, known, applied, want, failed>>
      /\ host \in Cameras /\ call \in Calls /\ call.path # "none" /\ call.answer = "none"
  BY DEF IInv, Types, ApiTypes, Serve, Asked, airVars, trimVars
<1>2. PICK t \in -TrimLimit .. TrimMax : trim' = [trim EXCEPT ![host] = t]
    /\ \/ /\ host \notin OldCameras /\ call.path # "set"
          /\ call' = State(host, IF call.path = "status" \/ Accepts(host, call.val) THEN "ok" ELSE "refused", t)
       \/ /\ host \notin OldCameras /\ call.path = "set"
          /\ call' = Bare(IF Accepts(host, call.val) THEN "ok" ELSE "refused")
       \/ /\ host \in OldCameras
          /\ call' = Bare(IF call.path = "set" THEN "ok" ELSE "bare")
    /\ t = IF (host \in OldCameras /\ call.path = "set")
               \/ (host \notin OldCameras /\ call.path # "status" /\ Accepts(host, call.val))
           THEN call.val ELSE trim[host]
  <2>1. call.val \in -TrimLimit .. TrimMax /\ trim[host] \in -TrimLimit .. TrimMax
    BY <1>1 DEF IInv, Types, CamTypes, Calls
  <2> DEFINE t == IF (host \in OldCameras /\ call.path = "set")
                     \/ (host \notin OldCameras /\ call.path # "status" /\ Accepts(host, call.val))
                  THEN call.val ELSE trim[host]
  <2>2. t \in -TrimLimit .. TrimMax
    BY <2>1
  <2>3. CASE NewCameraServes(host)
    BY <2>2, <2>3 DEF NewCameraServes
  <2>4. CASE OldCameraServes(host)
    BY <2>2, <2>4 DEF OldCameraServes
  <2> QED BY <2>3, <2>4 DEF Serve
<1>3. /\ call'.path = call.path /\ call'.val = call.val /\ call' \in Calls
      /\ call'.answer \in {"ok", "refused", "bare"}
      /\ call'.path = "set" => call'.answer # "bare"
      /\ call'.path = "phase" /\ call'.answer # "bare" => call'.trim = t /\ call'.band = band[host]
  <2>1. band[host] \in Bands
    BY <1>1 DEF IInv, Types, CamTypes
  <2> QED BY <1>1, <1>2, <2>1 DEF State, Bare, Calls
<1>4. trim' \in [Cameras -> -TrimLimit .. TrimMax] /\ trim'[host] = t
  BY <1>1, <1>2 DEF IInv, Types, CamTypes
<1>5. Types'
  <2>1. doubt' \in BOOLEAN /\ refusals' \in Nat
    BY DEF IInv, Types, LoopTypes, Serve
  <2> QED BY <1>1, <1>3, <1>4, <2>1 DEF IInv, Types, CamTypes, ApiTypes, LoopTypes
<1>6. Spoken'
  BY <1>1, <1>3 DEF IInv, Spoken, Idle
<1>7. Linked'
  <2>1. ~doubt' => ~doubt \/ (call'.path = "phase" /\ call'.answer # "bare")
                          \/ (call'.path = "set" /\ call'.answer = "ok")
    BY DEF Serve
  <2>2. call'.path = "set" /\ call'.answer = "ok" => t = call.val
    BY <1>1, <1>2, <1>3 DEF State, Bare, Calls
  <2>3. ~doubt /\ ~Reported' /\ ~Confirmed' => t = applied
    BY <1>1, <1>2, <1>3 DEF IInv, Linked, Reported, Confirmed, State, Bare, Calls
  <2> QED BY <1>1, <1>3, <1>4, <2>1, <2>2, <2>3 DEF Linked, Reported, Confirmed
<1>8. Informed'
  <2>1. CASE call'.path = "phase" /\ call'.answer = "refused"
    <3>1. host \notin OldCameras /\ ~Accepts(host, call.val)
      BY <1>1, <1>2, <1>3, <2>1 DEF State, Bare, Calls
    <3>2. refusals = 0 /\ refusals' = 1
      BY <1>1, <1>3, <2>1, <3>1 DEF IInv, Informed, Serve
    <3>3. pc \notin {"begin", "zero"}
      BY <1>1, <1>3, <2>1 DEF IInv, Spoken
    <3> QED BY <1>1, <1>3, <2>1, <3>2, <3>3 DEF Informed, Reported
  <2>2. CASE ~(call'.path = "phase" /\ call'.answer = "refused")
    <3>1. refusals' = refusals
      BY <2>2 DEF Serve
    <3> QED BY <1>1, <1>3, <2>2, <3>1 DEF IInv, Informed, Reported
  <2> QED BY <2>1, <2>2
<1>9. Parting'
  <2>1. pc = "stopped" => call.val = 0 /\ call.path # "status"
    BY <1>1 DEF IInv, Parting, Spoken
  <2>2. call'.answer = "ok" /\ call.path # "status" => t = call.val
    BY <1>1, <1>2, <1>3 DEF State, Bare, Calls
  <2> QED BY <1>1, <1>3, <1>4, <2>1, <2>2 DEF Parting
<1> QED BY <1>5, <1>6, <1>7, <1>8, <1>9 DEF IInv

\* Nothing, instead of an answer.
LEMMA SilenceInv == IInv /\ (NobodyThere \/ LoseRequest) => IInv'
<1> SUFFICES ASSUME IInv, NobodyThere \/ LoseRequest PROVE IInv'
  OBVIOUS
<1>1. /\ UNCHANGED <<trim, band, src, pc, host, dialect, known, applied, want, failed, doubt, refusals>>
      /\ call.path # "none" /\ call.answer = "none" /\ call' = Bare("silence")
  BY DEF NobodyThere, LoseRequest, Asked, camVars, airVars, trimVars, seen
<1>2. /\ call'.path = call.path /\ call'.val = call.val /\ call' \in Calls
      /\ call'.answer = "silence" /\ call'.path # "none"
  BY <1>1 DEF IInv, Types, ApiTypes, Bare, Calls
<1>3. Types'
  BY <1>1, <1>2 DEF IInv, Types, CamTypes, ApiTypes, LoopTypes
<1>4. Spoken' /\ Linked' /\ Informed' /\ Parting'
  BY <1>1, <1>2 DEF IInv, Spoken, Linked, Informed, Parting, Reported, Confirmed, Idle
<1> QED BY <1>3, <1>4 DEF IInv

LEMMA LoseAnswerInv == IInv /\ LoseAnswer => IInv'
<1> SUFFICES ASSUME IInv, LoseAnswer PROVE IInv'
  OBVIOUS
<1>1. /\ UNCHANGED <<trim, band, src, pc, host, dialect, known, applied, want, failed>>
      /\ call.answer \in {"ok", "refused", "bare"} /\ doubt' = TRUE /\ refusals' = 0
      /\ \/ call' = Bare("silence")
         \/ call.path # "set" /\ call' = Bare("bare")
  BY DEF LoseAnswer, camVars, airVars, trimVars
<1>2. /\ call'.path = call.path /\ call'.val = call.val /\ call' \in Calls
      /\ call'.answer = "silence" \/ (call'.answer = "bare" /\ call'.path # "set")
      /\ call'.path # "none"
  BY <1>1 DEF IInv, Types, ApiTypes, Spoken, Bare, Calls, Idle
<1>3. Types'
  BY <1>1, <1>2 DEF IInv, Types, CamTypes, ApiTypes, LoopTypes
<1>4. Spoken' /\ Linked' /\ Informed' /\ Parting'
  BY <1>1, <1>2 DEF IInv, Spoken, Linked, Informed, Parting, Idle
<1> QED BY <1>3, <1>4 DEF IInv

\* Another camera's restart is nothing to the loop; its own clears what is known.
LEMMA RestartInv == ASSUME NEW c \in Cameras PROVE IInv /\ Restart(c) => IInv'
<1> SUFFICES ASSUME IInv, Restart(c) PROVE IInv'
  OBVIOUS
<1>1. /\ UNCHANGED <<src, pc, host, dialect, call, known, applied, want, failed>>
      /\ trim' = [trim EXCEPT ![c] = 0]
      /\ doubt' = (doubt \/ c = host) /\ refusals' = IF c = host THEN 0 ELSE refusals
  BY DEF Restart, airVars, apiVars, trimVars
<1>2. PICK b \in Bands : band' = [band EXCEPT ![c] = b]
  BY DEF Restart
<1>3. /\ CamTypes' /\ trim'[c] = 0
      /\ c # host /\ host \in Cameras => trim'[host] = trim[host] /\ band'[host] = band[host]
  BY <1>1, <1>2, ZeroInRange DEF IInv, Types, CamTypes
<1>4. Types'
  <2>1. doubt' \in BOOLEAN /\ refusals' \in Nat
    BY <1>1 DEF IInv, Types, LoopTypes
  <2> QED BY <1>1, <1>3, <2>1 DEF IInv, Types, ApiTypes, LoopTypes
<1>5. Spoken' /\ Linked'
  BY <1>1, <1>3 DEF IInv, Spoken, Linked, Reported, Confirmed
<1>6. Informed'
  BY <1>1, <1>3 DEF IInv, Informed, Reported, Accepts
<1>7. Parting'
  BY <1>1, <1>3 DEF IInv, Spoken, Parting
<1> QED BY <1>4, <1>5, <1>6, <1>7 DEF IInv

\* Time, the video's source, stop(), and a pass of the loop that sends nothing.
Quiet == VideoMoves \/ Warms \/ HeartbeatIsDue \/ Stop \/ Wake \/ Hold
LEMMA QuietInv == IInv /\ (Quiet \/ UNCHANGED vars) => IInv'
<1> SUFFICES ASSUME IInv, Quiet \/ UNCHANGED vars PROVE IInv'
  OBVIOUS
<1>1. UNCHANGED <<trim, band, host, dialect, call, known, applied, want, failed, doubt, refusals>>
  BY DEF Quiet, VideoMoves, Warms, HeartbeatIsDue, Stop, Wake, Hold, vars, camVars, airVars,
         apiVars, trimVars, seen
<1>2. src' \in Cameras \cup {NoCamera}
  BY DEF IInv, Types, LoopTypes, Quiet, VideoMoves, Warms, HeartbeatIsDue, Stop, Wake, Hold,
         vars, camVars, airVars, apiVars, trimVars, seen
<1>3. \/ pc' = pc
      \/ /\ call = Idle /\ pc \in {"nap", "aimed"} /\ pc' \in {"nap", "tick"}
  BY DEF Quiet, VideoMoves, Warms, HeartbeatIsDue, Stop, Wake, Hold, At, vars
<1>4. Types'
  BY <1>1, <1>2, <1>3 DEF IInv, Types, CamTypes, ApiTypes, LoopTypes
<1>5. Spoken' /\ Linked' /\ Informed' /\ Parting'
  BY <1>1, <1>3 DEF IInv, Spoken, Linked, Informed, Parting, Reported, Confirmed, Accepts, Idle
<1> QED BY <1>4, <1>5 DEF IInv

-----------------------------------------------------------------------------
(* The loop: what it asks for. *)

LEMMA RetargetInv == IInv /\ Retarget => IInv'
<1> SUFFICES ASSUME IInv, Retarget PROVE IInv'
  OBVIOUS
<1>1. /\ UNCHANGED <<trim, band, src, call, applied, want, failed>>
      /\ call = Idle /\ pc = "tick" /\ pc' = "aimed"
  BY DEF Retarget, At, camVars, airVars
<1>2. CASE Moved
  <2>1. host' = src /\ dialect' = "auto" /\ known' = NoBand /\ doubt' = TRUE /\ refusals' = 0
    BY <1>2 DEF Retarget, ForgottenDialect
  <2>2. Types'
    BY <1>1, <2>1 DEF IInv, Types, CamTypes, ApiTypes, LoopTypes
  <2>3. Spoken' /\ Linked' /\ Informed' /\ Parting'
    BY <1>1, <2>1 DEF Spoken, Linked, Informed, Parting, Idle
  <2> QED BY <2>2, <2>3 DEF IInv
<1>3. CASE ~Moved
  <2>1. UNCHANGED <<host, dialect, known, doubt, refusals>>
    BY <1>3 DEF Retarget
  <2>2. Types'
    BY <1>1, <2>1 DEF IInv, Types, CamTypes, ApiTypes, LoopTypes
  <2>3. Spoken' /\ Linked' /\ Informed' /\ Parting'
    BY <1>1, <2>1 DEF IInv, Spoken, Linked, Informed, Parting, Reported, Confirmed, Idle
  <2> QED BY <2>2, <2>3 DEF IInv
<1> QED BY <1>2, <1>3

\* A request leaves: its value is in the ranges, and zero for a farewell.
LEMMA AskInv ==
    ASSUME IInv, call = Idle,
           UNCHANGED <<trim, band, src, host, dialect, known, applied, failed, doubt, refusals>>,
           want' \in -TrimLimit .. TrimMax,
           NEW v \in -TrimLimit .. TrimMax,
           known \in Bands => v >= known[1] /\ v <= known[2],
           \/ call' = Request("status", 0) /\ pc = "begin" /\ pc' = "zero"
           \/ call' = Write(v) /\ pc # "begin" /\ pc' \in {"nap", "stopped"},
           pc \notin {"begin", "zero"} \/ refusals = 0,
           pc' = "stopped" => v = 0
    PROVE  IInv'
<1>1. call' \in Calls /\ call'.answer = "none" /\ call'.path # "none"
  BY ZeroInRange DEF Request, Write, Idle, Calls, NoBand
<1>2. \/ call'.path = "status" /\ dialect # "legacy" /\ pc' = "zero" /\ pc = "begin"
      \/ /\ call'.path = (IF dialect = "legacy" THEN "set" ELSE "phase") /\ call'.val = v
         /\ pc' \in {"nap", "stopped"}
  BY DEF IInv, Spoken, Request, Write, Idle
<1>3. Types'
  BY <1>1, <1>2 DEF IInv, Types, CamTypes, ApiTypes, LoopTypes
<1>4. Spoken'
  BY <1>1, <1>2 DEF Spoken
<1>5. Linked'
  BY <1>1, <1>2 DEF IInv, Linked, Reported, Confirmed, Idle
<1>6. Informed'
  <2>1. refusals # 0 => known = band[host] /\ known \in Bands
    BY DEF IInv, Informed, Reported, Idle, Types, CamTypes
  <2> QED BY <1>1, <1>2, <2>1 DEF IInv, Informed, Reported, Accepts
<1>7. Parting'
  BY <1>1, <1>2 DEF Parting
<1> QED BY <1>3, <1>4, <1>5, <1>6, <1>7 DEF IInv

LEMMA AskingInv == IInv /\ (Begin \/ PushZero \/ Leave \/ Steer) => IInv'
<1> SUFFICES ASSUME IInv, Begin \/ PushZero \/ Leave \/ Steer PROVE IInv'
  OBVIOUS
<1>1. /\ UNCHANGED <<trim, band, src, host, dialect, known, applied, failed, doubt, refusals>>
      /\ call = Idle
  BY DEF Begin, PushZero, Leave, Steer, At, camVars, airVars, trimVars, seen
<1>2. known \in Bands => 0 >= known[1] /\ 0 <= known[2]
  BY Consts
<1>3. pc \notin {"begin", "zero"} \/ refusals = 0
  BY DEF IInv, Informed
<1>4. CASE Begin \/ PushZero \/ Leave
  <2>1. want' \in -TrimLimit .. TrimMax
    BY <1>4 DEF IInv, Types, LoopTypes, Begin, PushZero, Leave, trimVars
  <2>2. \/ call' = Request("status", 0) /\ pc = "begin" /\ pc' = "zero"
        \/ call' = Write(0) /\ pc # "begin" /\ pc' \in {"nap", "stopped"}
    BY <1>4 DEF Begin, PushZero, Leave, Farewell, At
  <2> QED BY <1>1, <1>2, <1>3, <2>1, <2>2, ZeroInRange, AskInv
<1>5. CASE Steer
  <2>1. PICK raw \in Raws :
          LET v == Clamp(raw, EffLo, EffHi) IN
          want' = v /\ call' = IF Sends(v) THEN Write(v) ELSE call
    BY <1>5 DEF Steer
  <2> DEFINE v == Clamp(raw, EffLo, EffHi)
  <2>2. known \in Bands \cup {NoBand} /\ pc = "aimed" /\ pc' = "nap"
    BY <1>5 DEF IInv, Types, LoopTypes, Steer, At
  <2>3. v \in -TrimLimit .. TrimMax /\ (known \in Bands => v >= known[1] /\ v <= known[2])
    BY <2>2, WishIsInRange
  <2> HIDE DEF v
  <2>4. CASE Sends(v)
    BY <1>1, <2>1, <2>2, <2>3, <2>4, AskInv DEF v
  <2>5. CASE ~Sends(v)
    <3>1. call' = call /\ want' \in -TrimLimit .. TrimMax
      BY <2>1, <2>3, <2>5 DEF v
    <3>2. Types'
      BY <1>1, <2>2, <3>1 DEF IInv, Types, CamTypes, ApiTypes, LoopTypes
    <3>3. Spoken' /\ Linked' /\ Informed' /\ Parting'
      BY <1>1, <2>2, <3>1 DEF IInv, Spoken, Linked, Informed, Parting, Reported, Confirmed, Idle
    <3> QED BY <3>2, <3>3 DEF IInv
  <2> QED BY <2>4, <2>5
<1> QED BY <1>4, <1>5

-----------------------------------------------------------------------------
(* The loop: what an answer tells it. *)

\* An answer that leaves the loop's idea of the camera as it is.
LEMMA TakeStatusInv == IInv /\ TakeStatus /\ UNCHANGED <<camVars, airVars, pc, want>> => IInv'
<1> SUFFICES ASSUME IInv, TakeStatus, UNCHANGED <<camVars, airVars, pc, want>> PROVE IInv'
  OBVIOUS
<1>1. /\ UNCHANGED <<trim, band, src, pc, want, host, applied, failed, doubt, refusals>>
      /\ call.path = "status" /\ call' = Idle
  BY DEF TakeStatus, camVars, airVars, seen
<1>2. pc = "zero" /\ refusals = 0
  BY <1>1 DEF IInv, Spoken, Informed
<1>3. known' \in Bands \cup {NoBand} /\ dialect' \in {"auto", "new", "legacy"}
  BY DEF IInv, Types, ApiTypes, LoopTypes, Calls, TakeStatus, LearnedBand, Locked
<1>4. Types'
  BY <1>1, <1>3, IdleIsACall DEF IInv, Types, CamTypes, ApiTypes, LoopTypes
<1>5. Spoken' /\ Linked' /\ Informed' /\ Parting'
  BY <1>1, <1>2 DEF IInv, Spoken, Linked, Informed, Parting, Reported, Confirmed, Idle
<1> QED BY <1>4, <1>5 DEF IInv

LEMMA TakeStateInv == IInv /\ TakeState /\ UNCHANGED <<camVars, airVars, pc, want>> => IInv'
<1> SUFFICES ASSUME IInv, TakeState, UNCHANGED <<camVars, airVars, pc, want>> PROVE IInv'
  OBVIOUS
<1>1. /\ UNCHANGED <<trim, band, src, pc, want, host, doubt, refusals>>
      /\ call.path = "phase" /\ call.answer \in {"ok", "refused"} /\ call' = Idle
      /\ known' = call.band /\ applied' = call.trim /\ failed' = (call.answer = "refused")
  BY DEF TakeState, camVars, airVars, seen, LearnedBand, Adopted
<1>2. /\ pc \in {"nap", "stopped"} /\ dialect' \in {"auto", "new", "legacy"} /\ failed' \in BOOLEAN
      /\ applied' \in -TrimLimit .. TrimMax /\ known' \in Bands \cup {NoBand}
  BY <1>1 DEF IInv, Types, ApiTypes, Calls, Spoken, TakeState, Locked
<1>3. Types'
  BY <1>1, <1>2, IdleIsACall DEF IInv, Types, CamTypes, ApiTypes, LoopTypes
<1>4. Spoken' /\ Linked' /\ Informed' /\ Parting'
  BY <1>1, <1>2 DEF IInv, Spoken, Linked, Informed, Parting, Reported, Confirmed, Idle
<1> QED BY <1>3, <1>4 DEF IInv

LEMMA TakeBareInv == IInv /\ TakeBare /\ UNCHANGED <<camVars, airVars, pc, want>> => IInv'
<1> SUFFICES ASSUME IInv, TakeBare, UNCHANGED <<camVars, airVars, pc, want>> PROVE IInv'
  OBVIOUS
<1>1. /\ UNCHANGED <<trim, band, src, pc, want, host, known, applied, failed, doubt, refusals>>
      /\ call.path = "phase" /\ call.answer = "bare" /\ dialect' = "legacy"
      /\ call'.path = "set" /\ call'.answer = "none" /\ call'.val = call.val
  BY DEF TakeBare, camVars, airVars, seen, Redirected, Request, Idle
<1>2. call' \in Calls /\ pc \in {"nap", "stopped"}
  BY <1>1, ZeroInRange DEF IInv, Types, ApiTypes, Calls, Spoken, TakeBare, Redirected, Request, Idle
<1>3. Types'
  BY <1>1, <1>2 DEF IInv, Types, CamTypes, ApiTypes, LoopTypes
<1>4. Spoken' /\ Linked' /\ Informed' /\ Parting'
  BY <1>1, <1>2 DEF IInv, Spoken, Linked, Informed, Parting, Reported, Confirmed
<1> QED BY <1>3, <1>4 DEF IInv

LEMMA TakeCodeInv == IInv /\ (TakeCode \/ TakeSilence) /\ UNCHANGED <<camVars, airVars, pc, want>> => IInv'
<1> SUFFICES ASSUME IInv, TakeCode \/ TakeSilence, UNCHANGED <<camVars, airVars, pc, want>> PROVE IInv'
  OBVIOUS
<1>1. /\ UNCHANGED <<trim, band, src, pc, want, host, dialect, known, doubt, refusals>>
      /\ call' = Idle /\ call.path \in {"phase", "set"} /\ ~Reported
      /\ IF Confirmed THEN applied' = call.val /\ failed' = FALSE
                      ELSE applied' = applied /\ failed' = TRUE
  BY DEF TakeCode, TakeSilence, camVars, airVars, seen, Reported, Confirmed
<1>2. /\ pc \in {"nap", "stopped"} /\ applied' \in -TrimLimit .. TrimMax /\ failed' \in BOOLEAN
  BY <1>1 DEF IInv, Types, ApiTypes, LoopTypes, Calls, Spoken
<1>3. Types'
  BY <1>1, <1>2, IdleIsACall DEF IInv, Types, CamTypes, ApiTypes, LoopTypes
<1>4. Linked'
  BY <1>1 DEF IInv, Linked, Reported, Confirmed, Idle
<1>5. Spoken' /\ Informed' /\ Parting'
  BY <1>1, <1>2 DEF IInv, Spoken, Informed, Parting, Reported, Confirmed, Idle
<1> QED BY <1>3, <1>4, <1>5 DEF IInv

LEMMA NextInv == IInv /\ [Next]_vars => IInv'
<1> SUFFICES ASSUME IInv, [Next]_vars PROVE IInv'
  OBVIOUS
<1>1. CASE Answered
  <2>1. UNCHANGED <<camVars, airVars, pc, want>>
    BY <1>1 DEF Answered
  <2> QED BY <1>1, <2>1, TakeStatusInv, TakeStateInv, TakeBareInv, TakeCodeInv DEF Answered
<1>2. CASE Begin \/ PushZero \/ Leave \/ Steer
  BY <1>2, AskingInv
<1>3. CASE Retarget
  BY <1>3, RetargetInv
<1>4. CASE Quiet \/ UNCHANGED vars
  BY <1>4, QuietInv
<1>5. CASE Serve \/ NobodyThere \/ LoseRequest \/ LoseAnswer
  BY <1>5, ServeInv, SilenceInv, LoseAnswerInv
<1>6. CASE \E c \in Cameras : Restart(c)
  BY <1>6, RestartInv
<1> QED BY <1>1, <1>2, <1>3, <1>4, <1>5, <1>6 DEF Next, Loop, Link, World, Quiet

LEMMA InvSafety == IInv => Safety
<1> SUFFICES ASSUME IInv PROVE Safety
  OBVIOUS
<1>1. TypeOK
  <2>1. /\ call.val \in -TrimLimit .. TrimMax /\ refusals \in Nat
        /\ \A c \in Cameras : trim[c] \in -TrimLimit .. TrimMax
    BY DEF IInv, Types, CamTypes, ApiTypes, LoopTypes, Calls
  <2> QED BY <2>1 DEF IInv, Types, ApiTypes, LoopTypes, Spoken, TypeOK
<1>2. AppliedIsTrue /\ RefusedOnce /\ StopGivesBack
  BY DEF IInv, Linked, Informed, Parting, Reported, Confirmed, Idle, AppliedIsTrue, RefusedOnce,
         StopGivesBack, Stopped
<1> QED BY <1>1, <1>2 DEF Safety

\* Whatever is lost, whoever restarts and wherever the video comes from: what
\* the loop believes of the camera is true or known to be in doubt, a camera
\* refuses at most once before the loop keeps to its range, and after stop()
\* the camera runs at its nominal frequency or the last write is reported as
\* failed (PhaseController::push, loop, stop).
THEOREM CameraIsGivenBack == Spec => []Safety
<1>1. IInv /\ [Next]_vars => IInv'
  BY NextInv
<1> QED BY InitInv, <1>1, InvSafety, PTL DEF Spec
=============================================================================
