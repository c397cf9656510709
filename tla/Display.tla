------------------------------- MODULE Display -------------------------------
(***************************************************************************)
(* display/display.cpp: the outputs of the station.  Every live output has *)
(* a slot with a private ring of buffers.  Two threads work on it: the     *)
(* renderer (render/gl_renderer.cpp, loop) acquires a buffer, draws and    *)
(* presents it; the event thread (event_loop) handles page flips and the   *)
(* hotplug of monitors.  The ring is only touched under mtx, one action    *)
(* per locked section; the ioctls and one write to modeset_done happen     *)
(* outside the lock and are actions of their own.                          *)
(*                                                                         *)
(* The kernel (DRM/KMS) is external: per slot a CRTC that is active or     *)
(* not, the framebuffer it scans, one queued flip, and the queue of flip   *)
(* events.  An event carries only the Output it was committed for, i.e. a  *)
(* slot; the generation recorded in it here is a history value that the    *)
(* code cannot see.  A framebuffer is identified by <<generation, index>>. *)
(***************************************************************************)
EXTENDS Integers, FiniteSets, Sequences

CONSTANTS
    Conns,         \* connectors of the card
    Rank,          \* role_rank of each connector's type
    NSlots,        \* outputs that can be live at once (outs never outgrows it)
    NBufs,         \* cfg.buffers, depth of a ring
    MaxGen,        \* bound: configurations brought up in a run
    TestTeardown   \* VRX_TEST_TEARDOWN is set

Slots == 0 .. NSlots - 1
Bufs  == 0 .. NBufs - 1
None  == -1
NoFb  == <<0, None>>
NoConn == "none"
NoTarget == [slot |-> None, idx |-> None, gen |-> 0]

ASSUME DisplayAssumption ==
    /\ IsFiniteSet(Conns)
    /\ NSlots \in Nat \ {0} /\ Cardinality(Conns) <= NSlots
    /\ NBufs \in Nat \ {0}
    /\ MaxGen \in Nat \ {0}
    /\ Rank \in [Conns -> 0 .. 2]
    /\ TestTeardown \in BOOLEAN

VARIABLES
    gen,         \* state.generation of each slot, 0 when it has no output
    nextGen,     \* generation_, the global counter
    conn,        \* connector_id of each slot
    ring,        \* Slot of each buffer; "Gone" while the ring is empty
    pending, inFlight, current,      \* idx_pending, idx_in_flight, idx_current
    modesetDone, \* modeset_done
    retired,     \* buffers of destroyed rings that are still drawn into
    liveBufs,    \* live_bufs
    primary,     \* primary_slot
    plugged,     \* connectors with a monitor (environment)
    act, scan, queued, events,       \* the kernel
    pc,                              \* where each thread is
    cslot, cidx, cgen, cmode,        \* per thread: the locals of try_commit
    tgt, main, todo,                 \* renderer: target held, is it the primary's, screens left
    mode, slotsLeft, connsLeft, changed,  \* event thread: the locals of its teardown loop
    misled       \* history: configurations that took the flip of another one

ringVars == <<gen, nextGen, conn, ring, pending, inFlight, current, retired, liveBufs>>
kernVars == <<act, scan, queued, events>>
jobVars  == <<cslot, cidx, cgen, cmode>>
rendVars == <<tgt, main, todo>>
hotVars  == <<mode, slotsLeft, connsLeft, changed>>
vars == <<ringVars, modesetDone, primary, plugged, kernVars, pc, jobVars, rendVars, hotVars, misled>>

R == "rend"
E == "event"
Threads == {R, E}

Live(s) == gen[s] # 0
LiveSlots == {s \in Slots : Live(s)}
Known == {conn[s] : s \in LiveSlots}
Fb(s, i) == <<gen[s], i>>
Goto(t, label) == pc' = [pc EXCEPT ![t] = label]

-----------------------------------------------------------------------------
(* The kernel and the monitors. *)

\* The flip queued on s, if any, is over: its event joins the descriptor's queue.
Emit(s) == IF queued[s] = NoFb THEN events
           ELSE Append(events, [slot |-> s, gen |-> queued[s][1]])

\* drmModeRmFB on framebuffers of s: a CRTC that scans one loses its plane.
RmFB(s, F) ==
    /\ scan'   = [scan EXCEPT ![s] = IF @ \in F THEN NoFb ELSE @]
    /\ queued' = [queued EXCEPT ![s] = IF @ \in F THEN NoFb ELSE @]
    /\ events' = IF queued[s] \in F THEN Emit(s) ELSE events
    /\ UNCHANGED act

\* Vertical blank: the queued framebuffer is scanned out from now on.
Sweep(s) ==
    /\ act[s] /\ queued[s] # NoFb
    /\ scan' = [scan EXCEPT ![s] = queued[s]]
    /\ queued' = [queued EXCEPT ![s] = NoFb]
    /\ events' = Emit(s)
    /\ UNCHANGED <<ringVars, modesetDone, primary, plugged, act, pc, jobVars, rendVars, hotVars,
                   misled>>

\* A monitor is connected to c or disconnected from it.
Plug(c) ==
    /\ pc[E] # "closed"
    /\ plugged' = IF c \in plugged THEN plugged \ {c} ELSE plugged \cup {c}
    /\ UNCHANGED <<ringVars, modesetDone, primary, kernVars, pc, jobVars, rendVars, hotVars,
                   misled>>

-----------------------------------------------------------------------------
(* The ring. *)

\* try_commit goes on: a frame waits and no flip is in flight.
CanCommit_NoFlightTest(s) == pending[s] # None
CanCommit(s) == inFlight[s] = None /\ pending[s] # None

\* The ring of s when the pending frame is given to the kernel.
Committed_FreesCurrent(s) == [i \in Bufs |->
    IF i = pending[s] THEN "InFlight" ELSE IF i = current[s] THEN "Free" ELSE ring[s][i]]
Committed(s) == [i \in Bufs |-> IF i = pending[s] THEN "InFlight" ELSE ring[s][i]]

\* The ring of s when buffer i is presented: the frame that waited is displaced.
Presented(s, i) == [j \in Bufs |->
    IF j = i THEN "Pending" ELSE IF j = pending[s] THEN "Free" ELSE ring[s][j]]

\* The ring of s after a flip: the frame on the screen is free, the one in
\* flight is on the screen.
Flipped_KeepsOld(s) == [i \in Bufs |-> IF i = inFlight[s] THEN "Current" ELSE ring[s][i]]
Flipped(s) == [i \in Bufs |->
    IF i = inFlight[s] THEN "Current" ELSE IF i = current[s] THEN "Free" ELSE ring[s][i]]

\* The ring of s when the commit of buffer i failed.
Undone_Kept(s, i) == ring[s]
Undone(s, i) == [ring[s] EXCEPT ![i] = "Free"]

\* What destroy_ring may not free: the buffer the renderer draws into.
HeldIn_Nothing(s) == {}
HeldIn(s) == {i \in Bufs : ring[s][i] = "Drawing"}

\* release_retired: the buffers that still wait after fb came back.
StillRetired_All(fb) == retired
StillRetired(fb) == retired \ {fb}

\* The locals of try_commit go out of scope.
Return(t) ==
    /\ Goto(t, "pushed")
    /\ cidx' = [cidx EXCEPT ![t] = 0]
    /\ cgen' = [cgen EXCEPT ![t] = 0]
    /\ cmode' = [cmode EXCEPT ![t] = FALSE]
    /\ UNCHANGED cslot

-----------------------------------------------------------------------------
(* try_commit: both threads run it, after queue() and after on_flip(). *)

\* The locked part: take the pending frame unless a flip is in flight.
TryCommit(t) ==
    /\ pc[t] = "push"
    /\ LET s == cslot[t]
           p == pending[s]
       IN  IF CanCommit(s)
           THEN /\ ring' = [ring EXCEPT ![s] = Committed(s)]
                /\ inFlight' = [inFlight EXCEPT ![s] = p]
                /\ pending' = [pending EXCEPT ![s] = None]
                /\ cidx' = [cidx EXCEPT ![t] = p]
                /\ cgen' = [cgen EXCEPT ![t] = gen[s]]
                /\ cmode' = [cmode EXCEPT ![t] = ~modesetDone[s]]
                /\ Goto(t, "commit")
           ELSE /\ Goto(t, "pushed")
                /\ UNCHANGED <<ring, inFlight, pending, cidx, cgen, cmode>>
    /\ UNCHANGED <<gen, nextGen, conn, current, retired, liveBufs, modesetDone, primary,
                   plugged, kernVars, cslot, rendVars, hotVars, misled>>

\* The ioctl, outside the lock.  The kernel takes the framebuffer only while
\* it exists, the CRTC is on or being turned on, and no other flip is queued.
CommitOk(t) ==
    /\ pc[t] = "commit"
    /\ LET s == cslot[t]
       IN  /\ gen[s] = cgen[t]
           /\ act[s] \/ cmode[t]
           /\ queued[s] = NoFb
           /\ act' = [act EXCEPT ![s] = TRUE]
           /\ queued' = [queued EXCEPT ![s] = <<cgen[t], cidx[t]>>]
    /\ Goto(t, "mark")
    /\ UNCHANGED <<ringVars, modesetDone, primary, plugged, scan, events, jobVars, rendVars,
                   hotVars, misled>>

\* It may fail at any time; certainly when one of the above does not hold.
CommitFailed(t) ==
    /\ pc[t] = "commit"
    /\ Goto(t, "failed")
    /\ UNCHANGED <<ringVars, modesetDone, primary, plugged, kernVars, jobVars, rendVars, hotVars,
                   misled>>

\* The locked cleanup after a failed commit, whatever ring the slot has by now.
CommitUndo(t) ==
    /\ pc[t] = "failed"
    /\ LET s == cslot[t]
       IN  /\ ring' = IF Live(s) THEN [ring EXCEPT ![s] = Undone(s, cidx[t])] ELSE ring
           /\ inFlight' = [inFlight EXCEPT ![s] = None]
    /\ Return(t)
    /\ UNCHANGED <<gen, nextGen, conn, pending, current, retired, liveBufs, modesetDone,
                   primary, plugged, kernVars, rendVars, hotVars, misled>>

\* o.modeset_done = true: outside the lock, whatever configuration the slot has by now.
ModesetMark(t) ==
    /\ pc[t] = "mark"
    /\ modesetDone' = [modesetDone EXCEPT ![cslot[t]] = TRUE]
    /\ Return(t)
    /\ UNCHANGED <<ringVars, primary, plugged, kernVars, rendVars, hotVars, misled>>

-----------------------------------------------------------------------------
(* The renderer's loop.  Its waits (wait_flip, sleep_until_poll_deadline)    *)
(* end by a timeout and change nothing, so they take no step.                *)

HasPrimary_Always == TRUE
HasPrimary == primary # None

\* Display::acquire(Target&): which slot is the primary?
LookPrimary ==
    /\ pc[R] = "top"
    /\ HasPrimary
    /\ cslot' = [cslot EXCEPT ![R] = primary]
    /\ main' = TRUE
    /\ Goto(R, "acquire")
    /\ UNCHANGED <<ringVars, modesetDone, primary, plugged, kernVars, cidx, cgen, cmode, tgt,
                   todo, hotVars, misled>>

\* draw_extra_screens goes to the next screen.
NextExtra ==
    /\ pc[R] = "pushed"
    /\ \E s \in todo :
          /\ \A r \in todo : s <= r
          /\ cslot' = [cslot EXCEPT ![R] = s]
          /\ todo' = todo \ {s}
    /\ main' = FALSE
    /\ Goto(R, "acquire")
    /\ UNCHANGED <<ringVars, modesetDone, primary, plugged, kernVars, cidx, cgen, cmode, tgt,
                   hotVars, misled>>

\* The pass is over: every screen had its turn.
EndOfPass ==
    /\ pc[R] = "pushed" /\ todo = {}
    /\ cslot' = [cslot EXCEPT ![R] = 0]
    /\ main' = FALSE
    /\ Goto(R, "top")
    /\ UNCHANGED <<ringVars, modesetDone, primary, plugged, kernVars, cidx, cgen, cmode, tgt,
                   todo, hotVars, misled>>

\* acquire(slot): the first Free buffer of a live output becomes the target.
Acquire ==
    /\ pc[R] = "acquire"
    /\ LET s == cslot[R]
       IN  /\ Live(s)
           /\ \E i \in Bufs :
                 /\ ring[s][i] = "Free"
                 /\ \A j \in Bufs : j < i => ring[s][j] # "Free"
                 /\ ring' = [ring EXCEPT ![s][i] = "Drawing"]
                 /\ tgt' = [slot |-> s, idx |-> i, gen |-> gen[s]]
    /\ Goto(R, IF main THEN "role" ELSE "draw")
    /\ UNCHANGED <<gen, nextGen, conn, pending, inFlight, current, retired, liveBufs,
                   modesetDone, primary, plugged, kernVars, jobVars, main, todo, hotVars,
                   misled>>

\* No output or no Free buffer: wait for a flip, or skip this extra screen.
AcquireNothing ==
    /\ pc[R] = "acquire"
    /\ LET s == cslot[R]
       IN  Live(s) => \A i \in Bufs : ring[s][i] # "Free"
    /\ Goto(R, IF main THEN "top" ELSE "pushed")
    /\ UNCHANGED <<ringVars, modesetDone, primary, plugged, kernVars, jobVars, rendVars, hotVars,
                   misled>>

\* primary_screen(), asked again: it decides which screens are the extra ones.
Extras == Slots \ {IF primary # None THEN primary ELSE tgt.slot}

ReadRole ==
    /\ pc[R] = "role"
    /\ todo' = Extras
    /\ Goto(R, "draw")
    /\ UNCHANGED <<ringVars, modesetDone, primary, plugged, kernVars, jobVars, tgt, main, hotVars,
                   misled>>

\* No framebuffer object for the target: it is given back and the pass ends.
NoFramebuffer ==
    /\ pc[R] = "role"
    /\ todo' = {}
    /\ Goto(R, "draw")
    /\ UNCHANGED <<ringVars, modesetDone, primary, plugged, kernVars, jobVars, tgt, main, hotVars,
                   misled>>

\* queue(): the frame becomes pending and displaces the one that waited.
PresentQueued ==
    /\ pc[R] = "draw"
    /\ LET s == tgt.slot
           i == tgt.idx
       IN  /\ tgt.gen = gen[s]
           /\ ring[s][i] = "Drawing"
           /\ ring' = [ring EXCEPT ![s] = Presented(s, i)]
           /\ pending' = [pending EXCEPT ![s] = i]
    /\ tgt' = NoTarget
    /\ Goto(R, "push")
    /\ UNCHANGED <<gen, nextGen, conn, inFlight, current, retired, liveBufs, modesetDone,
                   primary, plugged, kernVars, jobVars, main, todo, hotVars, misled>>

\* queue() of a buffer that is not the renderer's any more: refused.
PresentRefused ==
    /\ pc[R] = "draw"
    /\ tgt.gen = gen[tgt.slot] /\ ring[tgt.slot][tgt.idx] # "Drawing"
    /\ tgt' = NoTarget
    /\ Goto(R, "pushed")
    /\ UNCHANGED <<ringVars, modesetDone, primary, plugged, kernVars, jobVars, main, todo, hotVars,
                   misled>>

\* queue() of a buffer whose configuration is gone: release_retired frees it.
PresentStale ==
    /\ pc[R] = "draw"
    /\ tgt.gen # gen[tgt.slot]
    /\ LET fb == <<tgt.gen, tgt.idx>>
       IN  /\ retired' = StillRetired(fb)
           /\ liveBufs' = liveBufs - Cardinality(retired \ retired')
           /\ RmFB(tgt.slot, retired \ retired')
    /\ tgt' = NoTarget
    /\ Goto(R, "pushed")
    /\ UNCHANGED <<gen, nextGen, conn, ring, pending, inFlight, current, modesetDone,
                   primary, plugged, jobVars, main, todo, hotVars, misled>>

\* GlRenderer::stop: the loop ends where it tests running, perhaps holding a target.
StopRenderer ==
    /\ pc[R] = "top" \/ (pc[R] = "draw" /\ main)
    /\ Goto(R, "stopped")
    /\ UNCHANGED <<ringVars, modesetDone, primary, plugged, kernVars, jobVars, rendVars, hotVars,
                   misled>>

-----------------------------------------------------------------------------
(* The event thread. *)

\* on_flip, locked part: the frame on the screen is free, the one in flight
\* is on the screen.  The event says only which slot it is for.
OnFlip ==
    /\ pc[E] = "poll" /\ events # <<>>
    /\ LET s == Head(events).slot
       IN  /\ ring' = [ring EXCEPT ![s] = Flipped(s)]
           /\ current' = [current EXCEPT ![s] = inFlight[s]]
           /\ inFlight' = [inFlight EXCEPT ![s] = None]
           /\ cslot' = [cslot EXCEPT ![E] = s]
           /\ misled' = IF Live(s) /\ Head(events).gen # gen[s] THEN misled \cup {gen[s]} ELSE misled
    /\ events' = Tail(events)
    /\ Goto(E, "push")
    /\ UNCHANGED <<gen, nextGen, conn, pending, retired, liveBufs, modesetDone, primary, plugged,
                   act, scan, queued, cidx, cgen, cmode, rendVars, hotVars>>

\* The next frame was pushed (or there was none): back to the loop.
FlipDone ==
    /\ pc[E] = "pushed"
    /\ cslot' = [cslot EXCEPT ![E] = 0]
    /\ Goto(E, "poll")
    /\ UNCHANGED <<ringVars, modesetDone, primary, plugged, kernVars, cidx, cgen, cmode,
                   rendVars, hotVars, misled>>

\* The teardown loop, in the three places that run it: handle_hotplug looks
\* for monitors that are gone, VRX_TEST_TEARDOWN and close() take every output.
TeardownAll(m) ==
    /\ pc[E] = "poll"
    /\ mode' = m
    /\ slotsLeft' = LiveSlots
    /\ changed' = FALSE
    /\ Goto(E, "teardown")
    /\ UNCHANGED <<ringVars, modesetDone, primary, plugged, kernVars, jobVars, rendVars,
                   connsLeft, misled>>

Hotplug == TeardownAll("hotplug")
ForcedTeardown == TestTeardown /\ TeardownAll("test")
\* The renderer is stopped first, then close() joins the event thread.
Close == pc[R] = "stopped" /\ TeardownAll("close")

\* Which outputs the loop takes down.
TakesDown_NotPrimary(s) == mode = "hotplug" => conn[s] \notin plugged /\ s # primary
TakesDown(s) == mode = "hotplug" => conn[s] \notin plugged

NextSlot(s) == s \in slotsLeft /\ \A r \in slotsLeft : s <= r

\* Hotplug: this monitor is still there.
KeepOutput(s) ==
    /\ pc[E] = "teardown" /\ NextSlot(s)
    /\ ~TakesDown(s)
    /\ slotsLeft' = slotsLeft \ {s}
    /\ UNCHANGED <<ringVars, modesetDone, primary, plugged, kernVars, pc, jobVars, rendVars,
                   mode, connsLeft, changed, misled>>

\* teardown_output, the blocking commit that turns the whole path off.  A
\* queued flip ends with it; the commit may fail and leave everything on.
TurnOff(s) ==
    /\ pc[E] = "teardown" /\ NextSlot(s)
    /\ TakesDown(s)
    /\ \/ /\ act' = [act EXCEPT ![s] = FALSE]
          /\ scan' = [scan EXCEPT ![s] = NoFb]
          /\ queued' = [queued EXCEPT ![s] = NoFb]
          /\ events' = Emit(s)
       \/ UNCHANGED kernVars
    /\ cslot' = [cslot EXCEPT ![E] = s]
    /\ slotsLeft' = slotsLeft \ {s}
    /\ Goto(E, "destroy")
    /\ UNCHANGED <<ringVars, modesetDone, primary, plugged, cidx, cgen, cmode, rendVars, mode,
                   connsLeft, changed, misled>>

\* teardown_output, locked part, with destroy_ring: what is being drawn is
\* retired, the rest is freed.
Destroy ==
    /\ pc[E] = "destroy"
    /\ LET s == cslot[E]
           held == HeldIn(s)
       IN  /\ retired' = retired \cup {Fb(s, i) : i \in held}
           /\ liveBufs' = liveBufs - Cardinality(Bufs \ held)
           /\ RmFB(s, {Fb(s, i) : i \in Bufs \ held})
           /\ ring' = [ring EXCEPT ![s] = [i \in Bufs |-> "Gone"]]
           /\ pending' = [pending EXCEPT ![s] = None]
           /\ inFlight' = [inFlight EXCEPT ![s] = None]
           /\ current' = [current EXCEPT ![s] = None]
           /\ modesetDone' = [modesetDone EXCEPT ![s] = FALSE]
           /\ conn' = [conn EXCEPT ![s] = NoConn]
           /\ gen' = [gen EXCEPT ![s] = 0]
    /\ changed' = (mode = "hotplug")
    /\ Goto(E, "teardown")
    /\ UNCHANGED <<nextGen, primary, plugged, jobVars, rendVars, mode, slotsLeft, connsLeft,
                   misled>>

\* The connectors configure_all looks at.
Wanted == Conns \ Known

\* configure_all looks at every connector that no live output has; before it
\* VRX_TEST_TEARDOWN has cleared the role.
Probe ==
    /\ pc[E] = "teardown" /\ slotsLeft = {} /\ mode # "close"
    /\ primary' = IF mode = "test" THEN None ELSE primary
    /\ connsLeft' = Wanted
    /\ Goto(E, "probe")
    /\ UNCHANGED <<ringVars, modesetDone, plugged, kernVars, jobVars, rendVars, mode, slotsLeft,
                   changed, misled>>

\* Nothing connected to c, or configure_one failed, or it is not its turn yet.
SkipConnector(c) ==
    /\ pc[E] = "probe" /\ c \in connsLeft
    /\ connsLeft' = connsLeft \ {c}
    /\ UNCHANGED <<ringVars, modesetDone, primary, plugged, kernVars, pc, jobVars, rendVars,
                   mode, slotsLeft, changed, misled>>

\* configure_one in the first slot without an output, up to the locked part
\* that publishes the ring and its generation.
Configure(c) ==
    /\ pc[E] = "probe" /\ c \in connsLeft /\ c \in plugged
    /\ nextGen < MaxGen
    /\ \E s \in Slots :
          /\ ~Live(s) /\ \A r \in Slots : r < s => Live(r)
          /\ conn' = [conn EXCEPT ![s] = c]
          /\ ring' = [ring EXCEPT ![s] = [i \in Bufs |-> "Free"]]
          /\ pending' = [pending EXCEPT ![s] = None]
          /\ inFlight' = [inFlight EXCEPT ![s] = None]
          /\ current' = [current EXCEPT ![s] = None]
          /\ gen' = [gen EXCEPT ![s] = nextGen + 1]
          /\ cslot' = [cslot EXCEPT ![E] = s]
    /\ nextGen' = nextGen + 1
    /\ liveBufs' = liveBufs + NBufs
    /\ connsLeft' = connsLeft \ {c}
    /\ changed' = (mode = "hotplug")
    /\ Goto(E, "planeOff")
    /\ UNCHANGED <<retired, modesetDone, primary, plugged, kernVars, cidx, cgen, cmode,
                   rendVars, mode, slotsLeft, misled>>

\* configure_one, after the lock: the blocking commit that takes the plane away.
\* It is taken to succeed; the code does not look at its outcome.
PlaneOff ==
    /\ pc[E] = "planeOff"
    /\ LET s == cslot[E]
       IN  /\ scan' = [scan EXCEPT ![s] = NoFb]
           /\ queued' = [queued EXCEPT ![s] = NoFb]
           /\ events' = Emit(s)
    /\ Goto(E, "probe")
    /\ UNCHANGED <<ringVars, modesetDone, primary, plugged, act, jobVars, rendVars, hotVars,
                   misled>>

\* assign_roles: the lowest rank, the first slot among equals, none if no output lives.
Best_AnyRank == IF LiveSlots = {} THEN {None}
                ELSE {s \in LiveSlots : \A r \in LiveSlots : s <= r}
Best == IF LiveSlots = {} THEN {None}
        ELSE {s \in LiveSlots : \A r \in LiveSlots :
                 \/ Rank[conn[s]] < Rank[conn[r]]
                 \/ Rank[conn[s]] = Rank[conn[r]] /\ s <= r}

EndOfProbe ==
    /\ pc[E] = "probe" /\ connsLeft = {}
    /\ primary' \in (IF changed THEN Best ELSE {primary})
    /\ mode' = "hotplug" /\ changed' = FALSE
    /\ cslot' = [cslot EXCEPT ![E] = 0]
    /\ Goto(E, "poll")
    /\ UNCHANGED <<ringVars, modesetDone, plugged, kernVars, cidx, cgen, cmode, rendVars,
                   slotsLeft, connsLeft, misled>>

\* The end of close(): the descriptor is closed, the held buffers are freed.
Closed ==
    /\ pc[E] = "teardown" /\ slotsLeft = {} /\ mode = "close"
    /\ primary' = None
    /\ liveBufs' = liveBufs - Cardinality(retired)
    /\ retired' = {}
    /\ act' = [s \in Slots |-> FALSE]
    /\ scan' = [s \in Slots |-> NoFb]
    /\ queued' = [s \in Slots |-> NoFb]
    /\ events' = <<>>
    /\ Goto(E, "closed")
    /\ UNCHANGED <<gen, nextGen, conn, ring, pending, inFlight, current, modesetDone,
                   plugged, jobVars, rendVars, hotVars, misled>>

-----------------------------------------------------------------------------
(* open() runs configure_all and assign_roles before it starts the event     *)
(* thread: here that is the first thing the event thread does, while the     *)
(* renderer, which starts later, finds no primary.                           *)
Init ==
    /\ gen = [s \in Slots |-> 0] /\ nextGen = 0
    /\ conn = [s \in Slots |-> NoConn]
    /\ ring = [s \in Slots |-> [i \in Bufs |-> "Gone"]]
    /\ pending = [s \in Slots |-> None]
    /\ inFlight = [s \in Slots |-> None]
    /\ current = [s \in Slots |-> None]
    /\ modesetDone = [s \in Slots |-> FALSE]
    /\ retired = {} /\ liveBufs = 0 /\ primary = None
    /\ plugged \in SUBSET Conns
    /\ act = [s \in Slots |-> FALSE]
    /\ scan = [s \in Slots |-> NoFb]
    /\ queued = [s \in Slots |-> NoFb]
    /\ events = <<>>
    /\ pc = [t \in Threads |-> IF t = R THEN "top" ELSE "teardown"]
    /\ cslot = [t \in Threads |-> 0]
    /\ cidx = [t \in Threads |-> 0]
    /\ cgen = [t \in Threads |-> 0]
    /\ cmode = [t \in Threads |-> FALSE]
    /\ tgt = NoTarget /\ main = FALSE /\ todo = {}
    /\ mode = "hotplug" /\ slotsLeft = {} /\ connsLeft = {} /\ changed = TRUE
    /\ misled = {}

Kernel == \E s \in Slots : Sweep(s)
Push(t) == TryCommit(t) \/ CommitOk(t) \/ CommitFailed(t) \/ CommitUndo(t) \/ ModesetMark(t)
Renderer ==
    \/ Push(R) \/ LookPrimary \/ NextExtra \/ EndOfPass \/ Acquire \/ AcquireNothing
    \/ ReadRole \/ NoFramebuffer \/ PresentQueued \/ PresentRefused \/ PresentStale \/ StopRenderer
EventLoop ==
    \/ Push(E) \/ OnFlip \/ FlipDone \/ Hotplug \/ ForcedTeardown \/ Close
    \/ \E s \in Slots : KeepOutput(s) \/ TurnOff(s)
    \/ Destroy \/ Probe \/ PlaneOff \/ EndOfProbe \/ Closed
    \/ \E c \in Conns : SkipConnector(c) \/ Configure(c)

Next == Kernel \/ Renderer \/ EventLoop \/ \E c \in Conns : Plug(c)

Spec == Init /\ [][Next]_vars

(***************************************************************************)
(* Fairness.  Both threads are scheduled; an ioctl returns, one way or the *)
(* other.  The event loop serves the descriptor, and its timer re-examines *)
(* the monitors, again and again (SF: poll is left and re-entered).  The   *)
(* sweep of a connected monitor goes on.  A connector that stays plugged   *)
(* is eventually brought up, and framebuffer objects are not refused for   *)
(* ever.  Nothing is assumed of monitors, of commits succeeding, or of     *)
(* StopRenderer.                                                           *)
(***************************************************************************)
RendererRuns ==
    \/ Push(R) \/ LookPrimary \/ NextExtra \/ EndOfPass \/ Acquire \/ AcquireNothing
    \/ ReadRole \/ NoFramebuffer \/ PresentQueued \/ PresentRefused \/ PresentStale
EventRuns ==
    \/ Push(E) \/ FlipDone \/ Destroy \/ Probe \/ PlaneOff \/ EndOfProbe \/ Closed
    \/ \E s \in Slots : KeepOutput(s) \/ TurnOff(s)
    \/ \E c \in Conns : SkipConnector(c) \/ Configure(c)

Fairness ==
    /\ WF_vars(RendererRuns)
    /\ SF_vars(ReadRole)
    /\ WF_vars(EventRuns)
    /\ SF_vars(OnFlip) /\ SF_vars(Hotplug)
    /\ \A s \in Slots : WF_vars(conn[s] \in plugged /\ Sweep(s))
    /\ \A c \in Conns : SF_vars(Configure(c))

FairSpec == Spec /\ Fairness

-----------------------------------------------------------------------------
(* Properties. *)

\* Every variable has its type.
BufState == {"Gone", "Free", "Drawing", "Pending", "InFlight", "Current"}
Index == Bufs \cup {None}
FbIds == Nat \X Index
Labels == {"top", "acquire", "role", "draw", "push", "commit", "failed", "mark", "pushed",
           "stopped", "poll", "teardown", "destroy", "probe", "planeOff", "closed"}
RingTypes ==
    /\ gen \in [Slots -> Nat] /\ nextGen \in Nat
    /\ conn \in [Slots -> Conns \cup {NoConn}]
    /\ ring \in [Slots -> [Bufs -> BufState]]
    /\ pending \in [Slots -> Index] /\ inFlight \in [Slots -> Index]
    /\ current \in [Slots -> Index]
    /\ modesetDone \in [Slots -> BOOLEAN]
    /\ retired \in SUBSET (Nat \X Bufs) /\ IsFiniteSet(retired)
    /\ liveBufs \in Int
    /\ primary \in Slots \cup {None}
KernelTypes ==
    /\ plugged \in SUBSET Conns
    /\ act \in [Slots -> BOOLEAN]
    /\ scan \in [Slots -> FbIds] /\ queued \in [Slots -> FbIds]
    /\ events \in Seq([slot : Slots, gen : Nat])
ThreadTypes ==
    /\ pc \in [Threads -> Labels]
    /\ cslot \in [Threads -> Slots] /\ cidx \in [Threads -> Bufs]
    /\ cgen \in [Threads -> Nat] /\ cmode \in [Threads -> BOOLEAN]
    /\ tgt \in [slot : Slots, idx : Bufs, gen : Nat] \cup {NoTarget}
    /\ main \in BOOLEAN /\ todo \in SUBSET Slots
    /\ mode \in {"hotplug", "test", "close"}
    /\ slotsLeft \in SUBSET Slots /\ connsLeft \in SUBSET Conns /\ changed \in BOOLEAN
    /\ misled \in SUBSET Nat
TypeOK == RingTypes /\ KernelTypes /\ ThreadTypes

Sound(s) == Live(s) /\ gen[s] \notin misled
Holding == tgt # NoTarget

\* "The display hands out only a buffer that the scanner surely does not read":
\* what the renderer draws into is neither on a screen nor queued for one.
NoTear == Holding /\ tgt.gen \notin misled =>
    /\ scan[tgt.slot] # <<tgt.gen, tgt.idx>>
    /\ queued[tgt.slot] # <<tgt.gen, tgt.idx>>

\* A buffer in state Drawing is the one the renderer holds; a buffer taken
\* from a destroyed ring waits for nobody but the renderer.
DrawingIsHeld ==
    /\ \A s \in Slots, i \in Bufs :
          ring[s][i] = "Drawing" => tgt = [slot |-> s, idx |-> i, gen |-> gen[s]]
    /\ \A fb \in retired : Holding /\ fb = <<tgt.gen, tgt.idx>>

\* live_bufs: the depths of the live rings plus what waits for the renderer;
\* nothing leaks through a monitor swap, and nothing is left after close().
\* Nor is memory freed that the GPU writes into: the target belongs to the live
\* ring or waits among the retired, however the monitor was pulled.
BuffersAccounted ==
    /\ Holding /\ tgt.gen \notin misled /\ pc[E] # "closed" =>
          tgt.gen = gen[tgt.slot] \/ <<tgt.gen, tgt.idx>> \in retired
    /\ liveBufs = NBufs * Cardinality(LiveSlots) + Cardinality(retired)
    /\ pc[E] = "closed" => liveBufs = 0

\* Only one flip may be in flight per CRTC, or the kernel answers EBUSY: no
\* commit of a frame of the present configuration finds another one queued.
NeverBusy == \A t \in Threads :
    pc[t] = "commit" /\ Sound(cslot[t]) /\ cgen[t] = gen[cslot[t]] => queued[cslot[t]] = NoFb

\* So there is one flip to be confirmed, and when its event is handled, the
\* frame it moves to the screen is the one the scanner reads.
FlipConfirmsFrame ==
    /\ NeverBusy
    /\ \A k \in 1 .. Len(events) :
          LET s == events[k].slot
          IN  Sound(s) /\ events[k].gen = gen[s] /\ act[s] /\ scan[s] # NoFb
              => inFlight[s] # None /\ scan[s] = Fb(s, inFlight[s])

\* A failed commit puts back its own buffer, or meets a ring in which nothing
\* has happened yet.
UndoIsHarmless == \A t \in Threads :
    pc[t] = "failed" /\ Sound(cslot[t]) =>
        LET s == cslot[t]
        IN  IF gen[s] = cgen[t] THEN inFlight[s] = cidx[t]
            ELSE /\ inFlight[s] = None
                 /\ ring[s][cidx[t]] = "Free"

\* A pending frame with nothing in flight is about to be pushed, or the
\* renderer still has a buffer with which to displace it: a ring never jams.
NeverJammed == \A s \in Slots :
    Sound(s) /\ pending[s] # None /\ inFlight[s] = None =>
        \/ \E t \in Threads : pc[t] = "push" /\ cslot[t] = s
        \/ \E i \in Bufs : ring[s][i] \in {"Free", "Drawing"}

\* The indices and the states of a ring tell the same story, through every
\* interleaving of present, flip, failed commit and teardown: at most one
\* buffer is pending, one in flight, one on the screen.
IndicesMatch == \A s \in Slots : Sound(s) => \A i \in Bufs :
    /\ pending[s] = i  <=> ring[s][i] = "Pending"
    /\ inFlight[s] = i <=> ring[s][i] = "InFlight"
    /\ current[s] = i  <=> ring[s][i] = "Current"

\* The ring is consistent through every interleaving of the two threads, the
\* cleanup of a failed commit included, and never jams.
RingConsistent == IndicesMatch /\ UndoIsHarmless /\ NeverJammed

\* Between two passes of the event loop the primary output is the one the
\* rule of assign_roles names, and there is one whenever an output lives.
RoleFollowsRule == pc[E] = "poll" =>
    IF LiveSlots = {} THEN primary = None
    ELSE /\ primary \in LiveSlots
         /\ \A s \in LiveSlots : Rank[conn[primary]] <= Rank[conn[s]]

\* The next four say what comments of the code say, without the proviso of
\* Sound.  None of them holds.

\* "The display gives out only a buffer that the scanner surely does not read."
NeverDrawsOnScreen == Holding => scan[tgt.slot] # <<tgt.gen, tgt.idx>>

\* "The mode of each output is applied by its own first frame": an output whose
\* modeset counts as done is on.
ModesetDoneMeansOn == \A s \in Slots :
    Live(s) /\ modesetDone[s] /\ pc[E] # "destroy" => act[s]

\* "An active CRTC without a plane is a path without content, and the monitor
\* does not accept such a signal": no output that has shown a frame is ever so
\* between two passes of the event loop.
NoActiveCrtcWithoutPlane == \A s \in Slots :
    pc[E] = "poll" /\ Sound(s) /\ act[s] /\ current[s] # None => scan[s] # NoFb

\* "If one output is left, it is the primary, whichever it is."
LastOneIsPrimary == pc[E] = "poll" /\ LiveSlots # {} => primary \in LiveSlots

\* A live output whose monitor stays is drawn for again and again, as the
\* primary or as an extra screen, as long as the primary's monitor stays too
\* (a pass begins with a buffer of the primary).
EveryScreenKeepsDrawing == \A s \in Slots :
    <>[](/\ Live(s) /\ primary \in LiveSlots /\ {conn[s], conn[primary]} \subseteq plugged
         /\ pc[R] # "stopped")
        => []<>(tgt.slot = s)

\* A monitor that is gone is taken down (or comes back first).
LostOutputIsTornDown == \A s \in Slots :
    Live(s) /\ conn[s] \notin plugged ~> ~Live(s) \/ conn[s] \in plugged

\* A monitor that stays connected gets an output.
PluggedComesUp == \A c \in Conns :
    <>[](c \in plugged /\ nextGen < MaxGen /\ pc[R] # "stopped") => <>(c \in Known)

\* Both are seen by the timer alone: no event is needed for either.
MonitorsAreFollowed == LostOutputIsTornDown /\ PluggedComesUp

===========================================================================
