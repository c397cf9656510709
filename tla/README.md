# VRX-GL: TLA+ models, checks and proofs

VRX-GL is a ground station for FPV video (C++, RK3588): it receives video
streams over the network, shows them on one or two screens, records them on a
removable drive, plays recordings back and overlays telemetry. This directory
holds TLA+ modules of the parts of the station in which threads, processes, the
kernel, cameras and removable hardware meet, TLC configurations that check them on
small instances, and proofs for TLAPS. Paths are relative to the repository.

| module | what it models | proofs |
|---|---|---|
| `Display.tla` | the outputs: rings of buffers, page flips, hotplug, with the renderer's pass (`display/display.cpp`, `render/gl_renderer.cpp`) | `DisplayProofs.tla` |
| `Storage.tla` | the removable drive as its users see it (`record/storage.cpp`) | in `RecorderProofs.tla` |
| `Recorder.tla` | the recorders, composed with `Storage` (`record/recorder.cpp`) | `RecorderProofs.tla` |
| `FileLife.tla` | abstract: what the recorders promise of their files | refined by `Recorder` |
| `Blackbox.tla` | the flight log: receiver, queue, writer (`record/blackbox.cpp`) | `BlackboxProofs.tla` |
| `LiveSource.tla` | a camera's stream with its watchdog (`source/video_source.cpp`) | `LiveSourceProofs.tla` |
| `PlaybackSource.tla` | a channel of a recording that is played (`source/playback_source.cpp`, `source/mkv_feeder.cpp`) | `PlayerProofs.tla` |
| `PlaybackAudio.tla` | the sound: who decides and who plays (`audio/playback_audio.cpp`, `audio/audio_out.cpp`) | `PlayerProofs.tla` |
| `PhaseControl.tla` | the trim of a camera's frequency over HTTP (`control/`) | `PhaseControlProofs.tla` |
| `Presets.tla` | the layouts and their saving (`ui/screen_presets.cpp`, `ui/durable_write.hpp`) | `PresetsProofs.tla` |
| `DurableFile.tla` | abstract: a file that is replaced atomically | refined by `Presets` |
| `Supervisor.tla` | the supervisor of the station's processes (`supervisor/supervisor.c`) | `SupervisorProofs.tla` |

`MCX.tla` instantiates module `X` for TLC with the `MCX*.cfg`; `MCX_P.cfg` is a run in
which property `P` is violated. `PROJECT.json` lists components, runs, mutants, the source
lines of each definition, findings, hazards and theorems.

## Inventory

State, operations, interactions, hard behaviour, what makes the part correct,
and what of it is modelled.

* **Display output** (`display/`). A slot per output with a ring of buffers
  (`idx_pending`, `idx_in_flight`, `idx_current`), the generation, the retired
  buffers, `primary_slot`. `acquire`, `queue`, `try_commit`, `on_flip`, `handle_hotplug`,
  `teardown_all`, `configure_all`, `assign_roles`, `close`. Called by the renderer; its own
  event thread; the kernel answers by events. Hard: two threads commit, ioctls run
  outside the lock, an event names only its slot. Correct: no buffer is drawn
  while it is scanned, none leaks or is freed under the GPU, one flip is in flight, the
  roles follow the rule, every screen goes on. *`Display`; not the choice of mode,
  plane and format.*
* **Renderer** (`render/`). A pass per sweep of the primary: acquire, draw,
  present, then the extra screens. *The order of a pass is in `Display`; GL and
  placement are not modelled.*
* **Live source** (`source/video_source`, `h265_source`, `mjpeg_source`). A queue of
  decoded frames, `in_use`, the age of input and output, `fail_streak`. GStreamer's
  thread pushes, the renderer takes, a watchdog rebuilds with back-off, the main
  thread changes the port. Hard: a rebuild while a frame is shown, a stop or a change of port
  during a nap. Correct: what was shown stays, a dead pipeline comes back, no
  change of port is lost, `stop()` returns. *`LiveSource`; not the latency
  estimate and the statistics.*
* **Player** (`source/playback_source`, `player_session`, `mkv_feeder`). A session index,
  a clock, a bounded queue per channel, the file at hand. A feeder reads, the
  decoder fills the queue, the clock thread ticks, the interface posts requests.
  Hard: a seek while the feeder waits for room, a file that is still written.
  Correct: no frame is missing, doubled or shown early, nothing waits in a ring. *`PlaybackSource`;
  not the mailbox and clock of `PlayerSession`.*
* **Session index** (`record/session_index`, `journal.hpp`, `mkv_seek`). *Only as its users
  see it: what of a growing file is safe to read, which id it has kept.*
* **Storage** (`record/storage`). Mounted root, generation, free space. A probe thread
  (mount, publish, reclaim), a sync thread, `stop()`. Hard: the drive is swapped
  under open files, the probe hangs on a dead drive, old files are removed while one is
  written. Correct: the number of the drive tells the drive, a file in use is not
  removed. *`Storage`; not the sync thread, udisks' back-off and the cleaning of the mount point.*
* **Recorder** (`record/recorder`). File, pipeline, `drive_generation`, `fail_streak`. A
  turn decides to open, rotate, close or back off. Hard: ten reasons to close.
  Correct: each file is closed once in the journal, none goes on after its drive
  is gone, recording comes back. *`Recorder`; not the elements of the pipeline.*
* **Black box log** (`record/blackbox`). Counter of frames, queue, block, file,
  statistics. A receiving and a writing thread; `stop()`. Hard: loss, restart of the
  board, a failing drive. Correct: order kept, nothing twice, every file
  closed in the journal, losses counted right. *`Blackbox`.*
* **Phase controller, camera API** (`control/`). The trim believed, the camera's band,
  the dialect of its API. A thread steps, asks over HTTP, gives the nominal frequency back at `stop()`.
  Hard: answers lost or cut, a camera that restarts, the video of another camera.
  Correct: what is believed is so, no command outside the band twice, the camera is
  given back. *`PhaseControl`; not the regulator's arithmetic and the lock indicator.*
* **Audio** (`audio/`). What to play, decided by one thread, is done by another; the main
  thread changes the port. Hard: a request falls into a rebuild, the journal grows.
  Correct: no request is lost, what the player plays is heard. *`PlaybackAudio`; not devices, volume and meter.*
* **Screens and presets** (`ui/screen_presets`, `screen_ui`, `durable_write.hpp`). Presets edited by
  the render thread, saved by another, replaced durably. Hard: a power cut between
  any two steps of a save, an edit during a save, `stop()` while the renderer runs. Correct: a file
  is one whole version, no edit is forgotten. *`Presets`; not the widgets.*
* **Supervisor** (`supervisor/`). Pids, `g_stop`, `fail_streak`. Runs the station or the
  editor, keeps the relay and the RTSP keeper. Hard: a signal between any two system
  calls, children dying in any order, failing `fork`. Correct: one owner of the
  screen, what dies comes back, a stop reaches all. *`Supervisor`.*
* Everything else is under "Not modelled".

## Display

*Variables.* Each slot is an `Output` of the vector `outs`: `gen` is
`state.generation`, `ring` the states of its `Slot`s, `pending`, `inFlight`, `current` its
three indices, `modesetDone` its flag.
`retired` and `liveBufs` are the buffers that outlive their ring. The kernel is
`act` (CRTC active), `scan`, `queued` (one flip per CRTC), `events`.

*Actions.* One per section under `mtx` and one per ioctl outside it. `queue` and
`on_flip` both end in `try_commit`: `TryCommit` is its locked capture, `CommitOk` and
`CommitFailed` the ioctl, `CommitUndo` the cleanup, `ModesetMark` the write of the flag
without the lock. The event thread takes `OnFlip`, `Hotplug`, `ForcedTeardown`
(`VRX_TEST_TEARDOWN`), `Close`, then walks the slots (`KeepOutput`, `TurnOff`, `Destroy`) and
the connectors (`Probe`, `SkipConnector`, `Configure`, `PlaneOff`), and assigns the roles in
`EndOfProbe`. The renderer's pass is `LookPrimary`, `Acquire`, `ReadRole`, `PresentQueued`
and so on, then `NextExtra` for the other screens.

*The kernel as assumed.* A CRTC accepts one flip until its event; a flip is
shown at the next sweep; removing a framebuffer that is scanned leaves the CRTC
without a plane; ids of removed framebuffers are not reused while a commit that
captured one is under way; every CRTC is off at the start. A slot keeps its CRTC.
Turning a CRTC off may fail. Timeouts of waits take no step: the loop looks again.
`commit` reads some fields of the output without the lock while they may be torn down:
every such read ends in the outcome "commit fails" or "commit succeeds", which the
model has. The commit that takes the plane away before the first frame (`PlaneOff`) succeeds; the code does not ask whether it did.

*Misled configurations.* A flip event handled after its slot was reconfigured is
taken for one of the new ring. `misled` remembers those configurations, and the
properties of rings speak of the rest (`Sound`). Without it they would all say again
what `NeverDrawsOnScreen` says, which does not hold.

*Runs.* `display_two_outputs` (two connectors, two buffers each, two
configurations): `NoTear`, `DrawingIsHeld`, `BuffersAccounted`, `FlipConfirmsFrame`, `RoleFollowsRule`.
Two buffers are the tightest ring, in which each mistake of accounting shows. `display_liveness` (one
connector with the same two buffers, torn down at any moment by `TestTeardown`): `RingConsistent`, and that every screen goes on being drawn
and every monitor is followed. Two configurations (`MaxGen`) are enough for a stale step to meet a
successor; a third meets only the same pair again. Deadlock is not checked: after `close()` the system stops.

*Fairness.* Both threads are scheduled; the event loop serves the descriptor
and its timer again and again (strong: `poll` is left and entered); the sweep of a
connected monitor goes on; a connector that stays is configured at last, since the loop
retries every second. Commits may fail for ever.

## Storage and Recorder

*Variables.* `Storage` has the kernel's mount (`mounted`, numbered in `mounts`), what the
probe published (`mountId`, 0 for an empty root, `generation`, `aged` for a snapshot older than `drive_stale_ms`),
the place of `probe_loop` and its locals, and the `files`: each with the mount it lies on, its writer, whether it
is open, fresh, gone, has its key frame, and which line the journal has of it. The mount 0 is the system disk, under the bare mount point. `Recorder` has per channel the place in
`loop()`, the snapshot's number while a file may be opened by it (`seen`), `pipeline`, `current`, `driveGen`, `active`, and `why`
the file is being closed.

*Actions.* `Scan`, `Accept`/`Reject`, `List`, `Remove`, `Reclaimed` are a turn of the probe: the
drive may go between the reading of `/proc` and `statvfs`, and between the listing of the old files and each `unlink`.
A turn of a recorder is `CloseForPort`, or `CloseLost`, or `CloseWorking`, or `Look`; then `MakePath` and
`Launch`, each of which may block while drives are swapped, or `OpenFails`, `PlayFails`. `close_file` is
`BeginClose` and `EndClose`, with up to ten seconds between them. The journal's lines can be written as long as the drive is there, and on the system disk always.

*The system disk.* `make_path` asks only whether a root is published, and `mkdir_p` makes what is missing of the path. Between a pull and
the next turn of the probe a recorder therefore makes its file on the system disk, with the number of the drive that has gone. The
model has these files: `MakePath`, `Launch` and `PlayFails` do not ask for a mount, and the ring, which asks no more than they do, may list what lies there. Directories are not
remembered: one made earlier under the mount point may still be there when `Launch` runs. All mounts have the same path; that udisks may choose another name
beside a directory left over is left out (a new mount is a new drive in any case). On `/run/media`, a tmpfs, the bare mount point even passes the tests of `Accept`.
So the number alone does not tell that a file is on a drive. `NumberTellsDrive` says what it does tell: with the published number a file is on the
published drive, on a later one, or on the system disk, and in the last case the published drive is no longer the one in place, so the next turns of the probe change the
number. `TornFileIsClosed` says that such a file is closed then, and `JournalPairs` that it gets its closing line.
A stop is the loop that finds `running` false at the head of a turn, in `LastClose` and `LastTurn`.

*Run.* `recorder`: one channel, two mounts, two numbers, two files. Two mounts are one swap;
a third meets the recorder with the same pair old/new. Recorders share only
the list of files, and the theorems hold for every set of channels. `Safety` is: the recorder's number never passes
an older drive for the published one; the ring never removes a file into which frames go; the journal pairs openings and closings;
`active` is not said of a file being closed. `FilesLiveRight` is the refinement: every file lives as `FileLife` says.
`TornFileIsClosed`: a file whose drive is gone, or that lies on none, is closed, even when the probe hangs. `RecordingComesBack`.

*`LongSilence`.* The ring takes the age of a file for its being unused, and the age is what
the clock says. With `LongSilence = TRUE` an open file may go unwritten for `keep_recent_sec`, and then the ring
removes it: `ActiveFileIsKept` does not hold. The run and the theorems have it `FALSE`.

*Fairness.* Threads are scheduled, packets come again, a path and a pipeline that can be had are had at
last; no bus error, port change or stall has to happen. The probe may hang for ever, and then its snapshot
grows old.

## Blackbox

*Variables and actions.* The board sends frames (`Send`, lost or put in the socket) and
restarts (`Reboot`); the drive comes and goes (`Drive`). `Receive` and `Push` are the
two parts of a turn of `rx_loop`, between which the writer may run. The writer's turn is
`Take`, `CheckDrive`, `StartOfLog` (which goes on to `Orphan` for data without a file), `Open`, `Opened`,
`Gather`, `EndOfLog` (both finish with `EndOfTurn`), or `IdleClose`; `close_file` and `flush_acc`, which call each other, are `CallClose`, `FlushOk`,
`FlushFailed`, `Unwind`, with the label to return to in `ret` and the nesting in
`depth`. A frame is its number in the order of sending, its three flags and the counter
modulo `CounterMod`. A malformed frame changes only its own counter, and UDP neither
duplicates nor reorders on the direct cable: both are left out. What `open` fails on, the
names and the bytes are abstracted; a write may be short or fail. `usable` is the published snapshot, in which the root is empty exactly when no drive is present, so `Open` asks
what `make_path` asks; that the file may then lie on the system disk is not told apart here: it bears the published number. When
`close_file` is on the stack more than once, the outer calls add closing lines without a file's name (`blackbox.cpp:260-291`); they are left out, and `blackbox_safety` has a
stack of one.

*Runs.* `blackbox_safety` (three frames, two drives, a queue and block of two, a counter
modulo four that starts at its last value, so that wrap, gap and reset all meet):
`Safety` (the queue is accounted for, `stop()` drains it, the journal pairs), `InOrder`, `LostIsHonest`, `FileIsClosed`.
`MCFrames` are the frames the board sends: the first, the middle and the last of a log, and a last one without data; a log of one
single frame is left out. The bound on frames stands for a board that falls silent, without which a file without an end rightly stays open.
`blackbox_failed_write` shows a recursion without end when a write fails: `flush_acc` and `close_file` call each other with the
same block. `stop()` ends the system, so deadlock is not checked.

*Fairness.* The writing thread is scheduled; a file is closed without the help of the receiving one. `FairSpec`
leaves out `FlushFailed`: after it the station is gone.

## LiveSource

*Variables.* Times are ages: `input` and `output` say how long ago a buffer went into the decoder and a frame
came out, `settled` that the pipeline had its time. `queue` counts frames, `inUse` is the frame the renderer holds, `pushing`
a frame stamped and not yet queued. `latest`: the pipeline was built with the present port. `want` is `want_rebuild`.

*Actions.* `Stamp` and `Push` are `on_sample`, `AskSignal` and `Take` are `acquire()`, which looks at the age of the output before it takes the lock; `main.cpp` stops the renderer before the sources.
`SetPort` and `SetPortEnds` are the two writes of `set_udp_port`. The watchdog is `NapTest`, `NapWait`, `Wake`, `Look`, `Tear`, `TearClear`, `Build`;
the nap tests `running` before it waits, so a notify may come too early. `stop()` is `StopFlag`, `StopNotify`, `StopTear`, `StopClear`.

*Memory order.* The atomics are taken to be sequentially consistent. `set_udp_port` stores `port_override` and `want_rebuild` relaxed
(`video_source.cpp:653-654`): C++ alone does not promise that whoever sees the wish sees the port, and that no change of
port is forgotten holds under this assumption.

*Run.* `live_source`: a queue of two of which one is wanted, so that both the drop in `Push` and the trim in `Take` happen; one failure
is enough for the back-off. `Safety` (no change of port is forgotten; after `stop()` nothing is held), `PictureStays`, `StopReturns`, `TroubleEnds`
(a hung decoder is rebuilt; once nothing breaks the picture comes back and stays).

*Fairness.* Threads are scheduled and time passes; a `stop()` that began goes on; a pipeline on its way to NULL gets no more
frames; the camera sends; `build()` does not fail for ever.

## PlaybackSource

*Variables.* Two files follow each other, the second is still written: `size`, `safe` (the journal's last mark) and `closed` are
the disk's, `ixLimit` what the loaded index says. `limit`, `pos`, `fileSize` are the feeder's; `pipe` is
what appsrc and the decoder hold; `held` is the frame in `take()`; `queue`, `current` the renderer's side. `callPc` is the place in `seek()` or `stop()`.

*Actions.* `PumpReads`, `PumpFinds`, `PumpRests`, `PumpPushes`; `Deliver`, `TakeTests`, `TakeWaits` (test and wait under one mutex, which
the teardown's notify does not take); `Acquire`; `Refresh`, `SetTarget`, `Seek`; teardown and build as `Drop`, `Notify`, `Join`, `Null`, `Clear`, `Build`.

*Left out.* `take()` drops a sample without caps, outside dmabuf or in an unknown format without a word (`playback_source.cpp:122-144`). In the model every
sample is a frame that can be shown; a decoder that gives none of these would leave the screen as it is.

*Run.* `playback`: five frames and two, a queue of two, a pipe of one: the chain of pump, pipe, hand, queue and screen is full with
frames left in the file. `Safety` (from the screen to the place in the file no frame is missing, doubled or of another
place, across every seek; nothing is read that the journal has not said to be safe), `ShownIsDue`, `CatchesUp` (pump, decoder, queue and renderer never wait in
a ring), `TeardownEnds` unless the notify falls between the test and the wait of `take()`.

*Fairness.* The four threads are scheduled; the caller once it is inside a call. The user need not do anything.

## PlaybackAudio

*Variables.* The user (`on`, `session`, `playerPos`, `paused`, `port`), the dispatcher (`st`, `curPath`, `curJournal`, its index `ix*`), the wish under `want_mtx` (`want`, `moved`) and the atomic
`rebuild`, the output (`outPc`, the wish it has read `got`, what plays `outUp`, `filePos`). Names that `PlaybackSource` has
too begin with `Sound`, so that `PlayerProofs` can extend both.

*Actions.* `Decide` is `step()`; the wish is written by `WriteWish` and the flag set by `FlagWish`, in that order; `PauseFile` and `SeekFile` act on a file
that plays. The output clears the flag (`ClearFlag`), then reads the wish (`ReadWish`), then `Mute`, or `BuildOut` and `RunOut`, `Teardown`, `Nap`. `SetPort`, `SetPortTests`, `SetPortFlags` are
`set_udp_port`, which asks without a lock what the output does. `file_seek` (`audio_out.cpp:271`, `329`) is taken to succeed: the code does not look at its
outcome, and after a failed seek the sound would stay off its place until the next one.

*Run.* `playback_audio`: an old session of one place and the own of two, three moves of the user, one fault. Three moves are enough to open a
session, leave it and come back. `SoundSafety` (no wish and no port is lost), `SoundFollows`, `PlayerIsObeyed` (pause is silent, the air comes back, off is off).

*Fairness.* Both threads are scheduled, reload and cool-down times pass, `set_udp_port()` returns.

## PhaseControl

*Variables.* Each camera's `trim` and `band`; `src`, where the video comes from; the API's `host`, `dialect` and the request under way, `call`, with its
answer; the controller's `known` band, `applied`, `want`, `due`, `failed`. `doubt` (the camera may differ from `applied`) and `refusals` are history.

*Actions.* `Begin`, `PushZero`, `Wake`, `Retarget`, `Hold`, `Steer`, `Leave` are the thread; a call blocks it. `NewCameraServes` and `OldCameraServes` are what the code and its comments say
of the two firmwares (external). `TakeStatus`, `TakeState`, `TakeBare`, `TakeCode`, `TakeSilence` are what each answer does, the guess of the dialect included. `LoseRequest`, `LoseAnswer`,
`Restart`, `VideoMoves` are the faults.

*Run.* `phase_control`: a new and an old camera, two bands that differ at both ends of what the loop asks for, two faults, two moves. Two faults are a lost answer and a
restart, or a restart during a recovery. `Safety` (the trim believed is true unless something was lost since; at most one refusal; `stop()` gives the camera back or reports the
failure), `TrimIsRestored`, `StopReturns`.

*Fairness.* The thread runs, what is not lost is answered, time passes, frames are seen again and again (strong, since `Steer` is left and come back to).

## Presets

*Variables.* A layout is its version: `edits` made, `memory` on the screen, `dirty`. `writePc`, `job`, `version` are `write_file_durably` at work. The file system: `tmp`,
`named` (what a name stands for in the cache), `onDisk` (what the disk would have after a cut), `safe` (files whose data are on the disk).

*Actions.* `Edit` is the render thread; `SaverNaps`, `SaverLooks`, `StopBegins`, `StopFlushes` are saver and `stop()`; `Opens`, `Writes`, `Fsyncs`, `Renames`, `DirFsyncs`, `Fails` are the
write; `WriteBack` and `Commit` are the kernel in writeback mode, which may commit a name before its data; `PowerCut` at any moment, then `Start`.

*Run.* `presets`: two presets, two edits each: an edit during a save and one preset waiting for another. `FileIsAtomic` is the refinement: on disk, through every power cut, each file is
one whole version that was asked for and never an older one than before. `Safety` (what is clean is saved or on its way; `stop()` leaves only late edits), `EditReachesDisk`.

*Fairness.* Threads and kernel go on, edits pause.

## Supervisor

*Variables and actions.* `pc` is the place in `main`, `start_relay` or `start_rtsp_keeper`
(`test`, `fork`, `set`, with `helper`), and `run_and_wait` (`run`, `child`, `wait`, `after`). `gChild`,
`gRelay`, `gKeeper` are the pids, `state` the processes: forked (still with the handler of the
parent, which spends a signal), live, told, dead and not reaped, none. The keeper
has a place of its own. `Signal` may come before any step. `wanted` is the exit
code 10. An interrupted `waitpid` is called again and takes no step; the branch "no
child left" and "some other child" cannot be reached. The length of a
pause is kept only where it is computed (`back`); the keeper's pause is one step. A
server whose keeper was killed belongs to init and leaves the model.

*Runs.* `supervisor_safety` (both helpers, failing forks, two signals): `ScreenHasOneOwner`,
`NoSecondOfAKind`, `PauseFollowsFailures`. `supervisor_screen_and_relay` (the relay alone, so that the
many fairness conditions stay cheap): what dies comes back, and a told station ends everything.
Two signals cover "told again"; the handler is idempotent, so a third repeats the second.

*Fairness.* The kernel schedules every process; a `fork` tried for ever
succeeds at last; `waitpid` gives the oldest dead child, so each is reaped at last; a process
that was told to end ends (the station handles SIGTERM).

## Statements that do not hold

Some properties are defined in a module, say what a comment or a document of the code says, and
are violated by what the code does. One has a run, `blackbox_failed_write`, and is a finding. The others can
be seen by naming them in a configuration of their module.

* `Display`: `NeverDrawsOnScreen` (a late flip event frees the buffer on the screen), `ModesetDoneMeansOn`
  (the flag is written without the lock, perhaps on a later configuration), `NoActiveCrtcWithoutPlane`, `LastOneIsPrimary` (with `TestTeardown`).
* `Recorder`: `OnlyDrivesAreWritten` (`storage.cpp:145` says that what is on the device of `/` is the system itself; a recorder writes there
  between a pull and the turn of the probe that notices it), `ErrorsAreOurs` (a pulled drive is counted as an error of the pipeline when the bus is quicker than
  the probe), `ActiveFileIsKept` (with `LongSilence`). A file whose pipeline does not play stays on the drive, empty and out of
  the journal (`PlayFails`).
* `Blackbox`: `RestartIsNotALoss` (with `LateReboot`: a restart after half of the range is taken for a loss), `GapsOfThisLog` (four frames),
  `FileOfThisDrive`, `HolesAreVisible`.
* `LiveSource`: `HealthyIsLeftAlone`: a pipeline in order is rebuilt when the camera comes back after a long silence, since
  the age of the output is then that of the silence. The notify of `set_udp_port` wakes nobody, and that of `stop()` can
  be lost, which costs at most the nap of eight seconds.
* `PlaybackSource`: `FeederIsReleased` (a notify between test and wait), `ZeroIsNotTheEnd` (the file is
  closed between the read that found nothing and the question whether it grows), `PlaysOn` (nothing brings the next file).
* `PlaybackAudio`: `LiveSoundGoesOn`: the index keeps the id of the first session it was loaded with, so the own
  session opened as the second one is not taken for live.
* `PhaseControl`: `DialectIsKept` (`camera_api.hpp:148` says that a valid envelope settles the contract; a cut answer
  still makes a new camera an old one), `NobodyIsLeftTrimmed` (the camera left at a move keeps its trim), `NeverRefused`
  (`phase_controller.cpp:380`).
* `Presets`: `StopKeepsState` (the renderer outlives the flush), `FailureIsRetried`.
* `Supervisor`: `StopStops`, `StopTellsRelay` (a signal between a fork and the store of its pid), and
  `RelayComesBack` with `ForkFails = TRUE`.

## What is proved

Every theorem holds for every value of the constants, under the module's named assumption
on them and what is said below. Each strengthened invariant was first checked by TLC on the instance of the module's run.

* `DisplayProofs`: `TypeCorrect`, `DrawingHeld`, `RingsConsistent`, `FlipsConfirmed`, `NeverTears`, `BuffersAreAccounted`, `RoleByTheRule`:
  every invariant of the runs. Besides the type, `DrawingHeld` needs that a buffer the
  renderer is about to take or has taken is at hand in its live ring or retired (`TargetAtHand`) and that
  generations are fresh (`GenerationsFresh`: two configurations never share a number), so that a
  retired buffer cannot be mistaken for one of a later ring. `HeldInv` is their conjunction.
  The next three rest on `FlipPre`, which is `HeldInv` with `FlipInv`: what the kernel scans or has queued is of the present ring or
  is the retired buffer that the renderer holds (`KernelKnows`), no event and no commit is of a configuration to come (`EventsKnown`,
  `JobsKnown`), a slot that is down has nothing pending (`DeadIsEmpty`), and for
  each slot that no kernel error has misled (`SlotInv`) the indices of the ring and the states of its buffers belong together
  (`Matches`), a queued flip and a commit under way are of the frame in flight (`QueuedIsInFlight`, `JobIsInFlight`), the frame scanned is the
  current one or the one whose event is queued (`EventConfirms`, `ScanIsCurrent`), and while the renderer is busy with a ring torn down,
  the one that followed it is untouched (`LateIsFresh`).
  `BuffersAreAccounted` adds how far a teardown has come (`TornDown`) and that its target is kept (`TargetIsKept`).
  `RoleByTheRule` is `RoleFollowsRule` without `TestTeardown`: the test variable takes the roles away without telling
  the loop that they have changed, so with it the role may be none until the next change.
* `RecorderProofs`: `RecorderIsSafe` and `RecorderImplementsFileLife`, with `LongSilence = FALSE`, for every number of channels,
  mounts and files. `Mounts` says that mounts only grow, `Numbers` that a recorder's number is
  never ahead of the published one and, while it equals it, its file lies on that mount or a later one, or on the system disk and the published mount has
  gone; a file lands there only by a number taken while a drive was published (`Placed`), which is why the last case is the only one. `Held` that each open file belongs to exactly the recorder that has it at hand, and is fresh while it is written;
  `Placed` ties the place in `loop()` to the pipeline and to the number taken. The refinement maps a file to its writer, its phase and whether it has content;
  steps of the drive and the probe other than `Remove` are stutters.
* `SupervisorProofs`: `OneOwner`, `OneOfAKind` and `PauseFollows`. The first two are not inductive; `KnownInv` adds that
  a program not yet reaped is the one waited for, and a helper not yet reaped is registered or about to be. So
  nothing rests on the timing of signals. `PauseInv` says that the counter of failures is the number of short lives
  in a row cut at four (`StreakIsCut`), and at which places the pause in hand is the one of that number (`PauseIsRight`).
* `LiveSourceProofs`: `SourceIsSafe` and `PictureDoesNotBlink`. `TakenDown` says what each place of watchdog and `stop()` has already torn down, so
  that nothing is held when `stop()` returns. The second is an action property: with a fresh signal there is a frame
  in the queue or on the screen (`FrameAtHand`), the queue is empty only where somebody has emptied it (`Emptied`), and the renderer
  does not ask after `stop()` (`AsksInLife`).
* `PlayerProofs`: `FeedIsSafe`, `NothingIsEarly` and `NoRequestIsLost`. A frame is in one of four places (pipe, hand of `take()`, queue, screen), and
  `Fed` says of each which consecutive frames it holds, counted back from the place in the file, so that a step of a thread moves one frame from one `Run` to the next
  and `RunConcat` puts them together. `Torn` and `Idling` say what a call has taken down at each of its
  places, so that nothing old is left when it builds; `Limits` ties the feeder's limit to the journal's marks. `NothingIsEarly` adds that
  the anchor is the played file's (`Anchoring`), so a frame is judged by its own time. `NoRequestIsLost` is about `PlaybackAudio`:
  the wish an output settled in is the present one or the flag is or will be set, and the same of the port (`UpIsGot`,
  `PortCounts`).
* `BlackboxProofs`: `KeptBetweenTheThreads`, `LogIsInOrder`, `LossesBothWays` and `LossIsHonest`, for any sizes and numbers.
  The frames are at five stations: files, block, the writer's hand, queue, receiver. `OrderInv` says of each that it is in order and
  before what lies behind it (`BeforeBlock`, `BeforeHand`, `BeforeQueue`), so that a step has only to look at the frame it moves.
  `FileInv` says where the block is empty, which keeps the recursion of `flush_acc` and `close_file` from writing it twice, at any depth.
  `SmoothInv` and `EarlyInv` follow the data on a good drive into a file: with them `stop()` drains the queue. `queue_bytes` is
  counted frame by frame (`DataAppend`, `DataTail`). For the losses `CounterTells` compares the counter of any two frames with their
  order of sending. `LossesBothWays` gives each bound with only what it needs: no loss within one log and one run of the board
  goes uncounted if at most half of the range of the counter is sent (`MaxFrames <= Half + 1`), and none is counted that
  did not happen if the board restarts only in the first half (`~LateReboot`). `LossIsHonest` has both hypotheses; the run of TLC satisfies them too.
  The first is a true limit and not a convenience: a hole of more than half of the range is taken by the code for a restart.
* `PhaseControlProofs`: `CameraIsGivenBack`, the whole of `Safety`. `Spoken` says which answers a request can have, `Linked` what an answer under way
  says of the camera, `Informed` that the loop knows the camera's band once it was refused and so asks for nothing outside, `Parting` that
  the last request is for zero and what its answer means.
* `PresetsProofs`: `SavesAreSafe` and `FilesAreDurable`. The latter is the refinement: a name without its data never reaches
  the disk, because the data of what a rename gives a name to are already there; versions only grow, because one write runs at a time.

Every invariant, action property and refinement that a run checks is stated by a theorem (`RoleFollowsRule` and `LostIsHonest`
under the hypotheses named above). Only model-checked are the liveness properties, since fairness and ENABLED are out of the prover's reach.

## Not modelled

The larger part of the lines of the repository is vendored (`osd/json.hpp`, `osd_editor/src/json.hpp`, `stb_image`) or
draws: neither has a state that several actors share. Of the rest:

* **`PlayerSession`** (mailbox and clock of the player). It was read: one thread's arithmetic over a list of
  files, with requests posted under a lock and merged between two ticks. Cases worth a module of its own: a `close()` that falls into
  a reload leaves length and liveness of the closed session; `close()` does not clear the mailbox; a failed open leaves the
  old journal open; a step past the end of the timeline.
* **Storage's sync thread, udisks and the cleaning of the mount point**: blocking calls with a bounded wait for a flag, of which the
  recorders see only that files are flushed or not.
* **Phase meter, path meter, link monitor**: floating-point statistics, and counters published by one polling thread.
* **Telemetry**: one thread resynchronises on the bytes of one producer; better tested on recorded streams.
* **Subtitle writer, snapshot**: one thread each, sharing one name or one flag.
* **USB relay, RTSP server**: single loops over one device and over gst-rtsp-server; the death of their processes is in `Supervisor`.
* **OSD, layout, interface, main, license, OSD editor, tools**: drawing, widgets, wiring, a check made once, desktop and
  installation programs. `PROJECT.json` has the reason for each.

Hazards that were seen and are in no model: the rates measured in `display.cpp` and their anchors, the wrap of the circular phase in
`phase_controller.cpp`, the flag `storage.cpp:581` that only one exit of the sync thread sets, names of files with a granularity of one second.
