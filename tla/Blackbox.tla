------------------------------ MODULE Blackbox ------------------------------
(***************************************************************************)
(* record/blackbox.cpp: the flight log that the board sends by UDP.  The   *)
(* receiving thread (rx_loop) watches the frame counter and queues the     *)
(* data; the writing thread (wr_loop) gathers blocks and writes them to a  *)
(* file on the removable drive.                                            *)
(*                                                                         *)
(* The board, the network, the drive and Storage are external.  A frame    *)
(* loses its bytes here and is only a number in the order of sending, kept *)
(* in the data as history; its size is one unit, or zero when it has no    *)
(* data.  close_file and flush_acc call each other: depth is the number of *)
(* close_file frames on the writer's stack.                                *)
(***************************************************************************)
EXTENDS Integers, Sequences, SequencesExt

CONSTANTS
    CounterMod,  \* values of the frame counter, 2^16 in the code
    Frames,      \* bound: start, end, data of the frames the board sends
    FirstSeq,    \* bound: values of the counter when the station starts
    QueueMax,    \* queue_max_bytes, in units of data
    Block,       \* block_bytes
    MaxFrames,   \* bound: frames the board sends
    SocketMax,   \* bound: frames the socket holds
    MaxGen,      \* bound: drives seen in a run
    MaxDepth,    \* calls of close_file the stack has room for
    LateReboot   \* the board may restart with any counter

ASSUME BlackboxAssumption ==
    /\ Frames \subseteq {f \in BOOLEAN \X BOOLEAN \X BOOLEAN : f[3] \/ (f[2] /\ ~f[1])}
    /\ CounterMod \in Nat \ {0, 1} /\ FirstSeq \subseteq 0 .. CounterMod - 1
    /\ QueueMax \in Nat \ {0} /\ Block \in Nat \ {0}
    /\ MaxFrames \in Nat /\ SocketMax \in Nat \ {0} /\ MaxGen \in Nat \ {0}
    /\ MaxDepth \in Nat \ {0} /\ LateReboot \in BOOLEAN

VARIABLES
    sent, seqNo, boot, socket,  \* the board: frames sent, its counter, its restarts; frames under way
    usable, generation,         \* the drive, as Storage::state() shows it
    running,                    \* running
    rxPc, haveSeq, lastSeq, rxChunk,   \* rx_loop: its place, have_seq, last_seq, the frame at hand
    gaps, lost, dropped,        \* Stats
    queue, queueBytes,          \* the queue between the threads
    wrPc, chunk, dsUsable,      \* wr_loop: its place, Chunk c, the snapshot ds
    acc, depth, ret,            \* the block, the nesting, where the call returns to
    out, driveGen, gaps0, lost0,\* is a file open; drive_gen, cur_gaps0, cur_lost0
    files,                      \* the files made: what they hold, what the journal says of them
    lastId, lastBoot, missing, missingSame,  \* history: the last frame received, the frames really lost
    trouble,                    \* history: a drive absent or changed, a failed open or write
    early                       \* history: the data queued before stop()

boardVars == <<sent, seqNo, boot, socket>>
driveVars == <<usable, generation>>
rxVars    == <<rxPc, haveSeq, lastSeq, rxChunk>>
lossVars  == <<lastId, lastBoot, missing, missingSame>>
queueVars == <<queue, queueBytes>>
wrVars    == <<chunk, dsUsable, driveGen, gaps0, lost0>>
vars == <<boardVars, driveVars, running, rxVars, gaps, lost, dropped, queueVars, wrPc, wrVars,
          acc, depth, ret, out, files, lossVars, trouble, early>>

NoChunk == [id |-> 0, start |-> FALSE, end |-> FALSE, data |-> FALSE]
Size(c) == IF c.data THEN 1 ELSE 0
Half == CounterMod \div 2

-----------------------------------------------------------------------------
(* The board, the wire and the drive. *)

\* The board sends a frame; only the end of a log comes without data.
Send(start, end, data) ==
    /\ sent < MaxFrames
    /\ <<start, end, data>> \in Frames
    /\ LET f == [seq |-> seqNo, boot |-> boot,
                chunk |-> [id |-> sent + 1, start |-> start, end |-> end, data |-> data]]
       IN  \/ socket' = socket
           \/ Len(socket) < SocketMax /\ socket' = Append(socket, f)
    /\ sent' = sent + 1
    /\ seqNo' = (seqNo + 1) % CounterMod
    /\ UNCHANGED <<boot, driveVars, running, rxVars, gaps, lost, dropped, queueVars, wrPc, wrVars, acc,
                   depth, ret, out, files, lossVars, trouble, early>>

\* The board restarts and counts from zero.
Reboot ==
    /\ seqNo # 0
    /\ LateReboot \/ seqNo < Half
    /\ seqNo' = 0
    /\ boot' = boot + 1
    /\ UNCHANGED <<sent, socket, driveVars, running, rxVars, gaps, lost, dropped, queueVars, wrPc,
                   wrVars, acc, depth, ret, out, files, lossVars, trouble, early>>

\* The drive is pulled out, or one is put in: another generation.
Drive ==
    /\ usable' = ~usable
    /\ generation' = IF usable THEN generation ELSE generation + 1
    /\ generation' <= MaxGen
    /\ trouble' = TRUE
    /\ UNCHANGED <<boardVars, running, rxVars, gaps, lost, dropped, queueVars, wrPc, wrVars, acc,
                   depth, ret, out, files, lossVars, early>>

-----------------------------------------------------------------------------
(* rx_loop. *)

\* The jump of the counter, in sixteen bits.
Miss(seq) == (seq - (lastSeq + 1)) % CounterMod

\* A gap is a jump ahead by up to half of the range; a larger one is a reset.
IsGap_NoReset(f) == haveSeq /\ ~f.chunk.start /\ Miss(f.seq) # 0
IsGap(f) == haveSeq /\ ~f.chunk.start /\ Miss(f.seq) # 0 /\ Miss(f.seq) <= Half

\* recv and the check of the counter.
Receive ==
    /\ running /\ rxPc = "recv" /\ socket # <<>>
    /\ LET f == Head(socket)
           between == f.chunk.id - lastId - 1
       IN  /\ gaps' = IF IsGap(f) THEN gaps + 1 ELSE gaps
           /\ lost' = IF IsGap(f) THEN lost + Miss(f.seq) ELSE lost
           /\ lastSeq' = f.seq
           /\ rxChunk' = f.chunk
           /\ lastId' = f.chunk.id /\ lastBoot' = f.boot
           /\ missing' = missing + between
           /\ missingSame' = IF haveSeq /\ ~f.chunk.start /\ f.boot = lastBoot
                             THEN missingSame + between ELSE missingSame
    /\ haveSeq' = TRUE
    /\ socket' = Tail(socket)
    /\ rxPc' = "push"
    /\ UNCHANGED <<sent, seqNo, boot, driveVars, running, dropped, queueVars, wrPc, wrVars, acc, depth,
                   ret, out, files, trouble, early>>

\* push: a full queue drops the frame.
Fits(c) == queueBytes + Size(c) <= QueueMax

Push ==
    /\ rxPc = "push"
    /\ IF Fits(rxChunk)
       THEN /\ queue' = Append(queue, rxChunk)
            /\ queueBytes' = queueBytes + Size(rxChunk)
            /\ early' = IF running /\ rxChunk.data THEN early \cup {rxChunk.id} ELSE early
            /\ UNCHANGED dropped
       ELSE /\ dropped' = dropped + 1
            /\ UNCHANGED <<queueVars, early>>
    /\ rxChunk' = NoChunk
    /\ rxPc' = "recv"
    /\ UNCHANGED <<boardVars, driveVars, running, haveSeq, lastSeq, gaps, lost, wrPc, wrVars, acc,
                   depth, ret, out, files, lossVars, trouble>>

ReceiveEnds ==
    /\ ~running /\ rxPc = "recv"
    /\ rxPc' = "ended"
    /\ UNCHANGED <<boardVars, driveVars, running, haveSeq, lastSeq, rxChunk, gaps, lost, dropped,
                   queueVars, wrPc, wrVars, acc, depth, ret, out, files, lossVars, trouble, early>>

\* Blackbox::stop.
Stop ==
    /\ running
    /\ running' = FALSE
    /\ UNCHANGED <<boardVars, driveVars, rxVars, gaps, lost, dropped, queueVars, wrPc, wrVars, acc,
                   depth, ret, out, files, lossVars, trouble, early>>

-----------------------------------------------------------------------------
(* wr_loop.  chunk and dsUsable are the locals of one turn. *)

boardAndRx == <<boardVars, running, rxVars, gaps, lost, dropped, lossVars, early>>
Goto(label) == wrPc' = label

\* close_file is called and returns to label; it does nothing when no file is open.
CallClose(label) ==
    IF out THEN Goto("flush") /\ depth' = 1 /\ ret' = label
           ELSE Goto(label) /\ UNCHANGED <<depth, ret>>

\* A chunk is taken from the queue.
TakenBytes(c) == queueBytes - Size(c)

Take ==
    /\ wrPc = "take" /\ queue # <<>>
    /\ chunk' = Head(queue)
    /\ queue' = Tail(queue)
    /\ queueBytes' = TakenBytes(Head(queue))
    /\ Goto("drive")
    /\ UNCHANGED <<boardAndRx, driveVars, dsUsable, driveGen, gaps0, lost0, acc, depth, ret, out,
                   files, trouble>>

\* Nothing came for idle_close_ms: the file is closed.
IdleDue_AtStop == out /\ ~running
IdleDue == out

IdleClose ==
    /\ wrPc = "take" /\ queue = <<>> /\ IdleDue
    /\ CallClose("take")
    /\ UNCHANGED <<boardAndRx, driveVars, queueVars, wrVars, acc, out, files, trouble>>

\* The loop ends when the station stops and nothing is queued.
MayEnd_AtOnce == ~running
MayEnd == ~running /\ queue = <<>>

WriteEnds ==
    /\ wrPc = "take" /\ MayEnd
    /\ CallClose("ended")
    /\ UNCHANGED <<boardAndRx, driveVars, queueVars, wrVars, acc, out, files, trouble>>

\* The snapshot of the drive; a file of a drive that is gone is closed.
DriveLost == out /\ (~usable \/ generation # driveGen)

CheckDrive ==
    /\ wrPc = "drive"
    /\ dsUsable' = usable
    /\ IF DriveLost THEN CallClose("start") ELSE Goto("start") /\ UNCHANGED <<depth, ret>>
    /\ UNCHANGED <<boardAndRx, driveVars, queueVars, chunk, driveGen, gaps0, lost0, acc, out,
                   files, trouble>>

\* A chunk without a file, from the middle of a log, opens one too.
Orphan(open) == IF ~open /\ chunk.data /\ dsUsable THEN "open2" ELSE "append"

\* The start of a log opens a new file: open_file first closes the old one.
OldFile == CallClose("open")

StartOfLog ==
    /\ wrPc = "start"
    /\ IF chunk.start THEN OldFile ELSE Goto(Orphan(out)) /\ UNCHANGED <<depth, ret>>
    /\ UNCHANGED <<boardAndRx, driveVars, queueVars, wrVars, acc, out, files, trouble>>

\* open_file: make_path, which asks only whether a root is published, and
\* open(O_EXCL).  A file made just after the pull, on the system disk, bears
\* the number published.
Open ==
    /\ wrPc \in {"open", "open2"}
    /\ \/ /\ usable
          /\ out' = TRUE
          /\ files' = Append(files, [gen |-> generation, ids |-> <<>>, closed |-> FALSE,
                                     gaps |-> 0, lost |-> 0])
          /\ Goto("opened")
          /\ UNCHANGED trouble
       \/ /\ Goto(IF wrPc = "open" THEN Orphan(FALSE) ELSE "append")
          /\ trouble' = TRUE
          /\ UNCHANGED <<out, files>>
    /\ UNCHANGED <<boardAndRx, driveVars, queueVars, wrVars, acc, depth, ret>>

\* open_file, the rest: the generation of the drive, the counters so far.
Opened ==
    /\ wrPc = "opened"
    /\ driveGen' = generation
    /\ gaps0' = gaps /\ lost0' = lost
    /\ Goto("append")
    /\ UNCHANGED <<boardAndRx, driveVars, queueVars, chunk, dsUsable, acc, depth, ret, out, files,
                   trouble>>

\* The turn ends; the end of a log closes the file.
EndOfTurn ==
    /\ IF chunk.end THEN CallClose("take") ELSE Goto("take") /\ UNCHANGED <<depth, ret>>
    /\ chunk' = NoChunk
    /\ dsUsable' = FALSE

\* The data joins the block; a full block is flushed.
Gather ==
    /\ wrPc = "append"
    /\ acc' = IF out /\ chunk.data THEN Append(acc, chunk.id) ELSE acc
    /\ IF out /\ chunk.data /\ Len(acc') >= Block
       THEN Goto("flush") /\ depth' = 0 /\ ret' = "end" /\ UNCHANGED <<chunk, dsUsable>>
       ELSE EndOfTurn
    /\ UNCHANGED <<boardAndRx, driveVars, queueVars, driveGen, gaps0, lost0, out, files, trouble>>

\* After the flush of a full block.
EndOfLog ==
    /\ wrPc = "end"
    /\ EndOfTurn
    /\ UNCHANGED <<boardAndRx, driveVars, queueVars, driveGen, gaps0, lost0, acc, out, files,
                   trouble>>

\* flush_acc: write() takes the block, or the beginning of it; then the block is emptied.
AfterWrite_Kept == acc
AfterWrite == <<>>

FlushOk ==
    /\ wrPc = "flush"
    /\ \E n \in (IF acc = <<>> THEN {0} ELSE 1 .. Len(acc)) :
          /\ files' = [files EXCEPT ![Len(files)].ids = @ \o SubSeq(acc, 1, n)]
          /\ trouble' = (trouble \/ n < Len(acc))
    /\ acc' = AfterWrite
    /\ Goto("unwind")
    /\ UNCHANGED <<boardAndRx, driveVars, queueVars, wrVars, depth, ret, out>>

\* write() failed: flush_acc calls close_file, which calls flush_acc with the
\* same block.
FlushFailed ==
    /\ wrPc = "flush" /\ acc # <<>>
    /\ trouble' = TRUE
    /\ IF depth < MaxDepth THEN depth' = depth + 1 /\ UNCHANGED wrPc
                           ELSE Goto("crashed") /\ UNCHANGED depth
    /\ UNCHANGED <<boardAndRx, driveVars, queueVars, wrVars, acc, ret, out, files>>

\* The innermost flush_acc returned: every close_file on the stack goes on.
\* The first closes the file and writes its line of the journal; those around it,
\* with depth > 1, add lines without a name, which are left out.
Unwind ==
    /\ wrPc = "unwind"
    /\ IF depth = 0 THEN UNCHANGED <<out, files>>
       ELSE /\ out' = FALSE
            /\ files' = [files EXCEPT ![Len(files)] =
                            [@ EXCEPT !.closed = TRUE, !.gaps = gaps - gaps0, !.lost = lost - lost0]]
    /\ depth' = 0
    /\ ret' = "take"
    /\ Goto(ret)
    /\ UNCHANGED <<boardAndRx, driveVars, queueVars, wrVars, acc, trouble>>

-----------------------------------------------------------------------------
Init ==
    /\ sent = 0 /\ seqNo \in FirstSeq /\ boot = 0 /\ socket = <<>>
    /\ usable \in BOOLEAN /\ generation = 1
    /\ running = TRUE
    /\ rxPc = "recv" /\ haveSeq = FALSE /\ lastSeq = 0 /\ rxChunk = NoChunk
    /\ gaps = 0 /\ lost = 0 /\ dropped = 0
    /\ queue = <<>> /\ queueBytes = 0
    /\ wrPc = "take" /\ chunk = NoChunk /\ dsUsable = FALSE
    /\ acc = <<>> /\ depth = 0 /\ ret = "take"
    /\ out = FALSE /\ driveGen = 0 /\ gaps0 = 0 /\ lost0 = 0
    /\ files = <<>>
    /\ lastId = 0 /\ lastBoot = 0 /\ missing = 0 /\ missingSame = 0
    /\ trouble = ~usable /\ early = {}

World == Reboot \/ Drive \/ \E start, end, data \in BOOLEAN : Send(start, end, data)
RxLoop == Receive \/ Push \/ ReceiveEnds
WrLoop ==
    \/ Take \/ IdleClose \/ WriteEnds \/ CheckDrive \/ StartOfLog \/ Open \/ Opened
    \/ Gather \/ EndOfLog \/ FlushOk \/ Unwind

Next == World \/ Stop \/ RxLoop \/ WrLoop \/ FlushFailed

Spec == Init /\ [][Next]_vars

\* The writing thread is scheduled; a file is closed without the help of the other.
FairSpec == Spec /\ WF_vars(WrLoop)

-----------------------------------------------------------------------------
(* Properties. *)

Ids(q) == [k \in 1 .. Len(q) |-> q[k].id]
Written == UNION {ToSet(files[k].ids) : k \in DOMAIN files}

\* Every variable has its type, and the loop its place.
Chunks == [id : 0 .. MaxFrames, start : BOOLEAN, end : BOOLEAN, data : BOOLEAN]
BoardTypes ==
    /\ sent \in 0 .. MaxFrames /\ seqNo \in 0 .. CounterMod - 1 /\ boot \in Nat
    /\ socket \in Seq([seq : 0 .. CounterMod - 1, boot : Nat, chunk : Chunks])
    /\ usable \in BOOLEAN /\ generation \in 1 .. MaxGen /\ running \in BOOLEAN /\ trouble \in BOOLEAN
RxTypes ==
    /\ rxPc \in {"recv", "push", "ended"} /\ haveSeq \in BOOLEAN
    /\ lastSeq \in 0 .. CounterMod - 1 /\ rxChunk \in Chunks
    /\ gaps \in Nat /\ lost \in Nat /\ dropped \in Nat
    /\ queue \in Seq(Chunks) /\ queueBytes \in Nat
    /\ lastId \in 0 .. MaxFrames /\ lastBoot \in Nat /\ missing \in Nat /\ missingSame \in Nat
    /\ early \subseteq 1 .. MaxFrames
WrTypes ==
    /\ wrPc \in {"take", "drive", "start", "open", "opened", "open2",
                 "append", "end", "flush", "unwind", "ended", "crashed"}
    /\ chunk \in Chunks /\ dsUsable \in BOOLEAN
    /\ acc \in Seq(1 .. MaxFrames) /\ depth \in 0 .. MaxDepth
    /\ ret \in {"take", "start", "open", "end", "ended"}
    /\ out \in BOOLEAN /\ driveGen \in 0 .. MaxGen /\ gaps0 \in Nat /\ lost0 \in Nat
    /\ files \in Seq([gen : 1 .. MaxGen, ids : Seq(1 .. MaxFrames), closed : BOOLEAN,
                      gaps : Nat, lost : Nat])
TypeOK == BoardTypes /\ RxTypes /\ WrTypes

\* What is in the files, then in the block, then in hand, then in the queue
\* and at the receiver is in the order of sending and nothing is there twice,
\* whatever write fails and whichever call closes the file.
Ascending(s) == \A j, k \in DOMAIN s : j < k => s[j] < s[k]
Before(s, t) == \A j \in DOMAIN s, k \in DOMAIN t : s[j] < t[k]

Held ==
    \/ wrPc \in {"drive", "start", "open", "opened", "open2", "append"}
    \/ wrPc \in {"flush", "unwind", "crashed"} /\ ret \in {"start", "open"}
InHand == IF Held THEN <<chunk.id>> ELSE <<>>
AtReceiver == IF rxPc = "push" THEN <<rxChunk.id>> ELSE <<>>
OnTheWay == acc \o InHand \o Ids(queue) \o AtReceiver

InOrder ==
    /\ Ascending(OnTheWay)
    /\ \A k \in DOMAIN files :
          /\ Ascending(files[k].ids) /\ Before(files[k].ids, OnTheWay)
          /\ \A m \in DOMAIN files : k < m => Before(files[k].ids, files[m].ids)

\* queue_bytes is what the queue holds and never above the limit, though two
\* threads move it.
QueueAccounted ==
    /\ queueBytes = Cardinality({k \in DOMAIN queue : queue[k].data})
    /\ queueBytes <= QueueMax

\* "A gap of the counter means lost frames": lost counts every frame that was
\* lost within one log and one run of the board, and never more than were lost.
LostIsHonest == missingSame <= lost /\ lost <= missing

\* The threads drain what they have: when both have ended and nothing went
\* wrong with the drive, all data queued before stop() is in a file.
DrainedAtStop ==
    rxPc = "ended" /\ wrPc = "ended" /\ ~trouble => early \subseteq Written

\* Only the last file may lack its line in the journal, and only while it is
\* open: whatever fails, no log is left without an end.
JournalPairs == \A k \in 1 .. Len(files) :
    files[k].closed <=> ~(k = Len(files) /\ out)

\* What the two threads keep between them, and in the journal.
Safety == TypeOK /\ QueueAccounted /\ DrainedAtStop /\ JournalPairs

\* A file is closed at last when the board falls silent, whatever it said
\* before and however the drive comes and goes, unless a failed write() has
\* taken the station with it.
FileIsClosed == out ~> (~out \/ wrPc = "crashed")

\* The next five say what comments of the code say.  None of them holds.

\* "Showing does not depend on recording": a drive that fails ends the file,
\* not the station.
DriveFailureIsLocal == wrPc # "crashed"

\* "A jump of more than half of the range is a reset, not a loss."
RestartIsNotALoss == lost <= missing

\* The frames between the first and the last of file k that are not in it.
Holes(k) ==
    LET ids == files[k].ids
    IN  IF ids = <<>> THEN 0 ELSE Last(ids) - ids[1] + 1 - Len(ids)

\* "Holes must be visible; they may not be sewn up silently": a log with a
\* hole has one in its line of the journal.
HolesAreVisible == \A k \in 1 .. Len(files) :
    files[k].closed /\ Holes(k) > 0 => files[k].gaps > 0

\* "The gaps are written of exactly this log": no log is charged with more
\* frames than are missing from its first one to the first of the next log.
GapsOfThisLog == \A k \in 1 .. Len(files) - 1 :
    files[k].ids # <<>> /\ files[k + 1].ids # <<>>
        => files[k].lost <= files[k + 1].ids[1] - files[k].ids[1] - Len(files[k].ids)

\* "The drive is gone or was replaced: the file is no longer ours."  When the
\* check of the drive keeps the file, the file lies on the drive that is in.
FileOfThisDrive ==
    wrPc = "drive" /\ out /\ ~DriveLost => files[Len(files)].gen = generation

=============================================================================
