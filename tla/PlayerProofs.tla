---------------------------- MODULE PlayerProofs ----------------------------
(***************************************************************************)
(* What is proved of the player, its picture (PlaybackSource) and its      *)
(* sound (PlaybackAudio).                                                  *)
(*                                                                         *)
(* The picture, for files and queues of any length: the feed is whole, and *)
(* only what is safe is read (Safety).  The frames between the file and    *)
(* the screen are in four places, moved by three threads.  Fed says of     *)
(* each place what it holds, counted back from the place in the file: each *)
(* of them is a Run.  Steps of the threads move one frame from one Run to  *)
(* the next.  A call takes all of it down before it builds anew (Idling,   *)
(* Torn), so nothing old is left in a Run.                                 *)
(*                                                                         *)
(* The sound, for sessions of any length and any number of requests and    *)
(* failures: no request is lost between the thread that makes it and the   *)
(* output (SoundSafety).  The argument is the order of the accesses: the   *)
(* wish is written before the flag is set, and the flag is cleared before  *)
(* the wish is read.  The port needs one fact more, that a pipeline plays  *)
(* what its thread read.                                                   *)
(***************************************************************************)
EXTENDS PlaybackSource, PlaybackAudio, SequenceTheorems, FiniteSetTheorems, TLAPS

-----------------------------------------------------------------------------
(* The picture. *)

\* s holds consecutive frames of file f, the last of them with number n.
Nth(f, n) == [file |-> f, no |-> n]
Run(s, f, n) == \A i \in 1 .. Len(s) : s[i] = Nth(f, n - (Len(s) - i))

\* The last frame that was pushed, the last that was delivered, queued, shown.
Sent == IF pumpPc = "push" THEN pos - 2 ELSE pos - 1
Delivered == Sent - Len(pipe)
Held == IF held = NoFrame THEN 0 ELSE 1
Queued == Delivered - Held
Shown == Queued - Len(queue)

Fed == callPc = "idle" =>
    /\ Run(pipe, curFile, Sent)
    /\ held = NoFrame \/ held = Nth(curFile, Delivered)
    /\ Run(queue, curFile, Queued)
    /\ current = NoFrame \/ current = Nth(curFile, Shown)

\* What each place of a call has already taken down.
Torn ==
    /\ callPc \in {"idle", "aim"} => (running <=> up)
    /\ callPc \in {"notify", "join", "null", "clear", "build"} => ~running
    /\ callPc \in {"clear", "build"} => ~up
    /\ callPc \in {"null", "clear", "build"} => pumpPc = "ended"
    /\ eos => callPc \in {"join", "null"}
    /\ callPc = "aim" => seekTo \in 1 .. End
    /\ callPc \in {"aim", "build"} => curFile # 0 /\ seekTo # 0
    /\ callPc # "idle" => seekTo = 0 \/ curFile # 0

\* Without a pipeline nothing runs, and nothing is there but what a call clears.
Idling ==
    /\ ~up => pumpPc = "ended" /\ pipe = <<>> /\ takePc = "idle"
    /\ ~up /\ callPc # "clear" => queue = <<>> /\ current = NoFrame
    /\ takePc = "idle" <=> held = NoFrame
    /\ up => curFile # 0 /\ pos >= 1
    /\ pumpPc = "push" => pos >= 2

\* The limits: the journal's marks, the index, the feeder.
Limits ==
    /\ closed => safe = size
    /\ ixLimit <= safe /\ (ixLimit = NoLimit => closed)
    /\ up /\ callPc = "idle" => limit = LimitOf(curFile)
    /\ up /\ callPc = "idle" /\ curFile = 2 => fileSize <= size

IInv == TypeOK /\ Fed /\ Torn /\ Idling /\ Limits /\ ReadsOnlySafe

-----------------------------------------------------------------------------
(* Runs. *)

LEMMA RunAppend ==
    ASSUME NEW S, NEW s \in Seq(S), NEW f, NEW n \in Int, Nth(f, n + 1) \in S, Run(s, f, n)
    PROVE  Run(Append(s, Nth(f, n + 1)), f, n + 1)
<1> DEFINE e == Nth(f, n + 1)
<1>1. /\ Len(Append(s, e)) = Len(s) + 1 /\ Append(s, e)[Len(s) + 1] = e
      /\ \A i \in 1 .. Len(s) : Append(s, e)[i] = s[i]
  BY AppendProperties
<1>2. Len(s) \in Nat
  BY LenProperties
<1> SUFFICES ASSUME NEW i \in 1 .. Len(s) + 1
             PROVE  Append(s, e)[i] = Nth(f, n + 1 - (Len(s) + 1 - i))
  BY <1>1 DEF Run
<1> HIDE DEF e
<1>3. CASE i = Len(s) + 1
  <2>1. n + 1 - (Len(s) + 1 - i) = n + 1
    BY <1>2, <1>3
  <2> QED BY <1>1, <1>3, <2>1 DEF e
<1>4. CASE i # Len(s) + 1
  <2>1. i \in 1 .. Len(s) /\ n + 1 - (Len(s) + 1 - i) = n - (Len(s) - i)
    BY <1>2, <1>4
  <2> QED BY <1>1, <2>1 DEF Run
<1> QED BY <1>3, <1>4

LEMMA RunTail ==
    ASSUME NEW S, NEW s \in Seq(S), s # <<>>, NEW f, NEW n \in Int, Run(s, f, n)
    PROVE  /\ Tail(s) \in Seq(S) /\ Len(Tail(s)) = Len(s) - 1 /\ Head(s) \in S
           /\ Run(Tail(s), f, n) /\ Head(s) = Nth(f, n - (Len(s) - 1))
<1>1. /\ Tail(s) \in Seq(S) /\ Len(Tail(s)) = Len(s) - 1 /\ Head(s) \in S
      /\ \A i \in 1 .. Len(Tail(s)) : Tail(s)[i] = s[i + 1]
  BY HeadTailProperties
<1>2. Len(s) \in Nat \ {0} /\ Head(s) = s[1]
  BY EmptySeq
<1>3. \A i \in 1 .. Len(s) - 1 : i + 1 \in 1 .. Len(s) /\ Len(s) - (i + 1) = (Len(s) - 1) - i
  BY <1>2
<1>4. Run(Tail(s), f, n)
  BY <1>1, <1>3 DEF Run
<1>5. 1 \in 1 .. Len(s)
  BY <1>2
<1> QED BY <1>1, <1>2, <1>4, <1>5 DEF Run

LEMMA RunSub ==
    ASSUME NEW S, NEW s \in Seq(S), NEW f, NEW n \in Int, NEW d \in 1 .. Len(s)
    PROVE  LET t == SubSeq(s, d + 1, Len(s)) IN
           /\ t \in Seq(S) /\ Len(t) = Len(s) - d /\ s[d] \in S
           /\ Run(s, f, n) => Run(t, f, n) /\ s[d] = Nth(f, n - (Len(s) - d))
<1> DEFINE t == SubSeq(s, d + 1, Len(s))
<1>1. Len(s) \in Nat /\ d \in Int /\ d + 1 \in Int /\ Len(s) \in Int
  BY LenProperties
<1>2. \A i \in d + 1 .. Len(s) : s[i] \in S
  BY <1>1, ElementOfSeq
<1>3. /\ t \in Seq(S) /\ Len(t) = IF d + 1 <= Len(s) THEN Len(s) - (d + 1) + 1 ELSE 0
      /\ \A i \in 1 .. Len(s) - (d + 1) + 1 : t[i] = s[d + 1 + i - 1]
  BY <1>1, <1>2, SubSeqProperties
<1> HIDE DEF t
<1>4. Len(t) = Len(s) - d
  BY <1>1, <1>3
<1>5. \A i \in 1 .. Len(s) - d : t[i] = s[d + i] /\ d + i \in 1 .. Len(s) /\ Len(s) - (d + i) = (Len(s) - d) - i
  BY <1>1, <1>3
<1>6. Run(s, f, n) => Run(t, f, n) /\ s[d] = Nth(f, n - (Len(s) - d))
  BY <1>4, <1>5 DEF Run
<1>7. s[d] \in S
  BY ElementOfSeq
<1> QED BY <1>3, <1>4, <1>6, <1>7 DEF t

LEMMA RunConcat ==
    ASSUME NEW S, NEW s \in Seq(S), NEW t \in Seq(S), NEW f, NEW n \in Int,
           Run(t, f, n), Run(s, f, n - Len(t))
    PROVE  s \o t \in Seq(S) /\ Len(s \o t) = Len(s) + Len(t) /\ Run(s \o t, f, n)
<1>1. /\ s \o t \in Seq(S) /\ Len(s \o t) = Len(s) + Len(t)
      /\ \A i \in 1 .. Len(s) + Len(t) : (s \o t)[i] = IF i <= Len(s) THEN s[i] ELSE t[i - Len(s)]
  BY ConcatProperties
<1>2. Len(s) \in Nat /\ Len(t) \in Nat
  BY LenProperties
<1> SUFFICES ASSUME NEW i \in 1 .. Len(s) + Len(t)
             PROVE  (s \o t)[i] = Nth(f, n - (Len(s) + Len(t) - i))
  BY <1>1 DEF Run
<1>3. CASE i <= Len(s)
  <2>1. i \in 1 .. Len(s) /\ n - Len(t) - (Len(s) - i) = n - (Len(s) + Len(t) - i)
    BY <1>2, <1>3
  <2> QED BY <1>1, <1>3, <2>1 DEF Run
<1>4. CASE ~(i <= Len(s))
  <2>1. i - Len(s) \in 1 .. Len(t) /\ n - (Len(t) - (i - Len(s))) = n - (Len(s) + Len(t) - i)
    BY <1>2, <1>4
  <2> QED BY <1>1, <1>4, <2>1 DEF Run
<1> QED BY <1>3, <1>4
-----------------------------------------------------------------------------
(* Numbers and frames. *)

LEMMA Consts ==
    /\ OldLen \in Nat /\ NewLen \in Nat /\ PipeDepth \in Nat /\ QueueDepth \in Nat
    /\ OldLen > 0 /\ NewLen > 0
    /\ Longest \in Nat /\ OldLen <= Longest /\ NewLen <= Longest
    /\ End \in Nat /\ 1 \in 1 .. End /\ NoLimit = -1
  BY PlaybackAssumption DEF Longest, End, NoLimit

LEMMA FrameIs == ASSUME NEW f \in 1 .. 2, NEW n \in 1 .. Longest PROVE Nth(f, n) \in Frame
  BY DEF Nth, Frame

LEMMA NoFrameIsNone == NoFrame \notin Frame /\ \A f \in 1 .. 2 : \A n : Nth(f, n) # NoFrame
<1>1. \A n : Nth(1, n) # NoFrame /\ Nth(2, n) # NoFrame
  BY DEF Nth, NoFrame
<1>2. \A r \in Frame : r.file # 0
  BY DEF Frame
<1>3. NoFrame.file = 0
  BY DEF NoFrame
<1> QED BY <1>1, <1>2, <1>3

LEMMA Lengths == ASSUME TypeOK
    PROVE  /\ Len(pipe) \in Nat /\ Len(queue) \in Nat /\ pos \in Nat
           /\ pipe \in Seq(Frame) /\ queue \in Seq(Frame)
           /\ Sent \in Int /\ Delivered \in Int /\ Held \in {0, 1} /\ Queued \in Int /\ Shown \in Int
<1>1. pipe \in Seq(Frame) /\ queue \in Seq(Frame) /\ pos \in Nat
  BY Consts DEF TypeOK
<1>2. Len(pipe) \in Nat /\ Len(queue) \in Nat
  BY <1>1, LenProperties
<1>3. Sent \in Int /\ Held \in {0, 1}
  BY <1>1 DEF Sent, Held
<1>4. Delivered \in Int
  BY <1>2, <1>3 DEF Delivered
<1>5. Queued \in Int
  BY <1>3, <1>4 DEF Queued
<1>6. Shown \in Int
  BY <1>2, <1>5 DEF Shown
<1> QED BY <1>1, <1>2, <1>3, <1>4, <1>5, <1>6

LEMMA InitInv == Init => IInv
<1> SUFFICES ASSUME Init PROVE IInv
  OBVIOUS
<1>1. TypeOK
  <2>1. <<>> \in Seq(Frame) /\ Len(<<>>) = 0
    BY EmptySeq
  <2>2. 1 \in 1 .. NewLen /\ 1 \in NoLimit .. NewLen /\ NoLimit \in NoLimit .. NewLen
    BY Consts
  <2>3. 0 \in 0 .. End /\ 0 \in 0 .. Longest + 1 /\ 0 \in 0 .. Longest /\ NoLimit # 0 /\ 1 \in 1 .. 1
    BY Consts
  <2>4. Len(<<>>) <= PipeDepth /\ Len(<<>>) <= QueueDepth
    BY <2>1, Consts
  <2>5. /\ size \in 1 .. NewLen /\ safe \in 1 .. size
        /\ ixLimit \in NoLimit .. NewLen /\ ixLimit # 0 /\ limit \in NoLimit .. NewLen /\ limit # 0
    BY Consts DEF Init
  <2>6. /\ seekTo \in 0 .. End /\ target \in 1 .. End /\ curFile \in 0 .. 2 /\ anchor \in 0 .. 2
        /\ pos \in 0 .. Longest + 1 /\ fileSize \in 0 .. Longest
    BY <2>3, Consts DEF Init
  <2>7. /\ pipe \in Seq(Frame) /\ Len(pipe) <= PipeDepth
        /\ queue \in Seq(Frame) /\ Len(queue) <= QueueDepth
    BY <2>1, <2>4 DEF Init
  <2>8. /\ closed = FALSE /\ callPc = "idle" /\ pumpPc = "ended" /\ takePc = "idle" /\ running = FALSE /\ up = FALSE
        /\ eos = FALSE /\ held = NoFrame /\ current = NoFrame
    BY DEF Init
  <2> QED BY <2>5, <2>6, <2>7, <2>8 DEF TypeOK
<1>2. Fed
  <2>1. Len(pipe) = 0 /\ Len(queue) = 0
    BY EmptySeq DEF Init
  <2> QED BY <2>1 DEF Init, Fed, Run
<1>3. Torn /\ Idling /\ ReadsOnlySafe
  BY DEF Init, Torn, Idling, ReadsOnlySafe
<1>4. Limits
  BY DEF Init, Limits, NoLimit
<1> QED BY <1>1, <1>2, <1>3, <1>4 DEF IInv

\* The recorder writes.
LEMMA WriteInv == IInv /\ Write => IInv'
<1> SUFFICES ASSUME IInv, Write PROVE IInv'
  OBVIOUS
<1> USE DEF aimVars, pumpVars, feederVars, pipeVars, takeVars, shownVars
<1>1. UNCHANGED <<aimVars, pumpVars, pipeVars, takeVars, shownVars>>
  BY DEF Write
<1>2. /\ size \in 1 .. NewLen /\ safe \in 1 .. size /\ closed \in BOOLEAN
      /\ closed => safe = size
  BY DEF IInv, TypeOK, Limits
<1>3. /\ size' \in 1 .. NewLen /\ safe' \in 1 .. size' /\ closed' \in BOOLEAN
      /\ size <= size' /\ safe <= safe' /\ (closed => closed') /\ (closed' => safe' = size')
  <2>1. CASE size < NewLen /\ size' = size + 1 /\ UNCHANGED <<safe, closed>>
    BY <1>2, <2>1, Consts DEF Write
  <2>2. CASE safe' = size /\ UNCHANGED <<size, closed>>
    BY <1>2, <2>2, Consts DEF Write
  <2>3. CASE closed' = TRUE /\ safe' = size /\ UNCHANGED size
    BY <1>2, <2>3, Consts
  <2> QED BY <2>1, <2>2, <2>3 DEF Write
<1>4. TypeOK'
  BY <1>1, <1>3 DEF IInv, TypeOK
<1>5. Fed' /\ Torn' /\ Idling'
  BY <1>1 DEF IInv, Fed, Run, Sent, Delivered, Held, Queued, Shown, Torn, Idling
<1>6. Limits' /\ ReadsOnlySafe'
  <2>1. ixLimit \in Int /\ fileSize \in Int /\ pos \in Int
    BY Consts DEF IInv, TypeOK
  <2>2. LimitOf(curFile)' = LimitOf(curFile)
    BY <1>1 DEF LimitOf
  <2> QED BY <1>1, <1>2, <1>3, <2>1, <2>2 DEF IInv, Limits, ReadsOnlySafe
<1> QED BY <1>4, <1>5, <1>6 DEF IInv

-----------------------------------------------------------------------------
(* The pump. *)

\* What read() finds lies in the file, and below what is safe of it.
LEMMA ReadIsInside ==
    ASSUME IInv, Read
    PROVE  /\ SizeAgain \in 0 .. Longest /\ pos <= Longest
           /\ up /\ callPc = "idle" /\ curFile = 2 => pos <= safe
<1>1. /\ size \in 1 .. NewLen /\ safe \in 1 .. size /\ pos \in Nat /\ fileSize \in 0 .. Longest
      /\ ixLimit \in Int /\ limit \in Int /\ closed \in BOOLEAN
  BY Consts DEF IInv, TypeOK
<1>2. FileSize(curFile) \in 0 .. Longest
  BY <1>1, Consts DEF FileSize
<1>3. SizeAgain \in 0 .. Longest
  BY <1>1, <1>2 DEF SizeAgain
<1>4. pos <= SizeAgain
  BY <1>1, <1>3 DEF Read, EndOf, Least
<1>5. ASSUME up, callPc = "idle", curFile = 2 PROVE pos <= safe
  <2>1. limit = ixLimit
    BY <1>5 DEF IInv, Limits, LimitOf
  <2>2. CASE limit # NoLimit
    <3>1. pos <= limit
      BY <1>1, <1>3, <2>2 DEF Read, EndOf, Least
    <3>2. ixLimit <= safe
      BY DEF IInv, Limits
    <3> QED BY <1>1, <2>1, <3>1, <3>2
  <2>3. CASE limit = NoLimit
    <3>1. closed /\ safe = size /\ fileSize <= size
      BY <1>5, <2>1, <2>3 DEF IInv, Limits
    <3>2. SizeAgain = fileSize
      BY <2>3 DEF SizeAgain
    <3> QED BY <1>1, <1>3, <1>4, <3>1, <3>2
  <2> QED BY <2>2, <2>3
<1>6. pos <= Longest
  BY <1>1, <1>3, <1>4, Consts
<1> QED BY <1>3, <1>5, <1>6

LEMMA PumpReadsInv == IInv /\ PumpReads => IInv'
<1> SUFFICES ASSUME IInv, PumpReads PROVE IInv'
  OBVIOUS
<1> USE DEF diskVars, aimVars, feederVars, pipeVars, takeVars, shownVars
<1>1. pumpPc = "read" /\ UNCHANGED <<diskVars, aimVars, pipeVars, takeVars, shownVars, limit>>
  BY DEF PumpReads
<1>2. up /\ curFile # 0 /\ pos >= 1 /\ pos \in Nat
  BY <1>1, Consts DEF IInv, Idling, TypeOK
<1>3. \/ ~running /\ pumpPc' = "ended" /\ pos' = pos /\ fileSize' = fileSize
      \/ Read /\ pumpPc' = "push" /\ pos' = pos + 1 /\ fileSize' = SizeAgain
      \/ ~Read /\ pumpPc' = "nothing" /\ pos' = pos /\ fileSize' = SizeAgain
  BY DEF PumpReads
<1>4. SizeAgain \in 0 .. Longest /\ (curFile = 2 => SizeAgain = size \/ SizeAgain = fileSize)
  BY Consts DEF IInv, TypeOK, SizeAgain, FileSize
<1>5. TypeOK'
  <2>1. pos' \in 0 .. Longest + 1 /\ fileSize' \in 0 .. Longest
    BY <1>2, <1>3, <1>4, ReadIsInside, Consts DEF IInv, TypeOK
  <2> QED BY <1>1, <1>3, <2>1 DEF IInv, TypeOK
<1>6. Fed'
  <2>1. Sent' = Sent
    BY <1>1, <1>2, <1>3 DEF Sent
  <2> QED BY <1>1, <2>1 DEF IInv, Fed, Run, Delivered, Held, Queued, Shown
<1>7. Torn' /\ Idling'
  BY <1>1, <1>2, <1>3 DEF IInv, Torn, Idling
<1>8. Limits'
  <2>1. fileSize \in Int /\ size \in Int
    BY DEF IInv, TypeOK
  <2> QED BY <1>1, <1>3, <1>4, <2>1 DEF IInv, Limits, LimitOf
<1>9. ReadsOnlySafe'
  <2>1. safe \in Int
    BY DEF IInv, TypeOK
  <2> QED BY <1>1, <1>2, <1>3, <2>1, ReadIsInside DEF IInv, ReadsOnlySafe
<1> QED BY <1>5, <1>6, <1>7, <1>8, <1>9 DEF IInv

LEMMA PumpRestsInv == IInv /\ (PumpFinds \/ PumpRests) => IInv'
<1> SUFFICES ASSUME IInv, PumpFinds \/ PumpRests PROVE IInv'
  OBVIOUS
<1> USE DEF diskVars, aimVars, feederVars, pipeVars, takeVars, shownVars
<1>1. /\ UNCHANGED <<diskVars, aimVars, feederVars, pipeVars, takeVars, shownVars>>
      /\ pumpPc \in {"nothing", "rest"} /\ pumpPc' \in {"rest", "ended", "read"}
  BY DEF PumpFinds, PumpRests
<1>2. Sent' = Sent
  BY <1>1 DEF Sent
<1>3. TypeOK'
  BY <1>1 DEF IInv, TypeOK
<1>4. Fed'
  BY <1>1, <1>2 DEF IInv, Fed, Run, Delivered, Held, Queued, Shown
<1>5. Torn' /\ Idling' /\ Limits' /\ ReadsOnlySafe'
  BY <1>1 DEF IInv, Torn, Idling, Limits, LimitOf, ReadsOnlySafe
<1> QED BY <1>3, <1>4, <1>5 DEF IInv

LEMMA PumpPushesInv == IInv /\ PumpPushes => IInv'
<1> SUFFICES ASSUME IInv, PumpPushes PROVE IInv'
  OBVIOUS
<1> USE DEF diskVars, aimVars, feederVars, takeVars, shownVars
<1>1. /\ pumpPc = "push"
      /\ UNCHANGED <<diskVars, aimVars, feederVars, running, up, eos, takeVars, shownVars>>
  BY DEF PumpPushes
<1>2. up /\ curFile \in 1 .. 2 /\ pos - 1 \in 1 .. Longest /\ pos \in Nat
  <2>1. up /\ curFile # 0 /\ pos >= 2 /\ pos \in 0 .. Longest + 1 /\ curFile \in 0 .. 2
    BY <1>1 DEF IInv, Idling, TypeOK
  <2> QED BY <2>1, Consts
<1>3. Torn' /\ Idling' /\ Limits' /\ ReadsOnlySafe'
  BY <1>1, <1>2 DEF IInv, PumpPushes, Torn, Idling, Limits, LimitOf, ReadsOnlySafe
<1>4. CASE eos
  <2>1. pumpPc' = "ended" /\ pipe' = pipe /\ callPc # "idle"
    BY <1>1, <1>4 DEF IInv, PumpPushes, Torn
  <2>2. TypeOK'
    BY <1>1, <2>1 DEF IInv, TypeOK
  <2>3. Fed'
    BY <1>1, <2>1 DEF Fed
  <2> QED BY <1>3, <2>2, <2>3 DEF IInv
<1>5. CASE ~eos
  <2> DEFINE e == Nth(curFile, pos - 1)
  <2>1. /\ pipe' = Append(pipe, e) /\ pumpPc' = "read" /\ Len(pipe) < PipeDepth
    BY <1>1, <1>5 DEF PumpPushes, Nth
  <2>2. e \in Frame /\ pipe \in Seq(Frame) /\ Len(pipe) \in Nat
    BY <1>2, FrameIs, Lengths DEF IInv
  <2>3. pipe' \in Seq(Frame) /\ Len(pipe') = Len(pipe) + 1
    BY <2>1, <2>2, AppendProperties
  <2>4. TypeOK'
    BY <1>1, <2>1, <2>2, <2>3, Consts DEF IInv, TypeOK
  <2>5. Sent = pos - 2 /\ Sent' = pos - 1 /\ Sent + 1 = pos - 1 /\ Sent \in Int
    BY <1>1, <1>2, <2>1 DEF Sent
  <2>6. Delivered' = Delivered /\ Held' = Held /\ Queued' = Queued /\ Shown' = Shown
    BY <1>1, <2>2, <2>3, <2>5 DEF Delivered, Held, Queued, Shown
  <2>7. Run(pipe, curFile, Sent) => Run(pipe', curFile, Sent')
    BY <2>1, <2>2, <2>5, RunAppend
  <2>8. Fed'
    BY <1>1, <2>6, <2>7 DEF IInv, Fed, Run
  <2> QED BY <1>3, <2>4, <2>8 DEF IInv
<1> QED BY <1>4, <1>5

LEMMA PumpInv == IInv /\ Pump => IInv'
  BY PumpReadsInv, PumpRestsInv, PumpPushesInv DEF Pump

-----------------------------------------------------------------------------
(* The streaming thread. *)

LEMMA DeliverInv == IInv /\ Deliver => IInv'
<1> SUFFICES ASSUME IInv, Deliver PROVE IInv'
  OBVIOUS
<1> USE DEF diskVars, aimVars, pumpVars, feederVars, shownVars
<1>1. /\ UNCHANGED <<diskVars, aimVars, pumpVars, running, up, eos, shownVars>>
      /\ up /\ takePc = "idle" /\ pipe # <<>> /\ takePc' = "test"
      /\ held' = Head(pipe) /\ pipe' = Tail(pipe)
  BY DEF Deliver
<1>2. /\ pipe' \in Seq(Frame) /\ Len(pipe') = Len(pipe) - 1 /\ held' \in Frame
      /\ Run(pipe, curFile, Sent) =>
            Run(pipe', curFile, Sent) /\ held' = Nth(curFile, Sent - (Len(pipe) - 1))
  BY <1>1, Lengths, RunTail DEF IInv
<1>3. held = NoFrame /\ held' # NoFrame
  BY <1>1, <1>2, NoFrameIsNone DEF IInv, Idling
<1>4. TypeOK'
  <2>1. Len(pipe) \in Nat /\ PipeDepth \in Nat
    BY Lengths, Consts DEF IInv
  <2>2. Len(pipe') <= PipeDepth
    BY <1>2, <2>1 DEF IInv, TypeOK
  <2> QED BY <1>1, <1>2, <2>2 DEF IInv, TypeOK
<1>5. Fed'
  <2>1. Sent' = Sent /\ Held = 0 /\ Held' = 1
    BY <1>1, <1>3 DEF Sent, Held
  <2>2. Len(pipe) \in Int /\ Sent \in Int
    BY Lengths DEF IInv
  <2>3. Delivered' = Delivered + 1 /\ Delivered' = Sent - (Len(pipe) - 1) /\ Queued' = Queued
    BY <1>2, <2>1, <2>2 DEF Delivered, Queued
  <2>4. Shown' = Shown
    BY <1>1, <2>3 DEF Shown
  <2>5. CASE callPc = "idle"
    BY <1>1, <1>2, <2>1, <2>3, <2>4, <2>5 DEF IInv, Fed, Run
  <2> QED BY <1>1, <2>5 DEF Fed
<1>6. Torn' /\ Limits' /\ ReadsOnlySafe'
  BY <1>1 DEF IInv, Torn, Limits, LimitOf, ReadsOnlySafe
<1>7. Idling'
  BY <1>1, <1>3 DEF IInv, Idling
<1> QED BY <1>4, <1>5, <1>6, <1>7 DEF IInv

\* Within a take() the pipeline is there, and between two calls it is running.
LEMMA TakeRuns == ASSUME IInv, takePc # "idle" PROVE up /\ held \in Frame /\ (callPc = "idle" => running)
<1>1. up /\ held # NoFrame
  BY DEF IInv, Idling
<1> QED BY <1>1 DEF IInv, Torn, TypeOK

LEMMA TakeTestsInv == IInv /\ TakeTests => IInv'
<1> SUFFICES ASSUME IInv, TakeTests PROVE IInv'
  OBVIOUS
<1> USE DEF diskVars, aimVars, pumpVars, feederVars, pipeVars
<1>1. UNCHANGED <<diskVars, aimVars, pumpVars, pipeVars, current>> /\ takePc = "test"
  BY DEF TakeTests
<1>2. up /\ held \in Frame /\ held # NoFrame /\ (callPc = "idle" => running)
  BY <1>1, TakeRuns, NoFrameIsNone
<1>3. Sent' = Sent /\ Delivered' = Delivered
  BY <1>1 DEF Sent, Delivered
<1>4. Torn' /\ Limits' /\ ReadsOnlySafe'
  BY <1>1 DEF IInv, Torn, Limits, LimitOf, ReadsOnlySafe
<1>5. CASE running /\ ~Room
  <2>1. takePc' = "drowsy" /\ UNCHANGED <<held, queue>>
    BY <1>5 DEF TakeTests
  <2>2. TypeOK'
    BY <1>1, <2>1 DEF IInv, TypeOK
  <2>3. Fed'
    BY <1>1, <1>3, <2>1 DEF IInv, Fed, Run, Held, Queued, Shown
  <2>4. Idling'
    BY <1>1, <1>2, <2>1 DEF IInv, Idling
  <2> QED BY <1>4, <2>2, <2>3, <2>4 DEF IInv
<1>6. CASE running /\ Room
  <2>1. takePc' = "idle" /\ held' = NoFrame /\ queue' = Append(queue, held)
    BY <1>6 DEF TakeTests
  <2>2. queue \in Seq(Frame) /\ Len(queue) \in Nat /\ Delivered \in Int /\ QueueDepth \in Nat
    BY Lengths, Consts DEF IInv
  <2>3. queue' \in Seq(Frame) /\ Len(queue') = Len(queue) + 1
    BY <1>2, <2>1, <2>2, AppendProperties
  <2>4. Len(queue') <= QueueDepth
    BY <1>6, <2>2, <2>3 DEF Room
  <2>5. TypeOK'
    BY <1>1, <2>1, <2>3, <2>4 DEF IInv, TypeOK
  <2>6. Queued = Delivered - 1 /\ Queued' = Delivered /\ Queued' = Queued + 1
    BY <1>2, <1>3, <2>1, <2>2 DEF Held, Queued
  <2>7. Shown' = Shown
    BY <2>2, <2>3, <2>6 DEF Shown
  <2>8. ASSUME callPc = "idle" PROVE Fed'
    <3>1. held = Nth(curFile, Delivered) /\ Run(queue, curFile, Queued)
      BY <1>2, <2>8 DEF IInv, Fed
    <3>2. Run(queue', curFile, Queued')
      BY <1>2, <2>1, <2>2, <2>6, <3>1, RunAppend
    <3> QED BY <1>1, <1>3, <2>1, <2>7, <3>2 DEF IInv, Fed, Run
  <2>9. Fed'
    BY <1>1, <2>8 DEF Fed
  <2>10. Idling'
    BY <1>1, <1>2, <2>1 DEF IInv, Idling
  <2> QED BY <1>4, <2>5, <2>9, <2>10 DEF IInv
<1>7. CASE ~running
  <2>1. takePc' = "idle" /\ held' = NoFrame /\ queue' = queue /\ callPc # "idle"
    BY <1>2, <1>7 DEF TakeTests
  <2>2. TypeOK'
    BY <1>1, <2>1 DEF IInv, TypeOK
  <2>3. Fed'
    BY <1>1, <2>1 DEF Fed
  <2>4. Idling'
    BY <1>1, <1>2, <2>1 DEF IInv, Idling
  <2> QED BY <1>4, <2>2, <2>3, <2>4 DEF IInv
<1> QED BY <1>5, <1>6, <1>7

LEMMA TakeWaitsInv == IInv /\ TakeWaits => IInv'
<1> SUFFICES ASSUME IInv, TakeWaits PROVE IInv'
  OBVIOUS
<1> USE DEF diskVars, aimVars, pumpVars, feederVars, pipeVars, shownVars
<1>1. /\ UNCHANGED <<diskVars, aimVars, pumpVars, pipeVars, held, shownVars>>
      /\ takePc = "drowsy" /\ takePc' = "asleep"
  BY DEF TakeWaits
<1>2. TypeOK'
  BY <1>1 DEF IInv, TypeOK
<1>3. Fed'
  BY <1>1 DEF IInv, Fed, Run, Sent, Delivered, Held, Queued, Shown
<1>4. Torn' /\ Idling' /\ Limits' /\ ReadsOnlySafe'
  BY <1>1 DEF IInv, Torn, Idling, Limits, LimitOf, ReadsOnlySafe
<1> QED BY <1>2, <1>3, <1>4 DEF IInv

-----------------------------------------------------------------------------
(* The renderer. *)

LEMMA DueIsInside == ASSUME TypeOK, Due > 0 PROVE Due \in 1 .. Len(queue)
<1> DEFINE D == {i \in DOMAIN queue : \A j \in 1 .. i : SessionTime(queue[j]) <= target}
<1>1. Len(queue) \in Nat /\ DOMAIN queue = 1 .. Len(queue)
  BY Lengths, LenProperties
<1>2. IsFiniteSet(1 .. Len(queue)) /\ Cardinality(1 .. Len(queue)) = Len(queue)
  <2> DEFINE n == Len(queue)
  <2>1. n \in Int /\ 1 \in Int /\ n >= 0
    BY <1>1
  <2> HIDE DEF n
  <2>2. IsFiniteSet(1 .. n) /\ Cardinality(1 .. n) = IF 1 > n THEN 0 ELSE n - 1 + 1
    BY <2>1, FS_Interval
  <2>3. (IF 1 > n THEN 0 ELSE n - 1 + 1) = n
    BY <2>1
  <2> QED BY <2>2, <2>3 DEF n
<1>3. Cardinality(D) <= Len(queue) /\ IsFiniteSet(D)
  BY <1>1, <1>2, FS_Subset
<1>4. Cardinality(D) \in Nat
  BY <1>3, FS_CardinalityType
<1> QED BY <1>1, <1>3, <1>4 DEF Due

LEMMA AcquireInv == IInv /\ Acquire => IInv'
<1> SUFFICES ASSUME IInv, Acquire PROVE IInv'
  OBVIOUS
<1> USE DEF diskVars, aimVars, pumpVars, feederVars, pipeVars
<1> DEFINE d == Due
<1>1. /\ UNCHANGED <<diskVars, aimVars, pumpVars, pipeVars, held>> /\ d > 0
      /\ current' = queue[d] /\ queue' = SubSeq(queue, d + 1, Len(queue))
      /\ takePc' \in {takePc, Notified}
  BY DEF Acquire
<1>2. d \in 1 .. Len(queue)
  BY <1>1, DueIsInside DEF IInv
<1> HIDE DEF d
<1>3. /\ queue' \in Seq(Frame) /\ Len(queue') = Len(queue) - d /\ current' \in Frame
      /\ Run(queue, curFile, Queued) =>
            Run(queue', curFile, Queued) /\ current' = Nth(curFile, Queued - (Len(queue) - d))
  BY <1>1, <1>2, Lengths, RunSub DEF IInv
<1>4. /\ takePc' \in {"idle", "test", "drowsy", "asleep"}
      /\ takePc' = "idle" <=> takePc = "idle"
  BY <1>1 DEF IInv, TypeOK, Notified
<1>5. Len(queue) \in Nat /\ Queued \in Int /\ QueueDepth \in Nat
  BY Lengths, Consts DEF IInv
<1>6. TypeOK'
  <2>1. Len(queue') <= QueueDepth
    BY <1>2, <1>3, <1>5 DEF IInv, TypeOK
  <2> QED BY <1>1, <1>3, <1>4, <2>1 DEF IInv, TypeOK
<1>7. Fed'
  <2>1. Sent' = Sent /\ Delivered' = Delivered /\ Queued' = Queued
    BY <1>1 DEF Sent, Delivered, Held, Queued
  <2>2. Shown' = Queued - (Len(queue) - d)
    BY <1>3, <2>1 DEF Shown
  <2>3. CASE callPc = "idle"
    BY <1>1, <1>3, <2>1, <2>2, <2>3 DEF IInv, Fed, Run
  <2> QED BY <1>1, <2>3 DEF Fed
<1>8. queue # <<>>
  BY <1>2, EmptySeq
<1>9. Torn' /\ Limits' /\ ReadsOnlySafe'
  BY <1>1 DEF IInv, Torn, Limits, LimitOf, ReadsOnlySafe
<1>10. Idling'
  BY <1>1, <1>4, <1>8 DEF IInv, Idling
<1> QED BY <1>6, <1>7, <1>9, <1>10 DEF IInv

-----------------------------------------------------------------------------
(* The player, and what it calls. *)

LEMMA SetTargetInv == IInv /\ SetTarget => IInv'
<1> SUFFICES ASSUME IInv, SetTarget PROVE IInv'
  OBVIOUS
<1> USE DEF diskVars, pumpVars, feederVars, pipeVars, takeVars, shownVars
<1>1. /\ UNCHANGED <<diskVars, callPc, seekTo, curFile, anchor, ixLimit, pumpVars, pipeVars, takeVars, shownVars>>
      /\ target < End /\ target' = target + 1
  BY DEF SetTarget
<1>2. TypeOK'
  <2>1. target' \in 1 .. End
    BY <1>1, Consts DEF IInv, TypeOK
  <2> QED BY <1>1, <2>1 DEF IInv, TypeOK
<1>3. Fed'
  BY <1>1 DEF IInv, Fed, Run, Sent, Delivered, Held, Queued, Shown
<1>4. Torn' /\ Idling' /\ Limits' /\ ReadsOnlySafe'
  BY <1>1 DEF IInv, Torn, Idling, Limits, LimitOf, ReadsOnlySafe
<1> QED BY <1>2, <1>3, <1>4 DEF IInv

LEMMA RefreshInv == IInv /\ Refresh => IInv'
<1> SUFFICES ASSUME IInv, Refresh PROVE IInv'
  OBVIOUS
<1> USE DEF diskVars, pipeVars, takeVars, shownVars
<1>1. /\ UNCHANGED <<diskVars, callPc, seekTo, curFile, anchor, target, pumpPc, pos, fileSize, pipeVars, takeVars, shownVars>>
      /\ callPc = "idle"
      /\ ixLimit' = IF closed THEN NoLimit ELSE safe
      /\ limit' = IF curFile = 2 THEN ixLimit' ELSE IF curFile = 1 THEN NoLimit ELSE limit
  BY DEF Refresh
<1>2. /\ size \in 1 .. NewLen /\ safe \in 1 .. size /\ closed \in BOOLEAN /\ curFile \in 0 .. 2
      /\ limit \in NoLimit .. NewLen /\ limit # 0
  BY DEF IInv, TypeOK
<1>3. /\ ixLimit' \in NoLimit .. NewLen /\ ixLimit' # 0 /\ ixLimit' <= safe
      /\ limit' \in NoLimit .. NewLen /\ limit' # 0
      /\ ixLimit' = NoLimit => closed
  BY <1>1, <1>2, Consts
<1>4. TypeOK'
  BY <1>1, <1>3 DEF IInv, TypeOK
<1>5. Fed'
  BY <1>1 DEF IInv, Fed, Run, Sent, Delivered, Held, Queued, Shown
<1>6. Torn' /\ Idling' /\ ReadsOnlySafe'
  BY <1>1 DEF IInv, Torn, Idling, ReadsOnlySafe
<1>7. Limits'
  <2>1. up => limit' = LimitOf(curFile)'
    <3>1. up => curFile \in 1 .. 2
      BY <1>2 DEF IInv, Idling
    <3> QED BY <1>1, <3>1 DEF LimitOf
  <2> QED BY <1>1, <1>3, <2>1 DEF IInv, Limits
<1> QED BY <1>4, <1>5, <1>6, <1>7 DEF IInv

LEMMA SeekInv == ASSUME NEW t \in 1 .. End PROVE IInv /\ Seek(t) => IInv'
<1> SUFFICES ASSUME IInv, Seek(t) PROVE IInv'
  OBVIOUS
<1> USE DEF diskVars, pumpVars, feederVars, pipeVars, takeVars, shownVars
<1>1. /\ UNCHANGED <<diskVars, target, ixLimit, pumpVars, pipeVars, takeVars, shownVars>>
      /\ callPc = "idle" /\ callPc' = "aim" /\ seekTo' = t
  BY DEF Seek
<1>2. curFile' \in 1 .. 2 /\ anchor' = curFile'
  BY DEF Seek, Anchored, Located
<1>3. t \in 0 .. End /\ t # 0
  BY Consts
<1>4. TypeOK'
  BY <1>1, <1>2, <1>3 DEF IInv, TypeOK
<1>5. Fed' /\ ReadsOnlySafe'
  BY <1>1 DEF Fed, ReadsOnlySafe
<1>6. Torn'
  BY <1>1, <1>2, <1>3 DEF IInv, Torn
<1>7. Idling'
  BY <1>1, <1>2 DEF IInv, Idling
<1>8. Limits'
  BY <1>1 DEF IInv, Limits
<1> QED BY <1>4, <1>5, <1>6, <1>7, <1>8 DEF IInv

\* A call goes on to its next place; no frame is moved.
LEMMA CallGoesInv == IInv /\ (Stop \/ Aim \/ Drop \/ Join \/ BuildFails) => IInv'
<1> SUFFICES ASSUME IInv, Stop \/ Aim \/ Drop \/ Join \/ BuildFails PROVE IInv'
  OBVIOUS
<1> USE DEF diskVars, pumpVars, feederVars, takeVars, shownVars
<1>1. UNCHANGED <<diskVars, curFile, anchor, ixLimit, pumpVars, up, eos, pipe, takeVars, shownVars>>
  BY DEF Stop, Aim, Drop, Join, BuildFails, pipeVars
<1>2. \/ callPc = "idle" /\ callPc' = "drop" /\ seekTo' = 0 /\ running' = running /\ target' = target
      \/ callPc = "aim" /\ callPc' = "drop" /\ seekTo' = seekTo /\ running' = running /\ target' = seekTo
      \/ callPc = "drop" /\ callPc' = "notify" /\ seekTo' = seekTo /\ running' = FALSE /\ target' = target
      \/ /\ callPc = "join" /\ callPc' = "null" /\ seekTo' = seekTo /\ running' = running /\ target' = target
         /\ pumpPc = "ended"
      \/ callPc = "build" /\ callPc' = "idle" /\ seekTo' = seekTo /\ running' = running /\ target' = target
  BY DEF Stop, Aim, Drop, Join, BuildFails, Joined, pipeVars
<1>3. TypeOK'
  <2>1. running' \in BOOLEAN
    BY <1>2 DEF IInv, TypeOK
  <2>3. seekTo \in 0 .. End /\ target \in 1 .. End /\ (callPc = "aim" => seekTo \in 1 .. End)
    BY DEF IInv, TypeOK, Torn
  <2>4. seekTo' \in 0 .. End /\ target' \in 1 .. End
    BY <1>2, <2>3, Consts
  <2>2. callPc' \in {"idle", "aim", "drop", "notify", "join", "null", "clear", "build"}
    BY <1>2
  <2> QED BY <1>1, <2>1, <2>2, <2>4 DEF IInv, TypeOK
<1>4. Torn'
  BY <1>1, <1>2 DEF IInv, Torn
<1>5. Idling'
  BY <1>1, <1>2 DEF IInv, Idling
<1>6. callPc' = "idle" => ~up
  BY <1>2 DEF IInv, Torn
<1>7. Limits' /\ ReadsOnlySafe'
  BY <1>1, <1>6 DEF IInv, Limits, ReadsOnlySafe
<1>8. Fed'
  <2>1. callPc' = "idle" => pipe = <<>> /\ queue = <<>> /\ held = NoFrame /\ current = NoFrame
    BY <1>2, <1>6 DEF IInv, Idling
  <2>2. Len(<<>>) = 0
    BY EmptySeq
  <2> QED BY <1>1, <2>1, <2>2 DEF Fed, Run
<1> QED BY <1>3, <1>4, <1>5, <1>7, <1>8 DEF IInv

LEMMA NotifyInv == IInv /\ Notify => IInv'
<1> SUFFICES ASSUME IInv, Notify PROVE IInv'
  OBVIOUS
<1> USE DEF diskVars, pumpVars, feederVars, shownVars
<1>1. /\ UNCHANGED <<diskVars, seekTo, curFile, anchor, target, ixLimit, pumpVars, running, up, pipe, held, shownVars>>
      /\ callPc = "notify" /\ callPc' = "join" /\ eos' = up /\ takePc' = Notified
  BY DEF Notify, Heard
<1>2. takePc' \in {"idle", "test", "drowsy", "asleep"} /\ (takePc' = "idle" <=> takePc = "idle")
  BY <1>1 DEF IInv, TypeOK, Notified
<1>3. TypeOK'
  BY <1>1, <1>2 DEF IInv, TypeOK
<1>4. Fed' /\ ReadsOnlySafe'
  BY <1>1 DEF Fed, ReadsOnlySafe
<1>5. Torn' /\ Limits'
  BY <1>1 DEF IInv, Torn, Limits
<1>6. Idling'
  BY <1>1, <1>2 DEF IInv, Idling
<1> QED BY <1>3, <1>4, <1>5, <1>6 DEF IInv

LEMMA NullInv == IInv /\ Null => IInv'
<1> SUFFICES ASSUME IInv, Null PROVE IInv'
  OBVIOUS
<1> USE DEF diskVars, takeVars, shownVars
<1>1. /\ UNCHANGED <<diskVars, seekTo, curFile, anchor, target, ixLimit, pumpPc, running, takeVars, shownVars>>
      /\ callPc = "null" /\ callPc' = "clear" /\ takePc = "idle"
      /\ up' = FALSE /\ eos' = FALSE /\ pipe' = <<>>
      /\ limit' = NoLimit /\ pos' = 0 /\ fileSize' = 0
  BY DEF Null, Idle
<1>2. TypeOK'
  <2>1. /\ limit' \in NoLimit .. NewLen /\ limit' # 0
        /\ pos' \in 0 .. Longest + 1 /\ fileSize' \in 0 .. Longest
    BY <1>1, Consts
  <2>2. pipe' \in Seq(Frame) /\ Len(pipe') <= PipeDepth
    BY <1>1, EmptySeq, Consts
  <2> QED BY <1>1, <2>1, <2>2 DEF IInv, TypeOK
<1>3. Fed' /\ ReadsOnlySafe'
  BY <1>1 DEF Fed, ReadsOnlySafe
<1>4. Torn' /\ Limits'
  BY <1>1 DEF IInv, Torn, Limits
<1>5. Idling'
  BY <1>1 DEF IInv, Torn, Idling
<1> QED BY <1>2, <1>3, <1>4, <1>5 DEF IInv

LEMMA ClearInv == IInv /\ Clear => IInv'
<1> SUFFICES ASSUME IInv, Clear PROVE IInv'
  OBVIOUS
<1> USE DEF diskVars, pumpVars, feederVars, pipeVars, takeVars
<1>1. /\ UNCHANGED <<diskVars, seekTo, curFile, anchor, target, ixLimit, pumpVars, pipeVars, takeVars>>
      /\ callPc = "clear" /\ queue' = <<>> /\ current' = NoFrame
      /\ callPc' = IF seekTo = 0 THEN "idle" ELSE "build"
  BY DEF Clear, Cleared
<1>2. ~running /\ ~up /\ pumpPc = "ended" /\ ~eos
  BY <1>1 DEF IInv, Torn
<1>3. pipe = <<>> /\ takePc = "idle" /\ held = NoFrame
  BY <1>2 DEF IInv, Idling
<1>4. TypeOK'
  <2>1. queue' \in Seq(Frame) /\ Len(queue') <= QueueDepth
    BY <1>1, EmptySeq, Consts
  <2> QED BY <1>1, <2>1 DEF IInv, TypeOK
<1>5. Fed'
  <2>1. Len(<<>>) = 0
    BY EmptySeq
  <2> QED BY <1>1, <1>3, <2>1 DEF Fed, Run
<1>6. Torn'
  BY <1>1, <1>2 DEF IInv, Torn
<1>7. Idling' /\ Limits' /\ ReadsOnlySafe'
  BY <1>1, <1>2, <1>3 DEF IInv, Idling, Limits, ReadsOnlySafe
<1> QED BY <1>4, <1>5, <1>6, <1>7 DEF IInv

LEMMA BuildInv == ASSUME NEW n \in 1 .. Longest PROVE IInv /\ Build(n) => IInv'
<1> SUFFICES ASSUME IInv, Build(n) PROVE IInv'
  OBVIOUS
<1> USE DEF diskVars, takeVars, shownVars
<1>1. /\ UNCHANGED <<diskVars, seekTo, curFile, anchor, target, ixLimit, eos, pipe, takeVars, shownVars>>
      /\ callPc = "build" /\ callPc' = "idle" /\ running' = TRUE /\ up' = TRUE /\ pumpPc' = "read"
      /\ limit' = LimitOf(curFile) /\ fileSize' = FileSize(curFile) /\ pos' = n
      /\ n <= IF LimitOf(curFile) = NoLimit THEN FileSize(curFile) ELSE Least(LimitOf(curFile), FileSize(curFile))
  BY DEF Build, LimitSet
<1>2. ~up /\ ~eos /\ curFile # 0
  BY <1>1 DEF IInv, Torn
<1>3. pipe = <<>> /\ queue = <<>> /\ takePc = "idle" /\ held = NoFrame /\ current = NoFrame
  BY <1>1, <1>2 DEF IInv, Idling
<1>4. /\ size \in 1 .. NewLen /\ safe \in 1 .. size /\ curFile \in 1 .. 2 /\ n \in Nat /\ n >= 1
      /\ ixLimit \in NoLimit .. NewLen /\ ixLimit # 0
  BY <1>2, Consts DEF IInv, TypeOK
<1>5. TypeOK'
  <2>1. limit' \in NoLimit .. NewLen /\ limit' # 0
    BY <1>1, <1>4, Consts DEF LimitOf
  <2>2. pos' \in 0 .. Longest + 1 /\ fileSize' \in 0 .. Longest
    BY <1>1, <1>4, Consts DEF FileSize
  <2> QED BY <1>1, <2>1, <2>2 DEF IInv, TypeOK
<1>6. Fed'
  <2>1. Len(<<>>) = 0
    BY EmptySeq
  <2> QED BY <1>1, <1>3, <2>1 DEF Fed, Run
<1>7. Torn' /\ Idling'
  BY <1>1, <1>2, <1>3, <1>4 DEF IInv, Torn, Idling
<1>8. limit' = LimitOf(curFile)' /\ (curFile = 2 => fileSize' = size)
  BY <1>1 DEF LimitOf, FileSize
<1>9. Limits'
  BY <1>1, <1>4, <1>8 DEF IInv, Limits
<1>10. ReadsOnlySafe'
  <2>1. ASSUME curFile = 2 PROVE n <= safe
    <3>1. FileSize(curFile) = size /\ LimitOf(curFile) = ixLimit
      BY <2>1 DEF FileSize, LimitOf
    <3>2. CASE ixLimit = NoLimit
      <4>1. n <= size /\ safe = size
        BY <1>1, <3>1, <3>2 DEF IInv, Limits, TypeOK
      <4> QED BY <4>1
    <3>3. CASE ixLimit # NoLimit
      <4>1. n <= ixLimit /\ ixLimit <= safe
        BY <1>1, <1>4, <3>1, <3>3, Consts DEF IInv, Limits, Least
      <4> QED BY <1>4, <4>1, Consts
    <3> QED BY <3>2, <3>3
  <2> QED BY <1>1, <1>4, <2>1 DEF ReadsOnlySafe
<1> QED BY <1>5, <1>6, <1>7, <1>9, <1>10 DEF IInv

LEMMA StepInv == IInv /\ [Next]_vars => IInv'
<1> SUFFICES ASSUME IInv, [Next]_vars PROVE IInv'
  OBVIOUS
<1>1. CASE Call
  BY <1>1, CallGoesInv, NotifyInv, NullInv, ClearInv, BuildInv DEF Call
<1>2. CASE Player
  BY <1>2, CallGoesInv, SetTargetInv, RefreshInv, SeekInv DEF Player
<1>3. CASE Streaming
  BY <1>3, DeliverInv, TakeTestsInv, TakeWaitsInv DEF Streaming
<1>4. CASE UNCHANGED vars
  <2>1. UNCHANGED <<diskVars, aimVars, pumpVars, pipeVars, takeVars, shownVars>>
    BY <1>4 DEF vars
  <2> USE <2>1 DEF diskVars, aimVars, pumpVars, feederVars, pipeVars, takeVars, shownVars
  <2>2. TypeOK'
    BY DEF IInv, TypeOK
  <2>3. Fed'
    BY DEF IInv, Fed, Run, Sent, Delivered, Held, Queued, Shown
  <2>4. Torn' /\ Idling' /\ Limits' /\ ReadsOnlySafe'
    BY DEF IInv, Torn, Idling, Limits, LimitOf, ReadsOnlySafe
  <2> QED BY <2>2, <2>3, <2>4 DEF IInv
<1> QED BY <1>1, <1>2, <1>3, <1>4, WriteInv, PumpInv, AcquireInv DEF Next

-----------------------------------------------------------------------------
(* The feed as a whole. *)

LEMMA OneIsRun ==
    ASSUME NEW g \in Frame \cup {NoFrame}, NEW f, NEW n \in Int, g = NoFrame \/ g = Nth(f, n)
    PROVE  /\ One(g) \in Seq(Frame) /\ Len(One(g)) = (IF g = NoFrame THEN 0 ELSE 1)
           /\ Run(One(g), f, n)
<1>1. CASE g = NoFrame
  <2>1. One(g) = <<>> /\ <<>> \in Seq(Frame) /\ Len(<<>>) = 0
    BY <1>1, EmptySeq DEF One
  <2> QED BY <1>1, <2>1 DEF Run
<1>2. CASE g # NoFrame
  <2>1. g \in Frame /\ g = Nth(f, n) /\ One(g) = <<g>>
    BY <1>2 DEF One
  <2>2. <<g>> \in Seq(Frame) /\ Len(<<g>>) = 1 /\ <<g>>[1] = g
    BY <2>1
  <2>3. ASSUME NEW i \in 1 .. 1 PROVE i = 1 /\ n - (1 - i) = n
    OBVIOUS
  <2>4. Run(<<g>>, f, n)
    BY <2>1, <2>2, <2>3 DEF Run
  <2> QED BY <1>2, <2>1, <2>2, <2>4
<1> QED BY <1>1, <1>2

LEMMA WholeFeed == IInv => FeedIsWhole
<1> SUFFICES ASSUME IInv, callPc = "idle"
             PROVE  /\ \A i \in DOMAIN Chain : Chain[i] = Nth(curFile, pos - 1 - (Len(Chain) - i))
                    /\ ~running => Chain = <<>> /\ ~up
  BY DEF FeedIsWhole, Nth
<1> DEFINE p == IF pumpPc = "push" THEN Nth(curFile, pos - 1) ELSE NoFrame
           A == queue \o One(held)
           B == A \o pipe
<1>1. p \in Frame \cup {NoFrame} /\ (p = NoFrame <=> pumpPc # "push")
  <2>1. CASE pumpPc = "push"
    <3>1. curFile \in 0 .. 2 /\ curFile # 0 /\ pos \in 0 .. Longest + 1 /\ pos >= 2
      BY <2>1 DEF IInv, TypeOK, Idling
    <3>2. curFile \in 1 .. 2 /\ pos - 1 \in 1 .. Longest
      BY <3>1, Consts
    <3>3. Nth(curFile, pos - 1) \in Frame
      BY <3>2, FrameIs
    <3> QED BY <2>1, <3>3, NoFrameIsNone
  <2> QED BY <2>1
<1>2. OnTheWay = B \o One(p) /\ Chain = One(current) \o (B \o One(p))
  <2>1. One(p) = IF pumpPc = "push" THEN <<[file |-> curFile, no |-> pos - 1]>> ELSE <<>>
    BY <1>1 DEF One, Nth
  <2> QED BY <2>1 DEF OnTheWay, Chain
<1>3. /\ pos - 1 \in Int /\ Sent \in Int /\ Delivered \in Int /\ Queued \in Int /\ Shown \in Int
      /\ Len(pipe) \in Nat /\ Len(queue) \in Nat /\ pos \in Nat
      /\ pipe \in Seq(Frame) /\ queue \in Seq(Frame)
  BY Lengths DEF IInv
<1>4. /\ One(p) \in Seq(Frame) /\ Run(One(p), curFile, pos - 1)
      /\ Len(One(p)) = (IF pumpPc = "push" THEN 1 ELSE 0)
  BY <1>1, <1>3, OneIsRun
<1>5. One(held) \in Seq(Frame) /\ Len(One(held)) = Held /\ Run(One(held), curFile, Delivered)
  BY <1>3, OneIsRun DEF IInv, TypeOK, Fed, Held
<1>6. /\ One(current) \in Seq(Frame) /\ Run(One(current), curFile, Shown)
      /\ Len(One(current)) = (IF current = NoFrame THEN 0 ELSE 1)
  BY <1>3, OneIsRun DEF IInv, TypeOK, Fed
<1> HIDE DEF p
<1>7. A \in Seq(Frame) /\ Len(A) = Len(queue) + Held /\ Run(A, curFile, Delivered)
  <2>1. Run(queue, curFile, Delivered - Len(One(held)))
    BY <1>5 DEF IInv, Fed, Queued
  <2> QED BY <1>3, <1>5, <2>1, RunConcat
<1> HIDE DEF A
<1>8. B \in Seq(Frame) /\ Len(B) = Len(queue) + Held + Len(pipe) /\ Run(B, curFile, Sent)
  <2>1. Run(A, curFile, Sent - Len(pipe)) /\ Run(pipe, curFile, Sent)
    BY <1>7 DEF IInv, Fed, Delivered
  <2> QED BY <1>3, <1>7, <2>1, RunConcat
<1> HIDE DEF B
<1> DEFINE C == B \o One(p)
<1>9. C \in Seq(Frame) /\ Len(C) = Len(B) + Len(One(p)) /\ Run(C, curFile, pos - 1)
  <2>1. Sent = pos - 1 - Len(One(p))
    BY <1>3, <1>4 DEF Sent
  <2>2. Run(B, curFile, pos - 1 - Len(One(p)))
    BY <1>8, <2>1
  <2> QED BY <1>3, <1>4, <1>8, <2>2, RunConcat
<1> HIDE DEF C
<1>10. Held \in {0, 1}
  BY DEF Held
<1>11. Shown = pos - 1 - Len(C)
  <2>1. Sent = pos - 1 - Len(One(p)) /\ Len(One(p)) \in Nat
    BY <1>3, <1>4 DEF Sent
  <2> QED BY <1>3, <1>8, <1>9, <1>10, <2>1 DEF Shown, Queued, Delivered
<1>12. /\ Chain \in Seq(Frame) /\ Run(Chain, curFile, pos - 1)
       /\ Len(Chain) = Len(One(current)) + Len(C)
  <2>1. Run(One(current), curFile, pos - 1 - Len(C))
    BY <1>6, <1>11
  <2>2. Chain = One(current) \o C
    BY <1>2 DEF C
  <2> QED BY <1>3, <1>6, <1>9, <2>1, <2>2, RunConcat
<1>13. DOMAIN Chain = 1 .. Len(Chain)
  BY <1>12, LenProperties
<1>14. ASSUME ~running PROVE Chain = <<>> /\ ~up
  <2>1. ~up
    BY <1>14 DEF IInv, Torn
  <2>2. pipe = <<>> /\ queue = <<>> /\ held = NoFrame /\ current = NoFrame /\ pumpPc = "ended"
    BY <2>1 DEF IInv, Idling
  <2>3. Len(<<>>) = 0
    BY EmptySeq
  <2>4. Len(Chain) = 0
    BY <1>4, <1>6, <1>8, <1>9, <1>12, <2>2, <2>3 DEF Held
  <2> QED BY <1>12, <2>1, <2>4, EmptySeq
<1> QED BY <1>12, <1>13, <1>14 DEF Run

\* FeedIsWhole, ReadsOnlySafe and the types together: what lies between the file
\* and the screen is one gapless run of the file that is played, whatever the
\* threads and the calls of the player do, and nothing unsafe was read.
THEOREM FeedIsSafe == Spec => []Safety
<1>1. Init => IInv
  BY InitInv
<1>2. IInv /\ [Next]_vars => IInv'
  BY StepInv
<1>3. IInv => Safety
  BY WholeFeed DEF IInv, Safety
<1> QED BY <1>1, <1>2, <1>3, PTL DEF Spec

-----------------------------------------------------------------------------
(* What comes to the screen. *)

\* The frames that are due are the first Due of the queue, so the last of them is.
LEMMA LastIsDue == ASSUME TypeOK, Due > 0 PROVE SessionTime(queue[Due]) <= target
<1> DEFINE D == {i \in DOMAIN queue : \A j \in 1 .. i : SessionTime(queue[j]) <= target}
           d == Cardinality(D)
<1>1. Len(queue) \in Nat /\ DOMAIN queue = 1 .. Len(queue) /\ d = Due
  BY Lengths, LenProperties DEF Due
<1>2. d \in 1 .. Len(queue)
  BY <1>1, DueIsInside
<1>3. \A i \in D : i \in 1 .. Len(queue) /\ \A j \in 1 .. i : j \in D
  <2> SUFFICES ASSUME NEW i \in D, NEW j \in 1 .. i PROVE i \in 1 .. Len(queue) /\ j \in D
    BY <1>1
  <2>1. i \in 1 .. Len(queue) /\ \A m \in 1 .. i : SessionTime(queue[m]) <= target
    BY <1>1
  <2>2. j \in 1 .. Len(queue) /\ \A m \in 1 .. j : m \in 1 .. i
    BY <1>1, <2>1
  <2> QED BY <1>1, <2>1, <2>2
<1>4. d \in D
  <2> SUFFICES ASSUME d \notin D PROVE FALSE
    OBVIOUS
  <2>1. D \subseteq 1 .. (d - 1)
    <3> SUFFICES ASSUME NEW i \in D PROVE i \in 1 .. (d - 1)
      OBVIOUS
    <3>1. i \in 1 .. Len(queue) /\ d \notin 1 .. i
      BY <1>3
    <3> HIDE DEF d
    <3> QED BY <1>1, <1>2, <3>1
  <2> HIDE DEF D
  <2>2. IsFiniteSet(1 .. (d - 1)) /\ Cardinality(1 .. (d - 1)) = d - 1
    <3> DEFINE m == d - 1
    <3>1. m \in Int /\ 1 \in Int /\ m >= 0
      BY <1>1, <1>2
    <3> HIDE DEF m
    <3>2. IsFiniteSet(1 .. m) /\ Cardinality(1 .. m) = IF 1 > m THEN 0 ELSE m - 1 + 1
      BY <3>1, FS_Interval
    <3>3. (IF 1 > m THEN 0 ELSE m - 1 + 1) = m
      BY <3>1
    <3> QED BY <3>2, <3>3 DEF m
  <2>3. d <= d - 1
    BY <2>1, <2>2, FS_Subset
  <2> HIDE DEF d
  <2> QED BY <1>1, <1>2, <2>3
<1>5. d \in 1 .. d
  BY <1>1, <1>2
<1> QED BY <1>1, <1>4, <1>5

\* The anchor is that of the file that is played: a seek moves both.
Anchoring == anchor = curFile

LEMMA AnchoringStep == Anchoring /\ [Next]_vars => Anchoring'
<1> SUFFICES ASSUME Anchoring, [Next]_vars PROVE Anchoring'
  OBVIOUS
<1>1. CASE \E t \in 1 .. End : Seek(t)
  BY <1>1 DEF Anchoring, Seek, Anchored
<1>2. CASE Write \/ Pump \/ Streaming \/ Acquire \/ UNCHANGED vars
  <2>1. UNCHANGED aimVars
    BY <1>2 DEF Write, Pump, PumpReads, PumpFinds, PumpRests, PumpPushes,
                Streaming, Deliver, TakeTests, TakeWaits, Acquire, vars
  <2> QED BY <2>1 DEF Anchoring, aimVars
<1>3. CASE Call \/ SetTarget \/ Refresh \/ Stop
  <2>1. UNCHANGED <<anchor, curFile>>
    BY <1>3 DEF Call, SetTarget, Refresh, Stop, Aim, Drop, Notify, Join, Null, Clear, Build, BuildFails
  <2> QED BY <2>1 DEF Anchoring
<1> QED BY <1>1, <1>2, <1>3 DEF Next, Player

\* What acquire() puts on the screen between two calls belongs to the file that
\* is played, so the time it was judged by is its own.
LEMMA AcquireIsDue ==
    ASSUME IInv, Anchoring, Acquire, callPc = "idle" PROVE TrueTime(current') <= target
<1> DEFINE d == Due
<1>1. d > 0 /\ current' = queue[d] /\ d \in 1 .. Len(queue)
  BY DueIsInside DEF Acquire, IInv
<1>2. SessionTime(queue[d]) <= target
  BY <1>1, LastIsDue DEF IInv
<1> HIDE DEF d
<1>3. queue[d] = Nth(curFile, Queued - (Len(queue) - d))
  BY <1>1 DEF IInv, Fed, Run
<1>4. queue[d].file = anchor
  BY <1>3 DEF Nth, Anchoring
<1> QED BY <1>1, <1>2, <1>4 DEF TrueTime, SessionTime

LEMMA ShownStep ==
    IInv /\ Anchoring /\ [Next]_vars =>
        [current' # current /\ current' # NoFrame /\ callPc = "idle" => TrueTime(current') <= target]_vars
<1> SUFFICES ASSUME IInv, Anchoring, [Next]_vars, current' # current, current' # NoFrame, callPc = "idle"
             PROVE  TrueTime(current') <= target
  OBVIOUS
<1>1. ~UNCHANGED vars
  BY DEF vars, shownVars
<1>2. ~(Write \/ Pump \/ Streaming \/ Player)
  BY DEF Write, Pump, PumpReads, PumpFinds, PumpRests, PumpPushes, Streaming, Deliver, TakeTests, TakeWaits,
         Player, SetTarget, Refresh, Stop, Seek, shownVars
<1>3. ~Call
  BY DEF Call, Aim, Drop, Notify, Join, Null, Clear, Build, BuildFails
<1>4. Acquire
  BY <1>1, <1>2, <1>3 DEF Next
<1> QED BY <1>4, AcquireIsDue

\* A picture comes to the screen only when its own time has come, however long
\* the files and the queue, and whatever is pressed when (ShownIsDue).
THEOREM NothingIsEarly == Spec => ShownIsDue
<1>1. Init => IInv /\ Anchoring
  BY InitInv DEF Init, Anchoring
<1>2. IInv /\ Anchoring /\ [Next]_vars => IInv' /\ Anchoring'
  BY StepInv, AnchoringStep
<1>3. IInv /\ Anchoring /\ [Next]_vars =>
        [current' # current /\ current' # NoFrame /\ callPc = "idle" => TrueTime(current') <= target]_vars
  BY ShownStep
<1> QED BY <1>1, <1>2, <1>3, PTL DEF Spec, ShownIsDue

-----------------------------------------------------------------------------
(* The sound. *)

UpIsGot == outPc = "run" => outUp.src = got.src

PortCounts == port <= moves

SoundInv == SoundTypeOK /\ NoWishIsLost /\ NoPortIsLost /\ UpIsGot /\ PortCounts

\* The constants, and the wishes one can have.
LEMMA SoundConsts ==
    /\ LongestFile \in Nat /\ OldEnd \in 0 .. LongestFile /\ 1 .. OwnEnd \subseteq 0 .. LongestFile
    /\ Places \subseteq 0 .. LongestFile /\ 1 \in Places /\ 1 \in 1 .. OwnEnd
    /\ Nowhere \in 0 .. LongestFile /\ 0 \in 0 .. LongestFile /\ 0 \in 0 .. MaxMoves /\ 0 \in 0 .. MaxFaults
    /\ None \in Paths /\ Sessions \subseteq Paths
    /\ OnAir \in WishType /\ OnAir.src = "live" /\ NoPipe \in UpType /\ NoPipe.src = None
  BY PlaybackAudioAssumption DEF LongestFile, Places, Nowhere, None, Paths, Sessions, OnAir, Wish,
       WishType, Src, NoPipe, UpType

LEMMA SoundInitInv == SoundInit => SoundInv
<1> SUFFICES ASSUME SoundInit PROVE SoundInv
  OBVIOUS
<1>1. SoundTypeOK
  BY SoundConsts DEF SoundInit, SoundTypeOK, Src
<1>2. NoWishIsLost /\ NoPortIsLost /\ UpIsGot /\ PortCounts
  BY DEF SoundInit, NoWishIsLost, NoPortIsLost, UpIsGot, PortCounts, Settled
<1> QED BY <1>1, <1>2 DEF SoundInv

\* The user, the recorder, the change of the port, the time.
LEMMA SoundOutsideInv == SoundInv /\ (User \/ Record \/ SetPort \/ Setter \/ Ages \/ Cools) => SoundInv'
<1> SUFFICES ASSUME SoundInv, User \/ Record \/ SetPort \/ Setter \/ Ages \/ Cools
             PROVE  SoundInv'
  OBVIOUS
<1> USE SoundConsts DEF SoundInv, userVars, indexVars, dispVars, setVars, wishVars, outVars,
  boundVars
<1>1. UNCHANGED outVars /\ UNCHANGED want
  BY DEF User, Record, SetPort, Setter, SetPortTests, SetPortFlags, Ages, Cools
<1>2. UpIsGot' /\ PortCounts' /\ moves' \in 0 .. MaxMoves /\ port' \in 0 .. MaxMoves
  <2>1. UpIsGot'
    BY <1>1 DEF UpIsGot
  <2>2. \/ port' = port /\ moves' = moves
        \/ moves < MaxMoves /\ moves' = moves + 1 /\ port' \in {port, port + 1}
    BY DEF User, Record, SetPort, Setter, SetPortTests, SetPortFlags, Ages, Cools
  <2>3. moves \in Nat /\ port \in Nat /\ port <= moves /\ moves <= MaxMoves /\ MaxMoves \in Nat
    BY PlaybackAudioAssumption DEF SoundTypeOK, PortCounts
  <2> HIDE DEF SoundInv
  <2> QED BY <2>1, <2>2, <2>3 DEF PortCounts
<1>3. CASE User \/ Record \/ Ages \/ Cools
  <2>1. UNCHANGED <<port, setPc, rebuild, dPc>>
    BY <1>3 DEF User, Record, Ages, Cools
  <2>2. NoWishIsLost' /\ NoPortIsLost'
    BY <1>1, <2>1 DEF NoWishIsLost, NoPortIsLost, Settled
  <2>3. SoundTypeOK'
    <3>1. CASE User
      <4>1. /\ on' \in BOOLEAN /\ session' \in Paths /\ playerPos' \in Places /\ paused' \in BOOLEAN
            /\ UNCHANGED written
        BY <3>1 DEF User, SoundTypeOK, Paths
      <4>2. UNCHANGED <<written, faults, dispVars, setVars, wishVars, outVars>>
        BY <3>1 DEF User
      <4> QED BY <1>2, <4>1, <4>2 DEF SoundTypeOK
    <3>2. CASE Record
      <4>1. written' \in 1 .. OwnEnd
        BY <3>2, PlaybackAudioAssumption DEF Record, SoundTypeOK
      <4> QED BY <3>2, <4>1 DEF Record, SoundTypeOK
    <3>3. CASE Ages \/ Cools
      <4>1. /\ due' \in BOOLEAN /\ cooled' \in BOOLEAN
            /\ UNCHANGED <<userVars, boundVars, st, curPath, curJournal, indexVars, dPc, ask, moved>>
        BY <3>3 DEF Ages, Cools, SoundTypeOK
      <4> QED BY <1>1, <1>3, <2>1, <4>1 DEF Ages, Cools, SoundTypeOK
    <3> QED BY <1>3, <3>1, <3>2, <3>3
  <2> QED BY <1>2, <2>2, <2>3
<1>4. CASE SetPort
  <2>1. NoWishIsLost' /\ NoPortIsLost'
    BY <1>4 DEF SetPort, NoWishIsLost, NoPortIsLost, Settled
  <2>2. SoundTypeOK'
    BY <1>2, <1>4 DEF SetPort, SoundTypeOK
  <2> QED BY <1>2, <2>1, <2>2
<1>5. CASE SetPortTests
  <2>1. NoWishIsLost' /\ NoPortIsLost'
    BY <1>5 DEF SetPortTests, OnTheAir, NoWishIsLost, NoPortIsLost, Settled, UpIsGot
  <2>2. SoundTypeOK'
    BY <1>5 DEF SetPortTests, SoundTypeOK
  <2> QED BY <1>2, <2>1, <2>2
<1>6. CASE SetPortFlags
  <2>1. NoWishIsLost' /\ NoPortIsLost'
    BY <1>6 DEF SetPortFlags, NoWishIsLost, NoPortIsLost
  <2>2. SoundTypeOK'
    BY <1>6 DEF SetPortFlags, SoundTypeOK
  <2> QED BY <1>2, <2>1, <2>2
<1> QED BY <1>3, <1>4, <1>5, <1>6 DEF Setter

\* What a decision of the dispatcher leaves in its state.
LEMMA SoundDecideType == SoundTypeOK /\ Decide => SoundTypeOK'
<1> SUFFICES ASSUME SoundTypeOK, Decide PROVE SoundTypeOK'
  OBVIOUS
<1> USE SoundConsts DEF SoundTypeOK, userVars, indexVars, setVars, wishVars, outVars
<1>1. ask' \in WishType
  <2>1. Wish("file", session, playerPos, paused) \in WishType
    BY DEF Wish, WishType, Src
  <2> QED BY <2>1 DEF Decide
<1>2. UNCHANGED <<userVars, moves, setVars, wishVars, outVars>>
  BY DEF Decide
<1>3. /\ ixOk' \in BOOLEAN /\ ixLive' \in BOOLEAN /\ due' \in BOOLEAN
      /\ ixId' \in Paths /\ ixEnd' \in 0 .. LongestFile /\ curJournal' \in Paths
      /\ faults' \in 0 .. MaxFaults
  <2>1. CASE Load
    <3>1. session \in Paths /\ ixId' \in Paths /\ ixEnd' \in 0 .. LongestFile
      BY <2>1 DEF Load
    <3>2. faults' \in 0 .. MaxFaults
      <4>1. CASE ixOk'
        BY <2>1, <4>1 DEF Load
      <4>2. CASE ~ixOk'
        <5>1. faults < MaxFaults /\ faults' = faults + 1
          BY <2>1, <4>2 DEF Load
        <5> QED BY <5>1, PlaybackAudioAssumption
      <4> QED BY <4>1, <4>2
    <3> QED BY <2>1, <3>1, <3>2 DEF Load
  <2>2. CASE UNCHANGED <<ixId, ixEnd, ixLive, due, faults>> /\ ixOk' \in {ixOk, FALSE}
             /\ curJournal' \in {curJournal, None}
    BY <2>2
  <2> QED BY <2>1, <2>2 DEF Decide, AirPlan
<1>4. /\ st' \in Src /\ curPath' \in Paths /\ cooled' \in BOOLEAN
      /\ dPc' \in {"idle", "silent", "live", "file", "flag", "pause", "drift"}
  BY DEF Decide, Silence, Follow, AirPlan, Src, Paths
<1> QED BY <1>1, <1>2, <1>3, <1>4

\* The dispatcher.
LEMMA SoundDispatcherInv == SoundInv /\ Dispatcher => SoundInv'
<1> SUFFICES ASSUME SoundInv, Dispatcher PROVE SoundInv'
  OBVIOUS
<1> USE SoundConsts DEF SoundInv, userVars, indexVars, dispVars, setVars, wishVars, outVars,
  boundVars
<1>1. UNCHANGED <<outVars, setVars>>
  BY DEF Dispatcher, Decide, WriteWish, FlagWish, PauseFile, SeekFile
<1>2. UpIsGot' /\ PortCounts'
  BY <1>1 DEF UpIsGot, PortCounts, Dispatcher, Decide, WriteWish, FlagWish, PauseFile, SeekFile
<1>3. CASE Decide
  <2>1. UNCHANGED wishVars /\ dPc # "flag"
    BY <1>3 DEF Decide
  <2>2. NoWishIsLost' /\ NoPortIsLost'
    BY <1>1, <2>1 DEF NoWishIsLost, NoPortIsLost, Settled
  <2> QED BY <1>2, <1>3, <2>2, SoundDecideType
<1>4. CASE WriteWish
  <2>1. Wished \in WishType
    BY <1>4 DEF WriteWish, Wished, SoundTypeOK, WishType, Src, None, Paths
  <2>2. SoundTypeOK'
    BY <1>4, <2>1 DEF WriteWish, SoundTypeOK
  <2>3. NoWishIsLost' /\ NoPortIsLost'
    BY <1>4, <1>1 DEF WriteWish, Differs, NoWishIsLost, NoPortIsLost, Settled
  <2> QED BY <1>2, <2>2, <2>3
<1>5. CASE FlagWish
  <2>1. SoundTypeOK'
    BY <1>5 DEF FlagWish, SoundTypeOK
  <2>2. NoWishIsLost' /\ NoPortIsLost'
    BY <1>5 DEF FlagWish, NoWishIsLost, NoPortIsLost
  <2> QED BY <1>2, <2>1, <2>2
<1>6. CASE PauseFile \/ SeekFile
  <2>1. want' \in WishType /\ want'.src = want.src /\ want'.path = want.path
    BY <1>6 DEF PauseFile, SeekFile, SoundTypeOK, WishType
  <2>2. dPc \in {"pause", "drift"} /\ UNCHANGED rebuild
    BY <1>6 DEF PauseFile, SeekFile
  <2>3. SoundTypeOK'
    <3>1. dPc' \in {"idle", "drift"} /\ moved' \in BOOLEAN /\ cooled' \in BOOLEAN /\ ask' \in WishType
      BY <1>6 DEF PauseFile, SeekFile, SoundTypeOK
    <3>2. UNCHANGED <<userVars, boundVars, st, curPath, curJournal, indexVars, due, rebuild>>
      BY <1>6 DEF PauseFile, SeekFile
    <3> QED BY <1>1, <2>1, <3>1, <3>2 DEF SoundTypeOK
  <2>4. NoWishIsLost' /\ NoPortIsLost'
    BY <1>1, <2>1, <2>2 DEF NoWishIsLost, NoPortIsLost, Settled
  <2> QED BY <1>2, <2>3, <2>4
<1> QED BY <1>3, <1>4, <1>5, <1>6 DEF Dispatcher

\* The thread of the output.
LEMMA SoundOutputInv == SoundInv /\ (Output \/ Breaks) => SoundInv'
<1> SUFFICES ASSUME SoundInv, Output \/ Breaks PROVE SoundInv'
  OBVIOUS
<1> USE SoundConsts DEF SoundInv, userVars, indexVars, dispVars, setVars, wishVars, outVars,
  boundVars
<1>0. UNCHANGED <<userVars, moves, dispVars, setVars, want>>
  BY DEF Output, ClearFlag, ReadWish, Mute, BuildOut, RunOut, Teardown, Nap, Breaks
<1>1. CASE ClearFlag \/ Mute \/ Nap
  <2>1. SoundTypeOK'
    <3>1. /\ outPc' \in {"top", "read"} /\ rebuild' \in BOOLEAN
          /\ outPc \notin {"run", "down"} /\ got' \in WishType
          /\ UNCHANGED <<faults, moved, outUp, filePos>>
      BY <1>1 DEF ClearFlag, FlagCleared, Mute, Nap, SoundTypeOK
    <3> QED BY <1>0, <3>1 DEF SoundTypeOK
  <2>2. NoWishIsLost' /\ NoPortIsLost' /\ UpIsGot' /\ PortCounts'
    BY <1>1 DEF ClearFlag, Mute, Nap, NoWishIsLost, NoPortIsLost, UpIsGot, PortCounts, Settled
  <2> QED BY <2>1, <2>2
<1>2. CASE ReadWish
  <2>1. SoundTypeOK'
    <3>1. /\ outPc' \in {"mute", "build"} /\ got' \in WishType /\ moved' \in BOOLEAN
          /\ outPc \notin {"run", "down"} /\ UNCHANGED <<faults, rebuild, outUp, filePos>>
      BY <1>2 DEF ReadWish, SoundTypeOK
    <3> QED BY <1>0, <3>1 DEF SoundTypeOK
  <2>2. NoWishIsLost' /\ NoPortIsLost' /\ UpIsGot' /\ PortCounts'
    BY <1>2 DEF ReadWish, NoWishIsLost, NoPortIsLost, UpIsGot, PortCounts, Settled
  <2> QED BY <2>1, <2>2
<1>3. CASE BuildOut
  <2>1. outUp' \in UpType /\ outUp'.src = got.src /\ outUp'.port = port
    BY <1>3 DEF BuildOut, SoundTypeOK, WishType, UpType
  <2>2. SoundTypeOK'
    BY <1>3, <2>1 DEF BuildOut, SoundTypeOK, UpType
  <2>3. NoWishIsLost' /\ NoPortIsLost' /\ UpIsGot' /\ PortCounts'
    BY <1>3, <2>1 DEF BuildOut, NoWishIsLost, NoPortIsLost, UpIsGot, PortCounts, Settled
  <2> QED BY <2>2, <2>3
<1>4. CASE Breaks
  <2>1. SoundTypeOK'
    <3>1. /\ outPc' = "down" /\ faults' \in 0 .. MaxFaults
          /\ UNCHANGED <<wishVars, got, outUp, filePos>>
      BY <1>4, PlaybackAudioAssumption DEF Breaks, SoundTypeOK
    <3> QED BY <1>0, <3>1 DEF SoundTypeOK
  <2>2. NoWishIsLost' /\ NoPortIsLost' /\ UpIsGot' /\ PortCounts'
    BY <1>4 DEF Breaks, NoWishIsLost, NoPortIsLost, UpIsGot, PortCounts, Settled
  <2> QED BY <2>1, <2>2
<1>5. CASE RunOut
  <2>1. CASE outPc' = "down" /\ UNCHANGED <<moved, outUp, filePos>>
    <3>1. SoundTypeOK'
      BY <1>5, <2>1 DEF RunOut, SoundTypeOK
    <3> QED BY <1>5, <2>1, <3>1 DEF RunOut, NoWishIsLost, NoPortIsLost, UpIsGot, PortCounts, Settled
  <2>2. CASE outUp' = Applied /\ moved' = FALSE /\ filePos' = outUp'.pos /\ UNCHANGED outPc
    <3>1. /\ outUp' \in UpType /\ outUp'.src = outUp.src /\ outUp'.port = outUp.port
          /\ outUp'.pos \in 0 .. LongestFile
      BY <2>2 DEF Applied, SoundTypeOK, WishType, UpType
    <3>2. SoundTypeOK'
      <4>1. outPc = "run" /\ moved' \in BOOLEAN /\ UNCHANGED <<boundVars, outPc, rebuild, got>>
        BY <1>5, <2>2 DEF RunOut
      <4> QED BY <1>0, <2>2, <3>1, <4>1 DEF SoundTypeOK
    <3>3. NoWishIsLost' /\ NoPortIsLost' /\ UpIsGot' /\ PortCounts'
      BY <1>5, <2>2, <3>1 DEF RunOut, NoWishIsLost, NoPortIsLost, UpIsGot, PortCounts, Settled
    <3> QED BY <3>2, <3>3
  <2> QED BY <1>5, <2>1, <2>2 DEF RunOut
<1>6. CASE Teardown
  <2>1. SoundTypeOK'
    BY <1>6 DEF Teardown, TornPlace, SoundTypeOK, UpType
  <2>2. NoWishIsLost' /\ NoPortIsLost' /\ UpIsGot' /\ PortCounts'
    BY <1>6 DEF Teardown, NoWishIsLost, NoPortIsLost, UpIsGot, PortCounts, Settled
  <2> QED BY <2>1, <2>2
<1> QED BY <1>1, <1>2, <1>3, <1>4, <1>5, <1>6 DEF Output

LEMMA SoundStepInv == SoundInv /\ [SoundNext]_soundVars => SoundInv'
<1> SUFFICES ASSUME SoundInv, [SoundNext]_soundVars PROVE SoundInv'
  OBVIOUS
<1>1. CASE SoundNext
  BY <1>1, SoundOutsideInv, SoundDispatcherInv, SoundOutputInv DEF SoundNext
<1>2. CASE UNCHANGED soundVars
  BY <1>2 DEF soundVars, userVars, indexVars, dispVars, setVars, wishVars, outVars, boundVars,
              SoundInv, SoundTypeOK, NoWishIsLost, NoPortIsLost, UpIsGot, PortCounts, Settled
<1> QED BY <1>1, <1>2

\* An output never settles in a wish or on a port that is no longer the one
\* unless it will be told: the flag is set, or its setter is on the way.
THEOREM NoRequestIsLost == SoundSpec => []SoundSafety
<1>1. SoundInv => SoundSafety
  BY DEF SoundInv, SoundSafety
<1> QED
  BY <1>1, SoundInitInv, SoundStepInv, PTL DEF SoundSpec

=============================================================================
