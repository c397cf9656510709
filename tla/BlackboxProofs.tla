--------------------------- MODULE BlackboxProofs ---------------------------
(***************************************************************************)
(* What is proved of the flight log, for a counter of any width, a queue,  *)
(* a block and a stack of any size and any number of frames, drives and    *)
(* restarts: Safety, InOrder and the two bounds of LostIsHonest.           *)
(*                                                                         *)
(* The frames are at five stations: the files, the block, the writer's     *)
(* hand, the queue, the receiver.  OrderInv says of each that it is in     *)
(* order and before all that lie behind it (BeforeBlock, BeforeHand,       *)
(* BeforeQueue), so that a step has only to look at the frame it moves.    *)
(* FileInv says where the block is empty, which keeps the recursion of     *)
(* flush_acc and close_file from writing it twice; SmoothInv and EarlyInv  *)
(* follow the data on a good drive from the queue into a file; LossInv     *)
(* compares the counter of any two frames with their order of sending.     *)
(***************************************************************************)
EXTENDS Blackbox, FiniteSetTheorems, TLAPS

-----------------------------------------------------------------------------
(* The invariant. *)

\* n was sent before whatever lies behind the writer's hand, behind the block,
\* behind the files.
BeforeQueue(n) ==
    /\ n <= lastId
    /\ \A k \in DOMAIN queue : n < queue[k].id
    /\ rxPc = "push" => n < rxChunk.id
BeforeHand(n) == (Held => n < chunk.id) /\ BeforeQueue(n)
BeforeBlock(n) == (\A k \in DOMAIN acc : n < acc[k]) /\ BeforeHand(n)

\* The frames under way follow the last one received; the one at the receiver
\* is that.
Incoming ==
    /\ lastId <= sent
    /\ \A k \in DOMAIN socket : lastId < socket[k].chunk.id /\ socket[k].chunk.id <= sent
    /\ \A j, k \in DOMAIN socket : j < k => socket[j].chunk.id < socket[k].chunk.id
    /\ rxPc = "push" => rxChunk.id = lastId /\ lastId > 0

\* Each station of the way is in order, and before those behind it.
QueueSorted ==
    /\ \A k \in DOMAIN queue : /\ queue[k].id \in 1 .. lastId
                               /\ rxPc = "push" => queue[k].id < rxChunk.id
    /\ \A j, k \in DOMAIN queue : j < k => queue[j].id < queue[k].id
HandSorted == Held => chunk.id > 0 /\ BeforeQueue(chunk.id)
BlockSorted == Ascending(acc) /\ \A k \in DOMAIN acc : BeforeHand(acc[k])
FilesFirst == \A k \in DOMAIN files : \A j \in DOMAIN files[k].ids : BeforeBlock(files[k].ids[j])
FilesSorted ==
    /\ FilesFirst
    /\ \A k \in DOMAIN files : Ascending(files[k].ids)
    /\ \A k, m \in DOMAIN files : k < m => Before(files[k].ids, files[m].ids)
OrderInv == Incoming /\ QueueSorted /\ HandSorted /\ BlockSorted /\ FilesSorted

\* Where a file is open, and where the block is empty.
FileInv ==
    /\ wrPc \in {"open", "open2", "ended"} => ~out
    /\ wrPc \in {"opened", "flush", "unwind", "crashed"} => out
    /\ out => files # <<>>
    /\ ~out \/ wrPc = "unwind" => acc = <<>>
    /\ wrPc \in {"flush", "unwind"} /\ depth = 0 => ret = "end"
    /\ gaps0 <= gaps /\ lost0 <= lost

\* Without trouble a frame with data that is at hand gets into a file.
Turning ==
    \/ wrPc \in {"start", "open"}
    \/ wrPc \in {"flush", "unwind"} /\ ret \in {"start", "open"}
Ending ==
    \/ wrPc = "ended"
    \/ wrPc \in {"flush", "unwind"} /\ ret = "ended"
SmoothInv ==
    ~trouble => /\ usable
                /\ Turning => dsUsable
                /\ wrPc = "append" /\ chunk.data => out

\* Without trouble the data queued before stop() is in a file or on its way,
\* and once the writer ends none is in the queue.
Handed == {n \in {chunk.id} : Held /\ chunk.data}
Queued == {queue[k].id : k \in {j \in DOMAIN queue : queue[j].data}}
EarlyInv ==
    /\ Ending => ~running
    /\ ~trouble => early \subseteq Written \cup ToSet(acc) \cup Handed \cup Queued
    /\ ~trouble /\ Ending => early \subseteq Written \cup ToSet(acc)

IInv == TypeOK /\ OrderInv /\ FileInv /\ QueueAccounted /\ JournalPairs /\ SmoothInv /\ EarlyInv

-----------------------------------------------------------------------------
(* Lemmas about the operators. *)

\* The constants.
LEMMA Consts ==
    /\ CounterMod \in Nat /\ CounterMod > 1 /\ QueueMax \in Nat /\ Block \in Nat
    /\ MaxFrames \in Nat /\ MaxGen \in Nat \ {0} /\ MaxDepth \in Nat
    /\ 0 \in 0 .. CounterMod - 1 /\ 0 \in 0 .. MaxFrames /\ 1 \in 1 .. MaxGen
    /\ FirstSeq \subseteq 0 .. CounterMod - 1
    /\ NoChunk \in Chunks
  BY BlackboxAssumption DEF NoChunk, Chunks

\* The counter and its jump stay in their sixteen bits.
LEMMA CounterStays == \A n \in Int : n % CounterMod \in 0 .. CounterMod - 1
  BY Consts

\* The frames in a file, one by one.
LEMMA WrittenMember ==
    \A n : n \in Written <=> \E k \in DOMAIN files : \E j \in DOMAIN files[k].ids : files[k].ids[j] = n
  BY DEF Written, ToSet

\* A sequence that one element is added to.
LEMMA AppendFacts ==
  ASSUME NEW S, NEW s \in Seq(S), NEW e \in S
  PROVE  /\ Append(s, e) \in Seq(S)
         /\ DOMAIN s = 1 .. Len(s) /\ Len(s) \in Nat
         /\ DOMAIN Append(s, e) = 1 .. Len(s) + 1
         /\ \A k \in DOMAIN s : Append(s, e)[k] = s[k]
         /\ Append(s, e)[Len(s) + 1] = e
  OBVIOUS

\* A sequence that its head is taken from.
LEMMA TailFacts ==
  ASSUME NEW S, NEW s \in Seq(S), s # <<>>
  PROVE  /\ Head(s) = s[1] /\ Head(s) \in S /\ Tail(s) \in Seq(S)
         /\ Len(s) \in Nat \ {0} /\ DOMAIN s = 1 .. Len(s)
         /\ DOMAIN Tail(s) = 1 .. Len(s) - 1
         /\ \A k \in DOMAIN Tail(s) : k + 1 \in DOMAIN s /\ k + 1 # 1 /\ Tail(s)[k] = s[k + 1]
  OBVIOUS

\* queue_bytes is counted frame by frame: one that comes, one that goes.
DataAt(q) == {k \in DOMAIN q : q[k].data}

LEMMA DataFinite ==
  ASSUME NEW q \in Seq(Chunks)
  PROVE  IsFiniteSet(DataAt(q)) /\ Cardinality(DataAt(q)) \in Nat
  <1>1. DataAt(q) \subseteq 1 .. Len(q) /\ Len(q) \in Nat
    BY DEF DataAt
  <1>2. IsFiniteSet(1 .. Len(q))
    BY <1>1, FS_Interval
  <1>3. IsFiniteSet(DataAt(q))
    BY <1>1, <1>2, FS_Subset
  <1> QED
    BY <1>3, FS_CardinalityType

LEMMA DataAppend ==
  ASSUME NEW q \in Seq(Chunks), NEW c \in Chunks
  PROVE  Cardinality(DataAt(Append(q, c))) = Cardinality(DataAt(q)) + Size(c)
  <1> DEFINE n == Len(q) + 1
  <1>1. /\ DOMAIN q = 1 .. Len(q) /\ Len(q) \in Nat /\ DOMAIN Append(q, c) = 1 .. n
        /\ \A k \in DOMAIN q : Append(q, c)[k] = q[k]
        /\ Append(q, c)[n] = c
    BY AppendFacts
  <1>2. n \notin DOMAIN q
    BY <1>1
  <1>3. CASE c.data
    <2>1. DataAt(Append(q, c)) = DataAt(q) \cup {n} /\ n \notin DataAt(q)
      BY <1>1, <1>2, <1>3 DEF DataAt
    <2> QED
      BY <1>3, <2>1, DataFinite, FS_AddElement DEF Size
  <1>4. CASE ~c.data
    <2>1. DataAt(Append(q, c)) = DataAt(q)
      BY <1>1, <1>2, <1>4 DEF DataAt
    <2> QED
      BY <1>4, <2>1, DataFinite DEF Size
  <1> QED
    BY <1>3, <1>4

LEMMA DataTail ==
  ASSUME NEW q \in Seq(Chunks), q # <<>>
  PROVE  Cardinality(DataAt(q)) = Cardinality(DataAt(Tail(q))) + Size(Head(q))
  <1> DEFINE B == DataAt(q) \ {1}
             f == [k \in DataAt(Tail(q)) |-> k + 1]
  <1>1. /\ Head(q) = q[1] /\ Head(q) \in Chunks /\ Tail(q) \in Seq(Chunks)
        /\ Len(q) \in Nat \ {0} /\ DOMAIN q = 1 .. Len(q) /\ DOMAIN Tail(q) = 1 .. Len(q) - 1
        /\ \A k \in DOMAIN Tail(q) : k + 1 \in DOMAIN q /\ k + 1 # 1 /\ Tail(q)[k] = q[k + 1]
    BY TailFacts
  <1>2. f \in Bijection(DataAt(Tail(q)), B)
    <2>1. f \in [DataAt(Tail(q)) -> B]
      BY <1>1 DEF DataAt
    <2>2. \A j, k \in DataAt(Tail(q)) : f[j] = f[k] => j = k
      BY <1>1 DEF DataAt
    <2>3. \A m \in B : \E k \in DataAt(Tail(q)) : f[k] = m
      <3> SUFFICES ASSUME NEW m \in B PROVE \E k \in DataAt(Tail(q)) : f[k] = m
        OBVIOUS
      <3>1. m - 1 \in DataAt(Tail(q)) /\ (m - 1) + 1 = m
        BY <1>1 DEF DataAt
      <3> QED
        BY <3>1
    <2> QED
      BY <2>1, <2>2, <2>3 DEF Bijection, Injection, Surjection, IsInjective
  <1>3. IsFiniteSet(B) /\ Cardinality(B) = Cardinality(DataAt(Tail(q)))
    <2>1. IsFiniteSet(DataAt(Tail(q))) /\ ExistsBijection(DataAt(Tail(q)), B)
      BY <1>1, <1>2, DataFinite DEF ExistsBijection
    <2> QED
      BY <2>1, FS_Bijection
  <1> HIDE DEF f
  <1>4. CASE Head(q).data
    <2>1. DataAt(q) = B \cup {1} /\ 1 \notin B
      BY <1>1, <1>4 DEF DataAt
    <2>2. Cardinality(B \cup {1}) = Cardinality(B) + 1
      BY <1>3, <2>1, FS_AddElement
    <2>3. Cardinality(DataAt(q)) = Cardinality(DataAt(Tail(q))) + 1
      <3> HIDE DEF B
      <3> QED
        BY <1>3, <2>1, <2>2
    <2>4. Size(Head(q)) = 1
      BY <1>4 DEF Size
    <2> QED
      BY <2>3, <2>4, Zenon
  <1>5. CASE ~Head(q).data
    <2>1. DataAt(q) = B
      BY <1>1, <1>5 DEF DataAt
    <2>2. Size(Head(q)) = 0
      BY <1>5 DEF Size
    <2>3. Cardinality(DataAt(q)) = Cardinality(DataAt(Tail(q)))
      BY <1>3, <2>1, Zenon
    <2>4. Cardinality(DataAt(Tail(q))) \in Nat
      BY <1>1, DataFinite
    <2> QED
      BY <2>2, <2>3, <2>4
  <1> QED
    BY <1>4, <1>5

\* A file, and the frames in it.
FileType == [gen : 1 .. MaxGen, ids : Seq(1 .. MaxFrames), closed : BOOLEAN, gaps : Nat, lost : Nat]

LEMMA FilesTyped ==
  ASSUME WrTypes
  PROVE  /\ files \in Seq(FileType)
         /\ \A k \in DOMAIN files : /\ files[k] \in FileType /\ files[k].ids \in Seq(1 .. MaxFrames)
                                    /\ \A j \in DOMAIN files[k].ids : files[k].ids[j] \in Nat
  <1>1. files \in Seq(FileType)
    BY DEF WrTypes, FileType
  <1>2. \A k \in DOMAIN files : files[k] \in FileType
    BY <1>1
  <1>3. \A g \in FileType : g.ids \in Seq(1 .. MaxFrames)
    BY DEF FileType
  <1>4. \A s \in Seq(1 .. MaxFrames) : \A j \in DOMAIN s : s[j] \in Nat
    BY Consts
  <1> QED BY <1>1, <1>2, <1>3, <1>4

-----------------------------------------------------------------------------
(* The board, the wire, the drive and stop(). *)

LEMMA InitInv == Init => IInv
  <1> SUFFICES ASSUME Init PROVE IInv
    OBVIOUS
  <1> USE DEF Init
  <1>1. TypeOK
    <2>1. BoardTypes
      BY Consts DEF BoardTypes
    <2>2. RxTypes
      <3>1. lastSeq \in 0 .. CounterMod - 1 /\ lastId \in 0 .. MaxFrames /\ early \subseteq 1 .. MaxFrames
        BY Consts
      <3>2. rxChunk \in Chunks /\ queue \in Seq(Chunks)
        BY Consts
      <3> QED BY <3>1, <3>2 DEF RxTypes
    <2>3. WrTypes
      <3>1. depth \in 0 .. MaxDepth /\ driveGen \in 0 .. MaxGen /\ gaps0 \in Nat /\ lost0 \in Nat
        BY Consts
      <3>2. chunk \in Chunks /\ acc \in Seq(1 .. MaxFrames)
        BY Consts
      <3>3. files \in Seq([gen : 1 .. MaxGen, ids : Seq(1 .. MaxFrames), closed : BOOLEAN,
                          gaps : Nat, lost : Nat])
        OBVIOUS
      <3> QED BY <3>1, <3>2, <3>3 DEF WrTypes
    <2> QED BY <2>1, <2>2, <2>3 DEF TypeOK
  <1>2. OrderInv
    BY Consts DEF OrderInv, Incoming, QueueSorted, HandSorted, BlockSorted,
             FilesSorted, FilesFirst, Ascending, Held
  <1>3. FileInv /\ JournalPairs
    BY DEF FileInv, JournalPairs
  <1>4. QueueAccounted
    <2>1. {k \in DOMAIN queue : queue[k].data} = {}
      OBVIOUS
    <2> QED
      BY <2>1, FS_EmptySet, Consts DEF QueueAccounted
  <1>5. SmoothInv /\ EarlyInv
    BY DEF SmoothInv, EarlyInv, Turning, Ending
  <1> QED BY <1>1, <1>2, <1>3, <1>4, <1>5 DEF IInv

\* A step that leaves both threads alone.
LEMMA OutsideInv ==
  ASSUME IInv, UNCHANGED <<rxVars, gaps, lost, dropped, queueVars, wrPc, wrVars, acc, depth, ret,
                           out, files, lossVars, early>>,
         BoardTypes', Incoming',
         trouble => trouble',
         usable' = usable \/ trouble',
         Ending => ~running'
  PROVE  IInv'
  <1> USE DEF rxVars, queueVars, wrVars, lossVars
  <1>1. TypeOK'
    <2>1. RxTypes'
      BY DEF IInv, TypeOK, RxTypes
    <2>2. WrTypes'
      BY DEF IInv, TypeOK, WrTypes
    <2> QED BY <2>1, <2>2 DEF TypeOK
  <1>2. OrderInv'
    <2>1. \A n : (BeforeQueue(n) <=> BeforeQueue(n)') /\ (BeforeHand(n) <=> BeforeHand(n)')
                 /\ (BeforeBlock(n) <=> BeforeBlock(n)')
      BY DEF BeforeQueue, BeforeHand, BeforeBlock, Held
    <2>2. QueueSorted' /\ HandSorted' /\ BlockSorted'
      BY <2>1 DEF IInv, OrderInv, QueueSorted, HandSorted, BlockSorted, Held, Ascending
    <2>3. FilesSorted'
      BY <2>1 DEF IInv, OrderInv, FilesSorted, FilesFirst, Ascending, Before
    <2> QED BY <2>2, <2>3 DEF OrderInv
  <1>3. FileInv' /\ JournalPairs' /\ QueueAccounted'
    BY DEF IInv, FileInv, JournalPairs, QueueAccounted
  <1>4. SmoothInv'
    BY DEF IInv, SmoothInv, Turning
  <1>5. EarlyInv'
    BY DEF IInv, EarlyInv, Ending, Written, Handed, Held, Queued
  <1> QED BY <1>1, <1>2, <1>3, <1>4, <1>5 DEF IInv

LEMMA SendInv ==
  ASSUME IInv, NEW start \in BOOLEAN, NEW end \in BOOLEAN, NEW data \in BOOLEAN, Send(start, end, data)
  PROVE  IInv'
  <1> DEFINE f == [seq |-> seqNo, boot |-> boot,
                   chunk |-> [id |-> sent + 1, start |-> start, end |-> end, data |-> data]]
             F == [seq : 0 .. CounterMod - 1, boot : Nat, chunk : Chunks]
  <1>1. BoardTypes /\ Incoming /\ lastId \in 0 .. MaxFrames
    BY DEF IInv, TypeOK, OrderInv, RxTypes
  <1>2. sent \in Nat /\ sent' = sent + 1 /\ sent' \in 0 .. MaxFrames
    BY <1>1, Consts DEF Send, BoardTypes
  <1>3. seqNo' \in 0 .. CounterMod - 1
    <2>1. seqNo + 1 \in Int
      BY <1>1, Consts DEF BoardTypes
    <2> QED BY <2>1, CounterStays DEF Send
  <1>4. f \in F /\ socket \in Seq(F)
    <2>1. sent + 1 \in 0 .. MaxFrames
      BY <1>2
    <2>2. f.chunk \in Chunks
      BY <2>1 DEF Chunks
    <2> QED BY <1>1, <2>2 DEF BoardTypes
  <1>5. socket' = socket \/ socket' = Append(socket, f)
    BY DEF Send
  <1>6. UNCHANGED <<boot, driveVars, running, rxVars, gaps, lost, dropped, queueVars, wrPc, wrVars, acc,
                    depth, ret, out, files, lossVars, trouble, early>>
    BY DEF Send
  <1>7. f.chunk.id = sent + 1
    OBVIOUS
  <1>g. \A g \in F : g.chunk.id \in Nat
    BY Consts DEF Chunks
  <1>h. F = [seq : 0 .. CounterMod - 1, boot : Nat, chunk : Chunks]
    OBVIOUS
  <1> HIDE DEF f, F
  <1>8. socket' \in Seq(F)
    BY <1>4, <1>5, AppendFacts
  <1>9. BoardTypes'
    BY <1>1, <1>2, <1>3, <1>6, <1>8, <1>h DEF BoardTypes, driveVars
  <1>10. Incoming'
    <2>1. UNCHANGED <<lastId, rxPc, rxChunk>> /\ lastId <= sent /\ lastId \in Nat
      BY <1>1, <1>6, Consts DEF rxVars, lossVars, Incoming
    <2>2. CASE socket' = socket
      <3>1. \A k \in DOMAIN socket : socket[k].chunk.id \in Nat
        BY <1>4, <1>g
      <3> QED
        BY <1>1, <1>2, <2>1, <2>2, <3>1 DEF Incoming
    <2>3. CASE socket' = Append(socket, f)
      <3>1. /\ DOMAIN socket = 1 .. Len(socket) /\ Len(socket) \in Nat
            /\ DOMAIN socket' = 1 .. Len(socket) + 1
            /\ \A k \in DOMAIN socket : socket'[k] = socket[k]
            /\ socket'[Len(socket) + 1] = f
        BY <1>4, <2>3, AppendFacts
      <3>2. \A k \in DOMAIN socket : /\ socket[k].chunk.id \in Nat
                                     /\ lastId < socket[k].chunk.id /\ socket[k].chunk.id <= sent
        BY <1>1, <1>4, <1>g DEF Incoming
      <3>3. \A k \in DOMAIN socket' : k \in DOMAIN socket \/ k = Len(socket) + 1
        BY <3>1
      <3>4. \A k \in DOMAIN socket' : lastId' < socket'[k].chunk.id /\ socket'[k].chunk.id <= sent'
        BY <1>2, <1>7, <2>1, <3>1, <3>2, <3>3
      <3>5. \A j, k \in DOMAIN socket' : j < k => socket'[j].chunk.id < socket'[k].chunk.id
        <4> SUFFICES ASSUME NEW j \in DOMAIN socket', NEW k \in DOMAIN socket', j < k
                     PROVE  socket'[j].chunk.id < socket'[k].chunk.id
          OBVIOUS
        <4>1. j \in DOMAIN socket
          BY <3>1
        <4>2. CASE k \in DOMAIN socket
          BY <1>1, <3>1, <4>1, <4>2 DEF Incoming
        <4>3. CASE k = Len(socket) + 1
          BY <1>2, <1>7, <3>1, <3>2, <4>1, <4>3
        <4> QED BY <3>3, <4>2, <4>3
      <3> QED
        BY <1>1, <1>2, <2>1, <3>4, <3>5 DEF Incoming
    <2> QED BY <1>5, <2>2, <2>3
  <1>11. Ending => ~running'
    BY <1>6 DEF IInv, EarlyInv
  <1> QED
    BY <1>6, <1>9, <1>10, <1>11, OutsideInv DEF driveVars

LEMMA WorldInv == IInv /\ (World \/ Stop) => IInv'
  <1> SUFFICES ASSUME IInv, World \/ Stop PROVE IInv'
    OBVIOUS
  <1>1. CASE \E start, end, data \in BOOLEAN : Send(start, end, data)
    BY <1>1, SendInv
  <1>2. CASE Reboot \/ Drive \/ Stop
    <2>1. UNCHANGED <<sent, socket, rxVars, gaps, lost, dropped, queueVars, wrPc, wrVars, acc, depth, ret,
                      out, files, lossVars, early>>
      BY <1>2 DEF Reboot, Drive, Stop, boardVars
    <2>2. BoardTypes'
      <3>1. BoardTypes
        BY DEF IInv, TypeOK
      <3>2. CASE Reboot
        BY <3>1, <3>2, Consts DEF Reboot, BoardTypes, driveVars
      <3>3. CASE Drive
        <4>1. generation' \in 1 .. MaxGen /\ usable' \in BOOLEAN
          BY <3>1, <3>3, Consts DEF Drive, BoardTypes
        <4> QED BY <3>1, <3>3, <4>1 DEF Drive, BoardTypes, boardVars
      <3>4. CASE Stop
        BY <3>1, <3>4 DEF Stop, BoardTypes, boardVars, driveVars
      <3> QED BY <1>2, <3>2, <3>3, <3>4
    <2>3. Incoming'
      BY <2>1 DEF IInv, OrderInv, Incoming, rxVars, lossVars
    <2>4. /\ trouble => trouble'
          /\ usable' = usable \/ trouble'
          /\ Ending => ~running'
      BY <1>2 DEF Reboot, Drive, Stop, driveVars, boardVars, IInv, EarlyInv
    <2> QED
      BY <2>1, <2>2, <2>3, <2>4, OutsideInv
  <1> QED
    BY <1>1, <1>2 DEF World

-----------------------------------------------------------------------------
(* rx_loop. *)

\* A step of the receiver: the order of what it has brought is what is left to show.
LEMMA ReceiverInv ==
  ASSUME IInv, UNCHANGED <<sent, seqNo, boot, driveVars, running, wrPc, wrVars, acc, depth, ret, out,
                           files, trouble>>,
         socket' \in Seq([seq : 0 .. CounterMod - 1, boot : Nat, chunk : Chunks]),
         RxTypes', Incoming', QueueSorted',
         \A n \in Nat : BeforeQueue(n) => BeforeQueue(n)',
         gaps <= gaps', lost <= lost',
         QueueAccounted',
         Queued \subseteq Queued',
         UNCHANGED early \/ (~Ending /\ early' \subseteq early \cup Queued')
  PROVE  IInv'
  <1> USE DEF driveVars, wrVars
  <1>1. TypeOK'
    <2>1. BoardTypes'
      BY DEF IInv, TypeOK, BoardTypes
    <2>2. WrTypes'
      BY DEF IInv, TypeOK, WrTypes
    <2> QED BY <2>1, <2>2 DEF TypeOK
  <1>2. OrderInv'
    <2>0. /\ WrTypes
          /\ \A k \in DOMAIN acc : acc[k] \in Nat
          /\ chunk.id \in Nat
      BY Consts DEF IInv, TypeOK, WrTypes, Chunks
    <2>1. \A k \in DOMAIN files : \A j \in DOMAIN files[k].ids : files[k].ids[j] \in Nat
      BY <2>0, FilesTyped
    <2>2. \A n \in Nat : /\ BeforeHand(n) => BeforeHand(n)'
                         /\ BeforeBlock(n) => BeforeBlock(n)'
      BY DEF BeforeHand, BeforeBlock, Held
    <2>3. HandSorted' /\ BlockSorted'
      BY <2>0, <2>2 DEF IInv, OrderInv, HandSorted, BlockSorted, Held, Ascending
    <2>4. FilesSorted'
      BY <2>1, <2>2 DEF IInv, OrderInv, FilesSorted, FilesFirst, Ascending, Before
    <2> QED BY <2>3, <2>4 DEF OrderInv
  <1>3. FileInv'
    <2>1. gaps0 <= gaps' /\ lost0 <= lost'
      <3>1. gaps0 <= gaps /\ lost0 <= lost /\ gaps0 \in Nat /\ lost0 \in Nat /\ gaps \in Nat /\ lost \in Nat
            /\ gaps' \in Nat /\ lost' \in Nat
        BY DEF IInv, FileInv, TypeOK, RxTypes, WrTypes
      <3> QED BY <3>1
    <2> QED BY <2>1 DEF IInv, FileInv
  <1>4. JournalPairs' /\ SmoothInv'
    BY DEF IInv, JournalPairs, SmoothInv, Turning
  <1>5. EarlyInv'
    <2>1. Written' = Written /\ Handed' = Handed /\ (Ending' <=> Ending)
      BY DEF Written, Handed, Held, Ending
    <2> QED
      BY <2>1 DEF IInv, EarlyInv
  <1> QED BY <1>1, <1>2, <1>3, <1>4, <1>5 DEF IInv

LEMMA ReceiveInv == IInv /\ Receive => IInv'
  <1> SUFFICES ASSUME IInv, Receive PROVE IInv'
    OBVIOUS
  <1> DEFINE f == Head(socket)
             F == [seq : 0 .. CounterMod - 1, boot : Nat, chunk : Chunks]
  <1>1. /\ socket \in Seq(F) /\ socket # <<>> /\ RxTypes /\ Incoming /\ sent \in Nat
    BY Consts DEF IInv, TypeOK, BoardTypes, OrderInv, Receive
  <1>g. \A g \in F : /\ g.seq \in 0 .. CounterMod - 1 /\ g.boot \in Nat
                     /\ g.chunk \in Chunks /\ g.chunk.id \in 0 .. MaxFrames
    BY DEF Chunks
  <1>h. F = [seq : 0 .. CounterMod - 1, boot : Nat, chunk : Chunks]
    OBVIOUS
  <1> HIDE DEF F
  <1>2. /\ f = socket[1] /\ f \in F /\ Tail(socket) \in Seq(F)
        /\ Len(socket) \in Nat \ {0} /\ DOMAIN socket = 1 .. Len(socket)
        /\ DOMAIN Tail(socket) = 1 .. Len(socket) - 1
        /\ \A k \in DOMAIN Tail(socket) : k + 1 \in DOMAIN socket /\ k + 1 # 1 /\ Tail(socket)[k] = socket[k + 1]
    BY <1>1, TailFacts
  <1>3. /\ rxPc = "recv" /\ rxPc' = "push" /\ socket' = Tail(socket) /\ rxChunk' = f.chunk
        /\ lastId' = f.chunk.id /\ lastSeq' = f.seq /\ lastBoot' = f.boot /\ haveSeq' = TRUE
        /\ gaps' = IF IsGap(f) THEN gaps + 1 ELSE gaps
        /\ lost' = IF IsGap(f) THEN lost + Miss(f.seq) ELSE lost
        /\ missing' = missing + (f.chunk.id - lastId - 1)
        /\ missingSame' = IF haveSeq /\ ~f.chunk.start /\ f.boot = lastBoot
                          THEN missingSame + (f.chunk.id - lastId - 1) ELSE missingSame
        /\ UNCHANGED <<sent, seqNo, boot, driveVars, running, dropped, queueVars, wrPc, wrVars, acc,
                       depth, ret, out, files, trouble, early>>
    BY DEF Receive
  <1>4. /\ lastId \in Nat /\ lastId < f.chunk.id /\ f.chunk.id <= sent /\ f.chunk.id \in 0 .. MaxFrames
        /\ f.seq \in 0 .. CounterMod - 1 /\ f.boot \in Nat /\ f.chunk \in Chunks
    BY <1>1, <1>2, <1>g, Consts DEF RxTypes, Incoming
  <1> HIDE DEF f
  <1>5. Miss(f.seq) \in Nat
    <2>1. f.seq - (lastSeq + 1) \in Int
      BY <1>1, <1>4, Consts DEF RxTypes
    <2>2. Miss(f.seq) \in 0 .. CounterMod - 1
      BY <2>1, CounterStays DEF Miss
    <2> QED BY <2>2, Consts
  <1>6. gaps' \in Nat /\ gaps <= gaps' /\ lost' \in Nat /\ lost <= lost'
    <2>1. gaps \in Nat /\ lost \in Nat
      BY <1>1 DEF RxTypes
    <2> QED BY <1>3, <1>5, <2>1
  <1>7. RxTypes'
    <2>1. missing' \in Nat /\ missingSame' \in Nat
      <3>1. missing \in Nat /\ missingSame \in Nat /\ f.chunk.id - lastId - 1 \in Nat
        BY <1>1, <1>4, Consts DEF RxTypes
      <3> QED BY <1>3, <3>1
    <2> QED
      BY <1>1, <1>3, <1>4, <1>6, <2>1 DEF RxTypes, queueVars
  <1>8. Incoming'
    <2>1. /\ \A k \in DOMAIN socket' : lastId' < socket'[k].chunk.id /\ socket'[k].chunk.id <= sent'
          /\ \A j, k \in DOMAIN socket' : j < k => socket'[j].chunk.id < socket'[k].chunk.id
      <3>1. 1 \in DOMAIN socket /\ \A k \in DOMAIN socket' : k \in Nat
        BY <1>2, <1>3
      <3>2. \A j, k \in DOMAIN socket : j < k => socket[j].chunk.id < socket[k].chunk.id
        BY <1>1 DEF Incoming
      <3>3. \A k \in DOMAIN socket' : k + 1 \in DOMAIN socket /\ 1 < k + 1 /\ socket'[k] = socket[k + 1]
        BY <1>2, <1>3
      <3>4. \A j, k \in DOMAIN socket' : j < k => j + 1 < k + 1
        BY <3>1
      <3>5. \A k \in DOMAIN socket : socket[k].chunk.id <= sent
        BY <1>1 DEF Incoming
      <3>6. lastId' = socket[1].chunk.id /\ sent' = sent
        BY <1>2, <1>3
      <3> QED BY <3>1, <3>2, <3>3, <3>4, <3>5, <3>6
    <2> QED
      BY <1>3, <1>4, <2>1 DEF Incoming
  <1>9. \A n \in Nat : BeforeQueue(n) => BeforeQueue(n)'
    BY <1>3, <1>4 DEF BeforeQueue, queueVars
  <1>10. QueueSorted'
    <2>1. QueueSorted /\ \A k \in DOMAIN queue : queue[k].id \in Nat /\ queue[k].id <= lastId
      BY <1>4 DEF IInv, OrderInv, QueueSorted
    <2> QED
      BY <1>3, <1>4, <2>1 DEF QueueSorted, queueVars
  <1>11. QueueAccounted' /\ Queued' = Queued
    BY <1>3 DEF IInv, QueueAccounted, Queued, queueVars
  <1>12. socket' \in Seq([seq : 0 .. CounterMod - 1, boot : Nat, chunk : Chunks])
    BY <1>2, <1>3, <1>h
  <1> QED
    BY <1>3, <1>6, <1>7, <1>8, <1>9, <1>10, <1>11, <1>12, ReceiverInv

LEMMA PushInv == IInv /\ Push => IInv'
  <1> SUFFICES ASSUME IInv, Push PROVE IInv'
    OBVIOUS
  <1>1. /\ rxPc = "push" /\ rxPc' = "recv" /\ rxChunk' = NoChunk
        /\ UNCHANGED <<boardVars, driveVars, running, haveSeq, lastSeq, gaps, lost, wrPc, wrVars, acc,
                       depth, ret, out, files, lossVars, trouble>>
    BY DEF Push
  <1>2. /\ RxTypes /\ Incoming /\ QueueSorted /\ QueueAccounted /\ BoardTypes
        /\ rxChunk.id = lastId /\ lastId \in 1 .. MaxFrames /\ rxChunk \in Chunks /\ queue \in Seq(Chunks)
    BY <1>1, Consts DEF IInv, OrderInv, TypeOK, Incoming, RxTypes
  <1>3. Incoming' /\ gaps <= gaps' /\ lost <= lost' /\ socket' = socket
    BY <1>1, <1>2 DEF Incoming, boardVars, lossVars, RxTypes
  <1>4. NoChunk \in Chunks
    BY Consts
  <1>5. CASE Fits(rxChunk)
    <2>1. /\ queue' = Append(queue, rxChunk) /\ queueBytes' = queueBytes + Size(rxChunk)
          /\ early' = IF running /\ rxChunk.data THEN early \cup {rxChunk.id} ELSE early
          /\ dropped' = dropped
      BY <1>5 DEF Push
    <2>2. /\ queue' \in Seq(Chunks)
          /\ DOMAIN queue = 1 .. Len(queue) /\ Len(queue) \in Nat
          /\ DOMAIN queue' = 1 .. Len(queue) + 1
          /\ \A k \in DOMAIN queue : queue'[k] = queue[k]
          /\ queue'[Len(queue) + 1] = rxChunk
      BY <1>2, <2>1, AppendFacts
    <2>3. \A k \in DOMAIN queue' : k \in DOMAIN queue \/ k = Len(queue) + 1
      BY <2>2
    <2>4. queueBytes' \in Nat /\ Size(rxChunk) \in {0, 1}
      BY <1>2, <2>1 DEF RxTypes, Size
    <2>5. RxTypes'
      <3>1. early' \subseteq 1 .. MaxFrames
        BY <1>2, <2>1 DEF RxTypes
      <3> QED
        BY <1>1, <1>2, <1>4, <2>1, <2>2, <2>4, <3>1 DEF RxTypes, lossVars
    <2>6. QueueSorted'
      <3>1. \A k \in DOMAIN queue' : queue'[k].id \in 1 .. lastId
        BY <1>2, <2>2, <2>3 DEF QueueSorted
      <3>2. \A j, k \in DOMAIN queue' : j < k => queue'[j].id < queue'[k].id
        <4> SUFFICES ASSUME NEW j \in DOMAIN queue', NEW k \in DOMAIN queue', j < k
                     PROVE  queue'[j].id < queue'[k].id
          OBVIOUS
        <4>1. j \in DOMAIN queue
          BY <2>2
        <4>2. CASE k \in DOMAIN queue
          BY <1>2, <2>2, <4>1, <4>2 DEF QueueSorted
        <4>3. CASE k = Len(queue) + 1
          BY <1>1, <1>2, <2>2, <4>1, <4>3 DEF QueueSorted
        <4> QED BY <2>3, <4>2, <4>3
      <3> QED
        BY <1>1, <3>1, <3>2 DEF QueueSorted, lossVars
    <2>7. \A n \in Nat : BeforeQueue(n) => BeforeQueue(n)'
      BY <1>1, <2>2, <2>3 DEF BeforeQueue, lossVars
    <2>8. QueueAccounted'
      <3>1. queueBytes = Cardinality(DataAt(queue))
        BY <1>2 DEF QueueAccounted, DataAt
      <3>2. Cardinality(DataAt(queue')) = Cardinality(DataAt(queue)) + Size(rxChunk)
        BY <1>2, <2>1, DataAppend
      <3>3. queueBytes' = Cardinality(DataAt(queue'))
        BY <2>1, <3>1, <3>2
      <3>4. queueBytes' <= QueueMax
        BY <1>5, <2>1 DEF Fits
      <3> QED
        BY <3>3, <3>4 DEF QueueAccounted, DataAt
    <2>9. Queued \subseteq Queued' /\ (rxChunk.data => rxChunk.id \in Queued')
      <3>1. Len(queue) + 1 \in DOMAIN queue'
        BY <2>2
      <3>2. \A k \in DOMAIN queue : k \in DOMAIN queue'
        BY <2>2
      <3> QED BY <2>2, <3>1, <3>2 DEF Queued
    <2>10. UNCHANGED early \/ (~Ending /\ early' \subseteq early \cup Queued')
      <3>1. running => ~Ending
        BY DEF IInv, EarlyInv
      <3> QED BY <2>1, <2>9, <3>1
    <2> QED
      BY <1>1, <1>2, <1>3, <2>5, <2>6, <2>7, <2>8, <2>9, <2>10, ReceiverInv DEF BoardTypes, boardVars
  <1>6. CASE ~Fits(rxChunk)
    <2>1. dropped' = dropped + 1 /\ UNCHANGED <<queueVars, early>>
      BY <1>6 DEF Push
    <2>2. RxTypes'
      BY <1>1, <1>2, <1>4, <2>1 DEF RxTypes, queueVars, lossVars
    <2>3. QueueSorted' /\ QueueAccounted' /\ Queued' = Queued
      BY <1>1, <1>2, <2>1 DEF QueueSorted, QueueAccounted, Queued, queueVars, lossVars
    <2>4. \A n \in Nat : BeforeQueue(n) => BeforeQueue(n)'
      BY <1>1, <2>1 DEF BeforeQueue, queueVars, lossVars
    <2> QED
      BY <1>1, <1>2, <1>3, <2>1, <2>2, <2>3, <2>4, ReceiverInv DEF BoardTypes, boardVars
  <1> QED BY <1>5, <1>6

LEMMA RxLoopInv == IInv /\ RxLoop => IInv'
  <1> SUFFICES ASSUME IInv, RxLoop PROVE IInv'
    OBVIOUS
  <1>1. CASE ReceiveEnds
    <2>1. /\ rxPc = "recv" /\ rxPc' = "ended"
          /\ UNCHANGED <<boardVars, driveVars, running, haveSeq, lastSeq, rxChunk, gaps, lost, dropped,
                         queueVars, wrPc, wrVars, acc, depth, ret, out, files, lossVars, trouble, early>>
      BY <1>1 DEF ReceiveEnds
    <2>2. BoardTypes /\ RxTypes /\ Incoming /\ QueueSorted /\ QueueAccounted
      BY DEF IInv, TypeOK, OrderInv
    <2>3. RxTypes' /\ gaps <= gaps' /\ lost <= lost'
      BY <2>1, <2>2 DEF RxTypes, queueVars, lossVars
    <2>4. Incoming' /\ QueueSorted' /\ QueueAccounted' /\ Queued' = Queued /\ socket' = socket
      BY <2>1, <2>2 DEF Incoming, QueueSorted, QueueAccounted, Queued, queueVars, lossVars, boardVars
    <2>5. \A n \in Nat : BeforeQueue(n) => BeforeQueue(n)'
      BY <2>1 DEF BeforeQueue, queueVars, lossVars
    <2> QED
      BY <2>1, <2>2, <2>3, <2>4, <2>5, ReceiverInv DEF BoardTypes, boardVars
  <1> QED
    BY <1>1, ReceiveInv, PushInv DEF RxLoop

-----------------------------------------------------------------------------
(* wr_loop: the steps that move no frame. *)

\* The frames stay where they are; a file may be made, it is empty, or closed.
Quiet ==
    /\ UNCHANGED <<boardAndRx, driveVars, queueVars, acc>>
    /\ Held' <=> Held
    /\ Held => chunk' = chunk
    /\ trouble => trouble'
    /\ trouble' \in BOOLEAN
    /\ \A k \in DOMAIN files : k \in DOMAIN files' /\ files'[k].ids = files[k].ids
    /\ \A k \in DOMAIN files' : k \in DOMAIN files \/ files'[k].ids = <<>>

LEMMA QuietOrder ==
  ASSUME IInv, Quiet
  PROVE  OrderInv'
  <1>0. /\ UNCHANGED <<sent, socket, lastId, rxPc, rxChunk, queue, acc>>
        /\ Held' <=> Held
        /\ Held => chunk' = chunk
        /\ \A k \in DOMAIN files : k \in DOMAIN files' /\ files'[k].ids = files[k].ids
        /\ \A k \in DOMAIN files' : k \in DOMAIN files \/ files'[k].ids = <<>>
    BY DEF Quiet, boardAndRx, boardVars, rxVars, lossVars, queueVars
  <1>i. Incoming /\ QueueSorted /\ HandSorted /\ BlockSorted /\ FilesSorted
    BY DEF IInv, OrderInv
  <1>1. \A n : /\ BeforeQueue(n) <=> BeforeQueue(n)'
               /\ BeforeHand(n) <=> BeforeHand(n)'
               /\ BeforeBlock(n) <=> BeforeBlock(n)'
    BY <1>0 DEF BeforeQueue, BeforeHand, BeforeBlock
  <1>2. Incoming' /\ QueueSorted'
    BY <1>0, <1>i DEF Incoming, QueueSorted
  <1>3. HandSorted' /\ BlockSorted'
    BY <1>0, <1>1, <1>i DEF HandSorted, BlockSorted, Ascending
  <1>4. FilesSorted'
    <2>1. \A k \in DOMAIN files' : files'[k].ids # <<>> => k \in DOMAIN files /\ files'[k].ids = files[k].ids
      BY <1>0
    <2>2. \A k \in DOMAIN files' : \A j \in DOMAIN files'[k].ids :
             k \in DOMAIN files /\ files'[k].ids = files[k].ids
      BY <1>0
    <2>3. \A k \in DOMAIN files' : Ascending(files'[k].ids)
      BY <1>i, <2>2 DEF FilesSorted, Ascending
    <2>4. FilesFirst'
      BY <1>0, <1>i, <2>2 DEF FilesSorted, FilesFirst, BeforeBlock, BeforeHand, BeforeQueue
    <2>5. \A k, m \in DOMAIN files' : k < m => Before(files'[k].ids, files'[m].ids)
      BY <1>i, <2>2 DEF FilesSorted, Before
    <2> QED BY <2>3, <2>4, <2>5 DEF FilesSorted, Ascending, Before
  <1> QED BY <1>2, <1>3, <1>4 DEF OrderInv

LEMMA QuietInv ==
  ASSUME IInv, Quiet, WrTypes', FileInv', JournalPairs', SmoothInv',
         Ending' => Ending \/ (~running /\ queue = <<>> /\ ~Held)
  PROVE  IInv'
  <1>0. /\ UNCHANGED <<boardAndRx, driveVars, queueVars, acc>>
        /\ Held' <=> Held
        /\ Held => chunk' = chunk
        /\ trouble => trouble'
        /\ trouble' \in BOOLEAN
    BY DEF Quiet
  <1>1. TypeOK'
    <2>1. BoardTypes' /\ RxTypes'
      BY <1>0 DEF IInv, TypeOK, BoardTypes, RxTypes, boardAndRx, boardVars, driveVars, rxVars, lossVars,
                  queueVars
    <2> QED BY <2>1 DEF TypeOK
  <1>2. QueueAccounted'
    BY <1>0 DEF IInv, QueueAccounted, queueVars
  <1>3. EarlyInv'
    <2>1. /\ UNCHANGED <<early, queue, acc, running>>
          /\ Handed' = Handed /\ Queued' = Queued
      BY <1>0 DEF boardAndRx, queueVars, Handed, Queued
    <2>2. \A n : n \in Written <=> n \in Written'
      <3>1. \A k \in DOMAIN files : k \in DOMAIN files' /\ files'[k].ids = files[k].ids
        BY DEF Quiet
      <3>2. \A k \in DOMAIN files' : \A j \in DOMAIN files'[k].ids :
               k \in DOMAIN files /\ files'[k].ids = files[k].ids
        BY DEF Quiet
      <3>3. \A n : n \in Written' <=>
                   \E k \in DOMAIN files' : \E j \in DOMAIN files'[k].ids : files'[k].ids[j] = n
        BY DEF Written, ToSet
      <3> QED BY <3>1, <3>2, <3>3, WrittenMember
    <2>3. (~running /\ queue = <<>> /\ ~Held) => Handed = {} /\ Queued = {}
      BY DEF Handed, Queued
    <2> QED
      BY <1>0, <2>1, <2>2, <2>3 DEF IInv, EarlyInv
  <1>4. OrderInv'
    BY QuietOrder
  <1> QED BY <1>1, <1>2, <1>3, <1>4 DEF IInv

\* close_file is called: it runs if a file is open.
LEMMA CallFacts ==
  ASSUME NEW label, CallClose(label)
  PROVE  /\ out => wrPc' = "flush" /\ depth' = 1 /\ ret' = label
         /\ ~out => wrPc' = label /\ UNCHANGED <<depth, ret>>
  BY DEF CallClose, Goto

\* The steps of the loop that only call close_file or go on.
Calls ==
    /\ UNCHANGED <<boardAndRx, driveVars, queueVars, driveGen, gaps0, lost0, acc, out, files, trouble>>
    /\ chunk' \in Chunks /\ dsUsable' \in BOOLEAN

LEMMA CallsInv ==
  ASSUME IInv, Calls,
         (Held' <=> Held) /\ (Held => chunk' = chunk),
         NEW label \in {"take", "start", "open", "open2", "append", "ended"},
         \/ label \notin {"open2", "append"} /\ CallClose(label)
         \/ wrPc' = label /\ UNCHANGED <<depth, ret>> /\ (label \in {"open", "open2", "ended"} => ~out),
         wrPc # "unwind",
         label = "ended" => Ending \/ (~running /\ queue = <<>> /\ ~Held),
         ~trouble /\ label \in {"start", "open"} => dsUsable',
         ~trouble /\ label = "append" /\ chunk'.data => out
  PROVE  IInv'
  <1>1. Quiet
    BY DEF Calls, Quiet, IInv, TypeOK, BoardTypes
  <1>2. /\ out \in BOOLEAN /\ MaxDepth \in Nat \ {0} /\ 1 \in 0 .. MaxDepth /\ WrTypes /\ FileInv /\ SmoothInv
    BY BlackboxAssumption DEF IInv, TypeOK, WrTypes
  <1>3. \/ out /\ wrPc' = "flush" /\ depth' = 1 /\ ret' = label /\ label \notin {"open2", "append"}
        \/ /\ wrPc' = label /\ UNCHANGED <<depth, ret>>
           /\ label \in {"open", "open2", "ended"} => ~out
    BY <1>2, CallFacts
  <1>4. WrTypes'
    BY <1>2, <1>3 DEF Calls, WrTypes
  <1>5. FileInv'
    BY <1>2, <1>3 DEF Calls, FileInv, boardAndRx
  <1>6. JournalPairs'
    BY DEF IInv, JournalPairs, Calls
  <1>7. SmoothInv'
    BY <1>2, <1>3 DEF SmoothInv, Calls, Turning, driveVars
  <1>8. Ending' => Ending \/ (~running /\ queue = <<>> /\ ~Held)
    BY <1>3 DEF Ending
  <1> QED BY <1>1, <1>4, <1>5, <1>6, <1>7, <1>8, QuietInv

LEMMA CallStepsInv == IInv /\ (IdleClose \/ WriteEnds \/ CheckDrive \/ StartOfLog \/ EndOfLog) => IInv'
  <1> SUFFICES ASSUME IInv, IdleClose \/ WriteEnds \/ CheckDrive \/ StartOfLog \/ EndOfLog
               PROVE  IInv'
    OBVIOUS
  <1>0. /\ out \in BOOLEAN /\ usable \in BOOLEAN /\ dsUsable \in BOOLEAN /\ chunk \in Chunks
        /\ NoChunk \in Chunks
        /\ chunk.data \in BOOLEAN
    <2>1. \A c \in Chunks : c.data \in BOOLEAN
      BY DEF Chunks
    <2> QED BY <2>1, Consts DEF IInv, TypeOK, BoardTypes, WrTypes
  <1>1. CASE IdleClose
    <2>1. wrPc = "take" /\ CallClose("take") /\ Calls /\ UNCHANGED chunk
      BY <1>0, <1>1 DEF IdleClose, Calls, wrVars
    <2>2. ~Held /\ ~Held'
      BY <2>1, <1>0, CallFacts DEF Held
    <2> QED BY <2>1, <2>2, CallsInv
  <1>2. CASE WriteEnds
    <2>1. /\ wrPc = "take" /\ CallClose("ended") /\ Calls /\ UNCHANGED chunk
          /\ ~running /\ queue = <<>>
      BY <1>0, <1>2 DEF WriteEnds, MayEnd, Calls, wrVars
    <2>2. ~Held /\ ~Held'
      BY <2>1, <1>0, CallFacts DEF Held
    <2> QED BY <2>1, <2>2, CallsInv
  <1>3. CASE CheckDrive
    <2>1. /\ wrPc = "drive" /\ Calls /\ UNCHANGED chunk /\ dsUsable' = usable
          /\ CallClose("start") \/ (wrPc' = "start" /\ UNCHANGED <<depth, ret>>)
      BY <1>0, <1>3 DEF CheckDrive, Calls, Goto
    <2>2. Held /\ Held'
      BY <2>1, <1>0, CallFacts DEF Held
    <2>3. ~trouble => dsUsable'
      BY <2>1 DEF IInv, SmoothInv
    <2> QED BY <2>1, <2>2, <2>3, CallsInv
  <1>4. CASE StartOfLog
    <2>0. wrPc = "start" /\ Calls /\ UNCHANGED <<chunk, dsUsable>>
      BY <1>0, <1>4 DEF StartOfLog, Calls, wrVars
    <2>1. Held /\ (~trouble => dsUsable)
      BY <2>0 DEF Held, IInv, SmoothInv, Turning
    <2>2. CASE chunk.start
      <3>1. CallClose("open")
        BY <1>4, <2>2 DEF StartOfLog, OldFile
      <3>2. Held'
        BY <3>1, <1>0, CallFacts DEF Held
      <3> QED BY <2>0, <2>1, <3>1, <3>2, CallsInv
    <2>3. CASE ~chunk.start
      <3>1. wrPc' = Orphan(out) /\ UNCHANGED <<depth, ret>>
        BY <1>4, <2>3 DEF StartOfLog, Goto
      <3>2. CASE ~out /\ chunk.data /\ dsUsable
        <4>1. wrPc' = "open2" /\ Held'
          BY <3>1, <3>2 DEF Orphan, Held
        <4> QED BY <2>0, <2>1, <3>1, <3>2, <4>1, CallsInv
      <3>3. CASE ~(~out /\ chunk.data /\ dsUsable)
        <4>1. wrPc' = "append" /\ Held'
          BY <3>1, <3>3 DEF Orphan, Held
        <4>2. ~trouble /\ chunk'.data => out
          BY <2>0, <2>1, <3>3
        <4> QED BY <2>0, <2>1, <3>1, <4>1, <4>2, CallsInv
      <3> QED BY <3>2, <3>3
    <2> QED BY <2>2, <2>3
  <1>5. CASE EndOfLog
    <2>1. /\ wrPc = "end" /\ Calls
          /\ CallClose("take") \/ (wrPc' = "take" /\ UNCHANGED <<depth, ret>>)
      BY <1>0, <1>5 DEF EndOfLog, EndOfTurn, Calls, Goto
    <2>2. ~Held /\ ~Held'
      BY <2>1, <1>0, CallFacts DEF Held
    <2> QED BY <2>1, <2>2, CallsInv
  <1> QED BY <1>1, <1>2, <1>3, <1>4, <1>5

\* open_file.
LEMMA OpenInv == IInv /\ Open => IInv'
  <1> SUFFICES ASSUME IInv, Open PROVE IInv'
    OBVIOUS
  <1>0. /\ WrTypes /\ FileInv /\ SmoothInv /\ JournalPairs /\ generation \in 1 .. MaxGen
        /\ trouble \in BOOLEAN
    BY DEF IInv, TypeOK, BoardTypes
  <1>1. /\ wrPc \in {"open", "open2"} /\ ~out /\ acc = <<>>
        /\ UNCHANGED <<boardAndRx, driveVars, queueVars, wrVars, acc, depth, ret>>
    BY <1>0 DEF Open, FileInv
  <1>2. CASE out' = TRUE /\ UNCHANGED trouble
    <2> DEFINE g == [gen |-> generation, ids |-> <<>>, closed |-> FALSE, gaps |-> 0, lost |-> 0]
    <2>1. files' = Append(files, g) /\ wrPc' = "opened"
      BY <1>1, <1>2 DEF Open, Goto
    <2>2. files \in Seq(FileType) /\ g \in FileType
      BY <1>0, FilesTyped DEF FileType
    <2>3. g.ids = <<>> /\ ~g.closed
      OBVIOUS
    <2> HIDE DEF g
    <2>4. /\ files' \in Seq(FileType)
          /\ DOMAIN files = 1 .. Len(files) /\ Len(files) \in Nat
          /\ DOMAIN files' = 1 .. Len(files) + 1
          /\ \A k \in DOMAIN files : files'[k] = files[k]
          /\ files'[Len(files) + 1] = g
          /\ files' # <<>> /\ Len(files') = Len(files) + 1
      BY <2>1, <2>2, AppendFacts
    <2>5. Held /\ Held'
      BY <1>1, <2>1 DEF Held
    <2>6. Quiet
      <3>1. \A k \in DOMAIN files' : k \in DOMAIN files \/ files'[k].ids = <<>>
        BY <2>3, <2>4
      <3>2. \A k \in DOMAIN files : k \in DOMAIN files' /\ files'[k].ids = files[k].ids
        BY <2>4
      <3> QED BY <1>0, <1>1, <1>2, <2>5, <3>1, <3>2 DEF Quiet, wrVars
    <2>7. WrTypes'
      BY <1>0, <1>1, <1>2, <2>1, <2>4 DEF WrTypes, wrVars, FileType
    <2>8. FileInv'
      BY <1>0, <1>1, <1>2, <2>1, <2>4 DEF FileInv, wrVars, boardAndRx
    <2>9. JournalPairs'
      <3>1. \A k \in DOMAIN files : files[k].closed
        BY <1>0, <1>1, <2>4 DEF JournalPairs
      <3>2. \A k \in 1 .. Len(files') : files'[k].closed <=> k # Len(files')
        BY <2>3, <2>4, <3>1
      <3> QED BY <1>2, <3>2 DEF JournalPairs
    <2>10. SmoothInv' /\ ~Ending'
      BY <1>0, <1>1, <1>2, <2>1 DEF SmoothInv, Turning, Ending, driveVars
    <2> QED BY <2>6, <2>7, <2>8, <2>9, <2>10, QuietInv
  <1>3. CASE trouble' = TRUE /\ UNCHANGED <<out, files>>
    <2>1. wrPc' \in {"open2", "append"}
      BY <1>1, <1>3 DEF Open, Goto, Orphan
    <2>2. Held /\ Held'
      BY <1>1, <2>1 DEF Held
    <2>3. Quiet
      BY <1>1, <1>3, <2>2 DEF Quiet, wrVars
    <2>4. WrTypes' /\ FileInv' /\ JournalPairs'
      BY <1>0, <1>1, <1>3, <2>1 DEF WrTypes, FileInv, JournalPairs, wrVars, boardAndRx
    <2>5. SmoothInv' /\ ~Ending'
      BY <1>3, <2>1 DEF SmoothInv, Ending
    <2> QED BY <2>3, <2>4, <2>5, QuietInv
  <1> QED BY <1>1, <1>2, <1>3 DEF Open

LEMMA OpenedInv == IInv /\ Opened => IInv'
  <1> SUFFICES ASSUME IInv, Opened PROVE IInv'
    OBVIOUS
  <1>0. /\ WrTypes /\ RxTypes /\ FileInv /\ SmoothInv /\ JournalPairs /\ generation \in 1 .. MaxGen
        /\ trouble \in BOOLEAN
    BY DEF IInv, TypeOK, BoardTypes
  <1>1. /\ wrPc = "opened" /\ wrPc' = "append" /\ out
        /\ driveGen' = generation /\ gaps0' = gaps /\ lost0' = lost
        /\ UNCHANGED <<boardAndRx, driveVars, queueVars, chunk, dsUsable, acc, depth, ret, out, files,
                       trouble>>
    BY <1>0 DEF Opened, Goto, FileInv
  <1>2. Quiet
    BY <1>0, <1>1 DEF Quiet, Held
  <1>3. WrTypes'
    BY <1>0, <1>1, Consts DEF WrTypes, RxTypes
  <1>4. FileInv'
    <2>1. gaps' = gaps /\ lost' = lost /\ gaps \in Nat /\ lost \in Nat
      BY <1>0, <1>1 DEF RxTypes, boardAndRx
    <2> QED BY <1>0, <1>1, <2>1 DEF FileInv
  <1>5. JournalPairs' /\ SmoothInv' /\ ~Ending'
    BY <1>0, <1>1 DEF JournalPairs, SmoothInv, Turning, Ending, driveVars
  <1> QED BY <1>2, <1>3, <1>4, <1>5, QuietInv

\* write() failed: one close_file more on the stack, the same block.
LEMMA FlushFailedInv == IInv /\ FlushFailed => IInv'
  <1> SUFFICES ASSUME IInv, FlushFailed PROVE IInv'
    OBVIOUS
  <1>0. WrTypes /\ FileInv /\ JournalPairs /\ MaxDepth \in Nat
    BY Consts DEF IInv, TypeOK
  <1>1. /\ wrPc = "flush" /\ trouble' = TRUE
        /\ UNCHANGED <<boardAndRx, driveVars, queueVars, wrVars, acc, ret, out, files>>
        /\ \/ depth < MaxDepth /\ depth' = depth + 1 /\ wrPc' = "flush"
           \/ depth' = depth /\ wrPc' = "crashed"
    BY DEF FlushFailed, Goto
  <1>2. Quiet
    BY <1>1 DEF Quiet, Held, wrVars
  <1>3. depth' \in 0 .. MaxDepth /\ (depth' = 0 => depth = 0)
    BY <1>0, <1>1 DEF WrTypes
  <1>4. WrTypes'
    BY <1>0, <1>1, <1>3 DEF WrTypes, wrVars
  <1>5. FileInv' /\ JournalPairs'
    BY <1>0, <1>1, <1>3 DEF FileInv, JournalPairs, wrVars, boardAndRx
  <1>6. SmoothInv' /\ (Ending' => Ending)
    BY <1>1 DEF SmoothInv, Ending
  <1> QED BY <1>2, <1>4, <1>5, <1>6, QuietInv

\* close_file goes on: the last file is closed and has its line in the journal.
LEMMA UnwindInv == IInv /\ Unwind => IInv'
  <1> SUFFICES ASSUME IInv, Unwind PROVE IInv'
    OBVIOUS
  <1>0. /\ WrTypes /\ RxTypes /\ FileInv /\ JournalPairs /\ SmoothInv /\ trouble \in BOOLEAN
    BY DEF IInv, TypeOK, BoardTypes
  <1>1. /\ wrPc = "unwind" /\ wrPc' = ret /\ ret' = "take" /\ depth' = 0 /\ out /\ acc = <<>>
        /\ UNCHANGED <<boardAndRx, driveVars, queueVars, wrVars, acc, trouble>>
        /\ ret \in {"take", "start", "open", "end", "ended"}
        /\ files # <<>> /\ (depth = 0 => ret = "end")
    BY <1>0 DEF Unwind, Goto, FileInv, WrTypes
  <1>2. /\ Held' <=> Held
        /\ Ending' => Ending
    BY <1>1 DEF Held, Ending
  <1>3. SmoothInv'
    BY <1>0, <1>1 DEF SmoothInv, Turning, wrVars, driveVars
  <1>4. CASE UNCHANGED <<out, files>> /\ depth = 0
    <2>1. Quiet
      BY <1>0, <1>1, <1>2, <1>4 DEF Quiet, wrVars
    <2>2. WrTypes' /\ FileInv' /\ JournalPairs'
      BY <1>0, <1>1, <1>4, Consts DEF WrTypes, FileInv, JournalPairs, wrVars, boardAndRx
    <2> QED BY <1>2, <1>3, <2>1, <2>2, QuietInv
  <1>5. CASE out' = FALSE /\ depth # 0
    <2> DEFINE n == Len(files)
               g == [files[n] EXCEPT !.closed = TRUE, !.gaps = gaps - gaps0, !.lost = lost - lost0]
    <2>1. files' = [files EXCEPT ![n] = g]
      BY <1>5 DEF Unwind
    <2>2. files \in Seq(FileType) /\ n \in DOMAIN files /\ n \in Nat /\ DOMAIN files = 1 .. n
      BY <1>0, <1>1, FilesTyped DEF FileInv
    <2>3. gaps - gaps0 \in Nat /\ lost - lost0 \in Nat
      BY <1>0 DEF FileInv, WrTypes, RxTypes
    <2>4. g \in FileType /\ g.closed /\ g.ids = files[n].ids
      <3>1. files[n] \in FileType
        BY <2>2
      <3> HIDE DEF n
      <3> QED BY <2>3, <3>1 DEF FileType
    <2> HIDE DEF g
    <2>5. /\ files' \in Seq(FileType) /\ DOMAIN files' = DOMAIN files /\ Len(files') = n
          /\ \A k \in DOMAIN files : files'[k] = IF k = n THEN g ELSE files[k]
      BY <2>1, <2>2, <2>4
    <2>6. Quiet
      <3>1. \A k \in DOMAIN files : files'[k].ids = files[k].ids
        BY <2>4, <2>5
      <3> QED BY <1>0, <1>1, <1>2, <2>5, <3>1 DEF Quiet, wrVars
    <2>7. WrTypes'
      <3>1. depth' \in 0 .. MaxDepth
        BY <1>1, Consts
      <3>2. files' \in Seq([gen : 1 .. MaxGen, ids : Seq(1 .. MaxFrames), closed : BOOLEAN,
                            gaps : Nat, lost : Nat])
        BY <2>5 DEF FileType
      <3> QED BY <1>0, <1>1, <1>5, <3>1, <3>2 DEF WrTypes, wrVars
    <2>8. FileInv'
      BY <1>0, <1>1, <1>5 DEF FileInv, wrVars, boardAndRx
    <2>9. JournalPairs'
      BY <1>0, <1>5, <2>2, <2>4, <2>5 DEF JournalPairs
    <2> QED BY <1>2, <1>3, <2>6, <2>7, <2>8, <2>9, QuietInv
  <1> QED BY <1>4, <1>5 DEF Unwind


-----------------------------------------------------------------------------
(* wr_loop: the steps that move frames. *)

\* A chunk goes from the queue to the writer's hand.
LEMMA TakeInv == IInv /\ Take => IInv'
  <1> SUFFICES ASSUME IInv, Take PROVE IInv'
    OBVIOUS
  <1>0. /\ BoardTypes /\ RxTypes /\ WrTypes /\ Incoming /\ QueueSorted /\ HandSorted /\ BlockSorted
        /\ FilesSorted /\ FileInv /\ QueueAccounted /\ JournalPairs /\ SmoothInv /\ EarlyInv
    BY DEF IInv, OrderInv, TypeOK
  <1>1. /\ wrPc = "take" /\ wrPc' = "drive" /\ queue # <<>>
        /\ chunk' = Head(queue) /\ queue' = Tail(queue) /\ queueBytes' = queueBytes - Size(Head(queue))
        /\ UNCHANGED <<boardAndRx, driveVars, dsUsable, driveGen, gaps0, lost0, acc, depth, ret, out,
                       files, trouble>>
    BY DEF Take, Goto, TakenBytes
  <1>2. /\ UNCHANGED <<sent, socket, seqNo, boot, running, rxPc, haveSeq, lastSeq, rxChunk, gaps, lost,
                       dropped, lastId, lastBoot, missing, missingSame, early, usable, generation>>
        /\ ~Held /\ Held'
    BY <1>1 DEF boardAndRx, boardVars, rxVars, lossVars, driveVars, Held
  <1>3. /\ queue \in Seq(Chunks) /\ chunk' = queue[1] /\ chunk' \in Chunks /\ queue' \in Seq(Chunks)
        /\ 1 \in DOMAIN queue
        /\ \A k \in DOMAIN queue' : /\ k + 1 \in DOMAIN queue /\ k + 1 # 1 /\ 1 < k + 1
                                    /\ queue'[k] = queue[k + 1] /\ k \in Nat
        /\ \A j, k \in DOMAIN queue' : j < k => j + 1 < k + 1
        /\ \A k \in DOMAIN queue : k = 1 \/ (k - 1 \in DOMAIN queue' /\ queue'[k - 1] = queue[k])
    <2>1. queue \in Seq(Chunks)
      BY <1>0 DEF RxTypes
    <2> QED BY <1>1, <2>1, TailFacts
  <1>4. queueBytes' \in Nat /\ QueueAccounted'
    <2>1. queueBytes = Cardinality(DataAt(queue)) /\ queueBytes <= QueueMax
      BY <1>0 DEF QueueAccounted, DataAt
    <2>2. Cardinality(DataAt(queue)) = Cardinality(DataAt(queue')) + Size(Head(queue))
      BY <1>1, <1>3, DataTail
    <2>3. Cardinality(DataAt(queue')) \in Nat
      BY <1>3, DataFinite
    <2>4. Size(Head(queue)) \in {0, 1}
      BY DEF Size
    <2>5. queueBytes' = Cardinality(DataAt(queue')) /\ queueBytes' <= QueueMax
      BY <1>1, <2>1, <2>2, <2>3, <2>4, Consts
    <2> QED BY <2>3, <2>5 DEF QueueAccounted, DataAt
  <1>5. TypeOK'
    <2>1. BoardTypes' /\ RxTypes'
      BY <1>0, <1>1, <1>2, <1>3, <1>4 DEF BoardTypes, RxTypes
    <2>2. WrTypes'
      BY <1>0, <1>1, <1>3 DEF WrTypes
    <2> QED BY <2>1, <2>2 DEF TypeOK
  <1>6. OrderInv'
    <2>1. \A n : BeforeQueue(n) => BeforeQueue(n)' /\ n < chunk'.id
      BY <1>2, <1>3 DEF BeforeQueue
    <2>2. \A n : (BeforeHand(n) => BeforeHand(n)') /\ (BeforeBlock(n) => BeforeBlock(n)')
      BY <1>1, <2>1 DEF BeforeHand, BeforeBlock
    <2>3. Incoming'
      BY <1>0, <1>2 DEF Incoming
    <2>4. QueueSorted'
      <3>1. \A k \in DOMAIN queue' : /\ queue'[k].id \in 1 .. lastId'
                                     /\ rxPc' = "push" => queue'[k].id < rxChunk'.id
        BY <1>0, <1>2, <1>3 DEF QueueSorted
      <3>2. \A j, k \in DOMAIN queue' : j < k => queue'[j].id < queue'[k].id
        BY <1>0, <1>3 DEF QueueSorted
      <3> QED BY <3>1, <3>2 DEF QueueSorted
    <2>5. HandSorted'
      <3>1. chunk'.id \in 1 .. lastId /\ (rxPc = "push" => chunk'.id < rxChunk.id)
        BY <1>0, <1>3 DEF QueueSorted
      <3>2. \A k \in DOMAIN queue' : chunk'.id < queue'[k].id
        BY <1>0, <1>3 DEF QueueSorted
      <3>3. lastId \in Nat
        BY <1>0, Consts DEF RxTypes
      <3> QED BY <1>2, <3>1, <3>2, <3>3 DEF HandSorted, BeforeQueue
    <2>6. BlockSorted'
      BY <1>0, <1>1, <2>2 DEF BlockSorted, Ascending
    <2>7. FilesSorted'
      BY <1>0, <1>1, <2>2 DEF FilesSorted, FilesFirst, Ascending, Before
    <2> QED BY <2>3, <2>4, <2>5, <2>6, <2>7 DEF OrderInv
  <1>7. FileInv' /\ JournalPairs'
    BY <1>0, <1>1, <1>2 DEF FileInv, JournalPairs
  <1>8. SmoothInv'
    BY <1>0, <1>1, <1>2 DEF SmoothInv, Turning
  <1>9. EarlyInv'
    <2>1. ~Ending' /\ Handed = {}
      BY <1>1, <1>2 DEF Ending, Handed
    <2>2. Queued \subseteq Handed' \cup Queued'
      <3> SUFFICES ASSUME NEW k \in DOMAIN queue, queue[k].data
                   PROVE  queue[k].id \in Handed' \cup Queued'
        BY DEF Queued
      <3>1. CASE k = 1
        BY <1>2, <1>3, <3>1 DEF Handed
      <3>2. CASE k # 1
        <4>1. k - 1 \in DOMAIN queue' /\ queue'[k - 1] = queue[k]
          BY <1>3, <3>2
        <4> QED BY <4>1 DEF Queued
      <3> QED BY <3>1, <3>2
    <2>3. Written' = Written
      BY <1>1 DEF Written
    <2> QED BY <1>0, <1>1, <1>2, <2>1, <2>2, <2>3 DEF EarlyInv
  <1> QED BY <1>4, <1>5, <1>6, <1>7, <1>8, <1>9 DEF IInv

\* The data joins the block.
LEMMA GatherInv == IInv /\ Gather => IInv'
  <1> SUFFICES ASSUME IInv, Gather PROVE IInv'
    OBVIOUS
  <1>0. /\ BoardTypes /\ RxTypes /\ WrTypes /\ Incoming /\ QueueSorted /\ HandSorted /\ BlockSorted
        /\ FilesSorted /\ FileInv /\ QueueAccounted /\ JournalPairs /\ SmoothInv /\ EarlyInv
    BY DEF IInv, OrderInv, TypeOK
  <1>1. /\ wrPc = "append"
        /\ acc' = IF out /\ chunk.data THEN Append(acc, chunk.id) ELSE acc
        /\ UNCHANGED <<boardAndRx, driveVars, queueVars, driveGen, gaps0, lost0, out, files, trouble>>
    BY DEF Gather
  <1>2. /\ wrPc' \in {"take", "flush"}
        /\ wrPc' = "flush" => out /\ ret' \in {"end", "take"} /\ (depth' = 0 => ret' = "end")
        /\ depth' \in 0 .. MaxDepth /\ ret' \in {"take", "start", "open", "end", "ended"}
        /\ chunk' \in Chunks /\ dsUsable' \in BOOLEAN
    <2>1. /\ chunk \in Chunks /\ dsUsable \in BOOLEAN /\ out \in BOOLEAN /\ depth \in 0 .. MaxDepth
          /\ ret \in {"take", "start", "open", "end", "ended"} /\ NoChunk \in Chunks
          /\ 0 \in 0 .. MaxDepth /\ 1 \in 0 .. MaxDepth
      BY <1>0, Consts, BlackboxAssumption DEF WrTypes
    <2>2. CASE /\ out /\ chunk.data /\ Len(acc') >= Block
               /\ Goto("flush") /\ depth' = 0 /\ ret' = "end" /\ UNCHANGED <<chunk, dsUsable>>
      BY <2>1, <2>2 DEF Goto
    <2>3. CASE EndOfTurn
      <3>1. CallClose("take") \/ (wrPc' = "take" /\ UNCHANGED <<depth, ret>>)
        BY <2>3 DEF EndOfTurn, Goto
      <3>2. chunk' = NoChunk /\ dsUsable' = FALSE
        BY <2>3 DEF EndOfTurn
      <3>3. \/ out /\ wrPc' = "flush" /\ depth' = 1 /\ ret' = "take"
            \/ wrPc' = "take" /\ UNCHANGED <<depth, ret>>
        BY <2>1, <3>1, CallFacts
      <3>4. /\ wrPc' = "flush" => out /\ depth' # 0 /\ ret' = "take"
            /\ wrPc' \in {"take", "flush"}
        BY <3>3
      <3>5. depth' \in 0 .. MaxDepth /\ ret' \in {"take", "start", "open", "end", "ended"}
        BY <2>1, <3>3
      <3>6. chunk' \in Chunks /\ dsUsable' \in BOOLEAN
        BY <2>1, <3>2
      <3> QED BY <3>4, <3>5, <3>6
    <2>4. \/ /\ out /\ chunk.data /\ Len(acc') >= Block
             /\ Goto("flush") /\ depth' = 0 /\ ret' = "end" /\ UNCHANGED <<chunk, dsUsable>>
          \/ EndOfTurn
      BY DEF Gather
    <2> QED BY <2>2, <2>3, <2>4
  <1>3. /\ UNCHANGED <<sent, socket, seqNo, boot, running, rxPc, haveSeq, lastSeq, rxChunk, gaps, lost,
                       dropped, lastId, lastBoot, missing, missingSame, early, usable, generation,
                       queue, queueBytes>>
        /\ Held /\ ~Held'
    BY <1>1, <1>2 DEF boardAndRx, boardVars, rxVars, lossVars, driveVars, queueVars, Held
  <1>4. chunk.id \in 1 .. MaxFrames /\ BeforeQueue(chunk.id) /\ acc \in Seq(1 .. MaxFrames)
    <2>1. chunk.id > 0 /\ BeforeQueue(chunk.id)
      BY <1>0, <1>3 DEF HandSorted
    <2>2. chunk.id \in 0 .. MaxFrames
      BY <1>0 DEF WrTypes, Chunks
    <2> QED BY <1>0, <2>1, <2>2, Consts DEF WrTypes
  <1>5. /\ DOMAIN acc = 1 .. Len(acc) /\ Len(acc) \in Nat
        /\ DOMAIN acc \subseteq DOMAIN acc'
        /\ \A k \in DOMAIN acc : acc'[k] = acc[k]
        /\ \A k \in DOMAIN acc' : k \in DOMAIN acc \/ (k = Len(acc) + 1 /\ acc'[k] = chunk.id)
        /\ out /\ chunk.data => Len(acc) + 1 \in DOMAIN acc' /\ acc'[Len(acc) + 1] = chunk.id
        /\ ~out => acc' = acc
        /\ acc' \in Seq(1 .. MaxFrames)
    <2>1. CASE out /\ chunk.data
      BY <1>1, <1>4, <2>1, AppendFacts
    <2>2. CASE ~(out /\ chunk.data)
      BY <1>1, <1>4, <2>2
    <2> QED BY <2>1, <2>2
  <1>6. TypeOK'
    <2>1. BoardTypes' /\ RxTypes'
      BY <1>0, <1>1, <1>3 DEF BoardTypes, RxTypes
    <2>2. WrTypes'
      BY <1>0, <1>1, <1>2, <1>5 DEF WrTypes
    <2> QED BY <2>1, <2>2 DEF TypeOK
  <1>7. OrderInv'
    <2>1. \A n : BeforeQueue(n) <=> BeforeQueue(n)'
      BY <1>3 DEF BeforeQueue
    <2>2. \A n : BeforeHand(n) => BeforeHand(n)' /\ n < chunk.id
      BY <1>3, <2>1 DEF BeforeHand
    <2>3. \A n : BeforeBlock(n) => BeforeBlock(n)'
      BY <1>5, <2>2 DEF BeforeBlock
    <2>4. Incoming' /\ QueueSorted' /\ HandSorted'
      BY <1>0, <1>3 DEF Incoming, QueueSorted, HandSorted
    <2>5. BlockSorted'
      <3>1. \A k \in DOMAIN acc' : BeforeQueue(acc'[k])
        BY <1>0, <1>4, <1>5 DEF BlockSorted, BeforeHand
      <3>2. \A j, k \in DOMAIN acc' : j < k => acc'[j] < acc'[k]
        <4> SUFFICES ASSUME NEW j \in DOMAIN acc', NEW k \in DOMAIN acc', j < k
                     PROVE  acc'[j] < acc'[k]
          OBVIOUS
        <4>1. DOMAIN acc' = 1 .. Len(acc')
          BY <1>5
        <4>2. j \in DOMAIN acc
          BY <1>5, <4>1
        <4>3. CASE k \in DOMAIN acc
          BY <1>0, <1>5, <4>2, <4>3 DEF BlockSorted, Ascending
        <4>4. CASE k = Len(acc) + 1 /\ acc'[k] = chunk.id
          BY <1>0, <1>5, <2>2, <4>2, <4>4 DEF BlockSorted
        <4> QED BY <1>5, <4>3, <4>4
      <3> QED BY <1>3, <3>1, <3>2 DEF BlockSorted, Ascending, BeforeHand, BeforeQueue
    <2>6. FilesSorted'
      BY <1>0, <1>1, <2>3 DEF FilesSorted, FilesFirst, Ascending, Before
    <2> QED BY <2>4, <2>5, <2>6 DEF OrderInv
  <1>8. FileInv' /\ JournalPairs' /\ QueueAccounted'
    BY <1>0, <1>1, <1>2, <1>3, <1>5 DEF FileInv, JournalPairs, QueueAccounted
  <1>9. SmoothInv'
    BY <1>0, <1>1, <1>2, <1>3 DEF SmoothInv, Turning
  <1>10. EarlyInv'
    <2>1. ~Ending' /\ Handed' = {} /\ Queued' = Queued /\ Written' = Written
      BY <1>1, <1>2, <1>3 DEF Ending, Handed, Queued, Written
    <2>2. ~trouble => ToSet(acc) \cup Handed \subseteq ToSet(acc')
      <3>1. ~trouble /\ chunk.data => out
        BY <1>0, <1>1 DEF SmoothInv
      <3> QED BY <1>5, <3>1 DEF ToSet, Handed
    <2> QED BY <1>0, <1>1, <1>3, <2>1, <2>2 DEF EarlyInv
  <1> QED BY <1>6, <1>7, <1>8, <1>9, <1>10 DEF IInv

\* A file that the beginning of the block is added to.
Joined(new, old, blk, n) ==
    /\ DOMAIN old = 1 .. Len(old) /\ Len(old) \in Nat
    /\ DOMAIN new = 1 .. Len(old) + n
    /\ \A j \in DOMAIN old : new[j] = old[j]
    /\ \A j \in 1 .. n : /\ j \in DOMAIN blk /\ Len(old) + j \in DOMAIN new
                         /\ new[Len(old) + j] = blk[j]
    /\ \A j \in DOMAIN new : \/ j \in DOMAIN old
                             \/ j - Len(old) \in 1 .. n /\ new[j] = blk[j - Len(old)]

LEMMA JoinFacts ==
  ASSUME NEW S, NEW old \in Seq(S), NEW blk \in Seq(S), NEW n \in 0 .. Len(blk),
         NEW new, new = old \o SubSeq(blk, 1, n)
  PROVE  new \in Seq(S) /\ Joined(new, old, blk, n)
  <1> DEFINE t == SubSeq(blk, 1, n)
  <1>1. Len(blk) \in Nat /\ n \in Nat /\ DOMAIN blk = 1 .. Len(blk)
    OBVIOUS
  <1>2. t \in Seq(S) /\ Len(t) = n /\ \A j \in 1 .. n : t[j] = blk[j]
    <2>1. \A i \in 1 .. n : blk[i] \in S
      BY <1>1
    <2>2. t = [i \in 1 .. n |-> blk[i]]
      BY <1>1
    <2> QED BY <1>1, <2>1, <2>2
  <1>t. new = old \o t
    OBVIOUS
  <1> HIDE DEF t
  <1>3. /\ new \in Seq(S) /\ Len(new) = Len(old) + n /\ Len(old) \in Nat
        /\ \A i \in 1 .. Len(old) + n : new[i] = IF i <= Len(old) THEN old[i] ELSE t[i - Len(old)]
    BY <1>t, <1>1, <1>2
  <1>4. DOMAIN new = 1 .. Len(old) + n /\ DOMAIN old = 1 .. Len(old)
    BY <1>3
  <1>5. \A j \in DOMAIN old : new[j] = old[j]
    BY <1>1, <1>3, <1>4
  <1>6. \A j \in 1 .. n : /\ j \in DOMAIN blk /\ Len(old) + j \in DOMAIN new
                         /\ new[Len(old) + j] = blk[j]
    <2> SUFFICES ASSUME NEW j \in 1 .. n
                 PROVE  j \in DOMAIN blk /\ Len(old) + j \in DOMAIN new /\ new[Len(old) + j] = blk[j]
      OBVIOUS
    <2>1. j \in DOMAIN blk /\ Len(old) + j \in 1 .. Len(old) + n /\ ~(Len(old) + j <= Len(old))
          /\ Len(old) + j - Len(old) = j
      BY <1>1, <1>3
    <2> QED BY <1>2, <1>3, <1>4, <2>1
  <1>7. \A j \in DOMAIN new : j \in DOMAIN old \/ (j - Len(old) \in 1 .. n /\ new[j] = blk[j - Len(old)])
    <2> SUFFICES ASSUME NEW j \in DOMAIN new, j \notin DOMAIN old
                 PROVE  j - Len(old) \in 1 .. n /\ new[j] = blk[j - Len(old)]
      OBVIOUS
    <2>1. j - Len(old) \in 1 .. n /\ Len(old) + (j - Len(old)) = j
      BY <1>1, <1>3, <1>4
    <2> QED BY <1>6, <2>1
  <1> QED BY <1>3, <1>4, <1>5, <1>6, <1>7 DEF Joined

\* write() takes the block, or the beginning of it; the block is emptied.
LEMMA FlushOkInv == IInv /\ FlushOk => IInv'
  <1> SUFFICES ASSUME IInv, FlushOk PROVE IInv'
    OBVIOUS
  <1> DEFINE L == Len(files)
  <1>0. /\ BoardTypes /\ RxTypes /\ WrTypes /\ Incoming /\ QueueSorted /\ HandSorted /\ BlockSorted
        /\ FilesSorted /\ FileInv /\ QueueAccounted /\ JournalPairs /\ SmoothInv /\ EarlyInv
    BY DEF IInv, OrderInv, TypeOK
  <1>1. PICK n \in (IF acc = <<>> THEN {0} ELSE 1 .. Len(acc)) :
           /\ files' = [files EXCEPT ![L].ids = @ \o SubSeq(acc, 1, n)]
           /\ trouble' = (trouble \/ n < Len(acc))
    BY DEF FlushOk
  <1>2. /\ wrPc = "flush" /\ wrPc' = "unwind" /\ acc' = <<>> /\ out
        /\ UNCHANGED <<boardAndRx, driveVars, queueVars, wrVars, depth, ret, out>>
    BY <1>0 DEF FlushOk, Goto, AfterWrite, FileInv
  <1>3. /\ UNCHANGED <<sent, socket, seqNo, boot, running, rxPc, haveSeq, lastSeq, rxChunk, gaps, lost,
                       dropped, lastId, lastBoot, missing, missingSame, early, usable, generation,
                       queue, queueBytes, chunk, dsUsable, driveGen, gaps0, lost0>>
        /\ Held' <=> Held
    BY <1>2 DEF boardAndRx, boardVars, rxVars, lossVars, driveVars, queueVars, wrVars, Held
  <1> DEFINE old == files[L].ids
             new == old \o SubSeq(acc, 1, n)
  <1>4. /\ files \in Seq(FileType) /\ L \in DOMAIN files /\ L \in Nat /\ DOMAIN files = 1 .. L
        /\ files[L] \in FileType /\ old \in Seq(1 .. MaxFrames) /\ acc \in Seq(1 .. MaxFrames)
    <2>1. files \in Seq(FileType) /\ files # <<>>
      BY <1>0, <1>2, FilesTyped DEF FileInv
    <2>2. L \in DOMAIN files /\ L \in Nat /\ DOMAIN files = 1 .. L
      BY <2>1
    <2>3. acc \in Seq(1 .. MaxFrames)
      BY <1>0 DEF WrTypes
    <2> QED BY <1>0, <2>1, <2>2, <2>3, FilesTyped
  <1>5. n \in 0 .. Len(acc) /\ Len(acc) \in Nat /\ DOMAIN acc = 1 .. Len(acc)
    BY <1>4
  <1>6. /\ new \in Seq(1 .. MaxFrames) /\ DOMAIN old = 1 .. Len(old) /\ Len(old) \in Nat
        /\ DOMAIN new = 1 .. Len(old) + n
        /\ \A j \in DOMAIN old : new[j] = old[j]
        /\ \A j \in 1 .. n : /\ j \in DOMAIN acc /\ Len(old) + j \in DOMAIN new
                             /\ new[Len(old) + j] = acc[j]
        /\ \A j \in DOMAIN new : \/ j \in DOMAIN old
                                 \/ j - Len(old) \in 1 .. n /\ new[j] = acc[j - Len(old)]
    <2>1. old \in Seq(1 .. MaxFrames) /\ acc \in Seq(1 .. MaxFrames) /\ n \in 0 .. Len(acc)
      BY <1>4, <1>5
    <2>2. new = old \o SubSeq(acc, 1, n)
      OBVIOUS
    <2> HIDE DEF old, new
    <2>3. new \in Seq(1 .. MaxFrames) /\ Joined(new, old, acc, n)
      BY <2>1, <2>2, JoinFacts
    <2> QED BY <2>3 DEF Joined
  <1>7. /\ DOMAIN files' = DOMAIN files /\ files' \in Seq(FileType) /\ Len(files') = L
        /\ \A k \in DOMAIN files : k # L => files'[k] = files[k]
        /\ files'[L].ids = new
        /\ \A k \in DOMAIN files : files'[k].closed = files[k].closed
    <2>1. [files[L] EXCEPT !.ids = new] \in FileType
      BY <1>4, <1>6 DEF FileType
    <2>2. files' = [files EXCEPT ![L] = [files[L] EXCEPT !.ids = new]]
      BY <1>1, <1>4
    <2>3. /\ [files[L] EXCEPT !.ids = new].ids = new
          /\ [files[L] EXCEPT !.ids = new].closed = files[L].closed
      BY <1>4 DEF FileType
    <2> QED BY <1>4, <2>1, <2>2, <2>3
  <1> HIDE DEF new
  <1>8. TypeOK'
    <2>1. trouble' \in BOOLEAN
      BY <1>0, <1>1 DEF BoardTypes
    <2>2. BoardTypes' /\ RxTypes'
      BY <1>0, <1>3, <2>1 DEF BoardTypes, RxTypes
    <2>3. files' \in Seq([gen : 1 .. MaxGen, ids : Seq(1 .. MaxFrames), closed : BOOLEAN,
                          gaps : Nat, lost : Nat])
      BY <1>7 DEF FileType
    <2>4. acc' \in Seq(1 .. MaxFrames)
      BY <1>2
    <2>5. WrTypes'
      BY <1>0, <1>2, <1>3, <2>3, <2>4 DEF WrTypes
    <2> QED BY <2>2, <2>5 DEF TypeOK
  <1>9. OrderInv'
    <2>1. Incoming' /\ QueueSorted' /\ HandSorted'
      BY <1>0, <1>3 DEF Incoming, QueueSorted, HandSorted, BeforeQueue
    <2>2. BlockSorted'
      BY <1>2 DEF BlockSorted, Ascending
    <2>3. \A m : (BeforeBlock(m) \/ BeforeHand(m)) => BeforeBlock(m)'
      BY <1>2, <1>3 DEF BeforeBlock, BeforeHand, BeforeQueue
    <2>4. \A k \in DOMAIN files : \A j \in DOMAIN files[k].ids : BeforeBlock(files[k].ids[j])
      BY <1>0 DEF FilesSorted, FilesFirst
    <2>5. \A j \in DOMAIN acc : BeforeHand(acc[j])
      BY <1>0 DEF BlockSorted
    <2>6. \A j \in DOMAIN new : BeforeBlock(new[j]) \/ BeforeHand(new[j])
      BY <1>4, <1>5, <1>6, <2>4, <2>5
    <2>7. \A k \in DOMAIN files' : \A j \in DOMAIN files'[k].ids :
             BeforeBlock(files'[k].ids[j]) \/ BeforeHand(files'[k].ids[j])
      BY <1>4, <1>7, <2>4, <2>6
    <2>8. FilesFirst'
      BY <1>2, <1>3, <2>7 DEF FilesFirst, BeforeBlock, BeforeHand, BeforeQueue
    <2>9. \A j \in DOMAIN acc : \A k \in DOMAIN files : \A i \in DOMAIN files[k].ids :
             files[k].ids[i] < acc[j]
      BY <2>4 DEF BeforeBlock
    <2>10. Ascending(new)
      <3> SUFFICES ASSUME NEW i \in DOMAIN new, NEW j \in DOMAIN new, i < j PROVE new[i] < new[j]
        BY DEF Ascending
      <3>1. CASE j \in DOMAIN old
        <4>1. i \in DOMAIN old
          BY <1>6, <3>1
        <4>2. old[i] < old[j]
          BY <1>0, <1>4, <3>1, <4>1 DEF FilesSorted, Ascending
        <4> QED BY <1>6, <3>1, <4>1, <4>2
      <3>2. CASE j - Len(old) \in 1 .. n /\ new[j] = acc[j - Len(old)]
        <4>1. j - Len(old) \in DOMAIN acc
          BY <1>5, <3>2
        <4>2. CASE i \in DOMAIN old
          BY <1>4, <1>6, <2>9, <3>2, <4>1, <4>2
        <4>3. CASE i - Len(old) \in 1 .. n /\ new[i] = acc[i - Len(old)]
          <5>1. i - Len(old) \in DOMAIN acc /\ i - Len(old) < j - Len(old)
            BY <1>5, <1>6, <4>3
          <5> QED BY <1>0, <3>2, <4>1, <4>3, <5>1 DEF BlockSorted, Ascending
        <4> QED BY <1>6, <4>2, <4>3
      <3> QED BY <1>6, <3>1, <3>2
    <2>11. \A k \in DOMAIN files : k < L => Before(files[k].ids, new)
      <3> SUFFICES ASSUME NEW k \in DOMAIN files, k < L, NEW i \in DOMAIN files[k].ids,
                          NEW j \in DOMAIN new
                   PROVE  files[k].ids[i] < new[j]
        BY DEF Before
      <3>1. CASE j \in DOMAIN old
        BY <1>0, <1>4, <1>6, <3>1 DEF FilesSorted, Before
      <3>2. CASE j - Len(old) \in 1 .. n /\ new[j] = acc[j - Len(old)]
        <4>1. j - Len(old) \in DOMAIN acc
          BY <1>5, <3>2
        <4> QED BY <2>9, <3>2, <4>1
      <3> QED BY <1>6, <3>1, <3>2
    <2>12. \A k \in DOMAIN files' : Ascending(files'[k].ids)
      BY <1>0, <1>7, <2>10 DEF FilesSorted
    <2>13. \A k, m \in DOMAIN files' : k < m => Before(files'[k].ids, files'[m].ids)
      <3> SUFFICES ASSUME NEW k \in DOMAIN files, NEW m \in DOMAIN files, k < m
                   PROVE  Before(files'[k].ids, files'[m].ids)
        BY <1>7
      <3>1. k # L /\ k < L
        BY <1>4
      <3>2. files'[k] = files[k]
        BY <1>7, <3>1
      <3>3. CASE m = L
        BY <1>7, <2>11, <3>1, <3>2, <3>3
      <3>4. CASE m # L
        BY <1>0, <1>7, <3>2, <3>4 DEF FilesSorted
      <3> QED BY <3>3, <3>4
    <2>14. FilesSorted'
      BY <2>8, <2>12, <2>13 DEF FilesSorted, Ascending, Before
    <2> QED BY <2>1, <2>2, <2>14 DEF OrderInv
  <1>10. FileInv' /\ JournalPairs' /\ QueueAccounted'
    <2>1. files' # <<>>
      BY <1>4, <1>7
    <2> QED BY <1>0, <1>2, <1>3, <1>4, <1>7, <2>1 DEF FileInv, JournalPairs, QueueAccounted
  <1>11. SmoothInv'
    BY <1>0, <1>1, <1>2, <1>3 DEF SmoothInv, Turning
  <1>12. EarlyInv'
    <2>1. (Ending' <=> Ending) /\ Handed' = Handed /\ Queued' = Queued
      BY <1>2, <1>3 DEF Ending, Handed, Queued
    <2>2. \A m : m \in Written' <=> \E k \in DOMAIN files' : \E j \in DOMAIN files'[k].ids : files'[k].ids[j] = m
      BY DEF Written, ToSet
    <2>3. Written \subseteq Written'
      <3> SUFFICES ASSUME NEW k \in DOMAIN files, NEW j \in DOMAIN files[k].ids
                   PROVE  files[k].ids[j] \in Written'
        BY WrittenMember
      <3>1. k \in DOMAIN files' /\ j \in DOMAIN files'[k].ids /\ files'[k].ids[j] = files[k].ids[j]
        <4>1. CASE k = L
          <5>1. j \in DOMAIN old /\ files[k].ids[j] = old[j]
            BY <4>1
          <5>2. j \in DOMAIN new /\ new[j] = old[j]
            BY <1>5, <1>6, <5>1
          <5>3. files'[k].ids = new
            BY <1>7, <4>1
          <5> QED BY <1>7, <5>1, <5>2, <5>3
        <4>2. CASE k # L
          BY <1>7, <4>2
        <4> QED BY <4>1, <4>2
      <3> QED BY <2>2, <3>1
    <2>4. n = Len(acc) => ToSet(acc) \subseteq Written'
      <3> SUFFICES ASSUME n = Len(acc), NEW j \in DOMAIN acc PROVE acc[j] \in Written'
        BY DEF ToSet
      <3>1. Len(old) + j \in DOMAIN new /\ new[Len(old) + j] = acc[j]
        BY <1>5, <1>6
      <3> QED BY <1>4, <1>7, <2>2, <3>1
    <2>5. ~trouble' => ~trouble /\ n = Len(acc)
      <3>1. trouble' = (trouble \/ n < Len(acc)) /\ trouble \in BOOLEAN
        BY <1>0, <1>1 DEF BoardTypes
      <3>2. \A a \in Nat : \A b \in 0 .. a : ~(b < a) => b = a
        OBVIOUS
      <3>3. ~(n < Len(acc)) => n = Len(acc)
        BY <1>5, <3>2, Zenon
      <3> QED BY <3>1, <3>3
    <2>6. ~trouble' => Written \cup ToSet(acc) \subseteq Written'
      BY <2>3, <2>4, <2>5
    <2> HIDE DEF L
    <2> QED BY <1>0, <1>3, <2>1, <2>5, <2>6 DEF EarlyInv
  <1> QED BY <1>8, <1>9, <1>10, <1>11, <1>12 DEF IInv

-----------------------------------------------------------------------------
(* What follows. *)

LEMMA StepInv == IInv /\ [Next]_vars => IInv'
  <1> SUFFICES ASSUME IInv, [Next]_vars PROVE IInv'
    OBVIOUS
  <1>1. CASE World \/ Stop
    BY <1>1, WorldInv
  <1>2. CASE RxLoop
    BY <1>2, RxLoopInv
  <1>3. CASE WrLoop
    BY <1>3, CallStepsInv, OpenInv, OpenedInv, UnwindInv, TakeInv, GatherInv, FlushOkInv DEF WrLoop
  <1>4. CASE FlushFailed
    BY <1>4, FlushFailedInv
  <1>5. CASE UNCHANGED vars
    <2>1. Quiet
      BY <1>5 DEF vars, Quiet, boardAndRx, boardVars, driveVars, rxVars, lossVars, queueVars, wrVars, Held,
                  IInv, TypeOK, BoardTypes
    <2>2. WrTypes' /\ FileInv' /\ JournalPairs' /\ SmoothInv' /\ (Ending' => Ending)
      BY <1>5 DEF vars, boardVars, driveVars, rxVars, lossVars, queueVars, wrVars, IInv, TypeOK, WrTypes,
                  FileInv, JournalPairs, SmoothInv, Turning, Ending
    <2> QED BY <2>1, <2>2, QuietInv
  <1> QED BY <1>1, <1>2, <1>3, <1>4, <1>5 DEF Next

LEMMA AlwaysInv == Spec => []IInv
  BY InitInv, StepInv, PTL DEF Spec

\* Two stations in order, one before the other, are in order together.
LEMMA OneBehindTheOther ==
  ASSUME NEW s \in Seq(Nat), NEW t \in Seq(Nat), Ascending(s), Ascending(t), Before(s, t)
  PROVE  /\ s \o t \in Seq(Nat) /\ Ascending(s \o t)
         /\ \A u \in Seq(Nat) : Before(s, u) /\ Before(t, u) => Before(s \o t, u)
         /\ \A u \in Seq(Nat) : Before(u, s) /\ Before(u, t) => Before(u, s \o t)
  <1> DEFINE w == s \o t
  <1>1. /\ w \in Seq(Nat) /\ Len(s) \in Nat /\ DOMAIN s = 1 .. Len(s) /\ DOMAIN t = 1 .. Len(t)
        /\ Len(t) \in Nat /\ DOMAIN w = 1 .. Len(s) + Len(t)
        /\ \A i \in 1 .. Len(s) + Len(t) : w[i] = IF i <= Len(s) THEN s[i] ELSE t[i - Len(s)]
    OBVIOUS
  <1> HIDE DEF w
  <1>2. \A i \in DOMAIN w : \/ i \in DOMAIN s /\ w[i] = s[i]
                            \/ ~(i <= Len(s)) /\ i - Len(s) \in DOMAIN t /\ w[i] = t[i - Len(s)]
    BY <1>1
  <1>3. Ascending(w)
    <2> SUFFICES ASSUME NEW i \in DOMAIN w, NEW j \in DOMAIN w, i < j PROVE w[i] < w[j]
      BY DEF Ascending
    <2>1. CASE j \in DOMAIN s /\ w[j] = s[j]
      <3>1. i \in DOMAIN s /\ w[i] = s[i]
        BY <1>1, <2>1
      <3> QED BY <2>1, <3>1 DEF Ascending
    <2>2. CASE ~(j <= Len(s)) /\ j - Len(s) \in DOMAIN t /\ w[j] = t[j - Len(s)]
      <3>1. CASE i \in DOMAIN s /\ w[i] = s[i]
        BY <2>2, <3>1 DEF Before
      <3>2. CASE ~(i <= Len(s)) /\ i - Len(s) \in DOMAIN t /\ w[i] = t[i - Len(s)]
        <4>1. i - Len(s) < j - Len(s)
          BY <1>1
        <4> QED BY <2>2, <3>2, <4>1 DEF Ascending
      <3> QED BY <1>2, <3>1, <3>2
    <2> QED BY <1>2, <2>1, <2>2
  <1>4. \A u \in Seq(Nat) : Before(s, u) /\ Before(t, u) => Before(w, u)
    BY <1>2 DEF Before
  <1>5. \A u \in Seq(Nat) : Before(u, s) /\ Before(u, t) => Before(u, w)
    BY <1>2 DEF Before
  <1> QED BY <1>1, <1>3, <1>4, <1>5 DEF w

\* The four stations of the way, each in order, each before those behind it,
\* and every file before them all.
LEMMA Stationed ==
  ASSUME IInv
  PROVE  /\ acc \in Seq(Nat) /\ InHand \in Seq(Nat) /\ Ids(queue) \in Seq(Nat) /\ AtReceiver \in Seq(Nat)
         /\ Ascending(acc) /\ Ascending(InHand) /\ Ascending(Ids(queue)) /\ Ascending(AtReceiver)
         /\ Before(acc, InHand) /\ Before(acc, Ids(queue)) /\ Before(acc, AtReceiver)
         /\ Before(InHand, Ids(queue)) /\ Before(InHand, AtReceiver)
         /\ Before(Ids(queue), AtReceiver)
         /\ \A k \in DOMAIN files :
               /\ files[k].ids \in Seq(Nat)
               /\ Before(files[k].ids, acc) /\ Before(files[k].ids, InHand)
               /\ Before(files[k].ids, Ids(queue)) /\ Before(files[k].ids, AtReceiver)
  <1>0. RxTypes /\ WrTypes /\ QueueSorted /\ HandSorted /\ BlockSorted /\ FilesFirst
    BY DEF IInv, OrderInv, TypeOK, FilesSorted
  <1>1. /\ queue \in Seq(Chunks) /\ chunk.id \in Nat /\ rxChunk.id \in Nat /\ acc \in Seq(Nat)
    <2>1. \A c \in Chunks : c.id \in Nat
      BY Consts DEF Chunks
    <2>2. acc \in Seq(1 .. MaxFrames)
      BY <1>0 DEF WrTypes
    <2>3. acc \in Seq(Nat)
      BY <2>2, Consts
    <2> QED BY <1>0, <2>1, <2>3 DEF RxTypes, WrTypes
  <1>2. /\ Ids(queue) \in Seq(Nat) /\ DOMAIN Ids(queue) = DOMAIN queue
        /\ \A k \in DOMAIN queue : Ids(queue)[k] = queue[k].id
    <2>1. \A k \in DOMAIN queue : queue[k].id \in Nat
      <3>1. \A k \in DOMAIN queue : queue[k] \in Chunks
        BY <1>1
      <3>2. \A c \in Chunks : c.id \in Nat
        BY Consts DEF Chunks
      <3> QED BY <3>1, <3>2
    <2> QED BY <1>1, <2>1 DEF Ids
  <1>3. /\ InHand \in Seq(Nat) /\ \A k \in DOMAIN InHand : k = 1 /\ Held /\ InHand[k] = chunk.id
        /\ Ascending(InHand)
    BY <1>1 DEF InHand, Ascending
  <1>4. /\ AtReceiver \in Seq(Nat)
        /\ \A k \in DOMAIN AtReceiver : k = 1 /\ rxPc = "push" /\ AtReceiver[k] = rxChunk.id
        /\ Ascending(AtReceiver)
    BY <1>1 DEF AtReceiver, Ascending
  <1>5. \A s \in Seq(Nat) : (\A j \in DOMAIN s : BeforeQueue(s[j])) =>
                               Before(s, Ids(queue)) /\ Before(s, AtReceiver)
    BY <1>2, <1>4 DEF Before, BeforeQueue
  <1>6. \A s \in Seq(Nat) : (\A j \in DOMAIN s : BeforeHand(s[j])) =>
                               Before(s, InHand) /\ Before(s, Ids(queue)) /\ Before(s, AtReceiver)
    BY <1>3, <1>5 DEF Before, BeforeHand
  <1>7. Ascending(acc) /\ Before(acc, InHand) /\ Before(acc, Ids(queue)) /\ Before(acc, AtReceiver)
    BY <1>0, <1>1, <1>6 DEF BlockSorted
  <1>8. Before(InHand, Ids(queue)) /\ Before(InHand, AtReceiver)
    BY <1>0, <1>3, <1>5 DEF HandSorted
  <1>9. Ascending(Ids(queue)) /\ Before(Ids(queue), AtReceiver)
    BY <1>0, <1>2, <1>4 DEF QueueSorted, Ascending, Before
  <1>10. \A k \in DOMAIN files :
            /\ files[k].ids \in Seq(Nat)
            /\ Before(files[k].ids, acc) /\ Before(files[k].ids, InHand)
            /\ Before(files[k].ids, Ids(queue)) /\ Before(files[k].ids, AtReceiver)
    <2> SUFFICES ASSUME NEW k \in DOMAIN files
                 PROVE  /\ files[k].ids \in Seq(Nat)
                        /\ Before(files[k].ids, acc) /\ Before(files[k].ids, InHand)
                        /\ Before(files[k].ids, Ids(queue)) /\ Before(files[k].ids, AtReceiver)
      OBVIOUS
    <2>1. files[k].ids \in Seq(1 .. MaxFrames)
      BY <1>0, FilesTyped
    <2>2. files[k].ids \in Seq(Nat)
      BY <2>1, Consts
    <2>3. \A j \in DOMAIN files[k].ids : BeforeBlock(files[k].ids[j])
      BY <1>0 DEF FilesFirst
    <2>4. Before(files[k].ids, acc)
      BY <2>3 DEF BeforeBlock, Before
    <2>5. \A j \in DOMAIN files[k].ids : BeforeHand(files[k].ids[j])
      BY <2>3 DEF BeforeBlock
    <2> QED BY <1>6, <2>2, <2>4, <2>5
  <1> QED BY <1>1, <1>2, <1>3, <1>4, <1>7, <1>8, <1>9, <1>10

LEMMA OrderFollows == IInv => InOrder
  <1> SUFFICES ASSUME IInv PROVE InOrder
    OBVIOUS
  <1> DEFINE q == Ids(queue)
             a == acc \o InHand
             b == a \o q
             c == b \o AtReceiver
  <1>0. /\ acc \in Seq(Nat) /\ InHand \in Seq(Nat) /\ q \in Seq(Nat) /\ AtReceiver \in Seq(Nat)
        /\ Ascending(acc) /\ Ascending(InHand) /\ Ascending(q) /\ Ascending(AtReceiver)
        /\ Before(acc, InHand) /\ Before(acc, q) /\ Before(acc, AtReceiver)
        /\ Before(InHand, q) /\ Before(InHand, AtReceiver) /\ Before(q, AtReceiver)
    BY Stationed
  <1>1. \A k \in DOMAIN files :
           /\ files[k].ids \in Seq(Nat)
           /\ Before(files[k].ids, acc) /\ Before(files[k].ids, InHand)
           /\ Before(files[k].ids, q) /\ Before(files[k].ids, AtReceiver)
    BY Stationed
  <1>w. OnTheWay = c
    BY DEF OnTheWay
  <1> HIDE DEF q
  <1>2. /\ a \in Seq(Nat) /\ Ascending(a) /\ Before(a, q) /\ Before(a, AtReceiver)
        /\ \A k \in DOMAIN files : Before(files[k].ids, a)
    BY <1>0, <1>1, OneBehindTheOther
  <1> HIDE DEF a
  <1>3. /\ b \in Seq(Nat) /\ Ascending(b) /\ Before(b, AtReceiver)
        /\ \A k \in DOMAIN files : Before(files[k].ids, b)
    BY <1>0, <1>1, <1>2, OneBehindTheOther
  <1> HIDE DEF b
  <1>4. Ascending(c) /\ \A k \in DOMAIN files : Before(files[k].ids, c)
    BY <1>0, <1>1, <1>3, OneBehindTheOther
  <1>5. /\ \A k \in DOMAIN files : Ascending(files[k].ids)
        /\ \A k, m \in DOMAIN files : k < m => Before(files[k].ids, files[m].ids)
    BY DEF IInv, OrderInv, FilesSorted
  <1> HIDE DEF c
  <1> QED BY <1>w, <1>4, <1>5 DEF InOrder

LEMMA SafetyFollows == IInv => Safety
  <1> SUFFICES ASSUME IInv PROVE Safety
    OBVIOUS
  <1>1. TypeOK /\ QueueAccounted /\ JournalPairs /\ FileInv /\ EarlyInv /\ out \in BOOLEAN
    BY DEF IInv, TypeOK, WrTypes
  <1>2. DrainedAtStop
    <2> SUFFICES ASSUME wrPc = "ended", ~trouble PROVE early \subseteq Written
      BY DEF DrainedAtStop
    <2>1. acc = <<>>
      BY <1>1 DEF FileInv
    <2>2. ToSet(acc) = {}
      BY <2>1 DEF ToSet
    <2> QED BY <1>1, <2>2 DEF EarlyInv, Ending
  <1> QED BY <1>1, <1>2 DEF Safety

\* What the two threads keep between them, and in the journal: the types,
\* queue_bytes, the data drained when both have ended, a line of the journal
\* for every file but the open one.
THEOREM KeptBetweenTheThreads == Spec => []Safety
  BY AlwaysInv, SafetyFollows, PTL

\* The log is in the order of sending from the first file to the receiver and
\* nothing is in it twice, whatever write fails and whichever call closes the
\* file.
THEOREM LogIsInOrder == Spec => []InOrder
  BY AlwaysInv, OrderFollows, PTL

-----------------------------------------------------------------------------
(* The counter and the losses. *)

\* How far the counter s2 is ahead of the one that comes after s1.
Ahead(s1, s2) == IF s2 > s1 THEN s2 - s1 - 1 ELSE CounterMod + s2 - s1 - 1

\* A frame with counter s2, of run b2 of the board, the i2-th that was sent,
\* comes after one with s1, b1 and i1.  In one run the counter tells how many
\* were between, if no more than half of its range were sent; and when the
\* board does not restart late, it never tells more than there were, or it
\* seems to go back.
Follows(s1, b1, i1, s2, b2, i2) ==
    /\ b1 <= b2 /\ i1 < i2
    /\ MaxFrames <= Half + 1 /\ b1 = b2
         => s2 = s1 + (i2 - i1) \/ s2 = s1 + (i2 - i1) - CounterMod
    /\ ~LateReboot => \/ Ahead(s1, s2) <= i2 - i1 - 1
                      \/ s2 <= s1 /\ s1 + 1 < Half

\* The frame received last, those under way and the next one follow each other.
CounterTells ==
    /\ haveSeq => lastId > 0 /\ Follows(lastSeq, lastBoot, lastId, seqNo, boot, sent + 1)
    /\ \A k \in DOMAIN socket :
          /\ Follows(socket[k].seq, socket[k].boot, socket[k].chunk.id, seqNo, boot, sent + 1)
          /\ haveSeq => Follows(lastSeq, lastBoot, lastId,
                                socket[k].seq, socket[k].boot, socket[k].chunk.id)
    /\ \A j, k \in DOMAIN socket :
          j < k => Follows(socket[j].seq, socket[j].boot, socket[j].chunk.id,
                           socket[k].seq, socket[k].boot, socket[k].chunk.id)
LossBounds ==
    /\ MaxFrames <= Half + 1 => missingSame <= lost
    /\ ~LateReboot => lost <= missing
LossInv == CounterTells /\ LossBounds

\* The arithmetic of the counter, without remainders.
LEMMA CounterUp ==
  ASSUME NEW s \in 0 .. CounterMod - 1
  PROVE  (s + 1) % CounterMod = IF s + 1 = CounterMod THEN 0 ELSE s + 1
  BY Consts

LEMMA MissIsAhead ==
  ASSUME NEW s \in 0 .. CounterMod - 1, lastSeq \in 0 .. CounterMod - 1
  PROVE  Miss(s) = Ahead(lastSeq, s)
  BY Consts DEF Miss, Ahead

LEMMA HalfFacts == Half \in Nat /\ 2 * Half <= CounterMod /\ CounterMod <= 2 * Half + 1
  BY Consts DEF Half

\* What Follows says when the board sends a frame, and when it restarts.
LEMMA NextFollows ==
  ASSUME NEW s \in 0 .. CounterMod - 1, NEW b \in Nat, NEW i \in Nat
  PROVE  Follows(s, b, i, (s + 1) % CounterMod, b, i + 1)
  BY CounterUp, Consts, HalfFacts DEF Follows, Ahead

LEMMA FollowsOn ==
  ASSUME NEW s1 \in 0 .. CounterMod - 1, NEW b1 \in Nat, NEW i1 \in Nat \ {0},
         NEW s2 \in 0 .. CounterMod - 1, NEW b2 \in Nat, NEW i2 \in 0 .. MaxFrames,
         Follows(s1, b1, i1, s2, b2, i2)
  PROVE  Follows(s1, b1, i1, (s2 + 1) % CounterMod, b2, i2 + 1)
  <1> DEFINE t == (s2 + 1) % CounterMod
  <1>1. t = IF s2 + 1 = CounterMod THEN 0 ELSE s2 + 1
    BY CounterUp
  <1> HIDE DEF t
  <1>2. b1 <= b2 /\ i1 < i2 + 1
    BY Consts DEF Follows
  <1>3. ASSUME MaxFrames <= Half + 1, b1 = b2
        PROVE  t = s1 + (i2 + 1 - i1) \/ t = s1 + (i2 + 1 - i1) - CounterMod
    <2>1. s2 = s1 + (i2 - i1) \/ s2 = s1 + (i2 - i1) - CounterMod
      BY <1>3 DEF Follows
    <2>2. i2 + 1 - i1 <= CounterMod
      BY <1>3, Consts, HalfFacts
    <2> QED BY <1>1, <2>1, <2>2, Consts
  <1>4. ASSUME ~LateReboot
        PROVE  Ahead(s1, t) <= i2 + 1 - i1 - 1 \/ (t <= s1 /\ s1 + 1 < Half)
    <2>1. Ahead(s1, s2) <= i2 - i1 - 1 \/ (s2 <= s1 /\ s1 + 1 < Half)
      BY <1>4 DEF Follows
    <2>2. i1 < i2
      BY DEF Follows
    <2> QED BY <1>1, <2>1, <2>2, Consts, HalfFacts DEF Ahead
  <1> QED BY <1>2, <1>3, <1>4 DEF Follows, t

LEMMA FollowsRestart ==
  ASSUME NEW s1 \in 0 .. CounterMod - 1, NEW b1 \in Nat, NEW i1 \in Nat,
         NEW s2 \in 0 .. CounterMod - 1, NEW b2 \in Nat, NEW i2 \in Nat,
         Follows(s1, b1, i1, s2, b2, i2), LateReboot \/ s2 < Half
  PROVE  Follows(s1, b1, i1, 0, b2 + 1, i2)
  <1>1. b1 <= b2 /\ i1 < i2
    BY DEF Follows
  <1>2. ASSUME ~LateReboot PROVE Ahead(s1, 0) <= i2 - i1 - 1 \/ (0 <= s1 /\ s1 + 1 < Half)
    <2>1. Ahead(s1, s2) <= i2 - i1 - 1 \/ (s2 <= s1 /\ s1 + 1 < Half)
      BY <1>2 DEF Follows
    <2> QED BY <1>2, <2>1, Consts, HalfFacts DEF Ahead
  <1> QED BY <1>1, <1>2 DEF Follows

\* What the jump of the counter says of the frames between.
LEMMA JumpTells ==
  ASSUME NEW s1 \in 0 .. CounterMod - 1, NEW b1 \in Nat, NEW i1 \in 1 .. MaxFrames,
         NEW s2 \in 0 .. CounterMod - 1, NEW b2 \in Nat, NEW i2 \in 1 .. MaxFrames,
         Follows(s1, b1, i1, s2, b2, i2)
  PROVE  /\ i2 - i1 - 1 \in Nat /\ Ahead(s1, s2) \in Nat
         /\ MaxFrames <= Half + 1 /\ b1 = b2 => Ahead(s1, s2) = i2 - i1 - 1 /\ Ahead(s1, s2) <= Half
         /\ ~LateReboot /\ Ahead(s1, s2) <= Half => Ahead(s1, s2) <= i2 - i1 - 1
  <1>1. i1 < i2 /\ i2 - i1 - 1 \in Nat /\ Ahead(s1, s2) \in Nat
    BY Consts DEF Follows, Ahead
  <1>2. ASSUME MaxFrames <= Half + 1, b1 = b2
        PROVE  Ahead(s1, s2) = i2 - i1 - 1 /\ Ahead(s1, s2) <= Half
    <2>1. s2 = s1 + (i2 - i1) \/ s2 = s1 + (i2 - i1) - CounterMod
      BY <1>2 DEF Follows
    <2>2. i2 - i1 - 1 <= Half /\ i2 - i1 < CounterMod
      BY <1>2, Consts, HalfFacts
    <2> QED BY <1>1, <2>1, <2>2, Consts DEF Ahead
  <1>3. ASSUME ~LateReboot, Ahead(s1, s2) <= Half PROVE Ahead(s1, s2) <= i2 - i1 - 1
    <2>1. Ahead(s1, s2) <= i2 - i1 - 1 \/ (s2 <= s1 /\ s1 + 1 < Half)
      BY <1>3 DEF Follows
    <2> QED BY <1>3, <2>1, Consts, HalfFacts DEF Ahead
  <1> QED BY <1>1, <1>2, <1>3

LEMMA PointTypes ==
  ASSUME IInv
  PROVE  /\ sent \in 0 .. MaxFrames /\ seqNo \in 0 .. CounterMod - 1 /\ boot \in Nat
         /\ lastSeq \in 0 .. CounterMod - 1 /\ lastBoot \in Nat /\ lastId \in 0 .. MaxFrames
         /\ gaps \in Nat /\ lost \in Nat /\ missing \in Nat /\ missingSame \in Nat
         /\ haveSeq \in BOOLEAN /\ LateReboot \in BOOLEAN
         /\ DOMAIN socket = 1 .. Len(socket) /\ Len(socket) \in Nat
         /\ \A k \in DOMAIN socket :
               /\ socket[k].seq \in 0 .. CounterMod - 1 /\ socket[k].boot \in Nat
               /\ socket[k].chunk.id \in 1 .. MaxFrames /\ lastId < socket[k].chunk.id
  <1>1. BoardTypes /\ RxTypes /\ Incoming
    BY DEF IInv, TypeOK, OrderInv
  <1> DEFINE F == [seq : 0 .. CounterMod - 1, boot : Nat, chunk : Chunks]
  <1>2. \A f \in F : f.seq \in 0 .. CounterMod - 1 /\ f.boot \in Nat /\ f.chunk.id \in 0 .. MaxFrames
    BY DEF Chunks
  <1>3. socket \in Seq(F)
    BY <1>1 DEF BoardTypes
  <1> HIDE DEF F
  <1>4. \A k \in DOMAIN socket : socket[k] \in F
    BY <1>3
  <1>5. \A k \in DOMAIN socket : lastId < socket[k].chunk.id /\ lastId \in Nat
    BY <1>1, Consts DEF Incoming, RxTypes
  <1>6. \A k \in DOMAIN socket : socket[k].chunk.id \in 1 .. MaxFrames
    BY <1>2, <1>4, <1>5, Consts
  <1>7. DOMAIN socket = 1 .. Len(socket) /\ Len(socket) \in Nat
    BY <1>3
  <1> QED BY <1>1, <1>2, <1>4, <1>5, <1>6, <1>7, BlackboxAssumption DEF BoardTypes, RxTypes

LEMMA LossSend ==
  ASSUME IInv, LossInv, NEW start, NEW end, NEW data, Send(start, end, data)
  PROVE  LossInv'
  <1> DEFINE f == [seq |-> seqNo, boot |-> boot,
                   chunk |-> [id |-> sent + 1, start |-> start, end |-> end, data |-> data]]
  <1>1. /\ sent' = sent + 1 /\ seqNo' = (seqNo + 1) % CounterMod
        /\ socket' = socket \/ socket' = Append(socket, f)
        /\ UNCHANGED <<boot, haveSeq, lastSeq, lastBoot, lastId, lost, missing, missingSame>>
        /\ sent < MaxFrames
    BY DEF Send, rxVars, lossVars
  <1>2. f.seq = seqNo /\ f.boot = boot /\ f.chunk.id = sent + 1
    OBVIOUS
  <1>3. /\ DOMAIN socket \subseteq DOMAIN socket'
        /\ \A k \in DOMAIN socket : socket'[k] = socket[k]
        /\ \A k \in DOMAIN socket' : k \in DOMAIN socket \/ (socket'[k] = f /\ k = Len(socket) + 1)
    <2>1. CASE socket' = socket
      BY <2>1
    <2>2. CASE socket' = Append(socket, f)
      <3> HIDE DEF f
      <3>1. socket \in Seq([seq : 0 .. CounterMod - 1, boot : Nat, chunk : Chunks])
        BY DEF IInv, TypeOK, BoardTypes
      <3> QED BY <2>2, <3>1
    <2> QED BY <1>1, <2>1, <2>2
  <1> HIDE DEF f
  <1>4. /\ sent + 1 \in 0 .. MaxFrames /\ seqNo \in 0 .. CounterMod - 1 /\ boot \in Nat /\ sent + 1 \in Nat
        /\ lastSeq \in 0 .. CounterMod - 1 /\ lastBoot \in Nat
        /\ haveSeq => lastId \in Nat \ {0} /\ Follows(lastSeq, lastBoot, lastId, seqNo, boot, sent + 1)
        /\ \A k \in DOMAIN socket :
              /\ socket[k].seq \in 0 .. CounterMod - 1 /\ socket[k].boot \in Nat
              /\ socket[k].chunk.id \in Nat \ {0}
              /\ Follows(socket[k].seq, socket[k].boot, socket[k].chunk.id, seqNo, boot, sent + 1)
    <2>0. sent \in 0 .. MaxFrames /\ lastId \in 0 .. MaxFrames
      BY PointTypes
    <2>1. /\ sent + 1 \in 0 .. MaxFrames /\ sent + 1 \in Nat
          /\ lastId > 0 => lastId \in Nat \ {0}
      BY <1>1, <2>0, Consts
    <2>t. /\ seqNo \in 0 .. CounterMod - 1 /\ boot \in Nat
          /\ lastSeq \in 0 .. CounterMod - 1 /\ lastBoot \in Nat
      BY PointTypes
    <2>2. \A n \in 1 .. MaxFrames : n \in Nat \ {0}
      BY Consts
    <2>3. \A k \in DOMAIN socket : /\ socket[k].seq \in 0 .. CounterMod - 1 /\ socket[k].boot \in Nat
                                   /\ socket[k].chunk.id \in Nat \ {0}
      BY <2>2, PointTypes
    <2> QED BY <2>1, <2>t, <2>3 DEF LossInv, CounterTells
  <1>5. haveSeq => Follows(lastSeq, lastBoot, lastId, seqNo', boot, sent + 1 + 1)
    BY <1>1, <1>4, FollowsOn
  <1>6. \A k \in DOMAIN socket :
           Follows(socket[k].seq, socket[k].boot, socket[k].chunk.id, seqNo', boot, sent + 1 + 1)
    BY <1>1, <1>4, FollowsOn
  <1>7. Follows(seqNo, boot, sent + 1, seqNo', boot, sent + 1 + 1)
    BY <1>1, <1>4, NextFollows
  <1>8. \A k \in DOMAIN socket' :
           /\ Follows(socket'[k].seq, socket'[k].boot, socket'[k].chunk.id, seqNo', boot, sent + 1 + 1)
           /\ haveSeq => Follows(lastSeq, lastBoot, lastId,
                                 socket'[k].seq, socket'[k].boot, socket'[k].chunk.id)
    <2> SUFFICES ASSUME NEW k \in DOMAIN socket'
                 PROVE  /\ Follows(socket'[k].seq, socket'[k].boot, socket'[k].chunk.id, seqNo', boot,
                                   sent + 1 + 1)
                        /\ haveSeq => Follows(lastSeq, lastBoot, lastId,
                                              socket'[k].seq, socket'[k].boot, socket'[k].chunk.id)
      OBVIOUS
    <2>1. CASE k \in DOMAIN socket
      BY <1>3, <1>6, <2>1 DEF LossInv, CounterTells
    <2>2. CASE socket'[k] = f
      BY <1>2, <1>4, <1>7, <2>2
    <2> QED BY <1>3, <2>1, <2>2
  <1>9. \A j, k \in DOMAIN socket' :
           j < k => Follows(socket'[j].seq, socket'[j].boot, socket'[j].chunk.id,
                            socket'[k].seq, socket'[k].boot, socket'[k].chunk.id)
    <2> SUFFICES ASSUME NEW j \in DOMAIN socket', NEW k \in DOMAIN socket', j < k
                 PROVE  Follows(socket'[j].seq, socket'[j].boot, socket'[j].chunk.id,
                                socket'[k].seq, socket'[k].boot, socket'[k].chunk.id)
      OBVIOUS
    <2>1. CASE k \in DOMAIN socket
      <3>1. j \in DOMAIN socket
        BY <1>3, <2>1, PointTypes
      <3> QED BY <1>3, <2>1, <3>1 DEF LossInv, CounterTells
    <2>2. CASE socket'[k] = f /\ k = Len(socket) + 1
      <3>1. j \in DOMAIN socket
        BY <1>3, <2>2, PointTypes
      <3> QED BY <1>2, <1>3, <1>4, <2>2, <3>1
    <2> QED BY <1>3, <2>1, <2>2
  <1>10. CounterTells'
    BY <1>1, <1>4, <1>5, <1>8, <1>9 DEF CounterTells
  <1>11. LossBounds'
    BY <1>1 DEF LossInv, LossBounds
  <1> QED BY <1>10, <1>11 DEF LossInv

LEMMA LossReboot == IInv /\ LossInv /\ Reboot => LossInv'
  <1> SUFFICES ASSUME IInv, LossInv, Reboot PROVE LossInv'
    OBVIOUS
  <1>1. /\ seqNo' = 0 /\ boot' = boot + 1 /\ (LateReboot \/ seqNo < Half)
        /\ UNCHANGED <<sent, socket, haveSeq, lastSeq, lastBoot, lastId, lost, missing, missingSame>>
    BY DEF Reboot, rxVars, lossVars
  <1>2. sent + 1 \in Nat /\ lastId \in Nat
    BY PointTypes, Consts
  <1>3. \A k \in DOMAIN socket : socket[k].chunk.id \in Nat
    BY PointTypes, Consts
  <1>4. haveSeq => Follows(lastSeq, lastBoot, lastId, 0, boot + 1, sent + 1)
    BY <1>1, <1>2, PointTypes, FollowsRestart DEF LossInv, CounterTells
  <1>5. \A k \in DOMAIN socket :
           Follows(socket[k].seq, socket[k].boot, socket[k].chunk.id, 0, boot + 1, sent + 1)
    BY <1>1, <1>2, <1>3, PointTypes, FollowsRestart DEF LossInv, CounterTells
  <1> QED BY <1>1, <1>4, <1>5 DEF LossInv, LossBounds, CounterTells

LEMMA LossReceive == IInv /\ LossInv /\ Receive => LossInv'
  <1> SUFFICES ASSUME IInv, LossInv, Receive PROVE LossInv'
    OBVIOUS
  <1> DEFINE f == socket[1]
             between == f.chunk.id - lastId - 1
  <1>1. /\ socket # <<>> /\ Head(socket) = f /\ socket' = Tail(socket) /\ haveSeq' = TRUE
        /\ lastSeq' = f.seq /\ lastId' = f.chunk.id /\ lastBoot' = f.boot
        /\ lost' = IF IsGap(f) THEN lost + Miss(f.seq) ELSE lost
        /\ missing' = missing + between
        /\ missingSame' = IF haveSeq /\ ~f.chunk.start /\ f.boot = lastBoot
                          THEN missingSame + between ELSE missingSame
        /\ UNCHANGED <<sent, seqNo, boot>>
    BY DEF Receive
  <1>2. /\ 1 \in DOMAIN socket
        /\ \A k \in DOMAIN socket' : /\ k + 1 \in DOMAIN socket /\ 1 < k + 1 /\ socket'[k] = socket[k + 1]
                                     /\ k \in Nat
    <2>1. socket \in Seq([seq : 0 .. CounterMod - 1, boot : Nat, chunk : Chunks])
      BY DEF IInv, TypeOK, BoardTypes
    <2> QED BY <1>1, <2>1, TailFacts
  <1>3. /\ f.seq \in 0 .. CounterMod - 1 /\ f.boot \in Nat /\ f.chunk.id \in 1 .. MaxFrames
        /\ lastId < f.chunk.id /\ between \in Nat
    <2>1. /\ f.seq \in 0 .. CounterMod - 1 /\ f.boot \in Nat /\ f.chunk.id \in 1 .. MaxFrames
          /\ lastId < f.chunk.id
      BY <1>2, PointTypes
    <2>2. lastId \in 0 .. MaxFrames
      BY PointTypes
    <2>3. lastId \in Nat /\ f.chunk.id \in Nat
      BY <2>1, <2>2, Consts
    <2> QED BY <2>1, <2>3
  <1>4. haveSeq => lastId \in 1 .. MaxFrames /\ Follows(lastSeq, lastBoot, lastId, f.seq, f.boot, f.chunk.id)
    BY <1>2, PointTypes DEF LossInv, CounterTells
  <1>5. haveSeq => /\ Miss(f.seq) \in Nat
                   /\ MaxFrames <= Half + 1 /\ lastBoot = f.boot => Miss(f.seq) = between /\ Miss(f.seq) <= Half
                   /\ ~LateReboot /\ Miss(f.seq) <= Half => Miss(f.seq) <= between
    <2> SUFFICES ASSUME haveSeq
                 PROVE  /\ Miss(f.seq) \in Nat
                        /\ MaxFrames <= Half + 1 /\ lastBoot = f.boot
                             => Miss(f.seq) = between /\ Miss(f.seq) <= Half
                        /\ ~LateReboot /\ Miss(f.seq) <= Half => Miss(f.seq) <= between
      OBVIOUS
    <2>1. lastSeq \in 0 .. CounterMod - 1 /\ lastBoot \in Nat
      BY PointTypes
    <2>2. Miss(f.seq) = Ahead(lastSeq, f.seq)
      BY <1>3, <2>1, MissIsAhead
    <2> HIDE DEF f
    <2>3. /\ Ahead(lastSeq, f.seq) \in Nat
          /\ MaxFrames <= Half + 1 /\ lastBoot = f.boot
               => Ahead(lastSeq, f.seq) = f.chunk.id - lastId - 1 /\ Ahead(lastSeq, f.seq) <= Half
          /\ ~LateReboot /\ Ahead(lastSeq, f.seq) <= Half
               => Ahead(lastSeq, f.seq) <= f.chunk.id - lastId - 1
      BY <1>3, <1>4, <2>1, JumpTells
    <2> QED BY <2>2, <2>3
  <1> HIDE DEF between
  <1>6. LossBounds'
    <2>0. /\ lost \in Nat /\ missing \in Nat /\ missingSame \in Nat
          /\ MaxFrames <= Half + 1 => missingSame <= lost
          /\ ~LateReboot => lost <= missing
      BY PointTypes DEF LossInv, LossBounds
    <2>1. MaxFrames <= Half + 1 => missingSame' <= lost'
      <3> SUFFICES ASSUME MaxFrames <= Half + 1 PROVE missingSame' <= lost'
        OBVIOUS
      <3>1. CASE haveSeq /\ ~f.chunk.start /\ f.boot = lastBoot
        <4>1. Miss(f.seq) = between /\ Miss(f.seq) <= Half
          BY <1>5, <3>1
        <4>2. CASE IsGap(f)
          BY <1>1, <1>3, <2>0, <3>1, <4>1, <4>2
        <4>3. CASE ~IsGap(f)
          <5>1. between = 0
            BY <3>1, <4>1, <4>3 DEF IsGap
          <5> QED BY <1>1, <2>0, <3>1, <4>3, <5>1
        <4> QED BY <4>2, <4>3
      <3>2. CASE ~(haveSeq /\ ~f.chunk.start /\ f.boot = lastBoot)
        <4>1. lost' >= lost
          BY <1>1, <1>5, <2>0 DEF IsGap
        <4>2. missingSame' = missingSame
          BY <1>1, <3>2
        <4>3. lost' \in Nat
          BY <1>1, <1>5, <2>0 DEF IsGap
        <4> QED BY <2>0, <4>1, <4>2, <4>3
      <3> QED BY <3>1, <3>2
    <2>2. ~LateReboot => lost' <= missing'
      <3> SUFFICES ASSUME ~LateReboot PROVE lost' <= missing'
        OBVIOUS
      <3>1. CASE IsGap(f)
        <4>1. Miss(f.seq) \in Nat /\ Miss(f.seq) <= between
          BY <1>5, <3>1 DEF IsGap
        <4> QED BY <1>1, <1>3, <2>0, <3>1, <4>1
      <3>2. CASE ~IsGap(f)
        BY <1>1, <1>3, <2>0, <3>2
      <3> QED BY <3>1, <3>2
    <2> QED BY <2>1, <2>2 DEF LossBounds
  <1>7. CounterTells'
    <2>1. f.chunk.id > 0
      BY <1>3, Consts
    <2>2. Follows(f.seq, f.boot, f.chunk.id, seqNo, boot, sent + 1)
      BY <1>2 DEF LossInv, CounterTells
    <2>3. \A k \in DOMAIN socket' :
             /\ Follows(socket'[k].seq, socket'[k].boot, socket'[k].chunk.id, seqNo, boot, sent + 1)
             /\ Follows(f.seq, f.boot, f.chunk.id, socket'[k].seq, socket'[k].boot, socket'[k].chunk.id)
      BY <1>2 DEF LossInv, CounterTells
    <2>4. \A j, k \in DOMAIN socket' :
             j < k => Follows(socket'[j].seq, socket'[j].boot, socket'[j].chunk.id,
                              socket'[k].seq, socket'[k].boot, socket'[k].chunk.id)
      <3> SUFFICES ASSUME NEW j \in DOMAIN socket', NEW k \in DOMAIN socket', j < k
                   PROVE  Follows(socket'[j].seq, socket'[j].boot, socket'[j].chunk.id,
                                  socket'[k].seq, socket'[k].boot, socket'[k].chunk.id)
        OBVIOUS
      <3>1. j + 1 < k + 1 /\ j + 1 \in DOMAIN socket /\ k + 1 \in DOMAIN socket
            /\ socket'[j] = socket[j + 1] /\ socket'[k] = socket[k + 1]
        BY <1>2
      <3> QED BY <3>1 DEF LossInv, CounterTells
    <2> QED BY <1>1, <2>1, <2>2, <2>3, <2>4 DEF CounterTells
  <1> QED BY <1>6, <1>7 DEF LossInv

LEMMA LossStep == IInv /\ LossInv /\ [Next]_vars => LossInv'
  <1> SUFFICES ASSUME IInv, LossInv, [Next]_vars PROVE LossInv'
    OBVIOUS
  <1>1. CASE UNCHANGED <<sent, seqNo, boot, socket, haveSeq, lastSeq, lastBoot, lastId, lost, missing,
                         missingSame>>
    BY <1>1 DEF LossInv, CounterTells, LossBounds
  <1>2. CASE \E start, end, data \in BOOLEAN : Send(start, end, data)
    BY <1>2, LossSend
  <1>3. CASE Reboot
    BY <1>3, LossReboot
  <1>4. CASE Receive
    BY <1>4, LossReceive
  <1>5. CASE Drive \/ Stop \/ Push \/ ReceiveEnds
    BY <1>1, <1>5 DEF Drive, Stop, Push, ReceiveEnds, boardVars, rxVars, lossVars
  <1>6. CASE WrLoop \/ FlushFailed
    <2>1. UNCHANGED boardAndRx
      BY <1>6 DEF WrLoop, Take, IdleClose, WriteEnds, CheckDrive, StartOfLog, Open, Opened, Gather,
                  EndOfLog, FlushOk, Unwind, FlushFailed
    <2> QED BY <1>1, <2>1 DEF boardAndRx, boardVars, rxVars, lossVars
  <1>7. CASE UNCHANGED vars
    BY <1>1, <1>7 DEF vars, boardVars, rxVars, lossVars
  <1> QED BY <1>2, <1>3, <1>4, <1>5, <1>6, <1>7 DEF Next, World, RxLoop

\* The two bounds of the losses, each with what it needs: no loss within one
\* log and one run of the board goes uncounted as long as the counter has not
\* gone through more than half of its range; and none is counted that did not
\* happen as long as the board restarts only in the first half.
THEOREM LossesBothWays == Spec => []LossBounds
  <1>1. Init => LossInv
    BY DEF Init, LossInv, CounterTells, LossBounds
  <1>2. LossInv => LossBounds
    BY DEF LossInv
  <1> QED BY <1>1, <1>2, LossStep, AlwaysInv, PTL DEF Spec

\* "A gap of the counter means lost frames": both bounds together.
THEOREM LossIsHonest ==
  ASSUME ~LateReboot, MaxFrames <= Half + 1
  PROVE  Spec => []LostIsHonest
  <1>1. LossBounds => LostIsHonest
    BY DEF LossBounds, LostIsHonest
  <1> QED BY <1>1, LossesBothWays, PTL
=============================================================================
