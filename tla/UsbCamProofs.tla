---------------------------- MODULE UsbCamProofs ----------------------------
(***************************************************************************)
(* Theorems about the tasks of the USB module, for any sizes of the        *)
(* buffers, any lengths that are read and any failures.                    *)
(***************************************************************************)
EXTENDS UsbCam, SequenceTheorems, TLAPS

------------------------------------------------------------------------------
(* Lemmas about the write task's buffer.                                   *)

(* What is recorded comes behind what is there.                            *)
LEMMA RecordedLength ==
    ASSUME NEW s \in Seq(Nat), NEW n \in Nat, recorded \in Nat
    PROVE  /\ s \o Chunks(n) \in Seq(Nat)
           /\ Len(s \o Chunks(n)) = Len(s) + n
<1>1. \A i \in 1 .. n : (recorded + i - 1) % Span \in Nat
  BY UsbCamAssumption
<1>2. Chunks(n) \in Seq(Nat) /\ Len(Chunks(n)) = n
  BY <1>1, IsASeq DEF Chunks
<1> QED
  BY <1>2, ConcatProperties

(* Each chunk of it has its place in the stream.                           *)
LEMMA RecordedChunks ==
    ASSUME NEW s \in Seq(Nat), NEW n \in Nat, recorded \in Nat
    PROVE  /\ \A i \in 1 .. Len(s) : (s \o Chunks(n))[i] = s[i]
           /\ \A b \in Nat : b < n =>
                  (s \o Chunks(n))[Len(s) + b + 1] = (recorded + b) % Span
<1>1. \A i \in 1 .. n : (recorded + i - 1) % Span \in Nat
  BY UsbCamAssumption
<1>2. Chunks(n) \in Seq(Nat) /\ Len(Chunks(n)) = n
  BY <1>1, IsASeq DEF Chunks
<1>3. Len(s) \in Nat
  BY LenProperties
<1>4. \A i \in 1 .. Len(s) : (s \o Chunks(n))[i] = s[i]
  BY <1>2, <1>3, ConcatProperties
<1>5. ASSUME NEW b \in Nat, b < n
      PROVE  (s \o Chunks(n))[Len(s) + b + 1] = (recorded + b) % Span
  <2>1. (s \o Chunks(n))[Len(s) + b + 1] = Chunks(n)[b + 1]
    BY <1>2, <1>3, <1>5, ConcatProperties
  <2>2. b + 1 \in 1 .. n /\ recorded + (b + 1) - 1 = recorded + b
    BY <1>5
  <2>3. Chunks(n)[b + 1] = (recorded + (b + 1) - 1) % Span
    BY <2>2 DEF Chunks
  <2> QED
    BY <2>1, <2>2, <2>3
<1> QED
  BY <1>4, <1>5

(* What is left of the buffer is what was behind.                          *)
LEMMA MovedChunks ==
    ASSUME NEW s \in Seq(Nat), NEW k \in Nat, k <= Len(s)
    PROVE  /\ Moved(s, k) \in Seq(Nat)
           /\ Len(Moved(s, k)) = Len(s) - k
           /\ \A i \in 1 .. Len(s) - k : Moved(s, k)[i] = s[k + i]
<1>1. Len(s) \in Nat
  BY LenProperties
<1>2. \A i \in k + 1 .. Len(s) : s[i] \in Nat
  BY ElementOfSeq
<1> QED
  BY <1>1, <1>2, SubSeqProperties DEF Moved

(* What is moved to the front is not longer than it was.                   *)
LEMMA MovedLength ==
    ASSUME NEW s \in Seq(Nat), NEW k \in Nat
    PROVE  /\ Moved(s, k) \in Seq(Nat)
           /\ Len(Moved(s, k)) <= Len(s)
BY SubSeqProperties DEF Moved

(* A packet is only taken when there is room for it.                       *)
LEMMA TakenFits ==
    ASSUME NEW len \in Nat, NEW n \in Nat, len <= ReadRoom
    PROVE  Taken(len, n) \in Nat /\ Taken(len, n) <= ReadRoom
BY UsbCamAssumption DEF Taken

------------------------------------------------------------------------------
(* The invariant of the buffers.                                           *)

Absent == {"none", "ended"}

(* A write task is only made when there is none: thread_running is never   *)
(* set again under one that has just been told to end.                     *)
WriterAbsent ==
    /\ media \in {"demuxes", "create read", "create write"} => writer \in Absent
    /\ media = "create write" => media_open_status
    /\ media = "poll" /\ ~media_open_status => writer \in Absent

(* Before each record there is no more than what a first fill leaves.      *)
RoomBeforeRecord ==
    writer \in {"info", "record"} /\ thread_running => Len(buffer) <= Fill

Lengths ==
    /\ buffer \in Seq(Nat) /\ Len(buffer) <= BuffSize
    /\ recorded \in Nat
    /\ usbdata_len \in Nat /\ usbdata_len <= ReadRoom

States ==
    /\ media \in {"poll", "demuxes", "create read", "create write", "join"}
    /\ media_open_status \in BOOLEAN /\ thread_running \in BOOLEAN /\ first_run \in BOOLEAN

BufferInv == States /\ WriterAbsent /\ RoomBeforeRecord /\ Lengths

(* No chunk is the first content of the buffer.                            *)
LEMMA NoChunks == <<>> \in Seq(Nat) /\ Len(<<>>) = 0
BY EmptySeq

LEMMA BufferInvInit == UsbInit => BufferInv
<1> SUFFICES ASSUME UsbInit PROVE BufferInv
  OBVIOUS
<1>1. States /\ WriterAbsent /\ RoomBeforeRecord
  BY DEF UsbInit, States, WriterAbsent, RoomBeforeRecord, Absent
<1>2. Lengths
  <2>1. buffer = <<>> /\ recorded = 0 /\ usbdata_len = 0
    BY DEF UsbInit
  <2> QED
    BY <2>1, NoChunks, UsbCamAssumption DEF Lengths
<1> QED
  BY <1>1, <1>2 DEF BufferInv

(* Steps that leave the two tasks and where the media task is alone.       *)
LEMMA BufferInvKept ==
    ASSUME BufferInv, UNCHANGED <<media, media_open_status, thread_running, first_run, writer,
                                  buffer, recorded, usbdata_len>>
    PROVE  BufferInv'
BY DEF BufferInv, States, WriterAbsent, RoomBeforeRecord, Lengths

(* Steps of the media task.                                                *)
LEMMA BufferInvMedia == BufferInv /\ MediaTask => BufferInv'
<1> SUFFICES ASSUME BufferInv, MediaTask PROVE BufferInv'
  OBVIOUS
<1> USE DEF readerVars, writerVars
<1>1. CASE PollOpen
  <2>1. States' /\ WriterAbsent'
    BY <1>1, Zenon DEF PollOpen, BufferInv, States, WriterAbsent
  <2>2. RoomBeforeRecord' /\ Lengths'
    BY <1>1, Zenon DEF PollOpen, BufferInv, RoomBeforeRecord, Lengths
  <2> QED
    BY <2>1, <2>2 DEF BufferInv
<1>2. CASE SetDemuxes
  <2>1. States' /\ WriterAbsent'
    BY <1>2, Zenon DEF SetDemuxes, BufferInv, States, WriterAbsent
  <2>2. RoomBeforeRecord' /\ Lengths'
    BY <1>2, Zenon DEF SetDemuxes, BufferInv, RoomBeforeRecord, Lengths
  <2> QED
    BY <2>1, <2>2 DEF BufferInv
<1>3. CASE CreateRead
  <2>1. writer \in Absent /\ writer' = writer
    BY <1>3 DEF CreateRead, BufferInv, WriterAbsent
  <2>2. States' /\ WriterAbsent'
    BY <1>3, <2>1, Zenon DEF CreateRead, GiveUp, BufferInv, States, WriterAbsent
  <2>3. RoomBeforeRecord'
    BY <2>1 DEF RoomBeforeRecord, Absent
  <2>4. usbdata_len' \in {usbdata_len, 0} /\ buffer' = buffer /\ recorded' = recorded
    BY <1>3 DEF CreateRead
  <2>5. Lengths'
    BY <2>4, UsbCamAssumption DEF BufferInv, Lengths
  <2> QED
    BY <2>2, <2>3, <2>5 DEF BufferInv
<1>4. CASE CreateWrite
  <2>1. States' /\ WriterAbsent'
    BY <1>4, Zenon DEF CreateWrite, GiveUp, BufferInv, States, WriterAbsent
  <2>2. \/ buffer' = <<>> /\ recorded' = 0 /\ writer' = "info"
        \/ buffer' = buffer /\ recorded' = recorded /\ writer' = writer
    BY <1>4, Zenon DEF CreateWrite
  <2>3. usbdata_len' = usbdata_len /\ writer \in Absent
    BY <1>4 DEF CreateWrite, BufferInv, WriterAbsent
  <2>4. RoomBeforeRecord'
    <3>1. CASE writer' = "info" /\ buffer' = <<>>
      <4>1. Len(buffer') <= Fill
        BY <3>1, NoChunks, UsbCamAssumption
      <4> QED
        BY <4>1 DEF RoomBeforeRecord
    <3>2. CASE writer' = writer
      BY <2>3, <3>2 DEF RoomBeforeRecord, Absent
    <3> QED
      BY <2>2, <3>1, <3>2
  <2>5. Lengths'
    <3>1. CASE buffer' = <<>> /\ recorded' = 0
      <4>1. buffer' \in Seq(Nat) /\ Len(buffer') = 0
        BY <3>1, NoChunks
      <4> QED
        BY <2>3, <3>1, <4>1, UsbCamAssumption DEF BufferInv, Lengths
    <3>2. CASE buffer' = buffer /\ recorded' = recorded
      BY <2>3, <3>2 DEF BufferInv, Lengths
    <3> QED
      BY <2>2, <3>1, <3>2
  <2> QED
    BY <2>1, <2>4, <2>5 DEF BufferInv
<1>5. CASE PollClose
  <2>1. States' /\ WriterAbsent'
    BY <1>5 DEF PollClose, BufferInv, States, WriterAbsent
  <2>2. RoomBeforeRecord' /\ Lengths'
    BY <1>5, Zenon DEF PollClose, BufferInv, RoomBeforeRecord, Lengths
  <2> QED
    BY <2>1, <2>2 DEF BufferInv
<1>6. CASE Joined
  <2>1. States' /\ WriterAbsent'
    BY <1>6 DEF Joined, BothEnded, BufferInv, States, WriterAbsent, Absent
  <2>2. RoomBeforeRecord' /\ Lengths'
    BY <1>6, Zenon DEF Joined, BufferInv, RoomBeforeRecord, Lengths
  <2> QED
    BY <2>1, <2>2 DEF BufferInv
<1> QED
  BY <1>1, <1>2, <1>3, <1>4, <1>5, <1>6 DEF MediaTask

(* Steps of the read task.                                                 *)
LEMMA BufferInvReader == BufferInv /\ ReadTask => BufferInv'
<1> SUFFICES ASSUME BufferInv, ReadTask PROVE BufferInv'
  OBVIOUS
<1>1. usbdata_len \in Nat /\ usbdata_len <= ReadRoom
  BY DEF BufferInv, Lengths
<1>2. UNCHANGED <<media, media_open_status, thread_running, first_run, writer, buffer, recorded>>
  BY DEF ReadTask, ReadInfo, ReadMedia, Inject, writerVars, Elsewhere
<1>3. usbdata_len' \in Nat /\ usbdata_len' <= ReadRoom
  <2>1. CASE ReadInfo
    BY <1>1, <2>1 DEF ReadInfo
  <2>2. CASE ReadMedia
    <3>1. PICK n \in Packets \cup {0} : usbdata_len' \in {usbdata_len, Taken(usbdata_len, n)}
      BY <2>2 DEF ReadMedia
    <3>2. n \in Nat
      BY UsbCamAssumption
    <3> QED
      BY <1>1, <3>1, <3>2, TakenFits
  <2>3. CASE Inject
    BY <1>1, <2>3, UsbCamAssumption DEF Inject
  <2> QED
    BY <2>1, <2>2, <2>3 DEF ReadTask
<1> QED
  <2>1. States' /\ WriterAbsent' /\ RoomBeforeRecord'
    BY <1>2 DEF BufferInv, States, WriterAbsent, RoomBeforeRecord
  <2>2. Lengths'
    BY <1>2, <1>3 DEF BufferInv, Lengths
  <2> QED
    BY <2>1, <2>2 DEF BufferInv

(* Steps of the write task.                                                *)
LEMMA BufferInvWriter == BufferInv /\ WriteTask => BufferInv'
<1> SUFFICES ASSUME BufferInv, WriteTask PROVE BufferInv'
  OBVIOUS
<1>1. UNCHANGED <<media, media_open_status, thread_running, usbdata_len>>
  BY DEF WriteTask, WriteInfo, RecordFromTsin, WriteHeader, WriteData, readerVars, Elsewhere
<1>2. writer \notin Absent
  BY DEF WriteTask, WriteInfo, RecordFromTsin, WriteHeader, WriteData, Absent
<1>3. States' /\ WriterAbsent'
  <2>1. first_run' \in BOOLEAN
    BY DEF WriteTask, WriteInfo, RecordFromTsin, WriteHeader, WriteData, BufferInv, States
  <2> QED
    BY <1>1, <1>2, <2>1 DEF BufferInv, States, WriterAbsent
<1>4. buffer \in Seq(Nat) /\ Len(buffer) \in Nat /\ Len(buffer) <= BuffSize /\ recorded \in Nat
  BY LenProperties DEF BufferInv, Lengths
<1>5. usbdata_len' \in Nat /\ usbdata_len' <= ReadRoom
  BY <1>1 DEF BufferInv, Lengths
<1>6. CASE WriteInfo
  <2>1. writer = "info" /\ buffer' = buffer /\ recorded' = recorded
    BY <1>6 DEF WriteInfo
  <2>2. RoomBeforeRecord'
    BY <1>1, <2>1, Zenon DEF BufferInv, RoomBeforeRecord
  <2> QED
    BY <1>3, <1>4, <1>5, <2>1, <2>2 DEF BufferInv, Lengths
<1>7. CASE RecordFromTsin
  <2>1. CASE ~thread_running
    <3>1. buffer' = buffer /\ recorded' = recorded /\ writer' = "ended"
      BY <1>7, <2>1 DEF RecordFromTsin
    <3>2. RoomBeforeRecord'
      BY <3>1 DEF RoomBeforeRecord
    <3> QED
      BY <1>3, <1>4, <1>5, <3>1, <3>2 DEF BufferInv, Lengths
  <2>2. CASE thread_running
    <3>1. PICK n \in Recorded \cup {0} :
             /\ buffer' = buffer \o Chunks(n)
             /\ recorded' = (recorded + n) % Span
             /\ writer' = IF first_run /\ Len(buffer) + n <= Fill THEN "record" ELSE "header"
      BY <1>7, <2>2 DEF RecordFromTsin
    <3>2. n \in Nat /\ n <= Poll
      BY UsbCamAssumption
    <3>3. buffer' \in Seq(Nat) /\ Len(buffer') = Len(buffer) + n
      BY <1>4, <3>1, <3>2, RecordedLength
    <3>4. Len(buffer) <= Fill
      BY <1>7, <2>2 DEF RecordFromTsin, BufferInv, RoomBeforeRecord
    <3>5. Len(buffer') <= BuffSize
      BY <1>4, <3>2, <3>3, <3>4, UsbCamAssumption
    <3>6. writer' = "header" \/ (writer' = "record" /\ Len(buffer') <= Fill)
      BY <3>1, <3>3
    <3>7. recorded' \in Nat
      BY <1>4, <3>1, <3>2, UsbCamAssumption
    <3>8. RoomBeforeRecord'
      BY <3>6 DEF RoomBeforeRecord
    <3> QED
      BY <1>3, <1>5, <3>3, <3>5, <3>7, <3>8 DEF BufferInv, Lengths
  <2> QED
    BY <2>1, <2>2
<1>8. CASE WriteHeader
  <2>1. buffer' = buffer /\ recorded' = recorded
    BY <1>8 DEF WriteHeader
  <2>2. writer' \in {"info", "record"} => Len(buffer) <= Media \/ ~thread_running
    BY <1>8 DEF WriteHeader
  <2>3. Len(buffer) <= Media => Len(buffer) <= Fill
    BY <1>4, UsbCamAssumption
  <2>4. RoomBeforeRecord'
    BY <1>1, <2>1, <2>2, <2>3, Zenon DEF RoomBeforeRecord
  <2> QED
    BY <1>3, <1>4, <1>5, <2>1, <2>4 DEF BufferInv, Lengths
<1>9. CASE WriteData
  <2>1. buffer' = buffer \/ \E k \in 0 .. Media : buffer' = Moved(buffer, k)
    BY <1>9 DEF WriteData
  <2>2. buffer' \in Seq(Nat) /\ Len(buffer') <= Len(buffer)
    BY <1>4, <2>1, MovedLength, UsbCamAssumption
  <2>3. Len(buffer') <= BuffSize
    BY <1>4, <2>2, LenProperties, UsbCamAssumption
  <2>4. writer' \in {"header", "ended"} /\ recorded' = recorded
    BY <1>9 DEF WriteData
  <2>5. RoomBeforeRecord'
    BY <2>4 DEF RoomBeforeRecord
  <2> QED
    BY <1>3, <1>4, <1>5, <2>2, <2>3, <2>4, <2>5 DEF BufferInv, Lengths
<1> QED
  BY <1>6, <1>7, <1>8, <1>9 DEF WriteTask

(* Routing and the clients of the demuxes do not come near the tasks.      *)
LEMMA BufferInvElsewhere ==
    BufferInv /\ (Plug \/ Unplug \/ Report \/ StrayRead \/ (\E pass \in BOOLEAN : CIRouteTS(pass))
                  \/ SourceStep \/ UNCHANGED vars)
        => BufferInv'
BY BufferInvKept
DEF Plug, Unplug, Report, StrayRead, CIRouteTS, SourceStep, vars, usbVars, readerVars, writerVars

(* Neither buffer is ever written over its end, whatever lengths the demux *)
(* and the module return, and whichever calls fail.                        *)
THEOREM BuffersNeverOverflow == Spec => []BuffersFit
<1>1. BufferInv /\ [Next]_vars => BufferInv'
  BY BufferInvMedia, BufferInvReader, BufferInvWriter, BufferInvElsewhere DEF Next
<1>2. BufferInv => BuffersFit
  <2> SUFFICES ASSUME BufferInv PROVE BuffersFit
    OBVIOUS
  <2>1. Len(buffer) \in Nat /\ Len(buffer) <= BuffSize /\ usbdata_len <= ReadRoom
    BY LenProperties DEF BufferInv, Lengths
  <2>2. ASSUME writer = "record", thread_running PROVE Len(buffer) + Poll <= BuffSize
    <3>1. Len(buffer) <= Fill
      BY <2>2 DEF BufferInv, RoomBeforeRecord
    <3> QED
      BY <2>1, <3>1, UsbCamAssumption
  <2> QED
    BY <2>1, <2>2 DEF BuffersFit
<1> QED
  BY <1>1, <1>2, BufferInvInit, PTL DEF Spec

------------------------------------------------------------------------------
(* Nothing is given back that a task still works with.                     *)

Active(t) == t \notin Absent

(* What a task needs is there from before it is made until it has ended.   *)
HeldInv ==
    /\ media \in {"demuxes", "create read"} => ~Active(reader)
    /\ media \in {"demuxes", "create read", "create write"} => ~Active(writer)
    /\ media \in {"create read", "create write"} => ReadNeeds \cup WriteNeeds \subseteq held
    /\ media = "create write" => media_open_status
    /\ media = "poll" /\ ~media_open_status => ~Active(reader) /\ ~Active(writer)
    /\ Active(reader) => ReadNeeds \subseteq held
    /\ Active(writer) => WriteNeeds \subseteq held

(* Steps of the media task.  When it cannot make the second task it gives  *)
(* all back and has no first one any more.                                 *)
LEMMA HeldInvMedia ==
    ASSUME HeldInv, MediaTask
    PROVE  HeldInv'
<1> USE DEF HeldInv, Active, Absent, readerVars, writerVars
<1>1. CASE PollOpen
  BY <1>1, Zenon DEF PollOpen
<1>2. CASE SetDemuxes
  BY <1>2 DEF SetDemuxes, ResetResource
<1>3. CASE CreateRead
  BY <1>3 DEF CreateRead, GiveUp, ResetResource
<1>4. CASE CreateWrite
  BY <1>4 DEF CreateWrite, GiveUp, ResetResource
<1>5. CASE PollClose
  BY <1>5, Zenon DEF PollClose
<1>6. CASE Joined
  BY <1>6 DEF Joined, BothEnded, ResetResource
<1> QED
  BY <1>1, <1>2, <1>3, <1>4, <1>5, <1>6 DEF MediaTask

(* Steps of the two tasks: one that has ended does not come back.          *)
LEMMA HeldInvTasks ==
    ASSUME HeldInv, ReadTask \/ WriteTask
    PROVE  HeldInv'
<1>1. /\ UNCHANGED <<media, media_open_status, held>>
      /\ Active(reader) \/ reader' = reader
      /\ Active(writer) \/ writer' = writer
  BY DEF ReadTask, ReadInfo, ReadMedia, Inject, WriteTask, WriteInfo, RecordFromTsin,
         WriteHeader, WriteData, readerVars, writerVars, Elsewhere, Active, Absent
<1> QED
  BY <1>1, Zenon DEF HeldInv, Active

(* While a task that AML_Usbcam_Media_Close will wait for works, its buffer*)
(* and its descriptors are there, whichever calls fail.                    *)
THEOREM NothingFreedInUse == Spec => []LiveWhileUsed
<1>1. UsbInit => HeldInv
  BY DEF UsbInit, HeldInv, Active, Absent
<1>2. HeldInv /\ [Next]_vars => HeldInv'
  <2> SUFFICES ASSUME HeldInv, [Next]_vars PROVE HeldInv'
    OBVIOUS
  <2>1. CASE MediaTask
    BY <2>1, HeldInvMedia
  <2>2. CASE ReadTask \/ WriteTask
    BY <2>2, HeldInvTasks
  <2>3. CASE UNCHANGED <<media, media_open_status, held, reader, writer>>
    BY <2>3 DEF HeldInv, Active
  <2> QED
    BY <2>1, <2>2, <2>3
    DEF Next, Plug, Unplug, Report, StrayRead, CIRouteTS, SourceStep, vars, usbVars, readerVars,
        writerVars
<1>3. HeldInv => LiveWhileUsed
  BY DEF HeldInv, LiveWhileUsed, Active, Absent, Reading, Writing
<1> QED
  BY <1>1, <1>2, <1>3, PTL DEF Spec
------------------------------------------------------------------------------
(* Arithmetic modulo a number that is not known, which the solver does not *)
(* do by itself.                                                           *)

(* The only multiple of S between -S and S is 0.                           *)
LEMMA NoMultiple ==
    ASSUME NEW S \in Nat \ {0}, NEW k \in Int, -S < S * k, S * k < S
    PROVE  k = 0
<1>1. CASE k >= 1
  <2>1. S * k >= S
    BY <1>1, Z3
  <2> QED
    BY <2>1
<1>2. CASE k <= -1
  <2>1. S * k <= -S
    BY <1>2, Z3
  <2> QED
    BY <2>1
<1> QED
  BY <1>1, <1>2

(* What division and remainder are, and that nothing else is.              *)
LEMMA Division ==
    ASSUME NEW S \in Nat \ {0}, NEW a \in Nat
    PROVE  /\ a \div S \in Int /\ a % S \in 0 .. S - 1
           /\ a = S * (a \div S) + (a % S)
OBVIOUS

LEMMA Remainder ==
    ASSUME NEW S \in Nat \ {0}, NEW q \in Int, NEW r \in 0 .. S - 1, NEW a \in Nat,
           a = S * q + r
    PROVE  a % S = r
<1> DEFINE p == a \div S
           m == a % S
<1>1. p \in Int /\ m \in 0 .. S - 1 /\ a = S * p + m
  BY Division
<1> HIDE DEF p, m
<1>2. S * (p - q) = S * p - S * q
  BY <1>1
<1>3. S * (p - q) = r - m
  BY <1>1, <1>2
<1>4. p - q = 0
  BY <1>1, <1>3, NoMultiple
<1> QED
  BY <1>1, <1>4 DEF m

LEMMA Distributes ==
    ASSUME NEW S \in Int, NEW p \in Int, NEW q \in Int, NEW r \in Int
    PROVE  /\ S * q + (S * p + r) = S * (q + p) + r
           /\ q + p \in Int
OBVIOUS

(* Whole multiples of S do not count.                                     *)
LEMMA SameRemainder ==
    ASSUME NEW S \in Nat \ {0}, NEW q \in Int, NEW c \in Nat, NEW d \in Nat
    PROVE  d = S * q + c => d % S = c % S
<1>0. SUFFICES ASSUME d = S * q + c PROVE d % S = c % S
  OBVIOUS
<1>1. PICK p \in Int, r \in 0 .. S - 1 : c = S * p + r /\ r = c % S
  BY Division
<1>2. PICK k \in Int : d = S * k + r
  <2>1. q + p \in Int /\ d = S * (q + p) + r
    BY <1>0, <1>1, Distributes
  <2> QED
    BY <2>1
<1>3. d % S = r
  BY <1>2, Remainder
<1> QED
  BY <1>1, <1>3

(* Numbers of chunks may be reduced modulo Span at any time.               *)
LEMMA ModSum ==
    ASSUME NEW S \in Nat \ {0}, NEW a \in Nat, NEW b \in Nat
    PROVE  ((a % S) + b) % S = (a + b) % S
<1>1. PICK q \in Int, r \in 0 .. S - 1 : a = S * q + r /\ r = a % S
  BY Division
<1>2. a + b = S * q + (r + b) /\ a + b \in Nat /\ r + b \in Nat
  BY <1>1
<1>3. (a + b) % S = (r + b) % S
  BY ZenonT(60), <1>2, SameRemainder
<1> QED
  BY <1>1, <1>3

------------------------------------------------------------------------------
(* The stream goes through the buffer as it is.                            *)

(* What is recorded next follows what is in the buffer; a block is only    *)
(* written when the buffer has more than one.                              *)
OrderInv ==
    /\ buffer \in Seq(Nat) /\ recorded \in Nat /\ written \in Nat
    /\ recorded % Span = (written + Len(buffer)) % Span
    /\ writer = "data" => Len(buffer) > Media
    /\ KeptInOrder

(* AML_Usbcam_Record_From_Tsin puts the next chunks at the end.            *)
LEMMA RecordKeepsOrder ==
    ASSUME OrderInv, NEW n \in Nat, buffer' = buffer \o Chunks(n),
           recorded' = (recorded + n) % Span, written' = written
    PROVE  /\ buffer' \in Seq(Nat) /\ recorded' \in Nat
           /\ recorded' % Span = (written' + Len(buffer')) % Span
           /\ KeptInOrder'
<1> DEFINE l == Len(buffer)
<1>1. /\ buffer \in Seq(Nat) /\ l \in Nat /\ recorded \in Nat /\ written \in Nat
      /\ Span \in Nat \ {0} /\ recorded % Span = (written + l) % Span
  BY UsbCamAssumption, LenProperties DEF OrderInv
<1>2. /\ buffer' \in Seq(Nat) /\ Len(buffer') = l + n
  BY <1>1, RecordedLength
<1>3. \A b \in Nat : (recorded + b) % Span = (written + (l + b)) % Span
  <2> TAKE b \in Nat
  <2>1. (recorded + b) % Span = ((recorded % Span) + b) % Span
    BY <1>1, ModSum
  <2>2. written + l \in Nat
    BY <1>1
  <2>3. (((written + l) % Span) + b) % Span = ((written + l) + b) % Span
    BY <1>1, <2>2, ModSum
  <2>4. (written + l) + b = written + (l + b)
    BY <1>1
  <2> QED
    BY <1>1, <2>1, <2>3, <2>4
<1>4. recorded' \in Nat /\ recorded' % Span = (written' + Len(buffer')) % Span
  <2>1. recorded + n \in Nat
    BY <1>1
  <2>2. recorded' \in Nat
    BY <1>1, <2>1, Division
  <2>3. recorded' % Span = (recorded + n) % Span
    <3>1. (((recorded + n) % Span) + 0) % Span = ((recorded + n) + 0) % Span
      BY <1>1, <2>1, ModSum
    <3>2. ((recorded + n) % Span) + 0 = recorded' /\ (recorded + n) + 0 = recorded + n
      BY <1>1, <2>1, <2>2
    <3> QED
      BY <3>1, <3>2
  <2> QED
    BY <1>2, <1>3, <2>2, <2>3
<1>5. KeptInOrder'
  <2>0. SUFFICES ASSUME NEW i \in 1 .. l + n, NEW chunk, chunk = buffer'[i]
                 PROVE  chunk = (written + i - 1) % Span
    BY <1>1, <1>2, LenProperties DEF KeptInOrder
  <2>1. CASE i <= l
    <3>1. i \in 1 .. l /\ i \in DOMAIN buffer
      BY <1>1, <2>1, LenProperties
    <3>2. chunk = buffer[i]
      BY <1>1, <2>0, <3>1, RecordedChunks
    <3> QED
      BY <3>1, <3>2 DEF OrderInv, KeptInOrder
  <2>2. CASE i > l
    <3>1. PICK b \in Nat : i = l + b + 1 /\ b < n
      <4>1. i - l - 1 \in Nat /\ i = l + (i - l - 1) + 1 /\ i - l - 1 < n
        BY <1>1, <2>2
      <4> QED
        BY <4>1
    <3>2. chunk = (recorded + b) % Span
      BY <1>1, <2>0, <3>1, RecordedChunks
    <3>3. written + (l + b) = written + i - 1
      BY <1>1, <3>1
    <3>4. (recorded + b) % Span = (written + (l + b)) % Span
      BY <1>3
    <3>5. (written + (l + b)) % Span = (written + i - 1) % Span
      BY <3>3, Zenon
    <3> QED
      BY <3>2, <3>4, <3>5, Zenon
  <2> QED
    BY <1>1, <2>1, <2>2
<1> QED
  BY <1>2, <1>4, <1>5

(* The module has taken k chunks, which leave the buffer at its front.     *)
LEMMA WriteKeepsOrder ==
    ASSUME OrderInv, NEW k \in Nat, k <= Len(buffer), buffer' = Moved(buffer, k),
           written' = (written + k) % Span, recorded' = recorded
    PROVE  /\ buffer' \in Seq(Nat) /\ written' \in Nat
           /\ recorded' % Span = (written' + Len(buffer')) % Span
           /\ KeptInOrder'
<1> DEFINE l == Len(buffer)
<1>1. /\ buffer \in Seq(Nat) /\ l \in Nat /\ recorded \in Nat /\ written \in Nat
      /\ Span \in Nat \ {0} /\ recorded % Span = (written + l) % Span /\ k <= l
  BY UsbCamAssumption, LenProperties DEF OrderInv
<1>2. /\ buffer' \in Seq(Nat) /\ Len(buffer') = l - k
      /\ \A i \in 1 .. l - k : buffer'[i] = buffer[k + i]
  BY <1>1, MovedChunks
<1>3. written' \in Nat /\ \A b \in Nat : (written' + b) % Span = ((written + k) + b) % Span
  <2> DEFINE w == written + k
  <2>1. w \in Nat /\ written' = w % Span
    BY <1>1
  <2> HIDE DEF w
  <2>2. written' \in Nat
    BY <1>1, <2>1, Division
  <2>3. \A b \in Nat : (written' + b) % Span = (w + b) % Span
    <3> TAKE b \in Nat
    <3>1. ((w % Span) + b) % Span = (w + b) % Span
      BY <1>1, <2>1, ModSum
    <3> QED
      BY <2>1, <3>1, Zenon
  <2> QED
    BY <2>2, <2>3 DEF w
<1>4. recorded' % Span = (written' + Len(buffer')) % Span
  <2>1. l - k \in Nat /\ (written + k) + (l - k) = written + l
    BY <1>1
  <2> QED
    BY <1>1, <1>2, <1>3, <2>1
<1>5. KeptInOrder'
  <2> SUFFICES ASSUME NEW i \in 1 .. l - k
               PROVE  buffer'[i] = (written' + i - 1) % Span
    BY <1>1, <1>2, LenProperties DEF KeptInOrder
  <2>1. k + i \in 1 .. l /\ i - 1 \in Nat
    BY <1>1
  <2>2. buffer'[i] = (written + (k + i) - 1) % Span
    BY <1>1, <1>2, <2>1, LenProperties DEF OrderInv, KeptInOrder
  <2>3. (written' + (i - 1)) % Span = ((written + k) + (i - 1)) % Span
    BY <1>3, <2>1
  <2>4. written + (k + i) - 1 = (written + k) + (i - 1) /\ written' + i - 1 = written' + (i - 1)
    BY <1>1, <1>3
  <2> QED
    BY <2>2, <2>3, <2>4
<1> QED
  BY <1>2, <1>3, <1>4, <1>5

LEMMA OrderInvInit == UsbInit => OrderInv
<1> SUFFICES ASSUME UsbInit PROVE OrderInv
  OBVIOUS
<1>1. buffer = <<>> /\ recorded = 0 /\ written = 0 /\ writer = "none"
  BY DEF UsbInit
<1>2. buffer \in Seq(Nat) /\ Len(buffer) = 0 /\ DOMAIN buffer = {}
  BY <1>1, NoChunks
<1>3. recorded % Span = (written + Len(buffer)) % Span
  BY <1>1, <1>2
<1> QED
  BY <1>1, <1>2, <1>3 DEF OrderInv, KeptInOrder

(* Steps that leave the write task and its buffer alone.                   *)
LEMMA OrderInvKept ==
    ASSUME OrderInv, UNCHANGED <<buffer, recorded, written>>,
           writer' = "data" => writer = "data" \/ Len(buffer) > Media
    PROVE  OrderInv'
BY DEF OrderInv, KeptInOrder

(* AML_Usbcam_Media_Open makes the write task, with an empty buffer.       *)
LEMMA OrderInvCreate == OrderInv /\ CreateWrite => OrderInv'
<1> SUFFICES ASSUME OrderInv, CreateWrite PROVE OrderInv'
  OBVIOUS
<1>1. CASE /\ writer' = "info"
           /\ first_run' = TRUE /\ buffer' = <<>> /\ recorded' = 0 /\ written' = 0
  <2>1. buffer' \in Seq(Nat) /\ Len(buffer') = 0 /\ DOMAIN buffer' = {}
    BY <1>1, NoChunks
  <2>2. recorded' % Span = (written' + Len(buffer')) % Span
    BY <1>1, <2>1
  <2>3. KeptInOrder'
    BY <2>1 DEF KeptInOrder
  <2> QED
    BY <1>1, <2>1, <2>2, <2>3 DEF OrderInv
<1>2. CASE UNCHANGED writerVars
  BY <1>2, OrderInvKept DEF writerVars
<1> QED
  BY <1>1, <1>2 DEF CreateWrite

LEMMA OrderInvWriter == OrderInv /\ WriteTask => OrderInv'
<1> SUFFICES ASSUME OrderInv, WriteTask PROVE OrderInv'
  OBVIOUS
<1>1. CASE WriteInfo
  BY <1>1, OrderInvKept DEF WriteInfo
<1>2. CASE RecordFromTsin
  <2>1. written' = written /\ writer' # "data"
    BY <1>2 DEF RecordFromTsin
  <2>2. CASE UNCHANGED <<buffer, recorded>>
    BY <2>1, <2>2, OrderInvKept
  <2>3. CASE \E n \in Recorded \cup {0} :
                 buffer' = buffer \o Chunks(n) /\ recorded' = (recorded + n) % Span
    <3>1. PICK n \in Recorded \cup {0} :
              buffer' = buffer \o Chunks(n) /\ recorded' = (recorded + n) % Span
      BY <2>3
    <3>2. n \in Nat
      BY UsbCamAssumption
    <3>3. /\ buffer' \in Seq(Nat) /\ recorded' \in Nat
          /\ recorded' % Span = (written' + Len(buffer')) % Span
          /\ KeptInOrder'
      BY <2>1, <3>1, <3>2, RecordKeepsOrder
    <3>4. written' \in Nat
      BY <2>1 DEF OrderInv
    <3> QED
      BY <2>1, <3>3, <3>4, Zenon DEF OrderInv
  <2> QED
    BY <1>2, <2>2, <2>3 DEF RecordFromTsin
<1>3. CASE WriteHeader
  <2>1. Len(buffer) \in Nat /\ Media \in Nat
    BY LenProperties, UsbCamAssumption DEF OrderInv
  <2>2. UNCHANGED <<buffer, recorded, written>>
    BY <1>3 DEF WriteHeader
  <2>3. writer' = "data" => Len(buffer) > Media
    BY <1>3, <2>1 DEF WriteHeader
  <2> QED
    BY <2>2, <2>3, OrderInvKept
<1>4. CASE WriteData
  <2>1. recorded' = recorded /\ writer' # "data" /\ writer = "data"
    BY <1>4 DEF WriteData
  <2>2. CASE UNCHANGED <<buffer, written>>
    BY <2>1, <2>2, OrderInvKept
  <2>3. CASE \E k \in 0 .. Media :
                 buffer' = Moved(buffer, k) /\ written' = (written + k) % Span
    <3>1. PICK k \in 0 .. Media :
              buffer' = Moved(buffer, k) /\ written' = (written + k) % Span
      BY <2>3
    <3>2. Len(buffer) \in Nat /\ Len(buffer) > Media /\ Media \in Nat
      BY <2>1, LenProperties, UsbCamAssumption DEF OrderInv
    <3>3. k \in Nat /\ k <= Len(buffer)
      BY <3>2
    <3>4. /\ buffer' \in Seq(Nat) /\ written' \in Nat
          /\ recorded' % Span = (written' + Len(buffer')) % Span
          /\ KeptInOrder'
      BY <2>1, <3>1, <3>3, WriteKeepsOrder
    <3>5. recorded' \in Nat
      BY <2>1 DEF OrderInv
    <3> QED
      BY <2>1, <3>4, <3>5, Zenon DEF OrderInv
  <2> QED
    BY <1>4, <2>2, <2>3 DEF WriteData
<1> QED
  BY <1>1, <1>2, <1>3, <1>4 DEF WriteTask

(* What is in the buffer is always the part of the stream that comes after *)
(* what the module has got, for any sizes and however little it takes.     *)
THEOREM KeptInOrderTheorem == Spec => []KeptInOrder
<1>1. OrderInv /\ [Next]_vars => OrderInv'
  <2> SUFFICES ASSUME OrderInv, [Next]_vars PROVE OrderInv'
    OBVIOUS
  <2>1. CASE WriteTask
    BY <2>1, OrderInvWriter
  <2>2. CASE CreateWrite
    BY <2>2, OrderInvCreate
  <2>3. CASE UNCHANGED <<writer, buffer, recorded, written>>
    BY <2>3, OrderInvKept
  <2>4. MediaTask => CreateWrite \/ UNCHANGED <<writer, buffer, recorded, written>>
    BY DEF MediaTask, PollOpen, SetDemuxes, CreateRead, PollClose, Joined, writerVars
  <2>5. ReadTask => UNCHANGED <<writer, buffer, recorded, written>>
    BY DEF ReadTask, ReadInfo, ReadMedia, Inject, writerVars
  <2>6. Plug \/ Unplug \/ Report \/ StrayRead \/ (\E pass \in BOOLEAN : CIRouteTS(pass))
            \/ SourceStep \/ UNCHANGED vars
        => UNCHANGED <<writer, buffer, recorded, written>>
    BY DEF Plug, Unplug, Report, StrayRead, CIRouteTS, SourceStep, vars, usbVars, writerVars
  <2> QED
    BY <2>1, <2>2, <2>3, <2>4, <2>5, <2>6 DEF Next
<1>2. OrderInv => KeptInOrder
  BY DEF OrderInv
<1> QED
  BY <1>1, <1>2, OrderInvInit, PTL DEF Spec

------------------------------------------------------------------------------
(* The paths follow the route.                                             *)

Sources == [port : {"ts", "ts_1", "dma"}, n : Nat]
Caps == ClientCaps \cup {"none", "live", "recording", "usbcam"}
Choice == [source : {"tuner", "memory"}, param : Nat, cap : Caps]
Work == [at : {"idle", "get", "configure", "apply", "drive"}, path : Paths,
         source : {"tuner", "memory"}, param : Nat, cap : Caps, cfg : Sources, pass : BOOLEAN]

RouteTypes ==
    /\ ts_input_idx \in [Tuners -> 0 .. 4]
    /\ demux_status \in [Paths -> Choice]
    /\ hw_source \in [Paths \cup {InjDemux, RecDemux} -> Sources]
    /\ call \in [Callers -> Work]
    /\ \A p \in Paths : demux_status[p].source = "tuner" => demux_status[p].param \in Tuners

(* Where the input of a tuner is to be found.                              *)
Behind(i) == IF i = USBCAM_INPUT THEN {DMA(InjDemux)} ELSE {TS(i), TS_1(i)}
BehindTuner(param) == Behind(ts_input_idx[TunerOf(param)])

(* All tuners go through the USB module or none does.                      *)
Inputs == ThroughUsb => \A t \in Tuners : ts_input_idx[t] = USBCAM_INPUT

ForTuner(c) == call[c].source = "tuner"
At(c, places) == call[c].at \in places

(* A call that sets a path to a tuner sets it to one that there is.        *)
CallsTyped ==
    /\ ~At("client", {"get"})
    /\ \A c \in Callers : At(c, {"configure", "apply", "drive"}) /\ ForTuner(c)
          => call[c].param \in Tuners

(* What a caller that was not overtaken has decided on still holds.        *)
CallsFit ==
    \A c \in Callers \ overtaken :
        /\ At(c, {"configure"}) /\ ForTuner(c) => (call[c].cap = "usbcam" <=> ThroughUsb)
        /\ At(c, {"apply", "drive"}) /\ ForTuner(c) => call[c].cfg \in BehindTuner(call[c].param)
        /\ At(c, {"drive"}) => SameChoice(call[c], demux_status[call[c].path])

(* Who will still set a path.                                              *)
Coming(p) ==
    \/ ~At("router", {"idle"}) /\ p >= call["router"].path
    \/ \E c \in Callers : At(c, {"drive"}) /\ call[c].path = p

Follows ==
    \A p \in Paths \ astray : demux_status[p].source = "tuner"
        => hw_source[p] \in BehindTuner(demux_status[p].param) \/ Coming(p)

(* The write task records from the demux of the tuner.                     *)
RecordsTuner ==
    /\ media \in {"demuxes", "create read", "create write"} => writer \in Absent
    /\ media = "create write" => media_open_status
    /\ media = "poll" /\ ~media_open_status => writer \in Absent
    /\ ~misfed /\ (media \in {"create read", "create write"} \/ writer \notin Absent)
          => hw_source[RecDemux] = TS(InputOf[Last])

SourceInv == RouteTypes /\ Inputs /\ CallsTyped /\ CallsFit /\ Follows

LEMMA NoCallTyped ==
    /\ NoCall \in Work /\ NoCall.at = "idle" /\ NoCall.source = "tuner"
    /\ ~NoCall.pass /\ NoCall.path = 0
<1>1. TS(0) \in Sources /\ 0 \in Paths
  BY DemuxSourceAssumption DEF TS, Sources, Paths
<1> QED
  BY <1>1 DEF NoCall, Work, Caps

LEMMA SetCall ==
    ASSUME call \in [Callers -> Work], NEW c \in Callers, NEW k \in Work, Set(c, k)
    PROVE  /\ call' \in [Callers -> Work] /\ call'[c] = k
           /\ \A d \in Callers \ {c} : call'[d] = call[d]
BY DEF Set

LEMMA InputsTyped ==
    ASSUME RouteTypes, NEW param \in Nat
    PROVE  /\ TunerOf(param) \in Tuners /\ ts_input_idx[TunerOf(param)] \in 0 .. 4
           /\ param \in Tuners => TunerOf(param) = param
BY DemuxSourceAssumption DEF RouteTypes, TunerOf, Tuners

(* Where the inputs stay, what is behind them does.                        *)
LEMMA SameInputs ==
    ASSUME ts_input_idx' = ts_input_idx
    PROVE  /\ \A param : BehindTuner(param)' = BehindTuner(param)
           /\ ThroughUsb' <=> ThroughUsb
           /\ Inputs => Inputs'
BY DEF BehindTuner, ThroughUsb, Inputs

(* Steps that leave the client and the router alone.                       *)
LEMMA SourceInvKept ==
    ASSUME SourceInv, UNCHANGED <<ts_input_idx, demux_status, call, overtaken, astray>>,
           hw_source' \in [Paths \cup {InjDemux, RecDemux} -> Sources],
           \A p \in Paths : hw_source'[p] = hw_source[p]
    PROVE  SourceInv'
<1> USE DEF SourceInv
<1>1. RouteTypes' /\ Inputs' /\ CallsTyped'
  BY DEF RouteTypes, Inputs, ThroughUsb, CallsTyped, At, ForTuner
<1>2. CallsFit'
  BY SameInputs DEF CallsFit, At, ForTuner, SameChoice
<1>3. Follows'
  BY SameInputs DEF Follows, Coming, At
<1> QED
  BY <1>1, <1>2, <1>3

(* Steps by which one caller goes on in its call: what that takes.         *)
LEMMA SourceInvCaller ==
    ASSUME SourceInv, NEW c \in Callers, NEW k \in Work, Set(c, k),
           UNCHANGED <<ts_input_idx, demux_status, hw_source, astray>>,
           overtaken' \in {overtaken, overtaken \cup {c}},
           k.at # "drive", c = "client" => k.at # "get",
           k.at \in {"configure", "apply"} /\ k.source = "tuner" => k.param \in Tuners,
           c \notin overtaken' /\ k.source = "tuner" =>
               /\ k.at = "configure" => (k.cap = "usbcam" <=> ThroughUsb)
               /\ k.at = "apply" => k.cfg \in BehindTuner(k.param),
           call[c].at # "drive",
           c = "router" => \A p \in Paths \ astray :
               /\ demux_status[p].source = "tuner"
               /\ call["router"].at # "idle" /\ p >= call["router"].path
               => k.at # "idle" /\ p >= k.path
    PROVE  SourceInv'
<1> USE DEF SourceInv
<1>1. /\ call' \in [Callers -> Work] /\ call'[c] = k
      /\ \A d \in Callers \ {c} : call'[d] = call[d]
  BY SetCall DEF RouteTypes
<1>2. RouteTypes' /\ Inputs'
  BY <1>1, SameInputs DEF RouteTypes
<1>3. CallsTyped'
  BY <1>1 DEF CallsTyped, At, ForTuner, Callers
<1>4. CallsFit'
  <2> SUFFICES ASSUME NEW d \in Callers, d \notin overtaken'
               PROVE  /\ At(d, {"configure"})' /\ ForTuner(d)'
                            => (call'[d].cap = "usbcam" <=> ThroughUsb)
                      /\ At(d, {"apply", "drive"})' /\ ForTuner(d)'
                            => call'[d].cfg \in BehindTuner(call'[d].param)
                      /\ At(d, {"drive"})' => SameChoice(call'[d], demux_status[call'[d].path])
    BY SameInputs DEF CallsFit
  <2>1. CASE d = c
    BY <1>1, <2>1 DEF At, ForTuner
  <2>2. CASE d # c
    BY <1>1, <2>2 DEF CallsFit, At, ForTuner
  <2> QED
    BY <2>1, <2>2
<1>5. Follows'
  <2> SUFFICES ASSUME NEW p \in Paths \ astray, demux_status[p].source = "tuner",
                      hw_source[p] \notin BehindTuner(demux_status[p].param)
               PROVE  Coming(p)'
    BY SameInputs DEF Follows
  <2>1. CASE \E d \in Callers : call[d].at = "drive" /\ call[d].path = p
    BY <1>1, <2>1 DEF Coming, At
  <2>2. CASE call["router"].at # "idle" /\ p >= call["router"].path
    <3>1. call'["router"].at # "idle" /\ p >= call'["router"].path
      BY <1>1, <2>2 DEF Callers
    <3> QED
      BY <3>1 DEF Coming, At
  <2> QED
    BY <2>1, <2>2 DEF Follows, Coming, At
<1> QED
  BY <1>2, <1>3, <1>4, <1>5

(* STB_DMXSetDemuxSource: the client says when it goes through the module. *)
LEMMA SourceInvClient ==
    ASSUME SourceInv, NEW p \in Paths, NEW source \in {"tuner", "memory"}, NEW param \in Tuners,
           NEW cap \in ClientCaps, SetDemuxSource(p, source, param, cap)
    PROVE  SourceInv'
<1> DEFINE k == [NoCall EXCEPT !.at = "configure", !.path = p, !.source = source,
                               !.param = param, !.cap = cap]
<1>1. /\ Set("client", k) /\ call["client"].at = "idle"
      /\ (cap = "usbcam") = (ThroughUsb /\ source = "tuner")
      /\ UNCHANGED <<ts_input_idx, demux_status, hw_source, overtaken, astray>>
  BY DEF SetDemuxSource, Idle
<1>2. /\ k \in Work /\ k.at = "configure" /\ k.source = source /\ k.cap = cap
      /\ k.param = param
  <2>1. param \in Nat
    BY DemuxSourceAssumption DEF Tuners
  <2> QED
    BY <2>1, NoCallTyped DEF Work, Caps
<1> HIDE DEF k
<1>3. k.source = "tuner" => (k.cap = "usbcam" <=> ThroughUsb)
  BY <1>1, <1>2
<1> QED
  BY <1>1, <1>2, <1>3, SourceInvCaller DEF Callers

(* The source for the input of a tuner is behind that input, if the client *)
(* or the router knows whether the stream goes through the module.         *)
LEMMA ConfiguredBehind ==
    ASSUME RouteTypes, Inputs, NEW param \in Tuners, NEW cap, cap = "usbcam" <=> ThroughUsb
    PROVE  Configured(ts_input_idx[TunerOf(param)], "tuner", cap) \in BehindTuner(param)
<1> DEFINE i == ts_input_idx[TunerOf(param)]
<1>1. param \in Nat
  BY DemuxSourceAssumption DEF Tuners
<1>2. TunerOf(param) \in Tuners
  BY <1>1, InputsTyped
<1>3. ThroughUsb <=> i = USBCAM_INPUT
  BY <1>2 DEF Inputs, ThroughUsb
<1> HIDE DEF i
<1>4. Configured(i, "tuner", cap) \in Behind(i)
  BY <1>3 DEF Configured, Behind, USBCAM_INPUT, InjDemux
<1> QED
  BY <1>4 DEF i, BehindTuner

LEMMA ConfiguredTyped ==
    ASSUME NEW i \in Nat, NEW source, NEW cap
    PROVE  Configured(i, source, cap) \in Sources
BY DEF Configured, Sources, DMA, TS, TS_1

LEMMA SourceInvConfigure ==
    ASSUME SourceInv, NEW c \in Callers, Configure(c)
    PROVE  SourceInv'
<1> USE DEF SourceInv
<1> DEFINE w == call[c]
           cfg == Configured(ts_input_idx[TunerOf(w.param)], w.source, w.cap)
           k == [w EXCEPT !.at = "apply", !.cfg = cfg]
<1>1. /\ w.at = "configure" /\ Set(c, k)
      /\ UNCHANGED <<ts_input_idx, demux_status, hw_source, overtaken, astray>>
  BY DEF Configure
<1>2. w \in Work
  BY DEF RouteTypes
<1>3. cfg \in Sources
  <2>1. ts_input_idx[TunerOf(w.param)] \in Nat
    BY <1>2, InputsTyped DEF Work
  <2> QED
    BY <2>1, ConfiguredTyped
<1>4. w.source = "tuner" => w.param \in Tuners
  BY <1>1 DEF CallsTyped, At, ForTuner
<1>5. c \notin overtaken /\ w.source = "tuner" => cfg \in BehindTuner(w.param)
  <2> SUFFICES ASSUME c \notin overtaken, w.source = "tuner" PROVE cfg \in BehindTuner(w.param)
    OBVIOUS
  <2>1. w.cap = "usbcam" <=> ThroughUsb
    BY <1>1 DEF CallsFit, At, ForTuner
  <2> QED
    BY <1>4, <2>1, ConfiguredBehind
<1> HIDE DEF cfg
<1>6. /\ k \in Work /\ k.at = "apply" /\ k.source = w.source /\ k.cfg = cfg
      /\ k.param = w.param /\ k.path = w.path
  BY <1>2, <1>3 DEF Work
<1> HIDE DEF k
<1>7. c \notin overtaken' /\ k.source = "tuner" =>
               /\ k.at = "configure" => (k.cap = "usbcam" <=> ThroughUsb)
               /\ k.at = "apply" => k.cfg \in BehindTuner(k.param)
  BY <1>1, <1>5, <1>6
<1> QED
  BY <1>1, <1>4, <1>6, <1>7, SourceInvCaller

(* The router goes on with its next path.                                  *)
LEMMA AfterApplyTyped ==
    ASSUME RouteTypes, NEW c \in Callers
    PROVE  /\ AfterApply(c) \in Work
           /\ AfterApply(c).at \in {"idle", "get"}
           /\ c = "client" => AfterApply(c).at = "idle"
           /\ c = "router" => \A p \in Paths : p >= call[c].path /\ p # call[c].path
                 => AfterApply(c).at = "get" /\ p >= AfterApply(c).path
<1> DEFINE w == call[c]
           q == w.path
<1>1. w \in Work /\ q \in Paths /\ Paths \subseteq Nat /\ NumPaths \in Nat
  BY DemuxSourceAssumption DEF RouteTypes, Work, Paths
<1>2. CASE c = "router" /\ q < NumPaths - 1
  <2> DEFINE k == [NoCall EXCEPT !.at = "get", !.path = q + 1, !.pass = w.pass]
  <2>1. AfterApply(c) = k
    BY <1>2 DEF AfterApply
  <2>2. q + 1 \in Paths
    BY <1>1, <1>2 DEF Paths
  <2>3. k \in Work /\ k.at = "get" /\ k.path = q + 1
    BY <1>1, <2>2, NoCallTyped DEF Work
  <2> HIDE DEF k
  <2>4. \A p \in Paths : p >= q /\ p # q => p >= k.path
    BY <1>1, <2>3 DEF Paths
  <2> QED
    BY <1>2, <2>1, <2>3, <2>4
<1>3. CASE ~(c = "router" /\ q < NumPaths - 1)
  <2>1. AfterApply(c) = NoCall
    BY <1>3 DEF AfterApply
  <2>2. c = "router" => \A p \in Paths : ~(p >= q /\ p # q)
    BY <1>1, <1>3 DEF Paths
  <2> QED
    BY <2>1, <2>2, NoCallTyped DEF Callers
<1> QED
  BY <1>2, <1>3

(* A caller is done with its path, which fits or is astray.                *)
LEMMA SourceInvDone ==
    ASSUME SourceInv, NEW c \in Callers, Set(c, AfterApply(c)), call[c].at # "idle",
           UNCHANGED <<ts_input_idx, demux_status>>, overtaken' = overtaken \ {c},
           hw_source' \in [Paths \cup {InjDemux, RecDemux} -> Sources],
           \A p \in Paths \ {call[c].path} :
               hw_source'[p] = hw_source[p] /\ (p \in astray' <=> p \in astray),
           LET q == call[c].path
           IN  q \notin astray' /\ demux_status[q].source = "tuner"
                   => hw_source'[q] \in BehindTuner(demux_status[q].param)
    PROVE  SourceInv'
<1> USE DEF SourceInv
<1> DEFINE k == AfterApply(c)
           q == call[c].path
<1>1. /\ k \in Work /\ k.at \in {"idle", "get"} /\ (c = "client" => k.at = "idle")
      /\ c = "router" => \A p \in Paths : p >= q /\ p # q => k.at = "get" /\ p >= k.path
  BY AfterApplyTyped
<1> HIDE DEF k
<1>2. /\ call' \in [Callers -> Work] /\ call'[c] = k
      /\ \A d \in Callers \ {c} : call'[d] = call[d]
  BY <1>1, SetCall DEF RouteTypes, k
<1>3. RouteTypes' /\ Inputs'
  BY <1>2, SameInputs DEF RouteTypes
<1>4. CallsTyped'
  BY <1>1, <1>2 DEF CallsTyped, At, ForTuner, Callers
<1>5. CallsFit'
  <2> SUFFICES ASSUME NEW d \in Callers, d \notin overtaken'
               PROVE  /\ At(d, {"configure"})' /\ ForTuner(d)'
                            => (call'[d].cap = "usbcam" <=> ThroughUsb)
                      /\ At(d, {"apply", "drive"})' /\ ForTuner(d)'
                            => call'[d].cfg \in BehindTuner(call'[d].param)
                      /\ At(d, {"drive"})' => SameChoice(call'[d], demux_status[call'[d].path])
    BY SameInputs DEF CallsFit
  <2>1. CASE d = c
    BY <1>1, <1>2, <2>1 DEF At, ForTuner
  <2>2. CASE d # c
    BY <1>2, <2>2 DEF CallsFit, At, ForTuner
  <2> QED
    BY <2>1, <2>2
<1>6. Follows'
  <2> SUFFICES ASSUME NEW p \in Paths \ astray', demux_status[p].source = "tuner",
                      hw_source'[p] \notin BehindTuner(demux_status[p].param)
               PROVE  Coming(p)'
    BY SameInputs DEF Follows
  <2>1. p # q
    OBVIOUS
  <2>2. p \notin astray /\ hw_source[p] \notin BehindTuner(demux_status[p].param)
    BY <2>1
  <2>3. CASE \E d \in Callers : call[d].at = "drive" /\ call[d].path = p
    BY <1>2, <2>1, <2>3 DEF Coming, At
  <2>4. CASE call["router"].at # "idle" /\ p >= call["router"].path
    <3>1. call'["router"].at # "idle" /\ p >= call'["router"].path
      BY <1>1, <1>2, <2>1, <2>4 DEF Callers
    <3> QED
      BY <3>1 DEF Coming, At
  <2> QED
    BY <2>2, <2>3, <2>4 DEF Follows, Coming, At
<1> QED
  BY <1>3, <1>4, <1>5, <1>6

(* Nothing was to be done: the path is as it was decided.                  *)
LEMMA SourceInvSame ==
    ASSUME SourceInv, NEW c \in Callers, ApplySame(c)
    PROVE  SourceInv'
<1> DEFINE w == call[c]
           q == w.path
<1>1. /\ w.at = "apply" /\ Set(c, AfterApply(c))
      /\ SameChoice(w, demux_status[q]) /\ w.cfg = hw_source[q]
      /\ UNCHANGED <<ts_input_idx, demux_status, hw_source>> /\ overtaken' = overtaken \ {c}
      /\ astray' = IF c \notin overtaken THEN astray \ {q} ELSE astray \cup {q}
  BY DEF ApplySame, Strays, Unchanged
<1>2. q \notin astray' => c \notin overtaken
  BY <1>1
<1>3. q \notin astray' /\ demux_status[q].source = "tuner"
          => hw_source'[q] \in BehindTuner(demux_status[q].param)
  BY <1>1, <1>2 DEF SourceInv, CallsFit, At, ForTuner, SameChoice
<1>4. hw_source' \in [Paths \cup {InjDemux, RecDemux} -> Sources]
  BY <1>1 DEF SourceInv, RouteTypes
<1>5. \A p \in Paths \ {q} : hw_source'[p] = hw_source[p] /\ (p \in astray' <=> p \in astray)
  BY <1>1
<1>6. call[c].at # "idle"
  BY <1>1
<1> HIDE DEF w, q
<1> QED
  BY <1>1, <1>3, <1>4, <1>5, <1>6, SourceInvDone DEF w, q

(* The driver takes the source, or the path is astray.                     *)
LEMMA SourceInvDrive ==
    ASSUME SourceInv, NEW c \in Callers, Drive(c)
    PROVE  SourceInv'
<1> DEFINE w == call[c]
           q == w.path
           s == IF w.source = "tuner" THEN w.cfg ELSE DMA(q)
<1>1. /\ w.at = "drive" /\ Set(c, AfterApply(c)) /\ UNCHANGED <<ts_input_idx, demux_status>>
      /\ overtaken' = overtaken \ {c}
      /\ \/ /\ hw_source' = [hw_source EXCEPT ![q] = s]
            /\ astray' = IF c \notin overtaken THEN astray \ {q} ELSE astray \cup {q}
         \/ hw_source' = hw_source /\ astray' = astray \cup {q}
  BY DEF Drive, Strays, DvbSetDemuxSource
<1>2. /\ w \in Work /\ q \in Paths /\ q \in Nat
      /\ hw_source \in [Paths \cup {InjDemux, RecDemux} -> Sources]
  BY DemuxSourceAssumption DEF SourceInv, RouteTypes, Work, Paths
<1>3. s \in Sources /\ (w.source = "tuner" => s = w.cfg)
  BY <1>2 DEF Work, Sources, DMA
<1>4. c \notin overtaken => SameChoice(w, demux_status[q])
  BY <1>1 DEF SourceInv, CallsFit, At
<1>5. c \notin overtaken /\ w.source = "tuner" => w.cfg \in BehindTuner(w.param)
  BY <1>1 DEF SourceInv, CallsFit, At, ForTuner
<1> HIDE DEF s
<1>6. /\ hw_source' \in [Paths \cup {InjDemux, RecDemux} -> Sources]
      /\ \A p \in Paths \ {q} : hw_source'[p] = hw_source[p] /\ (p \in astray' <=> p \in astray)
  BY <1>1, <1>2, <1>3
<1>7. q \notin astray' => c \notin overtaken /\ hw_source'[q] = s
  BY <1>1, <1>2
<1>8. q \notin astray' /\ demux_status[q].source = "tuner"
          => hw_source'[q] \in BehindTuner(demux_status[q].param)
  BY <1>3, <1>4, <1>5, <1>7 DEF SameChoice
<1>9. call[c].at # "idle"
  BY <1>1
<1> HIDE DEF w, q
<1> QED
  BY <1>1, <1>6, <1>8, <1>9, SourceInvDone DEF w, q

(* The new choice is noted; another that was about to tell the driver of   *)
(* this path is overtaken, unless it has chosen the same.                  *)
LEMMA SourceInvNew ==
    ASSUME SourceInv, NEW c \in Callers, ApplyNew(c)
    PROVE  SourceInv'
<1> USE DEF SourceInv
<1> DEFINE w == call[c]
           q == w.path
           e == [source |-> w.source, param |-> w.param, cap |-> w.cap]
           k == [w EXCEPT !.at = "drive"]
           overwritten == {d \in Callers : /\ call[d].at = "drive" /\ call[d].path = q
                                           /\ ~SameChoice(call[d], w)}
<1>1. /\ w.at = "apply" /\ Set(c, k) /\ UNCHANGED <<ts_input_idx, hw_source, astray>>
      /\ demux_status' = [demux_status EXCEPT ![q] = e]
      /\ overtaken' = overtaken \cup overwritten
  BY DEF ApplyNew
<1>2. w \in Work /\ q \in Paths
  BY DEF RouteTypes, Work
<1>3. e \in Choice /\ e.source = w.source /\ e.param = w.param
  BY <1>2 DEF Work, Choice
<1>4. /\ k \in Work /\ k.at = "drive" /\ k.path = q /\ k.source = w.source
      /\ k.param = w.param /\ k.cfg = w.cfg
  BY <1>2 DEF Work
<1> HIDE DEF e, k
<1>5. /\ call' \in [Callers -> Work] /\ call'[c] = k
      /\ \A d \in Callers \ {c} : call'[d] = call[d]
  BY <1>1, <1>4, SetCall DEF RouteTypes
<1>6. /\ demux_status' \in [Paths -> Choice] /\ demux_status'[q] = e
      /\ \A p \in Paths \ {q} : demux_status'[p] = demux_status[p]
  BY <1>1, <1>2, <1>3 DEF RouteTypes
<1>7. w.source = "tuner" => w.param \in Tuners
  BY <1>1 DEF CallsTyped, At, ForTuner
<1>8. RouteTypes' /\ Inputs'
  BY <1>1, <1>3, <1>5, <1>6, <1>7, SameInputs DEF RouteTypes
<1>9. CallsTyped'
  BY <1>4, <1>5, <1>7 DEF CallsTyped, At, ForTuner, Callers
<1>10. CallsFit'
  <2> SUFFICES ASSUME NEW d \in Callers, d \notin overtaken'
               PROVE  /\ At(d, {"configure"})' /\ ForTuner(d)'
                            => (call'[d].cap = "usbcam" <=> ThroughUsb)
                      /\ At(d, {"apply", "drive"})' /\ ForTuner(d)'
                            => call'[d].cfg \in BehindTuner(call'[d].param)
                      /\ At(d, {"drive"})' => SameChoice(call'[d], demux_status'[call'[d].path])
    BY <1>1, SameInputs DEF CallsFit
  <2>1. d \notin overtaken /\ d \notin overwritten
    BY <1>1
  <2>2. CASE d = c
    <3>1. call'[d] = k /\ (w.source = "tuner" => w.cfg \in BehindTuner(w.param))
      BY <1>1, <1>5, <2>1, <2>2 DEF CallsFit, At, ForTuner
    <3>2. SameChoice(k, demux_status'[k.path])
      BY <1>3, <1>4, <1>6 DEF SameChoice
    <3> QED
      BY <1>4, <3>1, <3>2 DEF At, ForTuner
  <2>3. CASE d # c
    <3>1. call'[d] = call[d] /\ call[d] \in Work /\ call[d].path \in Paths
      BY <1>5, <2>3 DEF RouteTypes, Work
    <3>2. call[d].at = "drive" => SameChoice(call[d], demux_status'[call[d].path])
      <4>1. CASE call[d].path = q
        BY <1>3, <1>6, <2>1, <4>1 DEF SameChoice
      <4>2. CASE call[d].path # q
        BY <1>6, <2>1, <3>1, <4>2 DEF CallsFit, At
      <4> QED
        BY <4>1, <4>2
    <3> QED
      BY <2>1, <3>1, <3>2 DEF CallsFit, At, ForTuner
  <2> QED
    BY <2>2, <2>3
<1>11. Follows'
  <2> SUFFICES ASSUME NEW p \in Paths \ astray, demux_status'[p].source = "tuner",
                      hw_source[p] \notin BehindTuner(demux_status'[p].param)
               PROVE  Coming(p)'
    BY <1>1, SameInputs DEF Follows
  <2>1. CASE p = q
    BY <1>4, <1>5, <2>1 DEF Coming, At
  <2>2. CASE p # q
    <3>1. Coming(p)
      BY <1>6, <2>2 DEF Follows
    <3>2. CASE \E d \in Callers : call[d].at = "drive" /\ call[d].path = p
      BY <1>1, <1>5, <3>2 DEF Coming, At
    <3>3. CASE call["router"].at # "idle" /\ p >= call["router"].path
      <4>1. call'["router"].at # "idle" /\ call'["router"].path = call["router"].path
        BY <1>4, <1>5, <3>3 DEF Callers
      <4> QED
        BY <3>3, <4>1 DEF Coming, At
    <3> QED
      BY <3>1, <3>2, <3>3 DEF Coming, At
  <2> QED
    BY <2>1, <2>2
<1> QED
  BY <1>8, <1>9, <1>10, <1>11

(* STB_DMXRouteTS begins: the inputs change and the paths are still to be  *)
(* set, all of them.                                                       *)
LEMMA SourceInvRoute ==
    ASSUME SourceInv, NEW pass \in BOOLEAN, RouteTS(pass)
    PROVE  SourceInv'
<1> USE DEF SourceInv
<1> DEFINE k == [NoCall EXCEPT !.at = "get", !.pass = pass]
<1>1. /\ call["router"].at = "idle" /\ Set("router", k)
      /\ ts_input_idx' = [t \in Tuners |-> RoutedInput(t, pass)]
      /\ UNCHANGED <<demux_status, hw_source, astray>>
      /\ overtaken' = IF ts_input_idx' = ts_input_idx \/ call["client"].at = "idle" THEN overtaken
                      ELSE overtaken \cup {"client"}
  BY DEF RouteTS, Idle
<1>2. k \in Work /\ k.at = "get" /\ k.path = 0
  BY NoCallTyped DEF Work
<1> HIDE DEF k
<1>3. call' \in [Callers -> Work] /\ call'["router"] = k /\ call'["client"] = call["client"]
  BY <1>1, <1>2, SetCall DEF RouteTypes, Callers
<1>4. \A t \in Tuners : InputOf[t] \in 0 .. 3
  BY DemuxSourceAssumption
<1>5. \A t \in Tuners : /\ ts_input_idx'[t] \in 0 .. 4
                        /\ ts_input_idx'[t] = USBCAM_INPUT <=> pass /\ module_inserted
  BY <1>1, <1>4, DemuxSourceAssumption DEF RoutedInput, USBCAM_INPUT
<1>6. RouteTypes' /\ Inputs'
  BY <1>1, <1>3, <1>5 DEF RouteTypes, Inputs, ThroughUsb
<1>7. CallsTyped'
  BY <1>2, <1>3 DEF CallsTyped, At, ForTuner, Callers
<1>8. CallsFit'
  <2>1. ~At("router", {"configure", "apply", "drive"})'
    BY <1>2, <1>3 DEF At
  <2>2. CASE ts_input_idx' = ts_input_idx
    BY <1>1, <1>3, <2>1, <2>2, SameInputs DEF CallsFit, At, ForTuner, Callers
  <2>3. CASE call["client"].at = "idle"
    BY <1>3, <2>1, <2>3 DEF CallsFit, At, Callers
  <2>4. CASE "client" \in overtaken'
    BY <2>1, <2>4 DEF CallsFit, At, Callers
  <2> QED
    BY <1>1, <2>2, <2>3, <2>4
<1>9. Follows'
  <2>1. \A p \in Paths : p >= call'["router"].path /\ call'["router"].at # "idle"
    BY <1>2, <1>3, DemuxSourceAssumption DEF Paths
  <2> QED
    BY <1>1, <2>1 DEF Follows, Coming, At
<1> QED
  BY <1>6, <1>7, <1>8, <1>9

(* The router looks at its next path, and says whether it goes through the *)
(* module.                                                                 *)
LEMMA SourceInvPath ==
    ASSUME SourceInv, RoutePath
    PROVE  SourceInv'
<1> USE DEF SourceInv
<1> DEFINE w == call["router"]
           st == demux_status[w.path]
           ofParam == CASE st.param = 1 -> "live" [] st.param = 4 -> "recording"
                        [] st.param = 64 -> "usbcam" [] OTHER -> "none"
           cap == IF w.pass /\ module_inserted THEN "usbcam" ELSE ofParam
<1>1. w.at = "get" /\ UNCHANGED <<ts_input_idx, demux_status, hw_source, astray>>
  BY DEF RoutePath
<1>2. w \in Work /\ w.path \in Paths /\ st \in Choice
  BY DEF RouteTypes, Callers, Work
<1>3. CASE st.source = "tuner"
  <2> DEFINE k == [w EXCEPT !.at = "configure", !.source = "tuner", !.param = 0, !.cap = cap]
  <2>1. /\ Set("router", k)
        /\ overtaken' = IF (cap = "usbcam") = ThroughUsb THEN overtaken
                        ELSE overtaken \cup {"router"}
    BY <1>3 DEF RoutePath
  <2>2. cap \in Caps
    <3>1. ofParam \in {"none", "live", "recording", "usbcam"}
      OBVIOUS
    <3> HIDE DEF ofParam
    <3> QED
      BY <3>1 DEF Caps
  <2> HIDE DEF cap
  <2>3. k \in Work /\ k.at = "configure" /\ k.param = 0 /\ k.cap = cap /\ k.path = w.path
    BY <1>2, <2>2 DEF Work
  <2> HIDE DEF k
  <2>4. 0 \in Tuners
    BY DemuxSourceAssumption DEF Tuners
  <2>5. "router" \notin overtaken' => (k.cap = "usbcam" <=> ThroughUsb)
    BY <2>1, <2>3
  <2>6. overtaken' \in {overtaken, overtaken \cup {"router"}}
    BY <2>1
  <2> QED
    BY <1>1, <2>1, <2>3, <2>4, <2>5, <2>6, SourceInvCaller DEF Callers
<1>4. CASE st.source # "tuner"
  <2> DEFINE k == AfterApply("router")
  <2>1. Set("router", k) /\ overtaken' = overtaken
    BY <1>4 DEF RoutePath
  <2>2. /\ k \in Work /\ k.at \in {"idle", "get"}
        /\ \A p \in Paths : p >= w.path /\ p # w.path => k.at = "get" /\ p >= k.path
    BY AfterApplyTyped DEF Callers
  <2> HIDE DEF k
  <2>3. \A p \in Paths \ astray : /\ demux_status[p].source = "tuner"
                                  /\ w.at # "idle" /\ p >= w.path
            => k.at # "idle" /\ p >= k.path
    BY <1>4, <2>2
  <2> QED
    BY <1>1, <2>1, <2>2, <2>3, SourceInvCaller DEF Callers
<1> QED
  BY <1>3, <1>4

(* AML_Usbcam_Set_Demuxes leaves the demuxes of the paths alone.           *)
LEMMA DemuxesApart ==
    ASSUME RouteTypes, NEW taken \in SUBSET {InjDemux, RecDemux}
    PROVE  /\ RecDemux \notin Paths
           /\ DemuxesSet(taken) \in [Paths \cup {InjDemux, RecDemux} -> Sources]
           /\ \A p \in Paths : DemuxesSet(taken)[p] = hw_source[p]
           /\ RecDemux \in taken => DemuxesSet(taken)[RecDemux] = TS(ts_input_idx[Last])
<1>1. InjDemux \notin Paths /\ RecDemux \notin Paths /\ InjDemux # RecDemux
  BY DemuxSourceAssumption DEF Paths, InjDemux, RecDemux
<1>2. Last \in Tuners /\ ts_input_idx[Last] \in 0 .. 4
  BY DemuxSourceAssumption DEF Last, Tuners, RouteTypes
<1> DEFINE e == DMA(InjDemux)
           s == TS(ts_input_idx[Last])
<1>3. e \in Sources /\ s \in Sources
  BY <1>2 DEF DMA, TS, Sources, InjDemux
<1>4. hw_source \in [Paths \cup {InjDemux, RecDemux} -> Sources]
  BY DEF RouteTypes
<1>5. DemuxesSet(taken) = [d \in Paths \cup {InjDemux, RecDemux} |->
          IF d \notin taken THEN hw_source[d] ELSE IF d = InjDemux THEN e ELSE s]
  BY <1>4 DEF DemuxesSet
<1> HIDE DEF e, s
<1>6. /\ DemuxesSet(taken) \in [Paths \cup {InjDemux, RecDemux} -> Sources]
      /\ \A p \in Paths : DemuxesSet(taken)[p] = hw_source[p]
      /\ RecDemux \in taken => DemuxesSet(taken)[RecDemux] = s
  BY <1>1, <1>3, <1>4, <1>5
<1> QED
  BY <1>1, <1>6 DEF s

LEMMA SourceInvMedia == SourceInv /\ MediaTask => SourceInv'
<1> SUFFICES ASSUME SourceInv, MediaTask PROVE SourceInv'
  OBVIOUS
<1>1. UNCHANGED <<ts_input_idx, demux_status, call, overtaken, astray>>
  BY DEF MediaTask, PollOpen, SetDemuxes, CreateRead, CreateWrite, PollClose, Joined, sourceVars
<1>2. \/ hw_source' = hw_source
      \/ \E taken \in SUBSET {InjDemux, RecDemux} : hw_source' = DemuxesSet(taken)
  <2>1. CASE SetDemuxes
    BY <2>1 DEF SetDemuxes
  <2>2. CASE ~SetDemuxes
    BY <2>2 DEF MediaTask, PollOpen, CreateRead, CreateWrite, PollClose, Joined, sourceVars
  <2> QED
    BY <2>1, <2>2
<1>3. RouteTypes
  BY DEF SourceInv
<1>4. /\ hw_source' \in [Paths \cup {InjDemux, RecDemux} -> Sources]
      /\ \A p \in Paths : hw_source'[p] = hw_source[p]
  <2>1. CASE hw_source' = hw_source
    BY <1>3, <2>1 DEF RouteTypes
  <2>2. CASE \E taken \in SUBSET {InjDemux, RecDemux} : hw_source' = DemuxesSet(taken)
    BY <1>3, <2>2, DemuxesApart
  <2> QED
    BY <1>2, <2>1, <2>2
<1> QED
  BY <1>1, <1>4, SourceInvKept

(* The module comes and goes, and the tasks do their work.                 *)
LEMMA SourceInvElsewhere ==
    ASSUME SourceInv,
           Plug \/ Unplug \/ Report \/ ReadTask \/ StrayRead \/ WriteTask \/ UNCHANGED vars
    PROVE  SourceInv'
<1>1. UNCHANGED sourceVars
  BY DEF Plug, Unplug, Report, StrayRead, ReadTask, ReadInfo, ReadMedia, Inject, WriteTask,
         WriteInfo, RecordFromTsin, WriteHeader, WriteData, Elsewhere, vars
<1>2. UNCHANGED <<ts_input_idx, demux_status, call, overtaken, astray, hw_source>>
  BY <1>1 DEF sourceVars
<1>3. hw_source \in [Paths \cup {InjDemux, RecDemux} -> Sources]
  BY DEF SourceInv, RouteTypes
<1> QED
  BY <1>2, <1>3, SourceInvKept

------------------------------------------------------------------------------
(* What is recorded for the module.                                        *)

(* The paths are not the demux that is recorded.                           *)
LEMMA DriveElsewhere ==
    ASSUME RouteTypes, NEW c \in Callers, Drive(c)
    PROVE  hw_source'[RecDemux] = hw_source[RecDemux]
<1> DEFINE q == call[c].path
<1>1. q # RecDemux /\ q \in Paths
  BY DemuxSourceAssumption DEF RouteTypes, Work, Paths, RecDemux
<1>2. hw_source' = hw_source \/ \E s : hw_source' = [hw_source EXCEPT ![q] = s]
  BY DEF Drive, DvbSetDemuxSource
<1> QED
  BY <1>1, <1>2 DEF RouteTypes

(* Steps that neither make nor end a task, or end one.                     *)
LEMMA RecordsKept ==
    ASSUME RecordsTuner, UNCHANGED <<media, media_open_status, misfed>>,
           hw_source'[RecDemux] = hw_source[RecDemux],
           writer \in Absent => writer' = writer
    PROVE  RecordsTuner'
BY DEF RecordsTuner

LEMMA RecordsSource == RouteTypes /\ RecordsTuner /\ SourceStep => RecordsTuner'
<1> SUFFICES ASSUME RouteTypes, RecordsTuner, SourceStep PROVE RecordsTuner'
  OBVIOUS
<1>1. UNCHANGED <<media, media_open_status, misfed, writer>>
  BY DEF SourceStep, usbVars
<1>2. hw_source' = hw_source \/ \E c \in Callers : Drive(c)
  BY DEF SourceStep, SourceNext, SetDemuxSource, Configure, ApplySame, ApplyNew, RoutePath
<1>3. hw_source'[RecDemux] = hw_source[RecDemux]
  BY <1>2, DriveElsewhere
<1> QED
  BY <1>1, <1>3, RecordsKept

LEMMA RecordsElsewhere ==
    ASSUME RecordsTuner,
           \/ Plug \/ Unplug \/ Report \/ ReadTask \/ StrayRead \/ WriteTask \/ UNCHANGED vars
           \/ \E pass \in BOOLEAN : CIRouteTS(pass)
    PROVE  RecordsTuner'
<1>1. /\ UNCHANGED <<media, media_open_status, misfed, hw_source>>
      /\ writer \in Absent => writer' = writer
  BY DEF Plug, Unplug, Report, StrayRead, ReadTask, ReadInfo, ReadMedia, Inject, WriteTask,
         WriteInfo, RecordFromTsin, WriteHeader, WriteData, Elsewhere, CIRouteTS, RouteTS, vars,
         usbVars, sourceVars, readerVars, writerVars, Absent
<1> QED
  BY <1>1, RecordsKept

(* The steps of the media task: the demuxes are set before a task is made. *)
LEMMA RecordsMedia ==
    ASSUME RouteTypes, RecordsTuner, MediaTask
    PROVE  RecordsTuner'
<1>1. CASE PollOpen
  <2>1. /\ media = "poll" /\ ~media_open_status /\ media' \in {"poll", "demuxes"}
        /\ UNCHANGED <<hw_source, media_open_status, writer, misfed>>
    BY <1>1 DEF PollOpen, sourceVars, writerVars
  <2> QED
    BY <2>1 DEF RecordsTuner
<1>2. CASE SetDemuxes
  <2>1. media = "demuxes" /\ UNCHANGED <<media_open_status, writer>> /\ writer \in Absent
    BY <1>2 DEF SetDemuxes, writerVars, RecordsTuner
  <2>2. CASE media' = "poll"
    BY <2>1, <2>2 DEF RecordsTuner
  <2>3. CASE media' = "create read" /\ hw_source' = DemuxesSet({InjDemux, RecDemux})
             /\ (misfed' = (ts_input_idx[Last] # InputOf[Last]))
    <3>1. hw_source'[RecDemux] = TS(ts_input_idx[Last])
      BY <2>3, DemuxesApart
    <3>2. ~misfed' => hw_source'[RecDemux] = TS(InputOf[Last])
      BY <2>3, <3>1
    <3> QED
      BY <2>1, <2>3, <3>2 DEF RecordsTuner
  <2>4. CASE media' = "create read" /\ misfed' = TRUE
    BY <2>1, <2>4 DEF RecordsTuner
  <2> QED
    BY <1>2, <2>2, <2>3, <2>4 DEF SetDemuxes
<1>3. CASE CreateRead
  <2>1. media = "create read" /\ UNCHANGED <<hw_source, writer, misfed>>
    BY <1>3 DEF CreateRead, sourceVars, writerVars
  <2>2. \/ media' = "create write" /\ media_open_status'
        \/ media' = "poll" /\ ~media_open_status'
    BY <1>3 DEF CreateRead, GiveUp
  <2> QED
    BY <2>1, <2>2 DEF RecordsTuner
<1>4. CASE CreateWrite
  <2>1. /\ media = "create write" /\ media' = "poll" /\ UNCHANGED <<hw_source, misfed>>
        /\ media_open_status /\ writer \in Absent
    BY <1>4 DEF CreateWrite, GiveUp, sourceVars, RecordsTuner
  <2>2. \/ UNCHANGED media_open_status /\ writer' = "info"
        \/ ~media_open_status' /\ writer' = writer
    BY <1>4 DEF CreateWrite, GiveUp, writerVars
  <2> QED
    BY <2>1, <2>2 DEF RecordsTuner
<1>5. CASE PollClose
  <2>1. /\ media = "poll" /\ media' = "join"
        /\ UNCHANGED <<hw_source, media_open_status, writer, misfed>>
    BY <1>5 DEF PollClose, sourceVars, writerVars
  <2> QED
    BY <2>1 DEF RecordsTuner
<1>6. CASE Joined
  <2>1. /\ writer = "ended" /\ media' = "poll" /\ UNCHANGED <<hw_source, writer, misfed>>
    BY <1>6 DEF Joined, BothEnded, sourceVars, writerVars
  <2> QED
    BY <2>1 DEF RecordsTuner, Absent
<1> QED
  BY <1>1, <1>2, <1>3, <1>4, <1>5, <1>6 DEF MediaTask

LEMMA RouteInvInit == UsbInit => SourceInv /\ RecordsTuner
<1> SUFFICES ASSUME UsbInit PROVE SourceInv /\ RecordsTuner
  OBVIOUS
<1>1. RouteTypes
  <2>1. /\ TS(0) \in Sources /\ \A p \in Paths : demux_status[p].source = "memory"
        /\ demux_status \in [Paths -> Choice]
    BY DEF UsbInit, SourceInit, TS, Sources, Choice, Caps
  <2>2. ts_input_idx \in [Tuners -> 0 .. 4]
    <3>1. \A t \in Tuners : InputOf[t] \in 0 .. 4
      BY DemuxSourceAssumption
    <3>2. ts_input_idx = InputOf
      BY DEF UsbInit, SourceInit
    <3> QED
      BY <3>1, <3>2, DemuxSourceAssumption
  <2>3. /\ hw_source \in [Paths \cup {InjDemux, RecDemux} -> Sources]
        /\ call \in [Callers -> Work]
    BY <2>1, NoCallTyped DEF UsbInit, SourceInit
  <2> QED
    BY <2>1, <2>2, <2>3 DEF RouteTypes
<1>2. \A c \in Callers : call[c].at = "idle"
  BY NoCallTyped DEF UsbInit, SourceInit
<1>3. ~ThroughUsb
  BY DemuxSourceAssumption DEF UsbInit, SourceInit, ThroughUsb, USBCAM_INPUT
<1>4. Inputs /\ CallsTyped /\ CallsFit
  BY <1>2, <1>3 DEF Inputs, CallsTyped, CallsFit, At, Callers
<1>5. Follows
  <2>1. \A p \in Paths : demux_status[p].source = "memory"
    BY DEF UsbInit, SourceInit
  <2> QED
    BY <2>1 DEF Follows
<1>6. RecordsTuner
  BY DEF UsbInit, RecordsTuner, Absent
<1> QED
  BY <1>1, <1>4, <1>5, <1>6 DEF SourceInv

(* In whatever order calls, routing, modules and refusals come, at rest a  *)
(* path takes what the route says, unless the last to set it was overtaken *)
(* or refused; and what is recorded for the module is the tuner's stream,  *)
(* unless the tuner had been routed away when the module was opened: for   *)
(* any number of tuners and of paths.                                      *)
THEOREM ThroughTheCamTheorem == Spec => []ThroughTheCam
<1> DEFINE Inv == SourceInv /\ RecordsTuner
<1>1. Inv /\ [Next]_vars => Inv'
  <2> SUFFICES ASSUME SourceInv, RecordsTuner, [Next]_vars PROVE SourceInv' /\ RecordsTuner'
    OBVIOUS
  <2>0. RouteTypes
    BY DEF SourceInv
  <2>1. CASE Plug \/ Unplug \/ Report \/ ReadTask \/ StrayRead \/ WriteTask \/ UNCHANGED vars
    BY <2>1, SourceInvElsewhere, RecordsElsewhere
  <2>2. CASE MediaTask
    BY <2>0, <2>2, SourceInvMedia, RecordsMedia
  <2>3. CASE \E pass \in BOOLEAN : CIRouteTS(pass)
    <3>1. PICK pass \in BOOLEAN : CIRouteTS(pass)
      BY <2>3
    <3>2. RouteTS(pass)
      BY <3>1 DEF CIRouteTS
    <3>3. SourceInv'
      BY <3>2, SourceInvRoute
    <3>4. RecordsTuner'
      BY <2>3, RecordsElsewhere
    <3> QED
      BY <3>3, <3>4
  <2>4. CASE SourceStep
    <3>1. SourceInv'
      BY <2>4, SourceInvClient, SourceInvConfigure, SourceInvSame, SourceInvNew, SourceInvDrive,
         SourceInvPath
      DEF SourceStep, SourceNext
    <3> QED
      BY <2>0, <2>4, <3>1, RecordsSource
  <2> QED
    BY <2>1, <2>2, <2>3, <2>4 DEF Next
<1>2. Inv => ThroughTheCam
  <2> SUFFICES ASSUME Inv PROVE ThroughTheCam
    OBVIOUS
  <2>1. Serving /\ ~misfed => hw_source[RecDemux] = TS(InputOf[Last])
    BY DEF Serving, RecordsTuner, Writing, Absent
  <2>2. FollowsTheRoute
    BY DEF SourceInv, Follows, Coming, At, FollowsTheRoute, AtRest, Idle, Callers, BehindTuner,
           Behind
  <2> QED
    BY <2>1, <2>2 DEF ThroughTheCam
<1>3. UsbInit => Inv
  BY RouteInvInit
<1> QED
  BY <1>1, <1>2, <1>3, PTL DEF Spec
=============================================================================
