---------------------------- MODULE OsQueueProofs ----------------------------
(***************************************************************************)
(* Theorems about the message queue, for any number of readers, writers    *)
(* and elements; about the deadlines of its timed waits and of those of    *)
(* the semaphore and the mutex, for every clock and every timeout; and     *)
(* about the tuner's state machine, whose tasks are driven by such queues. *)
(***************************************************************************)
EXTENDS OsQueue, OsDeadline, TuneFsm, SequenceTheorems, FiniteSetTheorems, TLAPS

------------------------------------------------------------------------------
(* Lemmas about the ring.                                                  *)

(* The end of the array is behind no element of the ring: Slot stays in it.*)
LEMMA SlotInRing ==
    ASSUME read_ptr \in Slots, NEW i \in 0 .. QueueSize
    PROVE  Slot(i) \in Slots
BY QueueSizeAssumption, SMT DEF Slot, Slots, end_ptr

(* Two places of the ring less than a lap apart are different slots.       *)
LEMMA SlotInjective ==
    ASSUME read_ptr \in Slots,
           NEW i \in 0 .. (QueueSize - 1), NEW j \in 0 .. (QueueSize - 1),
           Slot(i) = Slot(j)
    PROVE  i = j
BY QueueSizeAssumption, SMT DEF Slot, Slots, end_ptr

------------------------------------------------------------------------------
(* Type correctness of the queue: the pointers stay inside the array, the  *)
(* count between zero and num_msgs.                                        *)
LEMMA CallsTyped ==
    ASSUME NEW t \in Threads, NEW c \in Calls(t)
    PROVE  /\ c \in [op : {"none", "read", "write"},
                     timeout : Timeouts, data : Msgs \cup {NoMsg}]
           /\ c.op = "write" => c.data \in Msgs
BY DEF Calls

THEOREM TypeCorrect == Spec => []TypeOK
<1>1. Init => TypeOK
  BY QueueSizeAssumption DEF Init, TypeOK, Slots, NoCall, Failed, Timeouts
<1>2. TypeOK /\ [Next]_vars => TypeOK'
  <2> SUFFICES ASSUME TypeOK, [Next]_vars PROVE TypeOK'
    OBVIOUS
  <2> USE DEF TypeOK
  <2>1. ASSUME NEW t \in Threads, Invoke(t) PROVE TypeOK'
    BY <2>1, CallsTyped DEF Invoke, Failed, queueVars
  <2>2. ASSUME NEW t \in Threads, Read(t) PROVE TypeOK'
    <3>1. read_ptr' \in Slots /\ elem_count' \in 0 .. QueueSize
      BY <2>2, QueueSizeAssumption DEF Read, Ready, Advance, end_ptr, Slots
    <3>2. array[read_ptr] \in Msgs \cup {NoMsg}
      OBVIOUS
    <3> QED
      BY <2>2, <3>1, <3>2 DEF Read, Return, Broadcast, NoCall, Timeouts
  <2>3. ASSUME NEW t \in Threads, Write(t) PROVE TypeOK'
    <3>1. write_ptr' \in Slots /\ elem_count' \in 0 .. QueueSize
      BY <2>3, QueueSizeAssumption DEF Write, Ready, Advance, end_ptr, Slots
    <3>2. call[t].data \in Msgs \cup {NoMsg}
      OBVIOUS
    <3> QED
      BY <2>3, <3>1, <3>2 DEF Write, Return, Broadcast, NoCall, Timeouts
  <2>4. ASSUME NEW t \in Threads, Block(t) PROVE TypeOK'
    BY <2>4 DEF Block
  <2>5. ASSUME NEW t \in Threads, Fail(t) PROVE TypeOK'
    BY <2>5 DEF Fail, queueVars, NoCall, Failed, Timeouts
  <2>6. ASSUME NEW t \in Threads, SpuriousWakeup(t) PROVE TypeOK'
    BY <2>6 DEF SpuriousWakeup
  <2>7. ASSUME NEW t \in Threads, Timeout(t) PROVE TypeOK'
    BY <2>7 DEF Timeout
  <2>8. CASE UNCHANGED vars
    BY <2>8 DEF vars
  <2> QED
    BY <2>1, <2>2, <2>3, <2>4, <2>5, <2>6, <2>7, <2>8 DEF Next, Serve
<1> QED
  BY <1>1, <1>2, PTL DEF Spec

------------------------------------------------------------------------------
(* The three fields of S_QUEUE that describe the ring never disagree.      *)
THEOREM RingTheorem == Spec => []RingConsistent
<1>1. Init => RingConsistent
  BY QueueSizeAssumption DEF Init, RingConsistent, Slot, end_ptr
<1>2. TypeOK /\ RingConsistent /\ [Next]_vars => RingConsistent'
  <2> SUFFICES ASSUME TypeOK, RingConsistent, [Next]_vars
               PROVE  RingConsistent'
    OBVIOUS
  <2>1. ASSUME NEW t \in Threads, Read(t) PROVE RingConsistent'
    BY <2>1, QueueSizeAssumption
       DEF TypeOK, RingConsistent, Read, Ready, Advance, Slot, Slots, end_ptr
  <2>2. ASSUME NEW t \in Threads, Write(t) PROVE RingConsistent'
    BY <2>2, QueueSizeAssumption
       DEF TypeOK, RingConsistent, Write, Ready, Advance, Slot, Slots, end_ptr
  <2>3. ASSUME UNCHANGED queueVars PROVE RingConsistent'
    BY <2>3 DEF RingConsistent, Slot, queueVars, end_ptr
  <2> QED
    BY <2>1, <2>2, <2>3
       DEF Next, Serve, Invoke, Block, Fail, SpuriousWakeup, Timeout, vars,
           queueVars
<1> QED
  BY <1>1, <1>2, TypeCorrect, PTL DEF Spec

------------------------------------------------------------------------------
(* One condition variable for both sides loses no wakeup, because every    *)
(* successful call wakes everybody.                                        *)
THEOREM NoLostWakeupTheorem == Spec => []NoLostWakeup
<1>1. Init => NoLostWakeup
  BY DEF Init, NoLostWakeup
<1>2. TypeOK /\ NoLostWakeup /\ [Next]_vars => NoLostWakeup'
  <2> SUFFICES ASSUME TypeOK, NoLostWakeup, [Next]_vars
               PROVE  NoLostWakeup'
    OBVIOUS
  <2> USE DEF TypeOK, NoLostWakeup
  <2>1. ASSUME NEW t \in Threads, Invoke(t) PROVE NoLostWakeup'
    BY <2>1 DEF Invoke, Ready, queueVars
  <2>2. ASSUME NEW t \in Threads, NEW m, Return(t, m) PROVE NoLostWakeup'
    BY <2>2 DEF Return, Broadcast
  <2>3. ASSUME NEW t \in Threads, Block(t) PROVE NoLostWakeup'
    BY <2>3 DEF Block, Ready
  <2>4. ASSUME NEW t \in Threads, Fail(t) PROVE NoLostWakeup'
    BY <2>4 DEF Fail, Ready, queueVars
  <2>5. ASSUME NEW t \in Threads, SpuriousWakeup(t) PROVE NoLostWakeup'
    BY <2>5 DEF SpuriousWakeup, Ready
  <2>6. ASSUME NEW t \in Threads, Timeout(t) PROVE NoLostWakeup'
    BY <2>6 DEF Timeout, Ready
  <2>7. CASE UNCHANGED vars
    BY <2>7 DEF vars, Ready
  <2> QED
    BY <2>1, <2>2, <2>3, <2>4, <2>5, <2>6, <2>7 DEF Next, Serve, Read, Write
<1> QED
  BY <1>1, <1>2, TypeCorrect, PTL DEF Spec

------------------------------------------------------------------------------
(* The ring implements the queue: every step of the code is a step of the  *)
(* abstract queue or leaves it alone.                                      *)

(* What a thread's place in its call says of the call.                     *)
CallInv ==
    \A t \in Threads :
        /\ pc[t] = "out" <=> call[t] = NoCall
        /\ call[t] # NoCall => call[t] \in Calls(t)
        /\ pc[t] \in {"waiting", "awake", "expired"} => call[t].timeout # "NOW"
        /\ pc[t] = "expired" => call[t].timeout = "TIMED"

LEMMA CallInvariant == Spec => []CallInv
<1>1. Init => CallInv
  BY DEF Init, CallInv
<1>2. TypeOK /\ CallInv /\ [Next]_vars => CallInv'
  <2> SUFFICES ASSUME TypeOK, CallInv, [Next]_vars PROVE CallInv'
    OBVIOUS
  <2>0. \A t \in Threads : NoCall \notin Calls(t)
    BY DEF Calls, NoCall
  <2> USE DEF TypeOK, CallInv
  <2>1. ASSUME NEW t \in Threads, Invoke(t) PROVE CallInv'
    <3>1. PICK c \in Calls(t) : call' = [call EXCEPT ![t] = c]
      BY <2>1 DEF Invoke
    <3>2. Calls(t)' = Calls(t) /\ \A u \in Threads : Calls(u)' = Calls(u)
      BY DEF Calls, Timeouts
    <3> QED
      BY <2>0, <2>1, <3>1, <3>2 DEF Invoke
  <2>2. ASSUME NEW t \in Threads, NEW m, pc[t] \in {"locking", "awake"},
               Return(t, m)
        PROVE  CallInv'
    <3>1. \A u \in Threads : Calls(u)' = Calls(u)
      BY DEF Calls, Timeouts
    <3> QED
      BY <2>2, <3>1 DEF Return, Broadcast
  <2>3. ASSUME NEW t \in Threads, Block(t) PROVE CallInv'
    BY <2>3 DEF Block, Calls
  <2>4. ASSUME NEW t \in Threads, Fail(t) PROVE CallInv'
    BY <2>4 DEF Fail, Calls
  <2>5. ASSUME NEW t \in Threads, SpuriousWakeup(t) PROVE CallInv'
    BY <2>5 DEF SpuriousWakeup, Calls
  <2>6. ASSUME NEW t \in Threads, Timeout(t) PROVE CallInv'
    BY <2>6 DEF Timeout, Calls
  <2>7. CASE UNCHANGED vars
    BY <2>7 DEF vars, Calls
  <2> QED
    BY <2>1, <2>2, <2>3, <2>4, <2>5, <2>6, <2>7 DEF Next, Serve, Read, Write
<1> QED
  BY <1>1, <1>2, TypeCorrect, PTL DEF Spec

(* The contents are a sequence of messages as long as the count says.      *)
LEMMA ContentsSeq ==
    ASSUME TypeOK
    PROVE  /\ Contents \in Seq(Msgs \cup {NoMsg})
           /\ Len(Contents) = elem_count
           /\ DOMAIN Contents = 1 .. elem_count
<1> USE DEF TypeOK
<1>1. \A i \in 1 .. elem_count : Slot(i - 1) \in Slots
  BY QueueSizeAssumption DEF Slot, Slots, end_ptr
<1>2. Contents \in [1 .. elem_count -> Msgs \cup {NoMsg}]
  BY <1>1 DEF Contents
<1>3. elem_count \in Nat
  BY QueueSizeAssumption
<1> QED
  BY <1>2, <1>3, SMT

(* A sequence is the function of its indices.                              *)
LEMMA SeqIsFunction ==
    ASSUME NEW S, NEW s \in Seq(S)
    PROVE  s = [i \in 1 .. Len(s) |-> s[i]]
BY SMT

(* A successful read is a Take.                                            *)
LEMMA ReadTakes ==
    ASSUME TypeOK, NEW t \in Threads, Read(t)
    PROVE  /\ Contents # <<>>
           /\ Contents' = Tail(Contents)
           /\ array[read_ptr] = Head(Contents)
<1> USE DEF TypeOK
<1>1. elem_count # 0 /\ elem_count \in 1 .. QueueSize
  BY QueueSizeAssumption DEF Read, Ready
<1>2. Len(Contents) = elem_count /\ Contents # <<>>
  BY <1>1, ContentsSeq
<1>3. Head(Contents) = array[read_ptr]
  <2>1. Slot(0) = read_ptr
    BY QueueSizeAssumption DEF Slot, Slots, end_ptr
  <2>2. Contents[1] = array[Slot(0)]
    BY <1>1, QueueSizeAssumption DEF Contents
  <2>3. Head(Contents) = Contents[1]
    BY <1>2, ContentsSeq
  <2> QED
    BY <2>1, <2>2, <2>3
<1>4. Tail(Contents) = [i \in 1 .. (elem_count - 1) |-> Contents[i + 1]]
  <2>1. Contents \in Seq(Msgs \cup {NoMsg})
    BY ContentsSeq
  <2>2. Tail(Contents) = [i \in 1 .. (Len(Contents) - 1) |-> Contents[i + 1]]
    <3>1. /\ Tail(Contents) \in Seq(Msgs \cup {NoMsg})
          /\ Len(Tail(Contents)) = Len(Contents) - 1
          /\ \A i \in 1 .. Len(Tail(Contents)) : Tail(Contents)[i] = Contents[i + 1]
      BY <1>2, <2>1, HeadTailProperties
    <3>2. Tail(Contents) = [i \in 1 .. Len(Tail(Contents)) |-> Tail(Contents)[i]]
      BY <3>1, SeqIsFunction
    <3> QED
      BY <3>1, <3>2
  <2> QED
    BY <1>2, <2>2
<1>5. Contents' = [i \in 1 .. (elem_count - 1) |-> array[Slot(i)]]
  <2>1. elem_count' = elem_count - 1 /\ array' = array
    BY DEF Read
  <2>2. \A i \in 1 .. (elem_count - 1) : Slot(i - 1)' = Slot(i)
    <3>1. read_ptr' = Advance(read_ptr)
      BY DEF Read
    <3> TAKE i \in 1 .. (elem_count - 1)
    <3>2. i - 1 \in 0 .. (QueueSize - 1)
      BY <1>1, QueueSizeAssumption
    <3> QED
      BY <1>1, <3>1, <3>2, QueueSizeAssumption DEF Slot, Slots, end_ptr, Advance
  <2> QED
    BY <2>1, <2>2 DEF Contents
<1>6. \A i \in 1 .. (elem_count - 1) : Contents[i + 1] = array[Slot(i)]
  BY <1>1, QueueSizeAssumption DEF Contents
<1> QED
  BY <1>2, <1>3, <1>4, <1>5, <1>6

(* A successful write is a Put.                                            *)
LEMMA WritePuts ==
    ASSUME TypeOK, RingConsistent, NEW t \in Threads, Write(t)
    PROVE  /\ Len(Contents) < QueueSize
           /\ Contents' = Append(Contents, call[t].data)
<1> USE DEF TypeOK
<1>1. PICK n \in 0 .. (QueueSize - 1) : n = elem_count
  BY QueueSizeAssumption DEF Write, Ready, Calls
<1>2. write_ptr = Slot(n)
  BY <1>1 DEF RingConsistent
<1>3. elem_count' = n + 1 /\ read_ptr' = read_ptr
  BY <1>1 DEF Write
<1>4. array' = [array EXCEPT ![write_ptr] = call[t].data]
  BY DEF Write
<1>5. \A i \in 1 .. (n + 1) : Slot(i - 1)' = Slot(i - 1)
  BY <1>3 DEF Slot, end_ptr
<1>6. \A i \in 1 .. n : array'[Slot(i - 1)] = array[Slot(i - 1)]
  <2> TAKE i \in 1 .. n
  <2>1. i - 1 \in 0 .. (QueueSize - 1) /\ i - 1 # n /\ i - 1 \in 0 .. QueueSize
    BY QueueSizeAssumption
  <2>2. Slot(i - 1) # Slot(n)
    BY <2>1, SlotInjective
  <2>3. Slot(i - 1) \in Slots
    BY <2>1, SlotInRing
  <2> QED
    BY <1>2, <1>4, <2>2, <2>3
<1>7. array'[Slot(n)] = call[t].data
  BY <1>2, <1>4
<1>8. Contents' = [i \in 1 .. (n + 1) |-> array'[Slot(i - 1)]]
  BY <1>3, <1>5 DEF Contents
<1>9. Append(Contents, call[t].data)
        = [i \in 1 .. (n + 1) |-> IF i = n + 1 THEN call[t].data ELSE Contents[i]]
  <2>1. Contents \in Seq(Msgs \cup {NoMsg}) /\ Len(Contents) = n
    BY <1>1, ContentsSeq
  <2>2. call[t].data \in Msgs \cup {NoMsg}
    OBVIOUS
  <2> QED
    BY <2>1, <2>2, SMT
<1>10. \A i \in 1 .. n : Contents[i] = array[Slot(i - 1)]
  BY <1>1 DEF Contents
<1>11. \A i \in 1 .. (n + 1) :
          array'[Slot(i - 1)]
            = IF i = n + 1 THEN call[t].data ELSE Contents[i]
  <2> TAKE i \in 1 .. (n + 1)
  <2>1. CASE i = n + 1
    BY <2>1, <1>7
  <2>2. CASE i # n + 1
    BY <2>2, <1>6, <1>10
  <2> QED
    BY <2>1, <2>2
<1>12. Len(Contents) < QueueSize
  <2>1. Len(Contents) = elem_count
    BY ContentsSeq
  <2> QED
    BY <1>1, <2>1, QueueSizeAssumption
<1> QED
  BY <1>8, <1>9, <1>11, <1>12

(* The contents depend on the queue's fields only.                         *)
LEMMA ContentsUnchanged ==
    ASSUME UNCHANGED queueVars
    PROVE  Contents' = Contents
BY DEF Contents, Slot, end_ptr, queueVars

(* Order kept, nothing lost or invented, TIMEOUT_NEVER never failing and   *)
(* TIMEOUT_NOW failing only on an empty or a full queue, for any number of *)
(* tasks and elements: stbos_queue.c implements BoundedFifo.               *)
THEOREM QueueIsFifo == Spec => ImplementsFifo
<1>1. Init => Fifo!FifoInit
  <2> SUFFICES ASSUME Init PROVE Fifo!FifoInit
    OBVIOUS
  <2>1. Contents = <<>>
    BY DEF Init, Contents
  <2> QED
    BY <2>1 DEF Init, Fifo!FifoInit, Fifo!NoCall, Fifo!Failed, NoCall, Failed,
                Threads
<1>2. TypeOK /\ RingConsistent /\ CallInv /\ [Next]_vars
        => [Fifo!FifoNext]_(Fifo!fifoVars)
  <2> SUFFICES ASSUME TypeOK, RingConsistent, CallInv, [Next]_vars
               PROVE  [Fifo!FifoNext]_(Fifo!fifoVars)
    OBVIOUS
  <2>0. Fifo!NoCall = NoCall /\ Fifo!Failed = Failed
    BY DEF Fifo!NoCall, Fifo!Failed, NoCall, Failed
  <2>1. ASSUME NEW t \in Threads, Invoke(t) PROVE Fifo!Invoke(t)
    <3>1. Contents' = Contents
      BY <2>1, ContentsUnchanged DEF Invoke
    <3>2. \A c \in Calls(t) : c \in Fifo!Calls
      BY DEF Calls, Fifo!Calls, Timeouts, Fifo!Timeouts
    <3>3. call[t] = NoCall
      BY <2>1 DEF Invoke, CallInv
    <3> QED
      BY <2>0, <2>1, <3>1, <3>2, <3>3 DEF Invoke, Fifo!Invoke
  <2>2. ASSUME NEW t \in Threads, Read(t) PROVE Fifo!Take(t)
    BY <2>0, <2>2, ReadTakes DEF Read, Return, Fifo!Take
  <2>3. ASSUME NEW t \in Threads, Write(t) PROVE Fifo!Put(t)
    BY <2>0, <2>3, WritePuts DEF Write, Return, Fifo!Put
  <2>4. ASSUME NEW t \in Threads, Fail(t) PROVE Fifo!GiveUp(t)
    <3>1. Contents' = Contents
      BY <2>4, ContentsUnchanged DEF Fail
    <3>2. call[t] # NoCall /\ call[t] \in Calls(t)
      BY <2>4 DEF Fail, CallInv
    <3>3. call[t].op \in {"read", "write"}
      BY <3>2 DEF Calls
    <3>4. CASE pc[t] = "expired"
      BY <2>0, <2>4, <3>1, <3>3, <3>4 DEF Fail, Fifo!GiveUp, CallInv
    <3>5. CASE pc[t] = "locking" /\ call[t].timeout = "NOW" /\ ~Ready(t)
      <4>1. Len(Contents) = elem_count
        BY ContentsSeq
      <4>2. elem_count = 0 => Contents = <<>>
        BY ContentsSeq
      <4> QED
        BY <2>0, <2>4, <3>1, <3>3, <3>5, <4>1, <4>2 DEF Fail, Fifo!GiveUp, Ready
    <3> QED
      BY <2>4, <3>4, <3>5 DEF Fail
  <2>5. ASSUME NEW t \in Threads, Block(t) \/ SpuriousWakeup(t) \/ Timeout(t)
        PROVE  UNCHANGED Fifo!fifoVars
    BY <2>5, ContentsUnchanged
       DEF Block, SpuriousWakeup, Timeout, queueVars, Fifo!fifoVars
  <2>6. CASE UNCHANGED vars
    BY <2>6, ContentsUnchanged DEF vars, queueVars, Fifo!fifoVars
  <2> QED
    BY <2>1, <2>2, <2>3, <2>4, <2>5, <2>6 DEF Next, Serve, Fifo!FifoNext, Threads
<1> QED
  BY <1>1, <1>2, TypeCorrect, RingTheorem, CallInvariant, PTL
     DEF Spec, ImplementsFifo, Fifo!FifoSpec

------------------------------------------------------------------------------
(* What the three deadlines are for every fraction of a second a clock may *)
(* show and every timeout.                                                 *)

LEMMA MicrosOfNanos == \A x \in Nat : (1000 * x) \div 1000 = x
BY SMT

LEMMA UnitsAreNat == USEC \in Nat \ {0} /\ NSEC \in Nat /\ NSEC = 1000 * USEC
BY SMT DEF USEC, NSEC

(* A number of microseconds below one second, in nanoseconds, is a legal   *)
(* tv_nsec.                                                                *)
LEMMA NanosLegal ==
    ASSUME NEW x \in Nat, x < USEC
    PROVE  1000 * x \in 0 .. NSEC - 1 /\ (1000 * x) \div 1000 = x
<1>1. 1000 * x \in Nat /\ 1000 * x < NSEC
    BY UnitsAreNat, SMT
<1> QED
    BY <1>1, MicrosOfNanos, UnitsAreNat, SMT

(* stbos_semaphore.c: the carry loop ends with a legal tv_nsec and loses   *)
(* no microsecond.                                                         *)
LEMMA SemaphoreCarries ==
    ASSUME NEW usec \in Nat, usec < USEC, NEW msecs \in Nat
    PROVE  LET ts == SemaphoreDeadline(usec, msecs)
           IN  /\ ts.tv_nsec \in 0 .. NSEC - 1
               /\ ts.tv_sec * USEC + ts.tv_nsec \div 1000 = usec + msecs * 1000
<1> DEFINE sum == usec + 1000 * msecs
           secs == sum \div USEC
           micros == sum % USEC
<1>1. sum \in Nat
    BY UnitsAreNat, SMT
<1>2. secs \in Nat /\ micros \in Nat /\ micros < USEC /\ secs * USEC + micros = sum
    BY <1>1, SMT DEF USEC
<1>3. SemaphoreDeadline(usec, msecs) = [tv_sec |-> secs, tv_nsec |-> 1000 * micros]
    BY SMT DEF SemaphoreDeadline, timespec
<1> HIDE DEF secs, micros
<1>4. 1000 * micros \in 0 .. NSEC - 1 /\ (1000 * micros) \div 1000 = micros
    BY <1>2, NanosLegal
<1>5. secs * USEC + micros = usec + msecs * 1000
    BY <1>1, <1>2, SMT
<1> QED
    BY <1>3, <1>4, <1>5, SMT

(* stbos_mutex.c: the same for quotient and remainder, which lose no       *)
(* nanosecond.                                                             *)
LEMMA MutexCarries ==
    ASSUME NEW nsec \in Nat, NEW msecs \in Nat
    PROVE  /\ Valid(MutexDeadline(nsec, msecs))
           /\ ExactNs(MutexDeadline(nsec, msecs), nsec, msecs)
<1> DEFINE stamp  == msecs * 1000 * 1000 + nsec
           secs   == stamp \div NSEC
           nanos  == stamp % NSEC
<1>1. stamp \in Nat /\ stamp = nsec + msecs * 1000 * 1000
  <2>1. msecs * 1000 \in Nat
    BY SMT
  <2>2. msecs * 1000 * 1000 \in Nat
    BY <2>1, SMT
  <2> QED
    BY <2>2, SMT
<1>0. stamp \in Nat
    BY <1>1
<1>2. MutexDeadline(nsec, msecs) = [tv_sec |-> secs, tv_nsec |-> nanos]
    BY DEF MutexDeadline, timespec
<1> HIDE DEF stamp
<1>3. secs \in Nat /\ nanos \in Nat /\ nanos < NSEC /\ secs * NSEC + nanos = stamp
    BY <1>0, SMT DEF NSEC
<1> HIDE DEF secs, nanos
<1>4. nanos \in 0 .. NSEC - 1
    BY <1>3, UnitsAreNat, SMT
<1> QED
    BY <1>1, <1>2, <1>3, <1>4 DEF Valid, ExactNs

(* stbos_queue.c: CalcAbstime names the right instant too; what it does    *)
(* not always give is a tv_nsec below one second.                          *)
LEMMA QueueCarries ==
    ASSUME NEW usec \in Nat, usec < USEC, NEW msecs \in Nat
    PROVE  LET ts == CalcAbstime(usec, msecs)
           IN  ts.tv_sec * USEC + ts.tv_nsec \div 1000 = usec + msecs * 1000
<1> DEFINE secs   == msecs \div 1000
           micros == usec + (msecs - secs * 1000) * 1000
           nsec   == usec * 1000 + (msecs - secs * 1000) * 1000000
<1>1. secs \in Nat /\ msecs - secs * 1000 \in Nat /\ msecs - secs * 1000 < 1000
    BY SMT
<1>2. CalcAbstime(usec, msecs) =
          IF nsec > NSEC THEN [tv_sec |-> secs + 1, tv_nsec |-> nsec - NSEC]
                         ELSE [tv_sec |-> secs, tv_nsec |-> nsec]
    BY SMT DEF CalcAbstime, timespec
<1>3. usec \in Nat /\ usec < USEC
    BY UnitsAreNat, SMT
<1> HIDE DEF secs
<1>4. micros \in Nat /\ nsec = 1000 * micros /\ secs * USEC + micros = usec + msecs * 1000
    BY <1>1, <1>3, SMT DEF USEC
<1>5. CASE nsec > NSEC
  <2>1. micros - USEC \in Nat /\ nsec - NSEC = 1000 * (micros - USEC)
      BY <1>4, <1>5, UnitsAreNat, SMT
  <2>2. (secs + 1) * USEC + (micros - USEC) = usec + msecs * 1000
      BY <1>1, <1>4, <2>1, SMT DEF USEC
  <2> HIDE DEF micros, nsec
  <2> QED
      BY <1>2, <1>5, <2>1, <2>2, MicrosOfNanos
<1>6. CASE ~(nsec > NSEC)
  <2> HIDE DEF micros, nsec
  <2> QED
      BY <1>2, <1>4, <1>6, MicrosOfNanos
<1> QED
    BY <1>5, <1>6

(* Whenever a task waits with a timeout, the semaphore and the mutex give  *)
(* the kernel a deadline it accepts, and all three, the queue included,    *)
(* name the instant that was asked for.                                    *)
THEOREM DeadlinesExact == WaitsAccepted /\ SameInstant
<1>1. ASSUME NEW usec \in Clocks, NEW nsec \in FineClocks, NEW msecs \in Nat
      PROVE  /\ Valid(SemaphoreDeadline(usec, msecs)) /\ Valid(MutexDeadline(nsec, msecs))
             /\ Exact(CalcAbstime(usec, msecs), usec, msecs)
             /\ Exact(SemaphoreDeadline(usec, msecs), usec, msecs)
             /\ ExactNs(MutexDeadline(nsec, msecs), nsec, msecs)
  <2>1. usec \in Nat /\ usec < USEC
    BY UnitsAreNat DEF Clocks
  <2>2. nsec \in Nat
    BY UnitsAreNat, SMT DEF FineClocks
  <2>3. Valid(MutexDeadline(nsec, msecs)) /\ ExactNs(MutexDeadline(nsec, msecs), nsec, msecs)
    BY <2>2, MutexCarries
  <2> QED
    BY <2>1, <2>3, SemaphoreCarries, QueueCarries DEF Valid, Exact
<1> QED
    BY <1>1 DEF WaitsAccepted, SameInstant

(* Of the fraction of the clock and of the timeout CalcAbstime makes a     *)
(* legal tv_nsec unless they are exactly one second.                       *)
LEMMA QueueCarriesAllButOne ==
    ASSUME NEW usec \in Nat, usec < USEC, NEW msecs \in Nat
    PROVE  Valid(CalcAbstime(usec, msecs)) <=> usec + (msecs % 1000) * 1000 # USEC
<1> DEFINE secs   == msecs \div 1000
           millis == msecs - secs * 1000
           micros == usec + (msecs % 1000) * 1000
           nsec   == usec * 1000 + millis * 1000000
           stamp  == CalcAbstime(usec, msecs)
<1>1. millis \in Nat /\ millis < 1000 /\ msecs % 1000 = millis
    BY SMT
<1>2. usec \in Nat /\ usec < USEC
    BY UnitsAreNat, SMT
<1>3. stamp = IF nsec > NSEC THEN [tv_sec |-> secs + 1, tv_nsec |-> nsec - NSEC]
                             ELSE [tv_sec |-> secs, tv_nsec |-> nsec]
    BY SMT DEF CalcAbstime, timespec
<1>4. micros = usec + millis * 1000
    BY <1>1
<1> HIDE DEF millis, micros
<1>5. micros \in Nat /\ nsec = 1000 * micros /\ nsec \in Nat
    BY <1>1, <1>2, <1>4, SMT
<1>6. nsec < 2 * NSEC
    BY <1>1, <1>2, SMT DEF USEC, NSEC
<1> HIDE DEF nsec, stamp
<1>7. CASE nsec > NSEC
  <2>1. stamp.tv_nsec = nsec - NSEC
      BY <1>3, <1>7
  <2>2. nsec - NSEC \in 0 .. NSEC - 1
      BY <1>5, <1>6, <1>7, UnitsAreNat, SMT
  <2>3. micros # USEC
      BY <1>5, <1>7, SMT DEF NSEC, USEC
  <2> QED
      BY <2>1, <2>2, <2>3 DEF Valid, stamp, micros
<1>8. CASE nsec = NSEC
  <2>1. stamp.tv_nsec = nsec
      BY <1>3, <1>5, <1>8, SMT DEF NSEC
  <2>2. nsec \notin 0 .. NSEC - 1
      BY <1>8, UnitsAreNat, SMT
  <2>3. micros = USEC
      BY <1>5, <1>8, SMT DEF NSEC, USEC
  <2> QED
      BY <2>1, <2>2, <2>3 DEF Valid, stamp, micros
<1>9. CASE nsec < NSEC
  <2>1. stamp.tv_nsec = nsec
      BY <1>3, <1>5, <1>9, SMT DEF NSEC
  <2>2. nsec \in 0 .. NSEC - 1
      BY <1>5, <1>9, UnitsAreNat, SMT
  <2>3. micros # USEC
      BY <1>5, <1>9, SMT DEF NSEC, USEC
  <2> QED
      BY <2>1, <2>2, <2>3 DEF Valid, stamp, micros
<1> QED
    BY <1>5, <1>7, <1>8, <1>9, UnitsAreNat, SMT

(* A timed read or write of a queue hands over a deadline that the kernel  *)
(* accepts except when clock and timeout come to exactly one second, and   *)
(* then always one that it refuses.                                        *)
THEOREM QueueRefusedOnce == QueueDeadline
<1> SUFFICES ASSUME NEW usec \in Clocks, NEW msecs \in Nat
             PROVE  Valid(CalcAbstime(usec, msecs)) <=> usec + (msecs % 1000) * 1000 # USEC
  BY DEF QueueDeadline
<1>1. usec \in Nat /\ usec < USEC
  BY UnitsAreNat DEF Clocks
<1> QED
  BY <1>1, QueueCarriesAllButOne

------------------------------------------------------------------------------
(* The state machine of a path.                                            *)

LEMMA RangeOfAppend ==
    ASSUME NEW S, NEW q \in Seq(S), NEW m \in S
    PROVE  Append(q, m) \in Seq(S) /\ Range(Append(q, m)) = Range(q) \cup {m}
<1>1. /\ Append(q, m) \in Seq(S) /\ Len(Append(q, m)) = Len(q) + 1 /\ Len(q) \in Nat
      /\ DOMAIN q = 1 .. Len(q) /\ DOMAIN Append(q, m) = 1 .. Len(q) + 1
      /\ \A i \in 1 .. Len(q) : Append(q, m)[i] = q[i]
      /\ Append(q, m)[Len(q) + 1] = m
  BY AppendProperties, LenProperties
<1>2. 1 .. Len(q) + 1 = 1 .. Len(q) \cup {Len(q) + 1}
  BY <1>1
<1>3. Range(Append(q, m)) = {Append(q, m)[i] : i \in 1 .. Len(q) \cup {Len(q) + 1}}
  BY <1>1, <1>2 DEF Range
<1>4. Range(q) = {q[i] : i \in 1 .. Len(q)}
  BY <1>1 DEF Range
<1>5. ASSUME NEW x PROVE x \in Range(Append(q, m)) <=> x \in Range(q) \cup {m}
  BY <1>1, <1>3, <1>4
<1> QED
  BY <1>1, <1>5

(* What was read is the oldest; all the rest is still there.               *)
LEMMA RangeOfTail ==
    ASSUME NEW S, NEW q \in Seq(S), q # <<>>
    PROVE  Tail(q) \in Seq(S) /\ Head(q) \in S /\ \A x \in Range(q) : x = Head(q) \/ x \in Range(Tail(q))
<1>1. /\ Tail(q) \in Seq(S) /\ Head(q) \in S /\ Head(q) = q[1]
      /\ Len(q) \in Nat \ {0} /\ Len(Tail(q)) = Len(q) - 1
      /\ \A i \in 1 .. Len(Tail(q)) : Tail(q)[i] = q[i + 1]
  BY HeadTailProperties, EmptySeq, LenProperties
<1>2. /\ Range(q) = {q[i] : i \in 1 .. Len(q)}
      /\ Range(Tail(q)) = {Tail(q)[i] : i \in 1 .. Len(q) - 1}
  BY <1>1, LenProperties DEF Range
<1>3. ASSUME NEW i \in 1 .. Len(q), i # 1 PROVE q[i] \in Range(Tail(q))
  <2>1. i - 1 \in 1 .. Len(q) - 1 /\ (i - 1) + 1 = i
    BY <1>1, <1>3
  <2>2. Tail(q)[i - 1] = q[i]
    BY <1>1, <2>1
  <2> QED
    BY <1>2, <2>1, <2>2
<1> QED
  BY <1>1, <1>2, <1>3

(* No STOPPED is in a queue, or one is.                                    *)
NoneComing(q) == \A i \in 1 .. Len(q) : q[i] # "STOPPED"
OneComing(q) == \E i \in 1 .. Len(q) :
                   q[i] = "STOPPED" /\ \A j \in 1 .. Len(q) : q[j] = "STOPPED" => j = i

LEMMA ComingAppended ==
    ASSUME NEW q \in Seq(FsmMsgs), NEW m \in FsmMsgs
    PROVE  /\ m # "STOPPED" /\ NoneComing(q) => NoneComing(Append(q, m))
           /\ m # "STOPPED" /\ OneComing(q) => OneComing(Append(q, m))
           /\ m = "STOPPED" /\ NoneComing(q) => OneComing(Append(q, m))
<1>1. /\ Len(Append(q, m)) = Len(q) + 1 /\ Len(q) \in Nat
      /\ \A i \in 1 .. Len(q) : Append(q, m)[i] = q[i]
      /\ Append(q, m)[Len(q) + 1] = m
  BY AppendProperties, LenProperties
<1>2. \A i \in 1 .. Len(q) + 1 : i \in 1 .. Len(q) \/ i = Len(q) + 1
  BY <1>1
<1>3. Len(q) + 1 \in 1 .. Len(q) + 1 /\ \A i \in 1 .. Len(q) : i \in 1 .. Len(q) + 1
  BY <1>1
<1>4. m # "STOPPED" /\ NoneComing(q) => NoneComing(Append(q, m))
  BY <1>1, <1>2 DEF NoneComing
<1>5. m # "STOPPED" /\ OneComing(q) => OneComing(Append(q, m))
  BY <1>1, <1>2, <1>3 DEF OneComing
<1>6. m = "STOPPED" /\ NoneComing(q) => OneComing(Append(q, m))
  BY <1>1, <1>2, <1>3 DEF NoneComing, OneComing
<1> QED
  BY <1>4, <1>5, <1>6

LEMMA ComingRead ==
    ASSUME NEW q \in Seq(FsmMsgs), q # <<>>
    PROVE  /\ NoneComing(q) => NoneComing(Tail(q)) /\ Head(q) # "STOPPED"
           /\ OneComing(q) /\ Head(q) = "STOPPED" => NoneComing(Tail(q))
           /\ OneComing(q) /\ Head(q) # "STOPPED" => OneComing(Tail(q))
<1>1. /\ Len(q) \in Nat \ {0} /\ Len(Tail(q)) = Len(q) - 1 /\ Head(q) = q[1]
      /\ \A i \in 1 .. Len(Tail(q)) : Tail(q)[i] = q[i + 1]
  BY HeadTailProperties, EmptySeq, LenProperties
<1>2. 1 \in 1 .. Len(q) /\ \A i \in 1 .. Len(q) - 1 : i + 1 \in 1 .. Len(q) /\ i + 1 # 1
  BY <1>1
<1>3. NoneComing(q) => NoneComing(Tail(q)) /\ Head(q) # "STOPPED"
  BY <1>1, <1>2 DEF NoneComing
<1>4. OneComing(q) /\ Head(q) = "STOPPED" => NoneComing(Tail(q))
  BY <1>1, <1>2 DEF NoneComing, OneComing
<1>5. ASSUME OneComing(q), Head(q) # "STOPPED" PROVE OneComing(Tail(q))
  <2>1. PICK i \in 1 .. Len(q) :
            q[i] = "STOPPED" /\ \A j \in 1 .. Len(q) : q[j] = "STOPPED" => j = i
    BY <1>5 DEF OneComing
  <2>2. i # 1
    BY <1>1, <1>5, <2>1
  <2>3. PICK k : k = i - 1
    OBVIOUS
  <2>4. k \in 1 .. Len(q) - 1 /\ k + 1 = i
    BY <1>1, <2>2, <2>3
  <2>5. Tail(q)[k] = "STOPPED"
    BY <1>1, <2>1, <2>4
  <2>6. ASSUME NEW j \in 1 .. Len(q) - 1, Tail(q)[j] = "STOPPED" PROVE j = k
    <3>1. q[j + 1] = "STOPPED"
      BY <1>1, <2>6
    <3>2. j + 1 = i
      BY <1>2, <2>1, <3>1
    <3> QED
      BY <1>1, <2>4, <3>2
  <2> QED
    BY <1>1, <2>4, <2>5, <2>6 DEF OneComing
<1> QED
  BY <1>3, <1>4, <1>5

(* The two in numbers.                                                     *)
LEMMA ComingCounted ==
    ASSUME NEW q \in Seq(FsmMsgs)
    PROVE  /\ NoneComing(q) => Cardinality({i \in DOMAIN q : q[i] = "STOPPED"}) = 0
           /\ OneComing(q) => Cardinality({i \in DOMAIN q : q[i] = "STOPPED"}) = 1
<1>1. DOMAIN q = 1 .. Len(q)
  BY LenProperties
<1>2. ASSUME NoneComing(q) PROVE Cardinality({i \in DOMAIN q : q[i] = "STOPPED"}) = 0
  <2>1. {i \in DOMAIN q : q[i] = "STOPPED"} = {}
    BY <1>1, <1>2 DEF NoneComing
  <2> QED
    BY <2>1, FS_EmptySet
<1>3. ASSUME OneComing(q) PROVE Cardinality({i \in DOMAIN q : q[i] = "STOPPED"}) = 1
  <2>1. PICK k \in 1 .. Len(q) :
            q[k] = "STOPPED" /\ \A j \in 1 .. Len(q) : q[j] = "STOPPED" => j = k
    BY <1>3 DEF OneComing
  <2>2. {i \in DOMAIN q : q[i] = "STOPPED"} = {k}
    BY <1>1, <2>1
  <2> QED
    BY <2>2, FS_Singleton
<1> QED
  BY <1>2, <1>3

(* A path that looks at the frontend is in a state that waits for it; and  *)
(* while it stops, and only then, one STOPPED is on its way.               *)
PathOk(s, t, q) ==
    /\ t = "entering" => s = "TUNING"
    /\ t = "checking" => Timed(s)
    /\ IF s # "STOPPING" THEN t # "STOPPED" /\ NoneComing(q)
       ELSE IF t = "STOPPED" THEN NoneComing(q) ELSE OneComing(q)

Doings == {"reading", "entering", "checking"} \cup InnerMsgs

FsmTypes ==
    /\ queue \in [Paths -> Seq(FsmMsgs)]
    /\ fsm \in [Paths -> States]
    /\ task \in [Paths -> Doings]
    /\ timer \in [exists : BOOLEAN, armed : BOOLEAN]
    /\ timeout_msg.event \in TimerMsgs
    /\ client = [c \in Clients |-> client[c]]
    /\ \A c \in Clients : "msg" \in DOMAIN client[c] /\ client[c].msg \in CntrlMsgs

FsmInv == FsmTypes /\ \A p \in Paths : PathOk(fsm[p], task[p], queue[p])

LEMMA FsmInitOk == FsmInit => FsmInv
<1> SUFFICES ASSUME FsmInit PROVE FsmInv
  OBVIOUS
<1>1. <<>> \in Seq(FsmMsgs) /\ Len(<<>>) = 0
  OBVIOUS
<1>2. FsmTypes
  BY <1>1 DEF FsmInit, FsmTypes, States, Doings, TimerMsgs, CntrlMsgs, NoTimer, Out
<1>3. \A p \in Paths : PathOk(fsm[p], task[p], queue[p])
  BY <1>1 DEF FsmInit, PathOk, NoneComing
<1> QED
  BY <1>2, <1>3 DEF FsmInv

(* A step of one path.                                                     *)
LEMMA PathGoes ==
    ASSUME FsmInv, NEW p \in Paths, NEW s \in States, NEW t \in Doings, NEW q \in Seq(FsmMsgs),
           PathOk(s, t, q),
           fsm' = [fsm EXCEPT ![p] = s], task' = [task EXCEPT ![p] = t],
           queue' = [queue EXCEPT ![p] = q]
    PROVE  /\ queue' \in [Paths -> Seq(FsmMsgs)] /\ fsm' \in [Paths -> States]
           /\ task' \in [Paths -> Doings]
           /\ \A r \in Paths : PathOk(fsm'[r], task'[r], queue'[r])
BY DEF FsmInv, FsmTypes


(* The tables, by target.                                                  *)
LEMMA Rows ==
    ASSUME NEW s \in States, NEW m \in FsmMsgs
    PROVE  /\ <<s, m, "TUNING">> \in Transitions
                <=> m = "START" /\ s \in {"IDLE", "TRACKING", "RELOCKING"}
           /\ <<s, m, "TRACKING">> \in Transitions
                <=> \/ s = "IDLE" /\ m = "CHANGE"
                    \/ s \in {"TUNING", "RELOCKING"} /\ m = "LOCKED"
           /\ <<s, m, "RELOCKING">> \in Transitions
                <=> s \in {"TUNING", "TRACKING"} /\ m = "UNLOCKED"
           /\ <<s, m, "STOPPING">> \in Transitions
                <=> s \in {"TUNING", "TRACKING", "RELOCKING"} /\ m = "STOP"
           /\ <<s, m, "IDLE">> \in Transitions <=> s = "STOPPING" /\ m = "STOPPED"
           /\ <<s, m>> \in CheckRows
                <=> \/ s = "TUNING" /\ m = "CHKLOCK"
                    \/ s = "TRACKING" /\ m = "TRACKING_CHK"
                    \/ s = "RELOCKING" /\ m = "RELOCKING_CHK"
           /\ <<s, m>> \in RecheckRows <=> s = "TRACKING" /\ m \in {"CHANGE", "RELOCKING_CHK"}
BY DEF Transitions, IdleRows, TuningRows, TrackingRows, RelockingRows, StoppingRows, CheckRows,
       RecheckRows

(* What the timer functions leave of the timer.                            *)
TimerIs == timer' \in [exists : BOOLEAN, armed : BOOLEAN] /\ timeout_msg'.event \in TimerMsgs

LEMMA TimerStays ==
    ASSUME FsmTypes,
           \/ UNCHANGED <<timer, timeout_msg>>
           \/ DeleteTimer
           \/ RestartTimer
           \/ \E p \in Paths, m \in TimerMsgs : AddTimer(p, m)
    PROVE  TimerIs
<1>1. CASE UNCHANGED <<timer, timeout_msg>>
  BY <1>1 DEF FsmTypes, TimerIs
<1>2. CASE DeleteTimer
  BY <1>2 DEF FsmTypes, TimerIs, DeleteTimer, NoTimer
<1>3. CASE RestartTimer
  <2>1. timer.exists \in BOOLEAN
    BY DEF FsmTypes
  <2>2. timer' \in [exists : BOOLEAN, armed : BOOLEAN]
    BY <1>3, <2>1 DEF FsmTypes, RestartTimer
  <2> QED
    BY <1>3, <2>2 DEF FsmTypes, RestartTimer, TimerIs
<1>4. CASE \E p \in Paths, m \in TimerMsgs : AddTimer(p, m)
  BY <1>4 DEF TimerIs, AddTimer
<1> QED
  BY <1>1, <1>2, <1>3, <1>4

(* What a message does to the state, and to what the task does next.       *)
Reacts(p, m, s, t) ==
    /\ fsm' = [fsm EXCEPT ![p] = s] /\ task' = [task EXCEPT ![p] = t]
    /\ t = "entering" => s = "TUNING"
    /\ t = "checking" => Timed(s)
    /\ IF fsm[p] = "STOPPING" THEN t = "reading" /\ s = IF m = "STOPPED" THEN "IDLE" ELSE "STOPPING"
                              ELSE s = "STOPPING" <=> t = "STOPPED"

LEMMA HandleReacts ==
    ASSUME FsmInv, NEW p \in Paths, NEW m \in FsmMsgs, task[p] = "reading",
           \/ Drop(p, m) \/ StartTuneFails(p, m)
           \/ ToTuning(p, m) \/ ToTracking(p, m) \/ ToRelocking(p, m)
           \/ ToStopping(p, m) \/ ToIdle(p, m)
           \/ StartCheck(p, m) \/ Recheck(p, m)
    PROVE  TimerIs /\ \E s \in States, t \in Doings : Reacts(p, m, s, t)
<1>1. fsm[p] \in States /\ fsm = [fsm EXCEPT ![p] = fsm[p]]
      /\ task = [task EXCEPT ![p] = "reading"]
  BY DEF FsmInv, FsmTypes
<1>2. FsmTypes /\ "reading" \in Doings
  BY DEF FsmInv, Doings
<1>3. CASE Drop(p, m)
  <2>1. Reacts(p, m, fsm[p], "reading")
    BY <1>1, <1>3, Rows DEF Drop, Reacts, States
  <2> QED
    BY <1>1, <1>2, <1>3, <2>1, TimerStays DEF Drop
<1>4. CASE StartTuneFails(p, m)
  <2>1. Reacts(p, m, fsm[p], "reading")
    BY <1>1, <1>4, Rows DEF StartTuneFails, Reacts
  <2> QED
    BY <1>1, <1>2, <1>4, <2>1, TimerStays DEF StartTuneFails
<1>5. CASE ToTuning(p, m)
  <2>1. Reacts(p, m, "TUNING", "entering")
    BY <1>1, <1>5, Rows DEF ToTuning, Moves, Reacts
  <2> QED
    BY <1>1, <1>2, <1>5, <2>1, TimerStays DEF ToTuning, States, Doings
<1>6. CASE ToTracking(p, m)
  <2>1. Reacts(p, m, "TRACKING", "reading")
    BY <1>1, <1>6, Rows DEF ToTracking, Moves, Reacts
  <2>2. "TRACKING_CHK" \in TimerMsgs
    BY DEF TimerMsgs
  <2> QED
    BY <1>1, <1>2, <1>6, <2>1, <2>2, TimerStays DEF ToTracking, States
<1>7. CASE ToRelocking(p, m)
  <2>1. Reacts(p, m, "RELOCKING", "reading")
    BY <1>1, <1>7, Rows DEF ToRelocking, Moves, Reacts
  <2>2. "RELOCKING_CHK" \in TimerMsgs
    BY DEF TimerMsgs
  <2> QED
    BY <1>1, <1>2, <1>7, <2>1, <2>2, TimerStays DEF ToRelocking, States
<1>8. CASE ToStopping(p, m)
  <2>1. Reacts(p, m, "STOPPING", "STOPPED")
    BY <1>1, <1>8, Rows DEF ToStopping, Moves, Reacts
  <2> QED
    BY <1>1, <1>2, <1>8, <2>1, TimerStays DEF ToStopping, States, Doings, InnerMsgs
<1>9. CASE ToIdle(p, m)
  <2>1. Reacts(p, m, "IDLE", "reading")
    BY <1>1, <1>9, Rows DEF ToIdle, Moves, Reacts
  <2> QED
    BY <1>1, <1>2, <1>9, <2>1, TimerStays DEF ToIdle, States
<1>10. CASE StartCheck(p, m)
  <2>1. Reacts(p, m, fsm[p], "checking")
    BY <1>1, <1>10, Rows DEF StartCheck, Reacts, Timed
  <2> QED
    BY <1>1, <1>2, <1>10, <2>1, TimerStays DEF StartCheck, Doings
<1>11. CASE Recheck(p, m)
  <2>1. Reacts(p, m, fsm[p], "reading")
    BY <1>1, <1>11, Rows DEF Recheck, Reacts
  <2> QED
    BY <1>1, <1>2, <1>11, <2>1, TimerStays DEF Recheck
<1> QED
  BY <1>3, <1>4, <1>5, <1>6, <1>7, <1>8, <1>9, <1>10, <1>11

LEMMA HandleKeepsFsm ==
    ASSUME FsmInv, NEW p \in Paths, Handle(p)
    PROVE  FsmInv'
<1> PICK q : q = queue[p]
  OBVIOUS
<1>1. PICK m \in FsmMsgs :
         /\ task[p] = "reading" /\ q # <<>> /\ m = Head(q)
         /\ queue' = [queue EXCEPT ![p] = Tail(q)]
         /\ \/ Drop(p, m) \/ StartTuneFails(p, m)
            \/ ToTuning(p, m) \/ ToTracking(p, m) \/ ToRelocking(p, m)
            \/ ToStopping(p, m) \/ ToIdle(p, m)
            \/ StartCheck(p, m) \/ Recheck(p, m)
  BY DEF Handle, Reads
<1>2. PICK s \in States, t \in Doings : Reacts(p, m, s, t)
  BY <1>1, HandleReacts
<1>3. TimerIs
  BY <1>1, HandleReacts
<1>4. q \in Seq(FsmMsgs) /\ Tail(q) \in Seq(FsmMsgs)
  BY <1>1, RangeOfTail DEF FsmInv, FsmTypes
<1>5. PathOk(fsm[p], "reading", q)
  BY <1>1 DEF FsmInv
<1>6. PathOk(s, t, Tail(q))
  BY <1>1, <1>2, <1>4, <1>5, ComingRead DEF PathOk, Reacts
<1>7. UNCHANGED client
  BY DEF Handle, clientVars
<1> QED
  BY <1>1, <1>2, <1>3, <1>4, <1>6, <1>7, PathGoes DEF FsmInv, FsmTypes, TimerIs, Reacts

LEMMA CheckKeepsFsm ==
    ASSUME FsmInv, NEW p \in Paths, Check(p)
    PROVE  FsmInv'
<1>1. PICK t \in {"reading", "LOCKED", "UNLOCKED"} : task' = [task EXCEPT ![p] = t]
  BY DEF Check, CheckTuning, CheckTracking, CheckRelocking, Says, Waits
<1>2. TimerIs
  <2>1. "CHKLOCK" \in TimerMsgs
    BY DEF TimerMsgs
  <2> QED
    BY <2>1, TimerStays DEF Check, CheckTuning, CheckTracking, CheckRelocking, Says, FsmInv
<1>3. UNCHANGED <<fsm, queue, client>> /\ task[p] \in {"entering", "checking"}
  BY DEF Check, clientVars
<1>4. PathOk(fsm[p], t, queue[p])
  BY <1>1, <1>3 DEF FsmInv, PathOk, Timed
<1>5. fsm' = [fsm EXCEPT ![p] = fsm[p]] /\ queue' = [queue EXCEPT ![p] = queue[p]]
      /\ fsm[p] \in States /\ queue[p] \in Seq(FsmMsgs) /\ t \in Doings
  BY <1>1, <1>3 DEF FsmInv, FsmTypes, Doings, InnerMsgs
<1> QED
  BY <1>1, <1>2, <1>3, <1>4, <1>5, PathGoes DEF FsmInv, FsmTypes, TimerIs

(* Anybody else only adds a message.                                       *)
LEMMA MessageKeepsFsm ==
    ASSUME FsmInv, NEW p, NEW m \in CntrlMsgs \cup TimerMsgs,
           queue' = [queue EXCEPT ![p] = Append(@, m)], UNCHANGED <<fsm, task, timer, timeout_msg>>,
           client' = [c \in Clients |-> client'[c]],
           \A c \in Clients : "msg" \in DOMAIN client'[c] /\ client'[c].msg \in CntrlMsgs
    PROVE  FsmInv'
<1>0. CASE p \notin Paths
  BY <1>0 DEF FsmInv, FsmTypes
<1> SUFFICES ASSUME p \in Paths PROVE FsmInv'
  BY <1>0
<1> PICK q : q = queue[p]
  OBVIOUS
<1>1. m \in FsmMsgs /\ m # "STOPPED" /\ q \in Seq(FsmMsgs) /\ PathOk(fsm[p], task[p], q)
  BY DEF FsmMsgs, CntrlMsgs, TimerMsgs, FsmInv, FsmTypes
<1>2. Append(q, m) \in Seq(FsmMsgs)
  BY <1>1, RangeOfAppend
<1>3. PathOk(fsm[p], task[p], Append(q, m))
  BY <1>1, ComingAppended DEF PathOk
<1>4. /\ fsm' = [fsm EXCEPT ![p] = fsm[p]] /\ task' = [task EXCEPT ![p] = task[p]]
      /\ queue' = [queue EXCEPT ![p] = Append(q, m)]
      /\ fsm[p] \in States /\ task[p] \in Doings
  BY DEF FsmInv, FsmTypes
<1> QED
  BY <1>2, <1>3, <1>4, PathGoes DEF FsmInv, FsmTypes

LEMMA SendToSelfKeepsFsm ==
    ASSUME FsmInv, NEW p \in Paths, SendToSelf(p)
    PROVE  FsmInv'
<1> PICK q : q = queue[p]
  OBVIOUS
<1> PICK m : m = task[p]
  OBVIOUS
<1>1. m \in FsmMsgs /\ q \in Seq(FsmMsgs) /\ PathOk(fsm[p], m, q) /\ m \in InnerMsgs
  BY DEF SendToSelf, FsmMsgs, FsmInv, FsmTypes
<1>2. Append(q, m) \in Seq(FsmMsgs)
  BY <1>1, RangeOfAppend
<1>3. PathOk(fsm[p], "reading", Append(q, m))
  BY <1>1, ComingAppended DEF PathOk
<1>4. /\ fsm' = [fsm EXCEPT ![p] = fsm[p]] /\ task' = [task EXCEPT ![p] = "reading"]
      /\ queue' = [queue EXCEPT ![p] = Append(q, m)]
      /\ fsm[p] \in States /\ "reading" \in Doings
  BY DEF FsmInv, FsmTypes, SendToSelf, Doings
<1>5. UNCHANGED <<timer, timeout_msg, client>>
  BY DEF SendToSelf, timerVars, clientVars
<1> QED
  BY <1>2, <1>3, <1>4, <1>5, PathGoes DEF FsmInv, FsmTypes

LEMMA TimeKeepsFsm ==
    ASSUME FsmInv, Expire
    PROVE  FsmInv'
BY DEF Expire, taskVars, clientVars, FsmInv, FsmTypes

(* A call that writes nothing yet.                                         *)
LEMMA CallKeepsFsm ==
    ASSUME FsmInv, NEW c \in Clients, UNCHANGED <<queue, fsm, task, timer, timeout_msg>>,
           NEW r, client' = [client EXCEPT ![c] = r], "msg" \in DOMAIN r, r.msg \in CntrlMsgs
    PROVE  FsmInv'
BY DEF FsmInv, FsmTypes

LEMMA ClientKeepsFsm ==
    ASSUME FsmInv, NEW c \in Clients,
           \/ Decide(c) \/ Stopped(c)
           \/ \E p \in Paths : StopTuner(c, p) \/ \E f \in Freqs : StartTuner(c, p, f)
    PROVE  FsmInv'
<1>1. "msg" \in DOMAIN client[c] /\ client[c].msg \in CntrlMsgs
  BY DEF FsmInv, FsmTypes
<1>2. UNCHANGED <<queue, fsm, task, timer, timeout_msg>>
  BY DEF Decide, Stopped, StopTuner, StartTuner, taskVars, timerVars
<1>3. CASE Decide(c)
  <2>1. PICK m \in CntrlMsgs : client' = [client EXCEPT ![c] =
                                    [client[c] EXCEPT !.at = "sending", !.msg = m]]
    BY <1>3 DEF Decide, Goto, CntrlMsgs
  <2>2. PICK r : r = [client[c] EXCEPT !.at = "sending", !.msg = m]
    OBVIOUS
  <2>3. "msg" \in DOMAIN r /\ r.msg \in CntrlMsgs
    BY <1>1, <2>2
  <2> QED
    BY <1>2, <2>1, <2>2, <2>3, CallKeepsFsm
<1>4. CASE Stopped(c)
  <2>1. "msg" \in DOMAIN Out /\ Out.msg \in CntrlMsgs
    BY DEF Out, CntrlMsgs
  <2> QED
    BY <1>2, <1>4, <2>1, CallKeepsFsm DEF Stopped, Goto
<1>5. CASE \E p \in Paths : StopTuner(c, p)
  <2>1. PICK p, stopped : client' = [client EXCEPT ![c] =
                             [client[c] EXCEPT !.at = "sending", !.path = p, !.msg = "STOP",
                                               !.stopped = stopped]]
    BY <1>5 DEF StopTuner, Goto
  <2>2. PICK r : r = [client[c] EXCEPT !.at = "sending", !.path = p, !.msg = "STOP",
                                       !.stopped = stopped]
    OBVIOUS
  <2>3. "msg" \in DOMAIN r /\ r.msg \in CntrlMsgs
    BY <1>1, <2>2 DEF CntrlMsgs
  <2> QED
    BY <1>2, <2>1, <2>2, <2>3, CallKeepsFsm
<1>6. CASE \E p \in Paths, f \in Freqs : StartTuner(c, p, f)
  <2>1. PICK p \in Paths, f \in Freqs : client' = [client EXCEPT ![c] =
                             [client[c] EXCEPT !.at = "deciding", !.path = p,
                                               !.changed = freq[p] # f, !.stopped = FALSE]]
    BY <1>6 DEF StartTuner, Goto
  <2> PICK changed : changed = (freq[p] # f)
    OBVIOUS
  <2>2. client' = [client EXCEPT ![c] = [client[c] EXCEPT !.at = "deciding", !.path = p,
                                               !.changed = changed, !.stopped = FALSE]]
    BY <2>1, Zenon
  <2>3. PICK r : r = [client[c] EXCEPT !.at = "deciding", !.path = p,
                                       !.changed = changed, !.stopped = FALSE]
    OBVIOUS
  <2>4. "msg" \in DOMAIN r /\ r.msg \in CntrlMsgs
    BY <1>1, <2>3
  <2> QED
    BY <1>2, <2>2, <2>3, <2>4, CallKeepsFsm
<1> QED
  BY <1>3, <1>4, <1>5, <1>6

LEMMA SendKeepsFsm ==
    ASSUME FsmInv, NEW c \in Clients, Send(c)
    PROVE  FsmInv'
<1> PICK p : p = client[c].path
  OBVIOUS
<1> PICK m : m = client[c].msg
  OBVIOUS
<1>1. m \in CntrlMsgs /\ "msg" \in DOMAIN client[c]
  BY DEF FsmInv, FsmTypes
<1>2. queue' = [queue EXCEPT ![p] = Append(@, m)] /\ UNCHANGED <<fsm, task, timer, timeout_msg>>
  BY DEF Send, timerVars
<1>3. PICK r : client' = [client EXCEPT ![c] = r] /\ "msg" \in DOMAIN r /\ r.msg \in CntrlMsgs
  <2>1. PICK r : r = IF client[c].msg = "STOP" THEN [client[c] EXCEPT !.at = "stopping"]
                     ELSE [Out EXCEPT !.stopped = FALSE]
    OBVIOUS
  <2>2. "msg" \in DOMAIN r /\ r.msg \in CntrlMsgs
    BY <1>1, <2>1 DEF Out, CntrlMsgs
  <2>3. client' = [client EXCEPT ![c] = r]
    BY <2>1 DEF Send, Goto
  <2> QED
    BY <2>2, <2>3
<1>4. /\ client' = [d \in Clients |-> client'[d]]
      /\ \A d \in Clients : "msg" \in DOMAIN client'[d] /\ client'[d].msg \in CntrlMsgs
  BY <1>3 DEF FsmInv, FsmTypes
<1> QED
  BY <1>1, <1>2, <1>4, MessageKeepsFsm

LEMMA CallbackKeepsFsm ==
    ASSUME FsmInv, TimerCallback
    PROVE  FsmInv'
<1>1. PICK p : p = timeout_msg.path
  OBVIOUS
<1>2. PICK m : m = timeout_msg.event
  OBVIOUS
<1>3. queue' = [queue EXCEPT ![p] = Append(@, m)] /\ m \in TimerMsgs
      /\ UNCHANGED <<fsm, task, timer, timeout_msg, client>>
  BY <1>1, <1>2 DEF TimerCallback, clientVars, FsmInv, FsmTypes
<1> QED
  BY <1>3, MessageKeepsFsm DEF FsmInv, FsmTypes

LEMMA FsmStep == FsmInv /\ [FsmNext]_fsmVars => FsmInv'
<1> SUFFICES ASSUME FsmInv, [FsmNext]_fsmVars PROVE FsmInv'
  OBVIOUS
<1>1. CASE UNCHANGED <<queue, fsm, task, timer, timeout_msg, client>>
  BY <1>1 DEF FsmInv, FsmTypes
<1>2. ASSUME NEW p \in Paths, Task(p) PROVE FsmInv'
  BY <1>2, HandleKeepsFsm, CheckKeepsFsm, SendToSelfKeepsFsm DEF Task
<1>3. ASSUME NEW p \in Paths, FrontendLocks(p) \/ FrontendLoses(p)
      PROVE  UNCHANGED <<queue, fsm, task, timer, timeout_msg, client>>
  BY <1>3 DEF FrontendLocks, FrontendLoses, taskVars, timerVars, clientVars
<1>4. ASSUME NEW c \in Clients,
             \/ Client(c)
             \/ \E p \in Paths : StopTuner(c, p) \/ \E f \in Freqs : StartTuner(c, p, f)
      PROVE  FsmInv'
  BY <1>4, ClientKeepsFsm, SendKeepsFsm DEF Client
<1> QED
  BY <1>1, <1>2, <1>3, <1>4, TimeKeepsFsm, CallbackKeepsFsm DEF FsmNext, fsmVars

(* STOPPING has no timer: it ends because one STOPPED is on its way, and   *)
(* none ever is for another state to ignore.  This holds for any number of *)
(* paths that share the timer.                                             *)
THEOREM StoppingEndsTheorem == FsmSpec => []StoppingEnds
<1>1. FsmInv => StoppingEnds
  <2> SUFFICES ASSUME FsmInv, NEW p \in Paths
               PROVE  Cardinality({i \in DOMAIN queue[p] : queue[p][i] = "STOPPED"})
                        + (IF task[p] = "STOPPED" THEN 1 ELSE 0)
                          = IF fsm[p] = "STOPPING" THEN 1 ELSE 0
    BY DEF StoppingEnds
  <2>1. PathOk(fsm[p], task[p], queue[p]) /\ queue[p] \in Seq(FsmMsgs)
    BY DEF FsmInv, FsmTypes
  <2>2. PICK n : n = Cardinality({i \in DOMAIN queue[p] : queue[p][i] = "STOPPED"})
    OBVIOUS
  <2>3. (NoneComing(queue[p]) => n = 0) /\ (OneComing(queue[p]) => n = 1)
    BY <2>1, <2>2, ComingCounted
  <2> QED
    BY <2>1, <2>2, <2>3 DEF PathOk
<1> QED
  BY <1>1, FsmInitOk, FsmStep, PTL DEF FsmSpec


(* What a path waits for in a state: the timer's event, or a verdict.      *)
OwnEvent(s) == IF s = "TUNING" THEN "CHKLOCK"
               ELSE IF s = "TRACKING" THEN "TRACKING_CHK" ELSE "RELOCKING_CHK"

News(s) == IF s = "TUNING" THEN {"LOCKED", "UNLOCKED"}
           ELSE IF s = "TRACKING" THEN {"UNLOCKED"}
           ELSE IF s = "RELOCKING" THEN {"LOCKED"} ELSE {}

Ticks(s, q, tm, cb) == tm.exists /\ (tm.armed \/ cb > 0 \/ OwnEvent(s) \in Range(q))
Informed(s, t, q) == \E m \in News(s) : m \in Range(q) \/ t = m

(* The one path there is waits with its timer, or has a verdict coming.    *)
(* While it looks at the frontend the timer must still be there to be      *)
(* started again.                                                          *)
Awake(p, s, t, q, tm, msg, cb) ==
    /\ cb \in Nat
    /\ tm.armed => tm.exists
    /\ tm.exists => Timed(s) /\ msg.path = p /\ msg.event = OwnEvent(s)
    /\ t \in {"LOCKED", "UNLOCKED"} => t \in News(s)
    /\ Timed(s) => \/ t = "entering"
                   \/ t = "checking" /\ tm.exists
                   \/ Ticks(s, q, tm, cb)
                   \/ Informed(s, t, q)

WakeInv(p) == Awake(p, fsm[p], task[p], queue[p], timer, timeout_msg, callbacks)

LEMMA WaitsFor ==
    ASSUME NEW s \in States, Timed(s)
    PROVE  /\ <<s, OwnEvent(s)>> \in CheckRows /\ Answers(s, OwnEvent(s))
           /\ OwnEvent(s) \in TimerMsgs
           /\ \A m \in News(s) : Answers(s, m) /\ m \in InnerMsgs
<1>1. OwnEvent(s) \in FsmMsgs /\ OwnEvent(s) \in TimerMsgs /\ News(s) \subseteq FsmMsgs
      /\ News(s) \subseteq InnerMsgs
  BY DEF OwnEvent, News, FsmMsgs, TimerMsgs, InnerMsgs
<1>2. <<s, OwnEvent(s)>> \in CheckRows
  BY <1>1, Rows DEF OwnEvent, Timed
<1>3. \A m \in News(s) : \E t \in States : <<s, m, t>> \in Transitions
  BY <1>1, Rows DEF News, Timed, States
<1> QED
  BY <1>1, <1>2, <1>3 DEF Answers

LEMMA HandleKeepsAwake ==
    ASSUME NEW p, Paths = {p}, FsmInv, WakeInv(p), Handle(p)
    PROVE  WakeInv(p)'
<1> PICK q : q = queue[p]
  OBVIOUS
<1> PICK s : s = fsm[p]
  OBVIOUS
<1>1. PICK m \in FsmMsgs :
         /\ task[p] = "reading" /\ q # <<>> /\ m = Head(q)
         /\ queue' = [queue EXCEPT ![p] = Tail(q)]
         /\ \/ Drop(p, m) \/ StartTuneFails(p, m)
            \/ ToTuning(p, m) \/ ToTracking(p, m) \/ ToRelocking(p, m)
            \/ ToStopping(p, m) \/ ToIdle(p, m)
            \/ StartCheck(p, m) \/ Recheck(p, m)
  BY DEF Handle, Reads
<1>2. /\ q \in Seq(FsmMsgs) /\ s \in States /\ timeout_msg.event \in TimerMsgs
      /\ fsm \in [Paths -> States] /\ task \in [Paths -> Doings]
      /\ queue \in [Paths -> Seq(FsmMsgs)] /\ p \in Paths
  BY DEF FsmInv, FsmTypes
<1>3. queue'[p] = Tail(q) /\ \A x \in Range(q) : x = m \/ x \in Range(Tail(q))
  BY <1>1, <1>2, RangeOfTail
<1>4. UNCHANGED callbacks
  BY DEF Handle
<1>5. Awake(p, s, "reading", q, timer, timeout_msg, callbacks)
  BY <1>1 DEF WakeInv
<1>6. ASSUME UNCHANGED <<fsm, task, timer, timeout_msg>>, m # OwnEvent(s), m \notin News(s)
      PROVE  WakeInv(p)'
  BY <1>1, <1>3, <1>4, <1>5, <1>6 DEF WakeInv, Awake, Ticks, Informed
<1>7. CASE Drop(p, m) \/ StartTuneFails(p, m)
  <2>1. CASE Timed(s)
    <3>1. m # OwnEvent(s) /\ m \notin News(s)
      BY <1>2, <1>7, <2>1, WaitsFor, Rows
         DEF Drop, StartTuneFails, Answers, InnerMsgs, TimerMsgs, News, OwnEvent
    <3> QED
      BY <1>6, <1>7, <3>1 DEF Drop, StartTuneFails
  <2>2. CASE ~Timed(s)
    BY <1>1, <1>3, <1>4, <1>5, <1>7, <2>2 DEF Drop, StartTuneFails, WakeInv, Awake
  <2> QED
    BY <2>1, <2>2
<1>8. CASE ToTuning(p, m)
  <2>1. fsm'[p] = "TUNING" /\ task'[p] = "entering"
    BY <1>2, <1>8 DEF ToTuning, Moves
  <2>2. ~timer'.exists /\ ~timer'.armed
    <3>1. CASE Timed(s)
      BY <1>8, <3>1 DEF ToTuning, DeleteTimer, NoTimer
    <3>2. CASE ~Timed(s)
      BY <1>5, <1>8, <3>2 DEF ToTuning, Awake
    <3> QED
      BY <3>1, <3>2
  <2> QED
    BY <1>4, <1>5, <2>1, <2>2 DEF WakeInv, Awake
<1>9. CASE ToTracking(p, m)
  <2>1. fsm'[p] = "TRACKING" /\ task'[p] = "reading"
    BY <1>1, <1>2, <1>9 DEF ToTracking, Moves
  <2>2. timer'.exists /\ timer'.armed /\ timeout_msg'.path = p
        /\ timeout_msg'.event = "TRACKING_CHK"
    BY <1>9 DEF ToTracking, AddTimer
  <2> QED
    BY <1>4, <1>5, <2>1, <2>2 DEF WakeInv, Awake, Timed, OwnEvent, Ticks
<1>10. CASE ToRelocking(p, m)
  <2>1. fsm'[p] = "RELOCKING" /\ task'[p] = "reading"
    BY <1>1, <1>2, <1>10 DEF ToRelocking, Moves
  <2>2. timer'.exists /\ timer'.armed /\ timeout_msg'.path = p
        /\ timeout_msg'.event = "RELOCKING_CHK"
    BY <1>10 DEF ToRelocking, AddTimer
  <2> QED
    BY <1>4, <1>5, <2>1, <2>2 DEF WakeInv, Awake, Timed, OwnEvent, Ticks
<1>11. CASE ToStopping(p, m)
  <2>1. fsm'[p] = "STOPPING" /\ task'[p] = "STOPPED" /\ ~timer'.exists /\ ~timer'.armed
    BY <1>2, <1>11 DEF ToStopping, Moves, DeleteTimer, NoTimer
  <2> QED
    BY <1>4, <1>5, <2>1 DEF WakeInv, Awake, Timed
<1>12. CASE ToIdle(p, m)
  <2>1. s = "STOPPING"
    BY <1>2, <1>12, Rows DEF ToIdle
  <2>2. fsm'[p] = "IDLE" /\ task'[p] = "reading" /\ UNCHANGED <<timer, timeout_msg>>
    BY <1>1, <1>2, <1>12 DEF ToIdle, Moves
  <2> QED
    BY <1>4, <1>5, <2>1, <2>2 DEF WakeInv, Awake, Timed
<1>13. CASE StartCheck(p, m)
  <2>1. Timed(s) /\ m = OwnEvent(s) /\ m \notin News(s)
    BY <1>2, <1>13, Rows DEF StartCheck, Timed, OwnEvent, News
  <2>2. task'[p] = "checking" /\ UNCHANGED <<fsm, timer, timeout_msg>>
    BY <1>2, <1>13 DEF StartCheck
  <2>3. timer.exists \/ \E x \in News(s) : x \in Range(queue'[p])
    <3>1. timer.exists \/ Informed(s, "reading", q)
      BY <1>5, <2>1 DEF Awake, Ticks
    <3>2. "reading" \notin News(s)
      BY DEF News
    <3> QED
      BY <1>3, <2>1, <3>1, <3>2 DEF Informed
  <2>4. Awake(p, s, "checking", queue'[p], timer, timeout_msg, callbacks)
    <3>1. /\ callbacks \in Nat /\ (timer.armed => timer.exists)
          /\ timer.exists => Timed(s) /\ timeout_msg.path = p /\ timeout_msg.event = OwnEvent(s)
      BY <1>5 DEF Awake
    <3> QED
      BY <2>3, <3>1 DEF Awake, Informed
  <2> QED
    BY <1>4, <2>2, <2>4 DEF WakeInv
<1>14. CASE Recheck(p, m)
  <2>1. s = "TRACKING" /\ m # OwnEvent(s) /\ m \notin News(s)
    BY <1>2, <1>14, Rows DEF Recheck, OwnEvent, News
  <2>2. UNCHANGED <<fsm, task>> /\ (RestartTimer \/ UNCHANGED <<timer, timeout_msg>>)
    BY <1>14 DEF Recheck
  <2>3. CASE UNCHANGED <<timer, timeout_msg>>
    BY <1>6, <2>1, <2>2, <2>3
  <2>4. CASE RestartTimer
    <3>1. timer'.exists = timer.exists /\ timer'.armed = timer.exists /\ UNCHANGED timeout_msg
      BY <2>4 DEF RestartTimer, FsmInv, FsmTypes
    <3> QED
      BY <1>1, <1>3, <1>4, <1>5, <2>1, <2>2, <3>1 DEF WakeInv, Awake, Ticks, Informed
  <2> QED
    BY <2>2, <2>3, <2>4
<1> QED
  BY <1>1, <1>7, <1>8, <1>9, <1>10, <1>11, <1>12, <1>13, <1>14

LEMMA CheckKeepsAwake ==
    ASSUME NEW p, Paths = {p}, FsmInv, WakeInv(p), Check(p)
    PROVE  WakeInv(p)'
<1>1. /\ p \in Paths /\ task \in [Paths -> Doings] /\ timer \in [exists : BOOLEAN, armed : BOOLEAN]
      /\ fsm[p] \in States
  BY DEF FsmInv, FsmTypes
<1>2. UNCHANGED <<queue, fsm, callbacks>> /\ task[p] \in {"entering", "checking"}
  BY DEF Check
<1>3. PICK v : CheckTuning(p, v) \/ CheckTracking(p, v) \/ CheckRelocking(p, v)
  BY DEF Check
<1>4. fsm[p] = "TUNING" \/ task[p] = "checking"
  BY <1>1, <1>2 DEF FsmInv, PathOk
<1>5. Timed(fsm[p])
  BY <1>3 DEF CheckTuning, CheckTracking, CheckRelocking, Timed
<1>6. ASSUME NEW m \in News(fsm[p]), Says(p, m) PROVE WakeInv(p)'
  <2>1. task'[p] = m /\ UNCHANGED <<timer, timeout_msg>>
    BY <1>1, <1>6 DEF Says
  <2>2. m # "entering" /\ m # "checking"
    BY <1>6 DEF News
  <2> QED
    BY <1>2, <1>6, <2>1, <2>2 DEF WakeInv, Awake, Informed
<1>7. ASSUME task[p] = "checking", RestartTimer, Waits(p) PROVE WakeInv(p)'
  <2>1. timer'.exists = timer.exists /\ timer'.armed = timer.exists /\ UNCHANGED timeout_msg
    BY <1>1, <1>7 DEF RestartTimer
  <2>2. task'[p] = "reading"
    BY <1>1, <1>7 DEF Waits
  <2>3. timer.exists \/ \E m \in News(fsm[p]) : m \in Range(queue[p])
    BY <1>5, <1>7 DEF WakeInv, Awake, Ticks, Informed, News
  <2> QED
    BY <1>2, <2>1, <2>2, <2>3 DEF WakeInv, Awake, Ticks, Informed
<1>8. ASSUME fsm[p] = "TUNING", AddTimer(p, "CHKLOCK"), Waits(p) PROVE WakeInv(p)'
  <2>1. timer'.exists /\ timer'.armed /\ timeout_msg'.path = p /\ timeout_msg'.event = "CHKLOCK"
    BY <1>8 DEF AddTimer
  <2>2. task'[p] = "reading"
    BY <1>1, <1>8 DEF Waits
  <2> QED
    BY <1>2, <1>5, <1>8, <2>1, <2>2 DEF WakeInv, Awake, Ticks, OwnEvent
<1>9. CASE CheckTuning(p, v)
  <2>1. "LOCKED" \in News(fsm[p]) /\ "UNLOCKED" \in News(fsm[p]) /\ fsm[p] = "TUNING"
    BY <1>9 DEF CheckTuning, News
  <2> QED
    BY <1>6, <1>7, <1>8, <1>9, <2>1 DEF CheckTuning
<1>10. CASE CheckTracking(p, v)
  <2>1. "UNLOCKED" \in News(fsm[p]) /\ task[p] = "checking"
    BY <1>4, <1>10 DEF CheckTracking, News
  <2> QED
    BY <1>6, <1>7, <1>10, <2>1 DEF CheckTracking
<1>11. CASE CheckRelocking(p, v)
  <2>1. "LOCKED" \in News(fsm[p]) /\ task[p] = "checking"
    BY <1>4, <1>11 DEF CheckRelocking, News
  <2> QED
    BY <1>6, <1>7, <1>11, <2>1 DEF CheckRelocking
<1> QED
  BY <1>3, <1>9, <1>10, <1>11

(* A message more wakes nobody less.                                       *)
LEMMA MessageKeepsAwake ==
    ASSUME NEW p, Paths = {p}, FsmInv, WakeInv(p), NEW r, NEW m \in FsmMsgs,
           queue' = [queue EXCEPT ![r] = Append(@, m)],
           UNCHANGED <<fsm, timer, timeout_msg, callbacks>>,
           \/ task'[p] = task[p]
           \/ r = p /\ m = task[p] /\ task[p] \in InnerMsgs /\ task'[p] = "reading"
    PROVE  WakeInv(p)'
<1>1. p \in Paths /\ queue \in [Paths -> Seq(FsmMsgs)]
  BY DEF FsmInv, FsmTypes
<1>2. Range(queue[p]) \subseteq Range(queue'[p]) /\ (r = p => m \in Range(queue'[p]))
  BY <1>1, RangeOfAppend
<1>3. "reading" \notin InnerMsgs /\ "checking" \notin InnerMsgs /\ "entering" \notin InnerMsgs
  BY DEF InnerMsgs
<1> QED
  BY <1>2, <1>3 DEF WakeInv, Awake, Ticks, Informed

LEMMA CallbackKeepsAwake ==
    ASSUME NEW p, Paths = {p}, FsmInv, WakeInv(p), TimerCallback
    PROVE  WakeInv(p)'
<1> PICK r : r = timeout_msg.path
  OBVIOUS
<1> PICK m : m = timeout_msg.event
  OBVIOUS
<1>1. p \in Paths /\ queue \in [Paths -> Seq(FsmMsgs)] /\ m \in FsmMsgs
  BY DEF FsmInv, FsmTypes, FsmMsgs
<1>2. queue' = [queue EXCEPT ![r] = Append(@, m)] /\ callbacks' = callbacks - 1 /\ callbacks > 0
      /\ UNCHANGED <<fsm, task, timer, timeout_msg>>
  BY DEF TimerCallback
<1>3. Range(queue[p]) \subseteq Range(queue'[p]) /\ (r = p => m \in Range(queue'[p]))
  BY <1>1, <1>2, RangeOfAppend
<1>4. callbacks' \in Nat
  BY <1>2 DEF WakeInv, Awake
<1>5. timer.exists => OwnEvent(fsm[p]) \in Range(queue'[p])
  BY <1>3 DEF WakeInv, Awake
<1> QED
  BY <1>2, <1>3, <1>4, <1>5 DEF WakeInv, Awake, Ticks, Informed

LEMMA ExpireKeepsAwake ==
    ASSUME NEW p, Paths = {p}, FsmInv, WakeInv(p), Expire
    PROVE  WakeInv(p)'
<1>1. timer.armed /\ callbacks' = callbacks + 1 /\ UNCHANGED <<fsm, task, queue, timeout_msg>>
      /\ timer'.exists = timer.exists /\ ~timer'.armed
  BY DEF Expire, taskVars, FsmInv, FsmTypes
<1>2. timer.exists /\ callbacks' > 0 /\ callbacks' \in Nat
  BY <1>1 DEF WakeInv, Awake
<1> QED
  BY <1>1, <1>2 DEF WakeInv, Awake, Ticks

LEMMA AwakeStep ==
    ASSUME NEW p, Paths = {p}, FsmInv, WakeInv(p), [FsmNext]_fsmVars
    PROVE  WakeInv(p)'
<1>1. CASE UNCHANGED <<queue, fsm, task, timer, timeout_msg, callbacks>>
  BY <1>1 DEF WakeInv
<1>2. CASE Task(p)
  <2>1. CASE SendToSelf(p)
    <3>1. PICK m : m = task[p]
      OBVIOUS
    <3>2. m \in FsmMsgs /\ m \in InnerMsgs /\ queue' = [queue EXCEPT ![p] = Append(@, m)]
          /\ UNCHANGED <<fsm, timer, timeout_msg, callbacks>> /\ task'[p] = "reading"
      BY <2>1, <3>1 DEF SendToSelf, timerVars, FsmMsgs, FsmInv, FsmTypes
    <3> QED
      BY <3>1, <3>2, MessageKeepsAwake
  <2> QED
    BY <1>2, <2>1, HandleKeepsAwake, CheckKeepsAwake DEF Task
<1>3. CASE FrontendLocks(p) \/ FrontendLoses(p)
  BY <1>1, <1>3 DEF FrontendLocks, FrontendLoses, taskVars, timerVars
<1>4. ASSUME NEW c \in Clients,
             \/ Decide(c) \/ Stopped(c)
             \/ StopTuner(c, p) \/ \E f \in Freqs : StartTuner(c, p, f)
      PROVE  WakeInv(p)'
  BY <1>1, <1>4 DEF Decide, Stopped, StopTuner, StartTuner, taskVars, timerVars
<1>5. ASSUME NEW c \in Clients, Send(c) PROVE WakeInv(p)'
  <2>1. PICK r, m : r = client[c].path /\ m = client[c].msg
    OBVIOUS
  <2>2. m \in FsmMsgs /\ queue' = [queue EXCEPT ![r] = Append(@, m)]
        /\ UNCHANGED <<fsm, task, timer, timeout_msg, callbacks>>
    BY <1>5, <2>1 DEF Send, timerVars, FsmMsgs, FsmInv, FsmTypes
  <2> QED
    BY <2>2, MessageKeepsAwake
<1> QED
  BY <1>1, <1>2, <1>3, <1>4, <1>5, CallbackKeepsAwake, ExpireKeepsAwake
     DEF FsmNext, fsmVars, Client

LEMMA AwakeInit ==
    ASSUME NEW p, Paths = {p}, FsmInit
    PROVE  WakeInv(p)
BY DEF FsmInit, WakeInv, Awake, NoTimer, Timed, News

(* With one path, a path at work is never stranded, whatever messages      *)
(* cross each other in the queue, however many calls and expiries there    *)
(* are and however late a callback runs.  With two paths it may be: the    *)
(* timer is shared.                                                        *)
THEOREM NeverStrandedTheorem ==
    ASSUME NEW p, Paths = {p}
    PROVE  FsmSpec => []NeverStranded
<1>1. FsmInv /\ WakeInv(p) => TriesAgain
  <2> SUFFICES ASSUME FsmInv, WakeInv(p), Timed(fsm[p]), task[p] = "reading"
               PROVE  \/ /\ timer.armed \/ callbacks > 0
                         /\ timeout_msg.path = p /\ Answers(fsm[p], timeout_msg.event)
                      \/ \E m \in Range(queue[p]) \ CntrlMsgs : Answers(fsm[p], m)
    BY DEF TriesAgain
  <2>1. fsm[p] \in States
    BY DEF FsmInv, FsmTypes
  <2>2. /\ \A x \in TimerMsgs : x \notin CntrlMsgs
        /\ \A x \in InnerMsgs : x \notin CntrlMsgs
    BY DEF TimerMsgs, CntrlMsgs, InnerMsgs
  <2>3. CASE Ticks(fsm[p], queue[p], timer, callbacks)
    BY <2>1, <2>2, <2>3, WaitsFor DEF Ticks, WakeInv, Awake
  <2>4. CASE Informed(fsm[p], "reading", queue[p])
    <3>1. PICK m \in News(fsm[p]) : m \in Range(queue[p])
      BY <2>4 DEF Informed, News
    <3> QED
      BY <2>1, <2>2, <3>1, WaitsFor
  <2> QED
    BY <2>3, <2>4 DEF WakeInv, Awake
<1>2. FsmInv /\ WakeInv(p) => TimerFitsState
  BY WaitsFor DEF WakeInv, Awake, TimerFitsState, FsmInv, FsmTypes
<1>3. FsmInv /\ WakeInv(p) /\ [FsmNext]_fsmVars => WakeInv(p)'
  BY AwakeStep
<1>4. FsmInit => WakeInv(p)
  BY AwakeInit
<1>5. TriesAgain /\ TimerFitsState /\ StoppingEnds => NeverStranded
  BY DEF NeverStranded
<1> QED
  BY <1>1, <1>2, <1>3, <1>4, <1>5, StoppingEndsTheorem, FsmInitOk, FsmStep, PTL DEF FsmSpec
=============================================================================
