------------------------------- MODULE OsQueue -------------------------------
(***************************************************************************)
(* os/src/stbos_queue.c: the message queue every task of the platform      *)
(* layer uses.  A ring of QueueSize elements behind one pthread mutex and  *)
(* ONE condition variable, on which readers waiting for a message and      *)
(* writers waiting for room sleep together.                                *)
(*                                                                         *)
(* A call holds the mutex from its first test to its return, except while  *)
(* it sleeps in pthread_cond_wait, so one step stands for the code between *)
(* two points at which the mutex is free.                                  *)
(***************************************************************************)
EXTENDS Integers, Sequences

CONSTANTS Readers,      \* tasks that call STB_OSReadQueue
          Writers,      \* tasks that call STB_OSWriteQueue
          Msgs,         \* messages of elem_size bytes
          QueueSize,    \* num_msgs
          NoMsg         \* the contents of an element never written

ASSUME QueueSizeAssumption == QueueSize \in Nat \ {0}
ASSUME MsgsAssumption == NoMsg \notin Msgs

Threads == Readers \cup Writers

VARIABLES array, read_ptr, write_ptr, elem_count,   \* S_QUEUE
          pc,        \* where each thread is in its call
          call,      \* the arguments of that call
          result     \* what it was returned

queueVars == <<array, read_ptr, write_ptr, elem_count>>
vars == <<array, read_ptr, write_ptr, elem_count, pc, call, result>>

end_ptr == QueueSize
Slots == 0 .. (QueueSize - 1)
Timeouts == {"NOW", "NEVER", "TIMED"}

Calls(t) ==
    (IF t \in Readers THEN [op : {"read"}, timeout : Timeouts, data : {NoMsg}]
                      ELSE {})
    \cup
    (IF t \in Writers THEN [op : {"write"}, timeout : Timeouts, data : Msgs]
                      ELSE {})

NoCall == [op |-> "none", timeout |-> "NOW", data |-> NoMsg]
Failed == [ok |-> FALSE, data |-> NoMsg]

(* The condition a call waits for: a message to read, room to write.       *)
Ready(t) ==
    IF call[t].op = "read" THEN elem_count # 0 ELSE elem_count # QueueSize

(* A pointer one element further, back at the array when it meets end_ptr. *)
Advance(ptr) == IF ptr + 1 = end_ptr THEN 0 ELSE ptr + 1

(* What pthread_cond_signal would do; only a mutant uses it.               *)
WakeOne(p) ==
    LET sleepers == {t \in Threads : p[t] = "waiting"}
    IN  IF sleepers = {} THEN p
        ELSE [p EXCEPT ![CHOOSE t \in sleepers : TRUE] = "awake"]

(* Nobody woken at all; only a mutant uses it.                             *)
WakeNobody(p) == p

(* pthread_cond_broadcast after every successful read or write.            *)
Broadcast(p) == [t \in Threads |-> IF p[t] = "waiting" THEN "awake" ELSE p[t]]

(* STB_OSCreateQueue.                                                      *)
Init ==
    /\ array = [s \in Slots |-> NoMsg]
    /\ read_ptr = 0
    /\ write_ptr = 0
    /\ elem_count = 0
    /\ pc = [t \in Threads |-> "out"]
    /\ call = [t \in Threads |-> NoCall]
    /\ result = [t \in Threads |-> Failed]

(* A task calls STB_OSReadQueue or STB_OSWriteQueue and competes for the   *)
(* mutex.                                                                  *)
Invoke(t) ==
    /\ pc[t] = "out"
    /\ \E c \in Calls(t) : call' = [call EXCEPT ![t] = c]
    /\ pc' = [pc EXCEPT ![t] = "locking"]
    /\ result' = [result EXCEPT ![t] = Failed]
    /\ UNCHANGED queueVars

(* The call leaves with success = TRUE and has woken every sleeper.        *)
Return(t, msg) ==
    /\ result' = [result EXCEPT ![t] = [ok |-> TRUE, data |-> msg]]
    /\ call' = [call EXCEPT ![t] = NoCall]
    /\ pc' = Broadcast([pc EXCEPT ![t] = "out"])

(* "if" instead of "while" around the wait; only a mutant uses it.         *)
ReadWithoutRecheck(t) ==
    /\ pc[t] \in {"locking", "awake"}
    /\ call[t].op = "read"
    /\ Ready(t) \/ pc[t] = "awake"
    /\ read_ptr' = Advance(read_ptr)
    /\ elem_count' = elem_count - 1
    /\ Return(t, array[read_ptr])
    /\ UNCHANGED <<array, write_ptr>>

Read(t) ==
    /\ pc[t] \in {"locking", "awake"}
    /\ call[t].op = "read"
    /\ Ready(t)
    /\ read_ptr' = Advance(read_ptr)
    /\ elem_count' = elem_count - 1
    /\ Return(t, array[read_ptr])
    /\ UNCHANGED <<array, write_ptr>>

Write(t) ==
    /\ pc[t] \in {"locking", "awake"}
    /\ call[t].op = "write"
    /\ Ready(t)
    /\ array' = [array EXCEPT ![write_ptr] = call[t].data]
    /\ write_ptr' = Advance(write_ptr)
    /\ elem_count' = elem_count + 1
    /\ Return(t, call[t].data)
    /\ UNCHANGED read_ptr

(* WaitNoTimeout, WaitTimeout: sleep, the mutex released in the same step. *)
(* A thread that wakes and finds its condition false again sleeps again.   *)
Block(t) ==
    /\ pc[t] \in {"locking", "awake"}
    /\ ~Ready(t)
    /\ call[t].timeout # "NOW"
    /\ pc' = [pc EXCEPT ![t] = "waiting"]
    /\ UNCHANGED <<array, read_ptr, write_ptr, elem_count, call, result>>

(* POSIX lets pthread_cond_wait return without a signal.                   *)
SpuriousWakeup(t) ==
    /\ pc[t] = "waiting"
    /\ pc' = [pc EXCEPT ![t] = "awake"]
    /\ UNCHANGED <<array, read_ptr, write_ptr, elem_count, call, result>>

(* pthread_cond_timedwait gives up; the thread has still to get the mutex  *)
(* back, and messages may come and go before it does.                      *)
Timeout(t) ==
    /\ pc[t] = "waiting"
    /\ call[t].timeout = "TIMED"
    /\ pc' = [pc EXCEPT ![t] = "expired"]
    /\ UNCHANGED <<array, read_ptr, write_ptr, elem_count, call, result>>

(* success = FALSE: TIMEOUT_NOW that cannot be served, or a wait that      *)
(* timed out, even if the condition holds by the time the mutex is back.   *)
Fail(t) ==
    /\ \/ pc[t] = "expired"
       \/ pc[t] = "locking" /\ call[t].timeout = "NOW" /\ ~Ready(t)
    /\ pc' = [pc EXCEPT ![t] = "out"]
    /\ call' = [call EXCEPT ![t] = NoCall]
    /\ result' = [result EXCEPT ![t] = Failed]
    /\ UNCHANGED queueVars

Serve(t) == Read(t) \/ Write(t) \/ Block(t) \/ Fail(t)

Next == \E t \in Threads :
            Invoke(t) \/ Serve(t) \/ SpuriousWakeup(t) \/ Timeout(t)

Spec == Init /\ [][Next]_vars

(* A thread that can have the mutex gets it: the critical sections are     *)
(* short and every one ends.  Nothing obliges a task to make a call, a     *)
(* wait to time out, or a spurious wakeup to happen.                       *)
FairSpec == Spec /\ \A t \in Threads : WF_vars(Serve(t))

------------------------------------------------------------------------------
TypeOK ==
    /\ array \in [Slots -> Msgs \cup {NoMsg}]
    /\ read_ptr \in Slots
    /\ write_ptr \in Slots
    /\ elem_count \in 0 .. QueueSize
    /\ pc \in [Threads -> {"out", "locking", "waiting", "awake", "expired"}]
    /\ call \in [Threads -> [op : {"none", "read", "write"},
                             timeout : Timeouts, data : Msgs \cup {NoMsg}]]
    /\ result \in [Threads -> [ok : BOOLEAN, data : Msgs \cup {NoMsg}]]

(* The element i places after the oldest one.                              *)
Slot(i) == IF read_ptr + i < end_ptr THEN read_ptr + i
                                     ELSE read_ptr + i - end_ptr

(* The pointers and the count describe one and the same ring: the writer   *)
(* is elem_count elements ahead of the reader, wrap included.  The code    *)
(* keeps the three apart and never compares them.                          *)
RingConsistent == write_ptr = Slot(elem_count)

(* No lost wakeup: nobody sleeps on the shared condition variable while    *)
(* what it waits for is there, whoever was woken last and whoever took the *)
(* mutex first.  It is why the code broadcasts.                            *)
NoLostWakeup == \A t \in Threads : pc[t] = "waiting" => ~Ready(t)

(* A reader inside its call and a message in the queue do not stay         *)
(* together: the messages are taken, or this reader takes one and leaves.  *)
BlockedReadIsServed ==
    \A t \in Readers :
        (call[t].op = "read" /\ elem_count # 0)
            ~> (elem_count = 0 \/ pc[t] = "out")

(* The messages in the ring, the oldest first.                             *)
Contents == [i \in 1 .. elem_count |-> array[Slot(i - 1)]]

Fifo == INSTANCE BoundedFifo WITH
            Capacity <- QueueSize, items <- Contents

(* The ring implements the queue stbhwos.h promises: order kept, a failed  *)
(* call without effect, TIMEOUT_NEVER never failing and TIMEOUT_NOW        *)
(* failing only when there is nothing to read or no room.                  *)
ImplementsFifo == Fifo!FifoSpec
=============================================================================
