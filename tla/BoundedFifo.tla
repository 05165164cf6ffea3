----------------------------- MODULE BoundedFifo -----------------------------
(***************************************************************************)
(* What the message queues of stbhwos.h promise, without saying how: a     *)
(* queue of at most Capacity messages, taken out in the order they went    *)
(* in.  A call is pending from the moment a thread makes it until it       *)
(* returns; it takes effect once, in between, and a call that fails takes  *)
(* no effect at all.  Only a call that was allowed to give up may fail.    *)
(***************************************************************************)
EXTENDS Integers, Sequences

CONSTANTS Threads,    \* the tasks that use the queue
          Msgs,       \* the messages
          Capacity,   \* num_msgs of STB_OSCreateQueue
          NoMsg       \* what a call that moves no message has for a message

VARIABLES items,      \* the messages held, the oldest first
          call,       \* the call each thread is in
          result      \* what each thread has been returned, until it calls again

fifoVars == <<items, call, result>>

Timeouts == {"NOW", "NEVER", "TIMED"}

Calls ==
    [op : {"read"}, timeout : Timeouts, data : {NoMsg}]
       \cup [op : {"write"}, timeout : Timeouts, data : Msgs]

NoCall == [op |-> "none", timeout |-> "NOW", data |-> NoMsg]

Failed == [ok |-> FALSE, data |-> NoMsg]

FifoInit ==
    /\ items = <<>>
    /\ call = [t \in Threads |-> NoCall]
    /\ result = [t \in Threads |-> Failed]

Invoke(t) ==
    /\ call[t] = NoCall
    /\ \E c \in Calls : call' = [call EXCEPT ![t] = c]
    /\ result' = [result EXCEPT ![t] = Failed]
    /\ UNCHANGED items

Take(t) ==
    /\ call[t].op = "read"
    /\ items # <<>>
    /\ items' = Tail(items)
    /\ result' = [result EXCEPT ![t] = [ok |-> TRUE, data |-> Head(items)]]
    /\ call' = [call EXCEPT ![t] = NoCall]

Put(t) ==
    /\ call[t].op = "write"
    /\ Len(items) < Capacity
    /\ items' = Append(items, call[t].data)
    /\ result' = [result EXCEPT ![t] = [ok |-> TRUE, data |-> call[t].data]]
    /\ call' = [call EXCEPT ![t] = NoCall]

(* TIMEOUT_NOW may fail only for want of a message or of room.             *)
GiveUp(t) ==
    /\ call[t].op # "none"
    /\ call[t].timeout # "NEVER"
    /\ call[t].timeout = "NOW" =>
          IF call[t].op = "read" THEN items = <<>> ELSE Len(items) = Capacity
    /\ result' = [result EXCEPT ![t] = Failed]
    /\ call' = [call EXCEPT ![t] = NoCall]
    /\ UNCHANGED items

FifoNext == \E t \in Threads : Invoke(t) \/ Take(t) \/ Put(t) \/ GiveUp(t)

FifoSpec == FifoInit /\ [][FifoNext]_fifoVars
=============================================================================
