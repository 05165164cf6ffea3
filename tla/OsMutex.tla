------------------------------- MODULE OsMutex -------------------------------
(***************************************************************************)
(* os/src/stbos_mutex.c: a recursive lock made of a plain pthread mutex,   *)
(* the identity of its owner and a count.  The owner and the count are     *)
(* read and written outside any other protection: a thread decides whether *)
(* it already has the lock by reading thread_id while the owner may be     *)
(* anywhere in its own Lock or Unlock.  Each access is a step.             *)
(***************************************************************************)
EXTENDS Integers

CONSTANTS Threads,
          NoThread,     \* 0 in thread_id, and no owner of the pthread mutex
          MaxHolds      \* bound: how deep a thread nests its calls

ASSUME NoThreadAssumption == NoThread \notin Threads
ASSUME MaxHoldsAssumption == MaxHolds \in Nat \ {0}

VARIABLES lock,         \* who has the pthread mutex
          thread_id, lock_count,
          pc,           \* where each thread is in its call
          holds         \* the calls each thread made that succeeded and that
                        \* it has not undone: what the caller believes

vars == <<lock, thread_id, lock_count, pc, holds>>

(* STB_OSCreateMutex.                                                      *)
Init ==
    /\ lock = NoThread
    /\ thread_id = NoThread
    /\ lock_count = 0
    /\ pc = [t \in Threads |-> "out"]
    /\ holds = [t \in Threads |-> 0]

Goto(t, l) == pc' = [pc EXCEPT ![t] = l]

(* STB_OSMutexLock by the thread thread_id names: count one more.          *)
Relock(t) ==
    /\ pc[t] = "out"
    /\ thread_id = t
    /\ holds[t] < MaxHolds
    /\ lock_count' = lock_count + 1
    /\ holds' = [holds EXCEPT ![t] = @ + 1]
    /\ UNCHANGED <<lock, thread_id, pc>>

(* STB_OSMutexLock by any other thread: on to pthread_mutex_lock.          *)
Lock(t) ==
    /\ pc[t] = "out"
    /\ thread_id # t
    /\ Goto(t, "locking")
    /\ UNCHANGED <<lock, thread_id, lock_count, holds>>

(* STB_OSMutexLockTimeout goes to pthread_mutex_timedlock without asking   *)
(* whether the caller is the owner.                                        *)
LockTimeout(t) ==
    /\ pc[t] = "out"
    /\ Goto(t, "timedlocking")
    /\ UNCHANGED <<lock, thread_id, lock_count, holds>>

Acquire(t) ==
    /\ pc[t] \in {"locking", "timedlocking"}
    /\ lock = NoThread
    /\ lock' = t
    /\ Goto(t, "owning")
    /\ UNCHANGED <<thread_id, lock_count, holds>>

(* The wait of STB_OSMutexLockTimeout ends with the lock still taken, by   *)
(* another thread or by the caller itself.                                 *)
GiveUp(t) ==
    /\ pc[t] = "timedlocking"
    /\ lock # NoThread
    /\ Goto(t, "out")
    /\ UNCHANGED <<lock, thread_id, lock_count, holds>>

SetOwner(t) ==
    /\ pc[t] = "owning"
    /\ thread_id' = t
    /\ Goto(t, "counting")
    /\ UNCHANGED <<lock, lock_count, holds>>

SetCount(t) ==
    /\ pc[t] = "counting"
    /\ lock_count' = 1
    /\ holds' = [holds EXCEPT ![t] = @ + 1]
    /\ Goto(t, "out")
    /\ UNCHANGED <<lock, thread_id>>

(* The first Unlock gives the lock back; only a mutant uses it.            *)
UnlockNotCounting(t) ==
    /\ pc[t] = "out"
    /\ thread_id = t
    /\ lock_count' = lock_count - 1
    /\ holds' = [holds EXCEPT ![t] = @ - 1]
    /\ Goto(t, "forgetting")
    /\ UNCHANGED <<lock, thread_id>>

(* The pthread mutex given back before the owner is forgotten; only a      *)
(* mutant uses it.                                                         *)
UnlockEarly(t) ==
    /\ pc[t] = "out"
    /\ thread_id = t
    /\ lock_count' = lock_count - 1
    /\ holds' = [holds EXCEPT ![t] = @ - 1]
    /\ Goto(t, IF lock_count = 1 THEN "forgetting" ELSE "out")
    /\ lock' = IF lock_count = 1 THEN NoThread ELSE lock
    /\ UNCHANGED thread_id

(* STB_OSMutexUnlock by the thread thread_id names; by any other thread it *)
(* does nothing.  Once the count is zero there is the owner to forget and  *)
(* the pthread mutex to give back, in that order.                          *)
Unlock(t) ==
    /\ pc[t] = "out"
    /\ thread_id = t
    /\ lock_count' = lock_count - 1
    /\ holds' = [holds EXCEPT ![t] = @ - 1]
    /\ Goto(t, IF lock_count = 1 THEN "forgetting" ELSE "out")
    /\ UNCHANGED <<lock, thread_id>>

ClearOwner(t) ==
    /\ pc[t] = "forgetting"
    /\ thread_id' = NoThread
    /\ Goto(t, "releasing")
    /\ UNCHANGED <<lock, lock_count, holds>>

Release(t) ==
    /\ pc[t] = "releasing"
    /\ lock' = NoThread
    /\ Goto(t, "out")
    /\ UNCHANGED <<thread_id, lock_count, holds>>

Next == \E t \in Threads :
            \/ Relock(t) \/ Lock(t) \/ LockTimeout(t)
            \/ Acquire(t) \/ GiveUp(t) \/ SetOwner(t) \/ SetCount(t)
            \/ Unlock(t) \/ ClearOwner(t) \/ Release(t)

Spec == Init /\ [][Next]_vars

------------------------------------------------------------------------------
Locations == {"out", "locking", "timedlocking", "owning", "counting",
              "forgetting", "releasing"}

TypeOK ==
    /\ lock \in Threads \cup {NoThread}
    /\ thread_id \in Threads \cup {NoThread}
    /\ lock_count \in 0 .. MaxHolds
    /\ pc \in [Threads -> Locations]
    /\ holds \in [Threads -> 0 .. MaxHolds]

(* Only one thread at a time believes that it has the lock, although each  *)
(* of them decides by a read of thread_id that nothing protects.           *)
MutualExclusion ==
    \A t, u \in Threads : holds[t] > 0 /\ holds[u] > 0 => t = u

(* The count is the number of calls the owner has still to undo: the lock  *)
(* is given back by the last Unlock and not by an earlier one.             *)
CountIsHolds ==
    \A t \in Threads : holds[t] > 0 => lock = t /\ lock_count = holds[t]

(* Whoever has the lock is recognised by its next Lock or Unlock: a late   *)
(* store to thread_id by the previous owner never erases its name, which   *)
(* would make the next Lock wait for itself and the next Unlock do nothing.*)
OwnerRecognised == \A t \in Threads : holds[t] > 0 => thread_id = t

(* The lock changes hands only through a moment when it belongs to nobody  *)
(* and nobody believes that he has it.                                     *)
HandedOverFree ==
    [][lock' # lock /\ lock' # NoThread
         => lock = NoThread /\ \A t \in Threads : holds[t] = 0]_vars
=============================================================================
