---------------------------- MODULE OsMutexProofs ----------------------------
(***************************************************************************)
(* The recursive lock is one, for every set of threads; and the list of    *)
(* Ethernet monitors that it protects is walked as it should be, for every *)
(* set of monitors and callers.                                            *)
(***************************************************************************)
EXTENDS EthMonitor, SequenceTheorems, TLAPS

Inside == {"owning", "counting", "forgetting", "releasing"}

(* Who is between the two ends of the critical section has the pthread     *)
(* mutex; thread_id names only a thread that has it, and names every       *)
(* thread whose call succeeded.  A thread can therefore trust a read that  *)
(* finds its own name: nobody but itself could have written it.            *)
OwnerInv ==
    \A t \in Threads :
        /\ pc[t] \in Inside \/ holds[t] > 0 \/ thread_id = t => lock = t
        /\ pc[t] \in {"counting", "forgetting"} => thread_id = t
        /\ pc[t] \in {"owning", "releasing"} => thread_id # t
        /\ pc[t] \in Inside => holds[t] = 0
        /\ thread_id = t /\ pc[t] \notin Inside => holds[t] > 0
        /\ holds[t] > 0 => /\ thread_id = t
                           /\ lock_count = holds[t]
                           /\ pc[t] \in {"out", "timedlocking"}

IInv == TypeOK /\ OwnerInv

LEMMA InitInv == Init => IInv
BY MaxHoldsAssumption, NoThreadAssumption
   DEF Init, IInv, TypeOK, OwnerInv, Locations, Inside

LEMMA StepInv == IInv /\ [Next]_vars => IInv'
<1> SUFFICES ASSUME IInv, [Next]_vars PROVE IInv'
  OBVIOUS
<1> USE MaxHoldsAssumption, NoThreadAssumption
    DEF IInv, TypeOK, OwnerInv, Locations, Inside, Goto
<1>1. ASSUME NEW t \in Threads, Relock(t) PROVE IInv'
  <2>1. holds[t] > 0 /\ lock_count = holds[t] /\ lock = t
    BY <1>1 DEF Relock
  <2> QED
    BY <1>1, <2>1 DEF Relock
<1>2. ASSUME NEW t \in Threads, Lock(t) PROVE IInv'
  BY <1>2 DEF Lock
<1>3. ASSUME NEW t \in Threads, LockTimeout(t) PROVE IInv'
  BY <1>3 DEF LockTimeout
<1>4. ASSUME NEW t \in Threads, Acquire(t) PROVE IInv'
  BY <1>4 DEF Acquire
<1>5. ASSUME NEW t \in Threads, GiveUp(t) PROVE IInv'
  BY <1>5 DEF GiveUp
<1>6. ASSUME NEW t \in Threads, SetOwner(t) PROVE IInv'
  BY <1>6 DEF SetOwner
<1>7. ASSUME NEW t \in Threads, SetCount(t) PROVE IInv'
  BY <1>7 DEF SetCount
<1>8. ASSUME NEW t \in Threads, Unlock(t) PROVE IInv'
  <2>1. holds[t] > 0 /\ lock_count = holds[t] /\ lock = t
    BY <1>8 DEF Unlock
  <2>2. CASE lock_count = 1
    BY <1>8, <2>1, <2>2 DEF Unlock
  <2>3. CASE lock_count # 1
    BY <1>8, <2>1, <2>3 DEF Unlock
  <2> QED
    BY <2>2, <2>3
<1>9. ASSUME NEW t \in Threads, ClearOwner(t) PROVE IInv'
  BY <1>9 DEF ClearOwner
<1>10. ASSUME NEW t \in Threads, Release(t) PROVE IInv'
  BY <1>10 DEF Release
<1>11. CASE UNCHANGED vars
  BY <1>11 DEF vars
<1> QED
  BY <1>1, <1>2, <1>3, <1>4, <1>5, <1>6, <1>7, <1>8, <1>9, <1>10, <1>11 DEF Next

LEMMA OwnerInvariant == Spec => []IInv
BY InitInv, StepInv, PTL DEF Spec

(* Only one thread at a time believes that it has the lock.                *)
THEOREM LockIsExclusive == Spec => []MutualExclusion
<1>1. IInv => MutualExclusion
  BY NoThreadAssumption DEF IInv, OwnerInv, MutualExclusion
<1> QED
  BY <1>1, OwnerInvariant, PTL

(* The count is the number of calls the owner has still to undo.           *)
THEOREM CountCorrect == Spec => []CountIsHolds
<1>1. IInv => CountIsHolds
  BY DEF IInv, OwnerInv, CountIsHolds
<1> QED
  BY <1>1, OwnerInvariant, PTL

(* The owner's name is never erased by a thread that had the lock before.  *)
THEOREM OwnerKnown == Spec => []OwnerRecognised
<1>1. IInv => OwnerRecognised
  BY DEF IInv, OwnerInv, OwnerRecognised
<1> QED
  BY <1>1, OwnerInvariant, PTL

(* The lock changes hands only through a moment when nobody has it.        *)
THEOREM HandOver == Spec => HandedOverFree
<1>1. IInv /\ [Next]_vars =>
        [lock' # lock /\ lock' # NoThread
            => lock = NoThread /\ \A t \in Threads : holds[t] = 0]_vars
  <2> SUFFICES ASSUME IInv, [Next]_vars, lock' # lock, lock' # NoThread
               PROVE  lock = NoThread /\ \A t \in Threads : holds[t] = 0
    OBVIOUS
  <2>1. PICK t \in Threads : Acquire(t)
    BY DEF Next, vars, Relock, Lock, LockTimeout, GiveUp, SetOwner, SetCount,
           Unlock, ClearOwner, Release
  <2>2. lock = NoThread
    BY <2>1 DEF Acquire
  <2> QED
    BY <2>2, NoThreadAssumption DEF IInv, TypeOK, OwnerInv
<1> QED
  BY <1>1, OwnerInvariant, PTL DEF Spec, HandedOverFree

------------------------------------------------------------------------------
(* The list of monitors.                                                   *)

In(s, x) == \E i \in DOMAIN s : s[i] = x
Before(s, x, y) == \E i, j \in DOMAIN s : i < j /\ s[i] = x /\ s[j] = y
Distinct(s) == \A i, j \in DOMAIN s : s[i] = s[j] => i = j

LEMMA Inserted ==
    ASSUME NEW s \in Seq(Monitors), Distinct(s), NEW m \in Monitors, ~In(s, m)
    PROVE  LET r == <<m>> \o s
           IN  /\ r \in Seq(Monitors) /\ Distinct(r)
               /\ \A x : In(r, x) <=> x = m \/ In(s, x)
               /\ \A x, y : Before(r, x, y) => x = m \/ Before(s, x, y)
<1> DEFINE r == <<m>> \o s
<1>1. /\ r \in Seq(Monitors)
      /\ Len(r) = Len(s) + 1
      /\ \A i \in 1 .. Len(r) : r[i] = IF i = 1 THEN m ELSE s[i - 1]
  OBVIOUS
<1>2. DOMAIN r = 1 .. Len(s) + 1 /\ DOMAIN s = 1 .. Len(s) /\ Len(s) \in Nat
  BY <1>1
<1>3. r[1] = m /\ \A i \in DOMAIN s : i + 1 \in DOMAIN r /\ r[i + 1] = s[i]
  BY <1>1, <1>2
<1>4. \A i \in DOMAIN r : i = 1 \/ (i - 1 \in DOMAIN s /\ r[i] = s[i - 1])
  BY <1>1, <1>2
<1> HIDE DEF r
<1>5. Distinct(r)
  BY <1>2, <1>3, <1>4 DEF Distinct, In
<1>6. ASSUME NEW x PROVE In(r, x) <=> x = m \/ In(s, x)
  BY <1>2, <1>3, <1>4 DEF In
<1>7. ASSUME NEW x, NEW y, Before(r, x, y), x # m PROVE Before(s, x, y)
  <2>1. PICK i, j \in DOMAIN r : i < j /\ r[i] = x /\ r[j] = y
    BY <1>7 DEF Before
  <2>2. i # 1 /\ j # 1 /\ i \in Nat /\ j \in Nat
    BY <1>2, <1>3, <1>7, <2>1
  <2>3. i - 1 \in DOMAIN s /\ j - 1 \in DOMAIN s /\ i - 1 < j - 1
        /\ s[i - 1] = x /\ s[j - 1] = y
    BY <1>4, <2>1, <2>2
  <2> QED
    BY <2>3 DEF Before
<1> QED
  BY <1>1, <1>5, <1>6, <1>7 DEF r

LEMMA Removed ==
    ASSUME NEW s \in Seq(Monitors), Distinct(s), NEW m \in Monitors
    PROVE  LET r == RemoveFirst(s, m)
           IN  /\ r \in Seq(Monitors) /\ Distinct(r)
               /\ \A x : In(r, x) <=> x # m /\ In(s, x)
               /\ \A x, y : Before(r, x, y) => Before(s, x, y)
<1> DEFINE r == RemoveFirst(s, m)
<1>1. CASE ~In(s, m)
  <2>1. r = s
    BY <1>1 DEF In, RemoveFirst
  <2> QED
    BY <1>1, <2>1
<1>2. CASE In(s, m)
  <2>1. PICK k \in DOMAIN s : s[k] = m
    BY <1>2 DEF In
  <2>2. DOMAIN s = 1 .. Len(s) /\ Len(s) \in Nat /\ k \in Nat /\ 1 <= k /\ k <= Len(s)
    OBVIOUS
  <2>3. {i \in 1 .. Len(s) : s[i] = m} = {k}
    BY <2>1, <2>2 DEF Distinct
  <2>4. Min({k}) = k
    BY <2>2 DEF Min
  <2>5. r = SubSeq(s, 1, k - 1) \o SubSeq(s, k + 1, Len(s))
    BY <2>1, <2>2, <2>3, <2>4 DEF RemoveFirst, SelectInSeq, RemoveAt
  <2>6. /\ r \in Seq(Monitors)
        /\ Len(r) = Len(s) - 1
        /\ \A i \in 1 .. Len(r) : r[i] = IF i < k THEN s[i] ELSE s[i + 1]
    <3> DEFINE a == SubSeq(s, 1, k - 1)
               b == SubSeq(s, k + 1, Len(s))
    <3>1. /\ a \in Seq(Monitors) /\ Len(a) = k - 1
          /\ \A i \in 1 .. k - 1 : a[i] = s[i]
      BY <2>2
    <3>2. /\ b \in Seq(Monitors) /\ Len(b) = Len(s) - k
          /\ \A i \in 1 .. Len(s) - k : b[i] = s[k + i]
      BY <2>2, SubSeqProperties
    <3> HIDE DEF a, b
    <3>3. r = a \o b
      BY <2>5 DEF a, b
    <3>4. r \in Seq(Monitors) /\ Len(r) = Len(s) - 1
      <4>1. r \in Seq(Monitors) /\ Len(r) = Len(a) + Len(b)
        BY ZenonT(60), <3>1, <3>2, <3>3, ConcatProperties
      <4> QED
        BY <2>2, <3>1, <3>2, <4>1
    <3>5. \A i \in 1 .. Len(r) : r[i] = IF i <= k - 1 THEN a[i] ELSE b[i - (k - 1)]
      BY SMTT(30), <2>2, <3>1, <3>2, <3>3, <3>4, ConcatProperties
    <3>6. ASSUME NEW i \in 1 .. Len(r) PROVE r[i] = IF i < k THEN s[i] ELSE s[i + 1]
      <4>1. CASE i < k
        BY <2>2, <3>1, <3>5, <4>1
      <4>2. CASE ~(i < k)
        <5>1. i - (k - 1) \in 1 .. Len(s) - k /\ k + (i - (k - 1)) = i + 1
          BY <2>2, <3>4, <4>2
        <5> QED
          BY <2>2, <3>2, <3>5, <4>2, <5>1
      <4> QED
        BY <4>1, <4>2
    <3> QED
      BY <3>4, <3>6
  <2> HIDE DEF r
  <2>7. DOMAIN r = 1 .. Len(s) - 1
    BY <2>6
  <2> DEFINE old(i) == IF i < k THEN i ELSE i + 1
  <2>8. /\ \A i \in DOMAIN r : old(i) \in DOMAIN s /\ r[i] = s[old(i)] /\ old(i) # k
        /\ \A i, j \in DOMAIN r : i < j => old(i) < old(j)
        /\ \A i, j \in DOMAIN r : old(i) = old(j) => i = j
    BY <2>2, <2>6, <2>7
  <2>9. \A j \in DOMAIN s : j # k => \E i \in DOMAIN r : old(i) = j
    <3> SUFFICES ASSUME NEW j \in DOMAIN s, j # k PROVE \E i \in DOMAIN r : old(i) = j
      OBVIOUS
    <3>1. CASE j < k
      <4>1. j \in DOMAIN r /\ old(j) = j
        BY <2>2, <2>7, <3>1
      <4> QED
        BY <4>1
    <3>2. CASE j > k
      <4>1. j - 1 \in DOMAIN r /\ old(j - 1) = j
        BY <2>2, <2>7, <3>2
      <4> QED
        BY <4>1
    <3> QED
      BY <2>2, <3>1, <3>2
  <2> HIDE DEF old
  <2>10. Distinct(r)
    BY <2>8 DEF Distinct
  <2>11. ASSUME NEW x PROVE In(r, x) <=> x # m /\ In(s, x)
    <3>1. In(r, x) => x # m /\ In(s, x)
      BY <2>1, <2>8 DEF In, Distinct
    <3>2. x # m /\ In(s, x) => In(r, x)
      BY <2>1, <2>8, <2>9 DEF In
    <3> QED
      BY <3>1, <3>2
  <2>12. ASSUME NEW x, NEW y, Before(r, x, y) PROVE Before(s, x, y)
    BY <2>8, <2>12 DEF Before
  <2> QED
    BY <2>6, <2>10, <2>11, <2>12 DEF r
<1> QED
  BY <1>1, <1>2

------------------------------------------------------------------------------
(* The task and the calls.                                                 *)

EthTypes ==
    /\ nw_monitor_list \in Seq(Monitors)
    /\ current_ethernet_status \in Links
    /\ task \in [at : {"polling", "locking", "at", "calling", "unlocking"},
                 monitor : Monitors \cup {NoMonitor}]
    /\ call \in [Threads -> [at : {"out", "locking", "unlocking"},
                             monitor : Monitors \cup {NoMonitor},
                             base : 0 .. MaxHolds]]
    /\ started \in [Monitors -> {"no", "starting", "started", "stopping", "stopped"}]
    /\ live \in SUBSET Monitors
    /\ told \in [Monitors -> Links]

(* While the task walks it has the lock, also inside a callback, whatever  *)
(* the callback calls.                                                     *)
WalkLocked ==
    /\ task.at \in {"at", "calling"} => holds[MonitorTask] > 0 /\ task.monitor \in Monitors
    /\ call[MonitorTask].at # "out" =>
           /\ task.at = "calling"
           /\ call[MonitorTask].base > 0
           /\ holds[MonitorTask] >= call[MonitorTask].base

(* A monitor has at most one call under way.  It is not in the list before *)
(* its start puts it there nor after its stop took it out.                 *)
CallInv ==
    \A t \in Threads :
        call[t].at # "out" =>
            LET m == call[t].monitor
            IN  /\ m \in Monitors
                /\ started[m] \in {"starting", "stopping"}
                /\ \A u \in Threads : call[u].at # "out" /\ call[u].monitor = m => u = t
                /\ call[t].at = "locking" /\ started[m] = "starting" => ~In(nw_monitor_list, m)
                /\ call[t].at = "unlocking" /\ started[m] = "stopping" => ~In(nw_monitor_list, m)

(* It has its memory from its start to the return of its stop.             *)
ListInv ==
    /\ Distinct(nw_monitor_list)
    /\ \A m \in Monitors :
          /\ In(nw_monitor_list, m) => started[m] \in {"starting", "started", "stopping"}
          /\ started[m] \in {"starting", "started", "stopping"} => m \in live

(* No callback stops its own monitor, so the task stays in the list.       *)
WalkInv ==
    /\ task.at \in {"at", "calling"} => In(nw_monitor_list, task.monitor)
    /\ call[MonitorTask].at # "out" /\ started[call[MonitorTask].monitor] = "stopping"
           => call[MonitorTask].monitor # task.monitor

(* Whom the task has passed knows the link, and so does who was put before *)
(* it meanwhile.                                                           *)
Knows(m) == told[m] = current_ethernet_status

ToldInv ==
    \A m \in Monitors :
        \/ task.at \in {"polling", "unlocking"} /\ In(nw_monitor_list, m)
        \/ task.at \in {"at", "calling"} /\ Before(nw_monitor_list, m, task.monitor)
        \/ task.at = "calling" /\ m = task.monitor
        => Knows(m)

EthInv == IInv /\ EthTypes /\ WalkLocked /\ CallInv /\ ListInv /\ ToldInv
          /\ (~StopsOwn => WalkInv)

------------------------------------------------------------------------------
(* The monitors use the lock as OsMutex allows: what is proved of the lock *)
(* holds of it here.                                                       *)
LEMMA LocksAsOsMutex == [EthNext]_allVars => [Next]_vars
<1> SUFFICES ASSUME [EthNext]_allVars PROVE [Next]_vars
  OBVIOUS
<1> USE ThreadsAssumption
<1>1. ASSUME NEW t \in Threads, NEW base, Locking(t, base) \/ Unlocking(t, base)
      PROVE  Next
  BY <1>1 DEF Locking, Unlocking, Next
<1>2. CASE EthernetMonitorTask
  BY <1>1, <1>2 DEF EthernetMonitorTask, PollLink, TaskLocks, FirstMonitor, CallMonitor,
                    NextMonitor, TaskUnlocks, TaskRests
<1>3. ASSUME NEW t \in Callers \cup {MonitorTask}, Caller(t) PROVE [Next]_vars
  BY <1>1, <1>3 DEF Caller, StartMonitor, StopMonitor, CallLocks, Insert, Unlink, CallUnlocks,
                    Return
<1>4. ASSUME NEW t \in Others, Other(t) PROVE Next
  BY <1>4 DEF Other, Next
<1>5. CASE UNCHANGED allVars
  BY <1>5 DEF allVars
<1> QED
  BY <1>2, <1>3, <1>4, <1>5 DEF EthNext

LEMMA LockInvariant == EthSpec => []IInv
<1>1. EthInit => IInv
  BY InitInv DEF EthInit
<1>2. IInv /\ [EthNext]_allVars => IInv'
  BY StepInv, LocksAsOsMutex
<1> QED
  BY <1>1, <1>2, PTL DEF EthSpec

(* What a step on the lock does to the holds of the task.                  *)
LEMMA HoldsOfOthers ==
    ASSUME TypeOK, NEW t \in Threads, NEW u \in Threads, u # t,
           \/ \E base : Locking(t, base) \/ Unlocking(t, base)
           \/ Other(t)
    PROVE  holds'[u] = holds[u] /\ UNCHANGED ethVars
BY DEF TypeOK, Locking, Unlocking, Other, Relock, Lock, LockTimeout, Acquire, GiveUp, SetOwner,
       SetCount, Unlock, ClearOwner, Release

LEMMA HoldsInCall ==
    ASSUME TypeOK, NEW t \in Threads, NEW base \in Nat, holds[t] >= base,
           Locking(t, base) \/ Unlocking(t, base)
    PROVE  holds'[t] >= base /\ UNCHANGED ethVars
<1>1. holds[t] \in Nat
  BY DEF TypeOK
<1>2. CASE Locking(t, base)
  BY <1>1, <1>2 DEF TypeOK, Locking, Relock, Lock, Acquire, SetOwner, SetCount
<1>3. CASE Unlocking(t, base)
  BY <1>1, <1>3 DEF TypeOK, Unlocking, Unlock, ClearOwner, Release
<1> QED
  BY <1>2, <1>3

(* A step on the lock changes nothing that the invariant says.             *)
LEMMA LockStep ==
    ASSUME EthInv, UNCHANGED ethVars, WalkLocked', IInv'
    PROVE  EthInv'
BY DEF EthInv, EthTypes, WalkLocked, CallInv, ListInv, ToldInv, WalkInv, Knows, ethVars

LEMMA LockSteps ==
    ASSUME EthInv, IInv',
           \/ TaskLocks \/ TaskUnlocks
           \/ \E t \in Callers \cup {MonitorTask} : CallLocks(t) \/ CallUnlocks(t)
           \/ \E t \in Others : Other(t)
    PROVE  EthInv'
<1> USE ThreadsAssumption
<1>0. TypeOK /\ WalkLocked /\ EthTypes /\ MaxHolds \in Nat
  BY MaxHoldsAssumption DEF EthInv, IInv
<1>1. CASE TaskLocks \/ TaskUnlocks
  <2>1. call[MonitorTask].at = "out" /\ task.at \notin {"at", "calling"} /\ UNCHANGED ethVars
    BY <1>0, <1>1 DEF WalkLocked, EthTypes, TaskLocks, TaskUnlocks, Locking, Unlocking
  <2> QED
    BY <2>1, LockStep DEF WalkLocked, ethVars
<1>2. ASSUME NEW t \in Callers \cup {MonitorTask}, CallLocks(t) \/ CallUnlocks(t)
      PROVE  EthInv'
  <2> DEFINE base == call[t].base
  <2>0. base \in Nat /\ (Locking(t, base) \/ Unlocking(t, base)) /\ call[t].at # "out"
    BY <1>0, <1>2 DEF EthTypes, CallLocks, CallUnlocks
  <2>1. CASE t = MonitorTask
    <3>1. holds[t] >= base /\ base > 0 /\ task.at = "calling"
      BY <1>0, <2>0, <2>1 DEF WalkLocked
    <3>2. holds'[t] >= base /\ UNCHANGED ethVars
      BY <1>0, <2>0, <3>1, HoldsInCall
    <3>3. holds'[t] \in Nat
      BY DEF IInv, TypeOK
    <3> QED
      BY <1>0, <2>0, <2>1, <3>1, <3>2, <3>3, LockStep DEF WalkLocked, ethVars
  <2>2. CASE t # MonitorTask
    <3>1. holds'[MonitorTask] = holds[MonitorTask] /\ UNCHANGED ethVars
      BY <1>0, <2>0, <2>2, HoldsOfOthers
    <3> QED
      BY <1>0, <3>1, LockStep DEF WalkLocked, ethVars
  <2> QED
    BY <2>1, <2>2
<1>3. ASSUME NEW t \in Others, Other(t) PROVE EthInv'
  <2>1. holds'[MonitorTask] = holds[MonitorTask] /\ UNCHANGED ethVars
    BY <1>0, <1>3, HoldsOfOthers
  <2> QED
    BY <1>0, <2>1, LockStep DEF WalkLocked, ethVars
<1> QED
  BY <1>1, <1>2, <1>3

LEMMA EthInitInv == EthInit => EthInv
<1> SUFFICES ASSUME EthInit PROVE EthInv
  OBVIOUS
<1> USE ThreadsAssumption DEF EthInit
<1>1. IInv
  BY InitInv
<1>2. EthTypes
  BY MaxHoldsAssumption DEF EthTypes, Links, NoCall
<1>3. WalkLocked /\ CallInv /\ WalkInv
  BY DEF WalkLocked, CallInv, WalkInv, NoCall
<1>4. ListInv /\ ToldInv
  BY DEF ListInv, ToldInv, In, Before, Distinct, Knows
<1> QED
  BY <1>1, <1>2, <1>3, <1>4 DEF EthInv

(* The steps of the walk.                                                  *)
LEMMA WalkSteps ==
    ASSUME EthInv, IInv', PollLink \/ FirstMonitor \/ CallMonitor \/ NextMonitor \/ TaskRests
    PROVE  EthInv'
<1> USE ThreadsAssumption, NoMonitorAssumption DEF EthInv, TaskGoes
<1>0. DOMAIN nw_monitor_list = 1 .. Len(nw_monitor_list) /\ Len(nw_monitor_list) \in Nat
      /\ \A i \in DOMAIN nw_monitor_list : nw_monitor_list[i] \in Monitors
  BY DEF EthTypes
<1>1. CASE PollLink
  <2>1. EthTypes' /\ WalkLocked' /\ ToldInv'
    BY <1>1 DEF PollLink, vars, EthTypes, WalkLocked, ToldInv, Knows
  <2>2. CallInv' /\ ListInv' /\ (~StopsOwn => WalkInv')
    BY <1>1 DEF PollLink, CallInv, ListInv, WalkInv, WalkLocked
  <2> QED
    BY <2>1, <2>2
<1>2. CASE FirstMonitor
  <2>1. CallInv' /\ ListInv' /\ holds' = holds /\ nw_monitor_list' = nw_monitor_list
        /\ told' = told /\ current_ethernet_status' = current_ethernet_status
    BY <1>2 DEF FirstMonitor, CallInv, ListInv, vars
  <2>2. holds[MonitorTask] > 0 /\ call[MonitorTask].at = "out"
    BY <1>2 DEF FirstMonitor, Locked, WalkLocked, EthTypes
  <2>3. CASE nw_monitor_list = <<>>
    <3>1. task' = [at |-> "unlocking", monitor |-> NoMonitor]
      BY <1>2, <2>3 DEF FirstMonitor, GoTo
    <3>2. EthTypes' /\ WalkLocked' /\ WalkInv'
      BY <1>2, <2>2, <3>1 DEF FirstMonitor, EthTypes, WalkLocked, WalkInv
    <3>3. ToldInv'
      BY <2>1, <2>3, <3>1 DEF ToldInv, In, Before, Knows
    <3> QED
      BY <2>1, <3>2, <3>3
  <2>4. CASE nw_monitor_list # <<>>
    <3> DEFINE m == nw_monitor_list[1]
    <3>1. 1 \in DOMAIN nw_monitor_list /\ m \in Monitors /\ Head(nw_monitor_list) = m
      BY <2>4 DEF EthTypes
    <3>2. task' = [at |-> "at", monitor |-> m]
      BY <1>2, <2>4, <3>1 DEF FirstMonitor, GoTo
    <3>3. EthTypes' /\ WalkLocked' /\ WalkInv'
      <4>1. In(nw_monitor_list, m) /\ call' = call
        BY <1>2, <3>1 DEF In, FirstMonitor
      <4>2. EthTypes'
        BY <1>2, <3>1, <3>2 DEF FirstMonitor, EthTypes
      <4>3. WalkLocked' /\ WalkInv'
        BY <2>1, <2>2, <3>1, <3>2, <4>1 DEF WalkLocked, WalkInv
      <4> QED
        BY <4>2, <4>3
    <3>4. \A x : ~Before(nw_monitor_list, x, m)
      BY <1>0, <3>1 DEF Before, ListInv, Distinct
    <3>5. ToldInv'
      BY <2>1, <3>2, <3>4 DEF ToldInv, Knows
    <3> QED
      BY <2>1, <3>3, <3>5
  <2> QED
    BY <2>3, <2>4
<1>3. CASE CallMonitor
  <2>1. /\ task' = [at |-> "calling", monitor |-> task.monitor] /\ task.at = "at"
        /\ told' = [told EXCEPT ![task.monitor] = current_ethernet_status]
        /\ task.monitor \in Monitors
    BY <1>3 DEF CallMonitor, WalkLocked
  <2>2. EthTypes' /\ WalkLocked'
    BY <1>3, <2>1 DEF CallMonitor, EthTypes, WalkLocked, vars
  <2>3. CallInv' /\ ListInv' /\ (~StopsOwn => WalkInv')
    BY <1>3, <2>1 DEF CallMonitor, CallInv, ListInv, WalkInv, WalkLocked
  <2>4. ToldInv'
    BY <1>3, <2>1 DEF CallMonitor, ToldInv, Knows, EthTypes
  <2> QED
    BY <2>2, <2>3, <2>4
<1>4. CASE NextMonitor
  <2>1. CallInv' /\ ListInv' /\ holds' = holds /\ nw_monitor_list' = nw_monitor_list
        /\ told' = told /\ current_ethernet_status' = current_ethernet_status
    BY <1>4 DEF NextMonitor, CallInv, ListInv, vars
  <2>2. holds[MonitorTask] > 0 /\ call[MonitorTask].at = "out" /\ task.at = "calling"
    BY <1>4 DEF NextMonitor, WalkLocked
  <2>3. PICK i \in DOMAIN nw_monitor_list :
            /\ nw_monitor_list[i] = task.monitor
            /\ GoTo(IF i = Len(nw_monitor_list) THEN NoMonitor ELSE nw_monitor_list[i + 1])
    BY <1>4 DEF NextMonitor
  <2>4. \A j \in DOMAIN nw_monitor_list : j <= i => Knows(nw_monitor_list[j])
    <3> SUFFICES ASSUME NEW j \in DOMAIN nw_monitor_list, j <= i
                 PROVE  Knows(nw_monitor_list[j])
      OBVIOUS
    <3>1. CASE j = i
      BY <1>0, <2>2, <2>3, <3>1 DEF ToldInv
    <3>2. CASE j # i
      <4>1. Before(nw_monitor_list, nw_monitor_list[j], task.monitor)
        BY <1>0, <2>3, <3>2 DEF Before
      <4> QED
        BY <1>0, <2>2, <4>1 DEF ToldInv
    <3> QED
      BY <3>1, <3>2
  <2>5. CASE i = Len(nw_monitor_list)
    <3>1. task' = [at |-> "unlocking", monitor |-> NoMonitor]
      BY <2>3, <2>5 DEF GoTo
    <3>2. EthTypes' /\ WalkLocked' /\ WalkInv'
      BY <1>4, <2>2, <3>1 DEF NextMonitor, EthTypes, WalkLocked, WalkInv
    <3>3. ToldInv'
      BY <1>0, <2>1, <2>4, <2>5, <3>1 DEF ToldInv, In, Knows
    <3> QED
      BY <2>1, <3>2, <3>3
  <2>6. CASE i # Len(nw_monitor_list)
    <3> DEFINE m == nw_monitor_list[i + 1]
    <3>1. i + 1 \in DOMAIN nw_monitor_list /\ m \in Monitors
      BY <1>0, <2>6
    <3>2. task' = [at |-> "at", monitor |-> m]
      BY <2>3, <2>6, <3>1 DEF GoTo
    <3>3. EthTypes' /\ WalkLocked' /\ WalkInv'
      <4>1. In(nw_monitor_list, m) /\ call' = call
        BY <1>4, <3>1 DEF In, NextMonitor
      <4>2. EthTypes'
        BY <1>4, <3>1, <3>2 DEF NextMonitor, EthTypes
      <4>3. WalkLocked' /\ WalkInv'
        BY <2>1, <2>2, <3>1, <3>2, <4>1 DEF WalkLocked, WalkInv
      <4> QED
        BY <4>2, <4>3
    <3>4. ASSUME NEW x, Before(nw_monitor_list, x, m) PROVE Knows(x)
      <4>1. PICK j \in DOMAIN nw_monitor_list, k \in DOMAIN nw_monitor_list :
                j < k /\ nw_monitor_list[j] = x /\ nw_monitor_list[k] = m
        BY <3>4 DEF Before
      <4>2. k = i + 1
        BY <3>1, <4>1 DEF ListInv, Distinct
      <4> QED
        BY <1>0, <2>4, <4>1, <4>2
    <3>5. ToldInv'
      BY <2>1, <3>2, <3>4 DEF ToldInv, Knows
    <3> QED
      BY <2>1, <3>3, <3>5
  <2> QED
    BY <2>5, <2>6
<1>5. CASE TaskRests
  <2>1. EthTypes' /\ WalkLocked' /\ ToldInv'
    BY <1>5 DEF TaskRests, EthTypes, WalkLocked, ToldInv, Knows
  <2>2. CallInv' /\ ListInv' /\ (~StopsOwn => WalkInv')
    BY <1>5 DEF TaskRests, CallInv, ListInv, WalkInv, WalkLocked
  <2> QED
    BY <2>1, <2>2
<1> QED
  BY <1>1, <1>2, <1>3, <1>4, <1>5

(* The steps of a call.  Who changes the list has the lock, and so it is   *)
(* the task in a callback, or the task is not walking.                     *)
LEMMA ChangerWalksOrNobody ==
    ASSUME EthInv, NEW t \in Callers \cup {MonitorTask}, Locked(t, call[t].base),
           task.at \in {"at", "calling"}
    PROVE  t = MonitorTask
<1>1. holds[t] > 0 /\ holds[MonitorTask] > 0
  BY ThreadsAssumption, MaxHoldsAssumption DEF EthInv, EthTypes, WalkLocked, Locked
<1> QED
  BY <1>1, ThreadsAssumption, NoThreadAssumption DEF EthInv, IInv, OwnerInv

LEMMA BeginSteps ==
    ASSUME EthInv, IInv', NEW t \in Callers \cup {MonitorTask}, StartMonitor(t) \/ StopMonitor(t)
    PROVE  EthInv'
<1> USE ThreadsAssumption, NoMonitorAssumption DEF EthInv
<1>0. t \in Threads /\ call[t].at = "out" /\ holds \in [Threads -> 0 .. MaxHolds]
      /\ (t = MonitorTask => task.at = "calling")
  BY DEF StartMonitor, StopMonitor, MayCall, IInv, TypeOK
<1>1. PICK m \in Monitors :
          \/ /\ started[m] = "no"
             /\ started' = [started EXCEPT ![m] = "starting"]
             /\ live' = live \cup {m}
             /\ Begin(t, "locking", m)
          \/ /\ started[m] = "started"
             /\ StopsOwn \/ t # MonitorTask \/ m # task.monitor
             /\ started' = [started EXCEPT ![m] = "stopping"]
             /\ live' = live
             /\ UNCHANGED call \/ Begin(t, "locking", m)
  BY DEF StartMonitor, StopMonitor
<1>2. UNCHANGED <<vars, nw_monitor_list, current_ethernet_status, task, told>>
  BY DEF StartMonitor, StopMonitor
<1>3. \A u \in Threads : call[u].at # "out" => call[u].monitor # m
  BY <1>1 DEF CallInv
<1> DEFINE new == [at |-> "locking", monitor |-> m, base |-> holds[t]]
<1>4. UNCHANGED call \/ call' = [call EXCEPT ![t] = new]
  BY <1>1 DEF Begin
<1>5. EthTypes'
  BY <1>0, <1>1, <1>2, <1>4 DEF EthTypes
<1>6. WalkLocked'
  BY <1>0, <1>2, <1>4 DEF EthTypes, WalkLocked, vars
<1>7. \A u \in Threads : call'[u].at # "out" =>
          \/ u = t /\ call'[u] = new
          \/ call[u].at # "out" /\ call'[u] = call[u]
  BY <1>0, <1>4 DEF EthTypes
<1>8. CallInv'
  <2> SUFFICES ASSUME NEW u \in Threads, call'[u].at # "out"
               PROVE  LET n == call'[u].monitor
                      IN /\ n \in Monitors
                         /\ started'[n] \in {"starting", "stopping"}
                         /\ \A v \in Threads :
                                call'[v].at # "out" /\ call'[v].monitor = n => v = u
                         /\ call'[u].at = "locking" /\ started'[n] = "starting"
                                => ~In(nw_monitor_list', n)
                         /\ call'[u].at = "unlocking" /\ started'[n] = "stopping"
                                => ~In(nw_monitor_list', n)
    BY DEF CallInv
  <2>1. CASE call[u].at # "out" /\ call'[u] = call[u]
    <3>1. call[u].monitor # m /\ u # t
      BY <1>0, <1>3, <2>1
    <3> QED
      BY <1>0, <1>1, <1>2, <1>7, <2>1, <3>1 DEF CallInv, EthTypes
  <2>2. CASE u = t /\ call'[u] = new
    <3>1. call' # call /\ started'[m] \in {"starting", "stopping"}
      BY <1>0, <1>1, <2>2 DEF EthTypes
    <3> QED
      BY <1>0, <1>1, <1>2, <1>3, <1>7, <2>2, <3>1 DEF ListInv, EthTypes
  <2> QED
    BY <1>7, <2>1, <2>2
<1>9. ListInv'
  BY <1>1, <1>2 DEF ListInv, EthTypes
<1>10. ToldInv'
  BY <1>2 DEF ToldInv, Knows
<1>11. ~StopsOwn => WalkInv'
  BY <1>0, <1>1, <1>2, <1>4, <1>7 DEF WalkInv, EthTypes, CallInv
<1> QED
  BY <1>2, <1>5, <1>6, <1>8, <1>9, <1>10, <1>11

LEMMA ChangeSteps ==
    ASSUME EthInv, IInv', NEW t \in Callers \cup {MonitorTask}, Insert(t) \/ Unlink(t)
    PROVE  EthInv'
<1> USE ThreadsAssumption, NoMonitorAssumption DEF EthInv
<1> DEFINE m == call[t].monitor
<1>0. /\ t \in Threads /\ m \in Monitors /\ call[t].at = "locking"
      /\ Locked(t, call[t].base)
      /\ UNCHANGED <<vars, current_ethernet_status, task, started, live>>
      /\ call' = [call EXCEPT ![t].at = "unlocking"]
  BY DEF Insert, Unlink, CallInv, CallGoes
<1>1. \A u \in Threads :
          /\ call'[u].monitor = call[u].monitor /\ call'[u].base = call[u].base
          /\ call'[u].at = IF u = t THEN "unlocking" ELSE call[u].at
  BY <1>0 DEF EthTypes
<1>2. task.at \in {"at", "calling"} => t = MonitorTask /\ task.at = "calling"
  BY <1>0, ChangerWalksOrNobody DEF WalkLocked
<1>3. \/ /\ started[m] = "starting" /\ ~In(nw_monitor_list, m)
         /\ nw_monitor_list' = <<m>> \o nw_monitor_list
         /\ told' = [told EXCEPT ![m] = current_ethernet_status]
      \/ /\ started[m] = "stopping"
         /\ nw_monitor_list' = RemoveFirst(nw_monitor_list, m)
         /\ told' = told
  BY <1>0 DEF Insert, Unlink, CallInv
<1>4. /\ nw_monitor_list' \in Seq(Monitors) /\ Distinct(nw_monitor_list')
      /\ \A x : x # m => (In(nw_monitor_list', x) <=> In(nw_monitor_list, x))
      /\ In(nw_monitor_list', m) <=> started[m] = "starting"
      /\ \A x, y : Before(nw_monitor_list', x, y)
                      => \/ x = m /\ started[m] = "starting"
                         \/ Before(nw_monitor_list, x, y)
  <2>1. nw_monitor_list \in Seq(Monitors) /\ Distinct(nw_monitor_list)
    BY DEF EthTypes, ListInv
  <2>2. CASE nw_monitor_list' = <<m>> \o nw_monitor_list /\ started[m] = "starting"
             /\ ~In(nw_monitor_list, m)
    BY <1>0, <2>1, <2>2, Inserted
  <2>3. CASE nw_monitor_list' = RemoveFirst(nw_monitor_list, m) /\ started[m] = "stopping"
    BY <1>0, <2>1, <2>3, Removed
  <2> QED
    BY <1>3, <2>2, <2>3
<1>5. EthTypes'
  <2>1. call' \in [Threads -> [at : {"out", "locking", "unlocking"},
                              monitor : Monitors \cup {NoMonitor}, base : 0 .. MaxHolds]]
    BY <1>0 DEF EthTypes
  <2>2. told' \in [Monitors -> Links]
    BY <1>0, <1>3 DEF EthTypes
  <2> QED
    BY <1>0, <1>4, <2>1, <2>2 DEF EthTypes
<1>6. WalkLocked'
  BY <1>0, <1>1 DEF WalkLocked, vars
<1>7. CallInv'
  BY <1>0, <1>1, <1>3, <1>4 DEF CallInv
<1>8. ListInv'
  BY <1>0, <1>3, <1>4 DEF ListInv
<1>9. ToldInv'
  <2>1. \A n \in Monitors : n # m \/ started[m] = "stopping" => told'[n] = told[n]
    BY <1>3 DEF EthTypes
  <2>2. started[m] = "starting" => told'[m] = current_ethernet_status
    BY <1>0, <1>3 DEF EthTypes
  <2>3. told'[m] = told[m] \/ told'[m] = current_ethernet_status
    BY <1>3, <2>1, <2>2
  <2> SUFFICES ASSUME NEW n \in Monitors,
                      \/ task.at \in {"polling", "unlocking"} /\ In(nw_monitor_list', n)
                      \/ task.at \in {"at", "calling"} /\ Before(nw_monitor_list', n, task.monitor)
                      \/ task.at = "calling" /\ n = task.monitor
               PROVE  told'[n] = current_ethernet_status
    BY <1>0 DEF ToldInv, Knows
  <2>4. CASE n = m /\ started[m] = "starting"
    BY <2>2, <2>4
  <2>5. CASE ~(n = m /\ started[m] = "starting")
    BY <1>3, <1>4, <2>1, <2>5 DEF ToldInv, Knows
  <2> QED
    BY <2>4, <2>5
<1>10. ASSUME ~StopsOwn PROVE WalkInv'
  <2>1. WalkInv
    BY <1>10
  <2>2. task.at \in {"at", "calling"} => In(nw_monitor_list', task.monitor)
    <3> SUFFICES ASSUME task.at \in {"at", "calling"} PROVE In(nw_monitor_list', task.monitor)
      OBVIOUS
    <3>1. In(nw_monitor_list, task.monitor) /\ t = MonitorTask /\ call[t].at # "out"
      BY <1>0, <1>2, <2>1 DEF WalkInv
    <3>2. CASE task.monitor = m
      BY <1>3, <1>4, <2>1, <3>1, <3>2 DEF WalkInv
    <3>3. CASE task.monitor # m
      BY <1>4, <3>1, <3>3
    <3> QED
      BY <3>2, <3>3
  <2> QED
    BY <1>0, <1>1, <2>1, <2>2 DEF WalkInv
<1> QED
  BY <1>0, <1>5, <1>6, <1>7, <1>8, <1>9, <1>10

LEMMA ReturnStep ==
    ASSUME EthInv, IInv', NEW t \in Callers \cup {MonitorTask}, Return(t)
    PROVE  EthInv'
<1> USE ThreadsAssumption, NoMonitorAssumption DEF EthInv
<1> DEFINE m == call[t].monitor
<1>0. /\ t \in Threads /\ m \in Monitors /\ call[t].at = "unlocking"
      /\ UNCHANGED <<vars, nw_monitor_list, current_ethernet_status, task, told>>
      /\ call' = [call EXCEPT ![t] = NoCall]
      /\ started[m] \in {"starting", "stopping"}
  BY DEF Return, CallInv
<1>1. \/ /\ started[m] = "starting" /\ live' = live
         /\ started' = [started EXCEPT ![m] = "started"]
      \/ /\ started[m] = "stopping" /\ live' = live \ {m} /\ ~In(nw_monitor_list, m)
         /\ started' = [started EXCEPT ![m] = "stopped"]
  BY <1>0 DEF Return, CallInv
<1>2. \A u \in Threads : call'[u].at # "out" => u # t /\ call'[u] = call[u]
                                                /\ call[u].monitor # m
  BY <1>0 DEF EthTypes, CallInv, NoCall
<1>3. EthTypes'
  BY SMTT(30), <1>0, <1>1, MaxHoldsAssumption DEF EthTypes, NoCall
<1>4. WalkLocked'
  BY <1>0, <1>2 DEF WalkLocked, vars
<1>5. CallInv'
  BY <1>0, <1>1, <1>2 DEF CallInv, EthTypes
<1>6. ListInv'
  BY <1>0, <1>1 DEF ListInv, EthTypes
<1>7. ToldInv'
  BY <1>0 DEF ToldInv, Knows
<1>8. ~StopsOwn => WalkInv'
  BY <1>0, <1>1, <1>2 DEF WalkInv, EthTypes, CallInv
<1> QED
  BY <1>0, <1>3, <1>4, <1>5, <1>6, <1>7, <1>8

LEMMA EthStepInv == EthInv /\ IInv' /\ [EthNext]_allVars => EthInv'
<1> SUFFICES ASSUME EthInv, IInv', [EthNext]_allVars PROVE EthInv'
  OBVIOUS
<1>1. CASE EthernetMonitorTask
  BY <1>1, WalkSteps, LockSteps DEF EthernetMonitorTask
<1>2. ASSUME NEW t \in Callers \cup {MonitorTask}, Caller(t) PROVE EthInv'
  BY <1>2, LockSteps, BeginSteps, ChangeSteps, ReturnStep DEF Caller
<1>3. ASSUME NEW t \in Others, Other(t) PROVE EthInv'
  BY <1>3, LockSteps
<1>4. CASE UNCHANGED allVars
  BY <1>4 DEF allVars, vars, ethVars, EthInv, EthTypes, WalkLocked, CallInv, ListInv, ToldInv,
              WalkInv, Knows
<1> QED
  BY <1>1, <1>2, <1>3, <1>4 DEF EthNext

LEMMA EthInvariant == EthSpec => []EthInv
BY EthInitInv, EthStepInv, LockInvariant, PTL DEF EthSpec

(* Under the monitors, too, the count is what the owner has to undo and    *)
(* the owner is recognised.                                                *)
THEOREM CountCorrectForMonitors == EthSpec => []CountIsHolds
<1>1. IInv => CountIsHolds
  BY DEF IInv, OwnerInv, CountIsHolds
<1> QED
  BY <1>1, LockInvariant, PTL

THEOREM OwnerKnownToMonitors == EthSpec => []OwnerRecognised
<1>1. IInv => OwnerRecognised
  BY DEF IInv, OwnerInv, OwnerRecognised
<1> QED
  BY <1>1, LockInvariant, PTL

(* EthernetMonitorTask is never at a monitor whose stop has returned, as   *)
(* long as no callback stops its own monitor.                              *)
THEOREM CalledWhileLiveTheorem == ~StopsOwn => (EthSpec => []CalledWhileLive)
<1> SUFFICES ASSUME ~StopsOwn PROVE EthSpec => []CalledWhileLive
  OBVIOUS
<1>1. EthInv => CalledWhileLive
  BY DEF EthInv, WalkLocked, WalkInv, ListInv, CalledWhileLive
<1> QED
  BY <1>1, EthInvariant, PTL

(* When EthernetMonitorTask rests, every monitor in the list knows the     *)
(* link as it is.                                                          *)
THEOREM NobodyMissesAChangeTheorem == EthSpec => []NobodyMissesAChange
<1>1. EthInv => NobodyMissesAChange
  BY DEF EthInv, EthTypes, ToldInv, In, Knows, NobodyMissesAChange
<1> QED
  BY <1>1, EthInvariant, PTL
=============================================================================
