----------------------------- MODULE EthMonitor ------------------------------
(***************************************************************************)
(* hw/src/stbhwnet.c: the list of Ethernet monitors and the task that      *)
(* calls them, over nw_mutex.  EthernetMonitorTask calls the monitors with *)
(* the mutex in its hands, and a callback may start and stop monitors: the *)
(* recursive lock of OsMutex lets it in.                                   *)
(*                                                                         *)
(* A call is its steps on the mutex and one step in between on the list.   *)
(* A monitor is started once and stopped once.  Others are threads that    *)
(* take and leave the same lock as they please; in this file there are     *)
(* none, and the list may not depend on it.                                *)
(***************************************************************************)
EXTENDS OsMutex, SequencesExt

CONSTANTS MonitorTask, Callers, Others,     \* a thread and two sets of them
          Monitors, NoMonitor,
          StopsOwn      \* whether a callback may stop its own monitor

ASSUME ThreadsAssumption ==
    /\ Threads = {MonitorTask} \cup Callers \cup Others
    /\ MonitorTask \notin Callers \cup Others
    /\ Callers \cap Others = {}
ASSUME NoMonitorAssumption == NoMonitor \notin Monitors

VARIABLES nw_monitor_list, current_ethernet_status,
          task,         \* where MonitorTask is and its p_nw_monitor
          call,         \* the call each thread is in, and the holds it had
          started,      \* monitors whose start was called, or has returned
          live,         \* monitors with memory of their own
          told          \* the link each knows: as it was started or last called

ethVars == <<nw_monitor_list, current_ethernet_status, task, call, started,
             live, told>>
allVars == <<vars, ethVars>>

Links == {"disabled", "inactive", "active"}

NoCall == [at |-> "out", monitor |-> NoMonitor, base |-> 0]

(* STB_NWInitialise                                                        *)
EthInit ==
    /\ Init
    /\ nw_monitor_list = <<>>
    /\ current_ethernet_status = "disabled"
    /\ task = [at |-> "polling", monitor |-> NoMonitor]
    /\ call = [t \in Threads |-> NoCall]
    /\ started = [m \in Monitors |-> "no"]
    /\ live = {}
    /\ told = [m \in Monitors |-> "disabled"]

------------------------------------------------------------------------------
(* STB_OSMutexLock and STB_OSMutexUnlock by a thread that held the mutex   *)
(* base times when it made the call.                                       *)

Locking(t, base) ==
    /\ holds[t] = base
    /\ Relock(t) \/ Lock(t) \/ Acquire(t) \/ SetOwner(t) \/ SetCount(t)
    /\ UNCHANGED ethVars

Locked(t, base) == pc[t] = "out" /\ holds[t] = base + 1

Unlocking(t, base) ==
    /\ \/ holds[t] = base + 1 /\ Unlock(t)
       \/ holds[t] = base /\ (ClearOwner(t) \/ Release(t))
    /\ UNCHANGED ethVars

Unlocked(t, base) == pc[t] = "out" /\ holds[t] = base

------------------------------------------------------------------------------
(* EthernetMonitorTask.                                                    *)

TaskGoes(to, m) == task' = [at |-> to, monitor |-> m]

(* The link is looked at every 100 ms; a request that fails is "disabled". *)
PollLink ==
    /\ task.at = "polling"
    /\ \E now \in Links \ {current_ethernet_status} :
          /\ current_ethernet_status' = now
          /\ TaskGoes("locking", NoMonitor)
    /\ UNCHANGED <<vars, nw_monitor_list, call, started, live, told>>

TaskLocks == task.at = "locking" /\ Locking(MonitorTask, 0)

(* The monitor to call next, or the end of the list.                       *)
GoTo(m) == IF m = NoMonitor THEN TaskGoes("unlocking", m) ELSE TaskGoes("at", m)

FirstMonitor ==
    /\ task.at = "locking"
    /\ Locked(MonitorTask, 0)
    /\ GoTo(IF nw_monitor_list = <<>> THEN NoMonitor ELSE Head(nw_monitor_list))
    /\ UNCHANGED <<vars, nw_monitor_list, current_ethernet_status, call, started,
                   live, told>>

CallMonitor ==
    /\ task.at = "at"
    /\ told' = [told EXCEPT ![task.monitor] = current_ethernet_status]
    /\ TaskGoes("calling", task.monitor)
    /\ UNCHANGED <<vars, nw_monitor_list, current_ethernet_status, call, started,
                   live>>

(* Only the first is called; only a mutant uses it.                        *)
FirstAlone ==
    /\ task.at = "calling"
    /\ call[MonitorTask].at = "out"
    /\ TaskGoes("unlocking", NoMonitor)
    /\ UNCHANGED <<vars, nw_monitor_list, current_ethernet_status, call, started,
                   live, told>>

(* The callback returns, and only now next is read.  What it is in a       *)
(* monitor that was freed meanwhile is left open: CalledWhileLive says     *)
(* that the task is never there.                                           *)
NextMonitor ==
    /\ task.at = "calling"
    /\ call[MonitorTask].at = "out"
    /\ \E i \in DOMAIN nw_monitor_list :
          /\ nw_monitor_list[i] = task.monitor
          /\ GoTo(IF i = Len(nw_monitor_list) THEN NoMonitor
                  ELSE nw_monitor_list[i + 1])
    /\ UNCHANGED <<vars, nw_monitor_list, current_ethernet_status, call, started,
                   live, told>>

TaskUnlocks == task.at = "unlocking" /\ Unlocking(MonitorTask, 0)

TaskRests ==
    /\ task.at = "unlocking"
    /\ Unlocked(MonitorTask, 0)
    /\ TaskGoes("polling", NoMonitor)
    /\ UNCHANGED <<vars, nw_monitor_list, current_ethernet_status, call, started,
                   live, told>>

EthernetMonitorTask == \/ PollLink \/ TaskLocks \/ FirstMonitor \/ CallMonitor
                       \/ NextMonitor \/ TaskUnlocks \/ TaskRests

------------------------------------------------------------------------------
(* STB_NWStartEthernetMonitor and STB_NWStopEthernetMonitor, by a caller   *)
(* or by the task inside a callback.                                       *)

MayCall(t) ==
    /\ call[t].at = "out"
    /\ t \in Callers \/ (t = MonitorTask /\ task.at = "calling")

Begin(t, at, m) ==
    call' = [call EXCEPT ![t] = [at |-> at, monitor |-> m, base |-> holds[t]]]

CallGoes(t, to) == call' = [call EXCEPT ![t].at = to]

StartMonitor(t) ==
    /\ MayCall(t)
    /\ \E m \in Monitors :
          /\ started[m] = "no"
          /\ started' = [started EXCEPT ![m] = "starting"]
          /\ live' = live \cup {m}
          /\ Begin(t, "locking", m)
    /\ UNCHANGED <<vars, nw_monitor_list, current_ethernet_status, task, told>>

(* A look at the list that nothing protects comes first.                   *)
StopMonitor(t) ==
    /\ MayCall(t)
    /\ \E m \in Monitors :
          /\ started[m] = "started"
          /\ StopsOwn \/ t # MonitorTask \/ m # task.monitor
          /\ started' = [started EXCEPT ![m] = "stopping"]
          /\ IF nw_monitor_list = <<>> THEN UNCHANGED call ELSE Begin(t, "locking", m)
    /\ UNCHANGED <<vars, nw_monitor_list, current_ethernet_status, task, live,
                   told>>

CallLocks(t) == call[t].at = "locking" /\ Locking(t, call[t].base)

Insert(t) ==
    LET m == call[t].monitor
    IN  /\ call[t].at = "locking" /\ Locked(t, call[t].base)
        /\ started[m] = "starting"
        /\ nw_monitor_list' = <<m>> \o nw_monitor_list
        /\ told' = [told EXCEPT ![m] = current_ethernet_status]
        /\ CallGoes(t, "unlocking")
        /\ UNCHANGED <<vars, current_ethernet_status, task, started, live>>

(* The list changed without the lock; only a mutant uses it.               *)
UnlinkUnlocked(t) ==
    LET m == call[t].monitor
    IN  /\ call[t].at = "locking" /\ Unlocked(t, call[t].base)
        /\ started[m] = "stopping"
        /\ nw_monitor_list' = RemoveFirst(nw_monitor_list, m)
        /\ CallGoes(t, "unlocking")
        /\ UNCHANGED <<vars, current_ethernet_status, task, started, live, told>>

Unlink(t) ==
    LET m == call[t].monitor
    IN  /\ call[t].at = "locking" /\ Locked(t, call[t].base)
        /\ started[m] = "stopping"
        /\ nw_monitor_list' = RemoveFirst(nw_monitor_list, m)
        /\ CallGoes(t, "unlocking")
        /\ UNCHANGED <<vars, current_ethernet_status, task, started, live, told>>

CallUnlocks(t) == call[t].at = "unlocking" /\ Unlocking(t, call[t].base)

(* The start returns the handle; the stop gives the memory back.           *)
Return(t) ==
    LET m == call[t].monitor
    IN  /\ call[t].at = "unlocking" /\ Unlocked(t, call[t].base)
        /\ started' = [started EXCEPT ![m] =
                          IF @ = "starting" THEN "started" ELSE "stopped"]
        /\ live' = IF started[m] = "starting" THEN live ELSE live \ {m}
        /\ call' = [call EXCEPT ![t] = NoCall]
        /\ UNCHANGED <<vars, nw_monitor_list, current_ethernet_status, task, told>>

Caller(t) == \/ StartMonitor(t) \/ StopMonitor(t) \/ CallLocks(t) \/ Insert(t)
             \/ Unlink(t) \/ CallUnlocks(t) \/ Return(t)

------------------------------------------------------------------------------
Other(t) ==
    /\ \/ Relock(t) \/ Lock(t) \/ LockTimeout(t) \/ Acquire(t) \/ GiveUp(t)
       \/ SetOwner(t) \/ SetCount(t) \/ Unlock(t) \/ ClearOwner(t) \/ Release(t)
    /\ UNCHANGED ethVars

EthNext == \/ EthernetMonitorTask
           \/ \E t \in Callers \cup {MonitorTask} : Caller(t)
           \/ \E t \in Others : Other(t)

EthSpec == EthInit /\ [][EthNext]_allVars

------------------------------------------------------------------------------
(* The task is only ever at a monitor that has its memory, and so nobody   *)
(* is called whose stop has returned (stbhwnet.c:1568-1575), although      *)
(* monitors are stopped by other threads and by callbacks in the walk.     *)
CalledWhileLive == task.at \in {"at", "calling"} => task.monitor \in live

(* When the task rests everybody in the list knows the link as it is, also *)
(* who was added between the look at the link and the walk.                *)
NobodyMissesAChange ==
    task.at = "polling" =>
        \A i \in DOMAIN nw_monitor_list :
            told[nw_monitor_list[i]] = current_ethernet_status
=============================================================================
