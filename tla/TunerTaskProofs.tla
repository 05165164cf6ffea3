--------------------------- MODULE TunerTaskProofs ---------------------------
(***************************************************************************)
(* A request to stop the tuner has an owner, for any number of clients,    *)
(* any calls and any bounds.  The invariant is not inductive by itself: it *)
(* needs that a client between the start and the end of its work holds     *)
(* tstatus->lock, so that no other can be where the stop is its own.       *)
(*                                                                         *)
(* Then that a tuner at rest is left there.                                *)
(*                                                                         *)
(* Then the first beside a blind scan, that the scan mode of the frontend  *)
(* has a thread, and that what is told is in the list.                     *)
(***************************************************************************)
EXTENDS BlindScan, TLAPS

Places == {"out", "entering", "refusing", "locking", "already", "halting",
           "stopping", "stopped", "working"}

Holding == {"already", "halting", "stopping", "stopped", "working"}

ClientTypes ==
    /\ state \in States
    /\ lock \in Clients \cup {NoClient}
    /\ client \in [Clients -> [at : Places, op : AllOps \cup {"refused"},
                               changed : BOOLEAN, state : States]]

(* Whoever is inside a call, past tstatus->lock, has the lock.             *)
HoldersLock == \A c \in Clients : client[c].at \in Holding => lock = c

OwnerInv == ClientTypes /\ HoldersLock /\ StopHasOwner

------------------------------------------------------------------------------
(* TunerTask leaves the clients and their lock alone, and takes a request  *)
(* to stop back but never makes one.                                       *)
LEMMA TaskLeavesClients ==
    ASSUME state \in States, Task
    PROVE  state' \in States /\ client' = client /\ lock' = lock /\ (stop' => stop)
<1>1. CASE Look BY <1>1 DEF Look, sharedVars
<1>2. CASE Wake BY <1>2 DEF Wake
<1>3. CASE Idle BY <1>3 DEF Idle, sharedVars
<1>4. CASE CloseUnused BY <1>4 DEF CloseUnused
<1>5. CASE TakeLocked BY <1>5 DEF TakeLocked, States
<1>6. CASE ClearFlag BY <1>6 DEF ClearFlag
<1>7. CASE BeginTuning BY <1>7 DEF BeginTuning, States
<1>8. CASE Poll BY <1>8 DEF Poll, sharedVars
<1>9. CASE EndTuning BY <1>9 DEF EndTuning, States
<1>11. CASE MonitorOther BY <1>11 DEF MonitorOther, sharedVars
<1>10. CASE Monitor
  <2>1. client' = client /\ lock' = lock
    BY <1>10 DEF Monitor
  <2>2. state' \in States /\ (stop' => stop)
    BY <1>10 DEF Monitor, MonitorStop, MonitorSame, MonitorChange, States
  <2> QED BY <2>1, <2>2
<1> QED BY <1>1, <1>2, <1>3, <1>4, <1>5, <1>6, <1>7, <1>8, <1>9, <1>10, <1>11 DEF Task

(* A step after which the clients, their lock and the request are as       *)
(* before, or the request is taken back, keeps the invariant.              *)
LEMMA ClientsKept ==
    ASSUME OwnerInv, state' \in States, client' = client, lock' = lock, stop' => stop
    PROVE  OwnerInv'
BY DEF OwnerInv, ClientTypes, HoldersLock, StopHasOwner

(* A client that returns gives the lock back if it has it, and had not     *)
(* asked to stop: it did its work.                                         *)
LEMMA ReturnKeepsOwner ==
    ASSUME OwnerInv, NEW c \in Clients, Returns(c), state' \in States,
           stop' = stop, client[c].at \in {"working", "already", "refusing"}
    PROVE  OwnerInv'
<1>1. Out \in [at : Places, op : AllOps \cup {"refused"}, changed : BOOLEAN,
               state : States] /\ Out.at = "out"
  BY DEF Out, Places, AllOps, States
<1>2. /\ client' \in [Clients -> [at : Places, op : AllOps \cup {"refused"},
                                  changed : BOOLEAN, state : States]]
      /\ client'[c] = Out
      /\ \A d \in Clients \ {c} : client'[d] = client[d]
  BY <1>1 DEF OwnerInv, ClientTypes, Returns
<1>3. ClientTypes'
  BY <1>2 DEF OwnerInv, ClientTypes, Returns
<1>4. HoldersLock'
  BY <1>1, <1>2 DEF OwnerInv, HoldersLock, Returns, Holding
<1>5. StopHasOwner'
  <2> SUFFICES ASSUME stop' PROVE lock' \in Clients /\ client'[lock'].at \in {"stopping", "stopped"}
    BY DEF StopHasOwner
  <2>1. lock \in Clients /\ client[lock].at \in {"stopping", "stopped"}
    BY DEF OwnerInv, StopHasOwner
  <2>2. lock # c
    BY <2>1
  <2> QED BY <1>2, <2>1, <2>2 DEF Returns
<1> QED BY <1>3, <1>4, <1>5 DEF OwnerInv

(* A client that moves keeps the invariant if it holds the lock wherever   *)
(* it goes, and if the request is not left to somebody who does not wait.  *)
LEMMA MoveKeepsOwner ==
    ASSUME OwnerInv, NEW c \in Clients, state' \in States,
           lock' \in Clients \cup {NoClient},
           client' \in [Clients -> [at : Places, op : AllOps \cup {"refused"},
                                    changed : BOOLEAN, state : States]],
           \A d \in Clients \ {c} : client'[d] = client[d],
           lock' = lock \/ (lock = NoClient /\ lock' = c),
           client'[c].at \in Holding => lock' = c,
           stop' => \/ stop /\ lock # c
                    \/ lock' = c /\ client'[c].at \in {"stopping", "stopped"}
    PROVE  OwnerInv'
<1>1. ClientTypes'
  BY DEF ClientTypes
<1>2. HoldersLock'
  <2> SUFFICES ASSUME NEW d \in Clients, client'[d].at \in Holding PROVE lock' = d
    BY DEF HoldersLock
  <2>1. CASE d = c BY <2>1
  <2>2. CASE d # c
    <3>1. lock = d BY <2>2 DEF OwnerInv, HoldersLock
    <3> QED BY <3>1, NobodyAssumption
  <2> QED BY <2>1, <2>2
<1>3. StopHasOwner'
  <2> SUFFICES ASSUME stop' PROVE lock' \in Clients /\ client'[lock'].at \in {"stopping", "stopped"}
    BY DEF StopHasOwner
  <2>1. CASE lock' = c /\ client'[c].at \in {"stopping", "stopped"} BY <2>1
  <2>2. CASE stop /\ lock # c
    <3>1. lock \in Clients /\ client[lock].at \in {"stopping", "stopped"}
      BY <2>2 DEF OwnerInv, StopHasOwner
    <3> QED BY <2>2, <3>1, NobodyAssumption
  <2> QED BY <2>1, <2>2
<1> QED BY <1>1, <1>2, <1>3 DEF OwnerInv

(* The wait for a tuner, and the type that a start may not find.           *)
LEMMA EnterGoes ==
    ASSUME NEW c \in Clients, Enter(c), state \in States,
           client \in [Clients -> [at : Places, op : AllOps \cup {"refused"},
                                   changed : BOOLEAN, state : States]]
    PROVE  /\ client' \in [Clients -> [at : Places, op : AllOps \cup {"refused"},
                                       changed : BOOLEAN, state : States]]
           /\ \A d \in Clients \ {c} : client'[d] = client[d]
           /\ client'[c].at \in {"locking", "refusing"}
           /\ client'[c].at = "refusing" => client'[c].op = "refused"
<1> DEFINE All == [Clients -> [at : Places, op : AllOps \cup {"refused"},
                               changed : BOOLEAN, state : States]]
<1> USE DEF Places
<1>0. client \in All /\ state \in States
  OBVIOUS
<1>1. CASE client' = [client EXCEPT ![c].at = "locking"]
  BY <1>0, <1>1
<1>2. CASE \E f \in Freqs : client' = [client EXCEPT ![c].at = "locking",
                             ![c].changed = freq # f, ![c].state = state]
  <2>1. PICK f \in Freqs : client' = [client EXCEPT ![c].at = "locking",
                             ![c].changed = freq # f, ![c].state = state]
    BY <1>2
  <2> DEFINE one == [client EXCEPT ![c].at = "locking"]
             two == [one EXCEPT ![c].changed = freq # f]
  <2>2. one \in All /\ one[c].at = "locking"
        /\ \A d \in Clients \ {c} : one[d] = client[d]
    BY <1>0
  <2>3. (freq # f) \in BOOLEAN
    OBVIOUS
  <2>4. two \in All /\ two[c].at = "locking"
        /\ \A d \in Clients \ {c} : two[d] = client[d]
    <3> DEFINE b == freq # f
               rec == [one[c] EXCEPT !.changed = b]
    <3>1. b \in BOOLEAN /\ two = [one EXCEPT ![c] = rec]
      BY <2>3
    <3> HIDE DEF b, one
    <3>2. /\ rec \in [at : Places, op : AllOps \cup {"refused"},
                      changed : BOOLEAN, state : States]
          /\ rec.at = "locking"
      BY <2>2, <3>1
    <3> HIDE DEF rec, two
    <3> QED BY <2>2, <3>1, <3>2
  <2>5. client' = [two EXCEPT ![c].state = state]
    BY <2>1
  <2> HIDE DEF two
  <2> QED BY <1>0, <2>4, <2>5
<1>3. CASE \E to \in {"refusing", "locking"} :
              client' = [client EXCEPT ![c].op = "refused", ![c].at = to]
  <2>1. PICK to \in {"refusing", "locking"} :
              client' = [client EXCEPT ![c].op = "refused", ![c].at = to]
    BY <1>3
  <2> DEFINE one == [client EXCEPT ![c].op = "refused"]
  <2>2. one \in All /\ one[c].op = "refused"
        /\ \A d \in Clients \ {c} : one[d] = client[d]
    BY <1>0
  <2>3. client' = [one EXCEPT ![c].at = to]
    BY <2>1
  <2> HIDE DEF one
  <2>4. CASE to = "refusing" BY <2>2, <2>3, <2>4
  <2>5. CASE to = "locking" BY <2>2, <2>3, <2>5
  <2> QED BY <2>4, <2>5
<1> QED BY <1>1, <1>2, <1>3 DEF Enter, Goto

LEMMA EnterKeepsOwner ==
    ASSUME OwnerInv, NEW c \in Clients, Enter(c)
    PROVE  OwnerInv'
<1>1. /\ state' = state /\ lock' = lock /\ stop' = stop
      /\ client[c].at = "entering"
  BY DEF Enter
<1>2. /\ client' \in [Clients -> [at : Places, op : AllOps \cup {"refused"},
                                  changed : BOOLEAN, state : States]]
      /\ \A d \in Clients \ {c} : client'[d] = client[d]
      /\ client'[c].at \in {"locking", "refusing"}
  BY EnterGoes DEF OwnerInv, ClientTypes
<1>3. stop => lock # c
  BY <1>1 DEF OwnerInv, StopHasOwner
<1> QED
  BY <1>1, <1>2, <1>3, MoveKeepsOwner DEF OwnerInv, ClientTypes, Holding

(* A client takes the lock when nobody has it, so nobody had asked to stop.*)
LEMMA LockKeepsOwner ==
    ASSUME OwnerInv, NEW c \in Clients, Lock(c)
    PROVE  OwnerInv'
<1>1. state' = state /\ lock = NoClient /\ lock' = c /\ stop' = stop
  BY DEF Lock, sharedVars
<1>2. MustStop(c) \in BOOLEAN
  BY DEF MustStop
<1>3. /\ client' \in [Clients -> [at : Places, op : AllOps \cup {"refused"},
                                  changed : BOOLEAN, state : States]]
      /\ \A d \in Clients \ {c} : client'[d] = client[d]
  BY <1>2 DEF Lock, OwnerInv, ClientTypes, Places
<1>4. ~stop
  BY <1>1, NobodyAssumption DEF OwnerInv, StopHasOwner
<1> QED
  BY <1>1, <1>3, <1>4, MoveKeepsOwner DEF OwnerInv, ClientTypes

(* TuneStopTuner: it asks with the lock held, waits with it, and takes the *)
(* request back before it goes on.                                         *)
LEMMA StopKeepsOwner ==
    ASSUME OwnerInv, NEW c \in Clients, Halt(c) \/ SeeRest(c) \/ ClearStop(c)
    PROVE  OwnerInv'
<1>1. state' = state /\ lock' = lock /\ lock = c
  BY DEF Halt, SeeRest, ClearStop, sharedVars, OwnerInv, HoldersLock, Holding
<1>2. /\ client' \in [Clients -> [at : Places, op : AllOps \cup {"refused"},
                                  changed : BOOLEAN, state : States]]
      /\ \A d \in Clients \ {c} : client'[d] = client[d]
  BY DEF Halt, SeeRest, ClearStop, Goto, OwnerInv, ClientTypes, Places
<1>3. stop' => client'[c].at \in {"stopping", "stopped"}
  <2>1. CASE Halt(c)
    <3>1. CASE state \in AtRest
      <4>1. client[c].at = "halting" /\ stop' = stop
        BY <2>1, <3>1 DEF Halt
      <4> QED BY <1>1, <4>1 DEF OwnerInv, StopHasOwner
    <3>2. CASE state \notin AtRest
      BY <2>1, <3>2 DEF Halt, Goto, OwnerInv, ClientTypes
    <3> QED BY <3>1, <3>2
  <2>2. CASE SeeRest(c)
    BY <2>2 DEF SeeRest, Goto, OwnerInv, ClientTypes
  <2>3. CASE ClearStop(c)
    BY <2>3 DEF ClearStop
  <2> QED BY <2>1, <2>2, <2>3
<1> QED
  BY <1>1, <1>2, <1>3, MoveKeepsOwner DEF OwnerInv, ClientTypes

(* Whatever a call does once it is past the stop, it returns and does not  *)
(* touch the request.                                                      *)
LEMMA WorkKeepsOwner ==
    ASSUME OwnerInv, NEW c \in Clients, Work(c)
    PROVE  OwnerInv'
<1>1. /\ Returns(c) /\ stop' = stop
      /\ client[c].at \in {"working", "already", "refusing"}
  BY DEF Work, StartWork, AlreadyWork, RefuseWork, StopWork, TypeWork, NoTypeWork,
         OpenWork, UsageWork, AllStopWork, AllStartWork, SearchWork, Does, sharedVars
<1>2. state' \in States
  BY DEF Work, StartWork, AlreadyWork, RefuseWork, StopWork, TypeWork, NoTypeWork,
         OpenWork, UsageWork, AllStopWork, AllStartWork, SearchWork, sharedVars,
         OwnerInv, ClientTypes, States
<1> QED
  BY <1>1, <1>2, ReturnKeepsOwner

(* A client that is in no call begins one, without the lock.               *)
LEMMA CallKeepsOwner ==
    ASSUME OwnerInv, NEW c \in Clients, NEW op \in Ops, Call(c, op)
    PROVE  OwnerInv'
<1>1. /\ state' = state /\ lock' = lock /\ stop' = stop
      /\ client[c].at = "out"
  BY DEF Call, sharedVars
<1>2. /\ client' \in [Clients -> [at : Places, op : AllOps \cup {"refused"},
                                  changed : BOOLEAN, state : States]]
      /\ \A d \in Clients \ {c} : client'[d] = client[d]
      /\ client'[c].at \in {"entering", "locking"}
  BY OpsAssumption DEF Call, Out, OwnerInv, ClientTypes, Places, States
<1>3. stop => lock # c
  BY <1>1 DEF OwnerInv, StopHasOwner
<1> QED
  BY <1>1, <1>2, <1>3, MoveKeepsOwner DEF OwnerInv, ClientTypes, Holding

(* One step of anybody.                                                    *)
LEMMA StepKeepsOwner == OwnerInv /\ [Next]_vars => OwnerInv'
<1> SUFFICES ASSUME OwnerInv, [Next]_vars PROVE OwnerInv'
  OBVIOUS
<1>1. CASE Task
  BY <1>1, TaskLeavesClients, ClientsKept DEF OwnerInv, ClientTypes
<1>2. CASE FrontendLocks \/ FrontendLoses
  BY <1>2, ClientsKept DEF FrontendLocks, FrontendLoses, sharedVars, OwnerInv, ClientTypes
<1>3. CASE \E c \in Clients : Client(c)
  BY <1>3, EnterKeepsOwner, LockKeepsOwner, StopKeepsOwner, WorkKeepsOwner DEF Client
<1>4. CASE \E c \in Clients : \E op \in Ops : Call(c, op)
  BY <1>4, CallKeepsOwner
<1>5. CASE UNCHANGED vars
  BY <1>5, ClientsKept DEF vars, OwnerInv, ClientTypes
<1> QED
  BY <1>1, <1>2, <1>3, <1>4, <1>5 DEF Next

(* A request to stop never outlives the call that made it, however many    *)
(* threads call the tuner and whatever they call: TuneStopTuner raises and *)
(* lowers stop_tuning with tstatus->lock held (stbhwtun.c).                *)
THEOREM StopHasOwnerTheorem == Spec => []StopHasOwner
<1>1. Init => OwnerInv
  BY DEF Init, OwnerInv, ClientTypes, HoldersLock, StopHasOwner, Out, Places,
         Holding, AllOps, States
<1>2. OwnerInv => StopHasOwner
  BY DEF OwnerInv
<1> QED
  BY <1>1, <1>2, StepKeepsOwner, PTL DEF Spec

------------------------------------------------------------------------------
(* A tuner at rest is left there.                                          *)

(* The tuner rests, and no start is on its way to the task.                *)
Quiet == state \in AtRest /\ ~OnItsWay

(* A call that asked for the stop has seen the tuner rest.                 *)
SawRest(c) == client[c].op = "stop" /\ client[c].at \in {"stopped", "working"}

(* When it has to be quiet: after a stop, while it was taken away, and     *)
(* from the moment on when the stop saw it rest; unless a start was late.  *)
Due == ~late /\ \/ last = "stop" \/ state = "EXITED"
                \/ \E c \in Clients : SawRest(c)

RestInv ==
    /\ "at" \in DOMAIN task
    /\ tune_sem \in Nat
    /\ \A c \in Clients : /\ client[c].at = "already" => client[c].op = "start"
                          /\ client[c].at = "refusing" => client[c].op = "refused"
    /\ Due => Quiet

(* A quiet tuner is left quiet by the task, which never writes EXITED and  *)
(* leaves the signals it did not get.                                      *)
LEMMA TaskKeepsRest ==
    ASSUME RestInv, Task
    PROVE  /\ RestInv'
           /\ state = "EXITED" /\ ~late => state' = "EXITED"
<1>1. /\ client' = client /\ last' = last /\ late' = late
      /\ state' = "EXITED" => state = "EXITED"
  BY DEF Task, Look, Wake, Idle, CloseUnused, TakeLocked, ClearFlag, BeginTuning, Poll,
         EndTuning, Monitor, MonitorOther, MonitorStop, MonitorSame, MonitorChange, sharedVars
<1>2. "at" \in DOMAIN task' /\ tune_sem' \in Nat
  <2> USE DEF RestInv, TaskGoes
  <2>1. CASE Look \/ Idle \/ Poll \/ MonitorOther
    BY <2>1 DEF Look, Idle, Poll, MonitorOther, sharedVars
  <2>2. CASE Wake BY <2>2 DEF Wake
  <2>3. CASE CloseUnused BY <2>3 DEF CloseUnused
  <2>4. CASE TakeLocked BY <2>4 DEF TakeLocked
  <2>5. CASE ClearFlag BY <2>5 DEF ClearFlag
  <2>6. CASE BeginTuning BY <2>6 DEF BeginTuning
  <2>7. CASE EndTuning BY <2>7 DEF EndTuning
  <2>8. CASE Monitor
    BY <2>8 DEF Monitor, MonitorStop, MonitorSame, MonitorChange
  <2> QED BY <2>1, <2>2, <2>3, <2>4, <2>5, <2>6, <2>7, <2>8 DEF Task
<1>3. Quiet => Quiet' /\ state' = state
  <2> SUFFICES ASSUME Quiet PROVE Quiet' /\ state' = state
    OBVIOUS
  <2> USE DEF Quiet, OnItsWay, RestInv, AtRest
  <2>1. CASE Look BY <2>1 DEF Look, sharedVars
  <2>2. CASE Wake BY <2>2 DEF Wake
  <2>3. CASE Idle BY <2>3 DEF Idle, sharedVars
  <2>4. CASE CloseUnused BY <2>4 DEF CloseUnused
  <2>5. CASE TakeLocked \/ ClearFlag \/ BeginTuning \/ Poll \/ EndTuning
    BY <2>5 DEF TakeLocked, ClearFlag, BeginTuning, Poll, EndTuning
  <2>6. CASE Monitor BY <2>6 DEF Monitor, TaskGoes
  <2>7. CASE MonitorOther BY <2>7 DEF MonitorOther, TaskGoes, sharedVars
  <2> QED BY <2>1, <2>2, <2>3, <2>4, <2>5, <2>6, <2>7 DEF Task
<1>4. Due' => Due
  BY <1>1 DEF Due, SawRest
<1> QED
  BY <1>1, <1>2, <1>3, <1>4 DEF RestInv, Due

(* A step of a call before its work: it moves one client, which has seen   *)
(* the tuner rest only if it has just looked, or had before.               *)
LEMMA MoveKeepsRest ==
    ASSUME RestInv, NEW c \in Clients,
           UNCHANGED <<state, tune_sem, task, last>>,
           \A d \in Clients \ {c} : client'[d] = client[d],
           client'[c].at = "already" => client'[c].op = "start",
           client'[c].at = "refusing" => client'[c].op = "refused",
           \/ late' = late /\ (SawRest(c)' => SawRest(c))
           \/ (late' <=> OnItsWay) /\ state \in AtRest
    PROVE  RestInv'
<1>1. OnItsWay' <=> OnItsWay
  BY DEF OnItsWay
<1>2. CASE late' = late /\ (SawRest(c)' => SawRest(c))
  <2>1. Due' => Due
    BY <1>2 DEF Due, SawRest
  <2> QED
    BY <1>1, <2>1 DEF RestInv, Quiet
<1>3. CASE (late' <=> OnItsWay) /\ state \in AtRest
  BY <1>1, <1>3 DEF RestInv, Due, Quiet
<1> QED
  BY <1>2, <1>3

(* A call begins, waits for a tuner that was taken away, takes the lock    *)
(* and stops the tuner.                                                    *)
LEMMA CallerKeepsRest ==
    ASSUME RestInv, OwnerInv, NEW c \in Clients,
           \/ \E op \in Ops : Call(c, op)
           \/ Enter(c) \/ Lock(c) \/ Halt(c) \/ SeeRest(c) \/ ClearStop(c)
    PROVE  RestInv'
<1> DEFINE All == [Clients -> [at : Places, op : AllOps \cup {"refused"},
                               changed : BOOLEAN, state : States]]
<1>0. client \in All
  BY DEF OwnerInv, ClientTypes
<1>1. CASE \E op \in Ops : Call(c, op)
  <2>1. PICK op \in Ops : Call(c, op)
    BY <1>1
  <2>2. /\ client'[c].at \in {"entering", "locking"}
        /\ \A d \in Clients \ {c} : client'[d] = client[d]
    BY <1>0, <2>1 DEF Call, Out
  <2> QED
    BY <2>1, <2>2, MoveKeepsRest DEF Call, sharedVars, SawRest
<1>2. CASE Enter(c)
  <2>1. /\ \A d \in Clients \ {c} : client'[d] = client[d]
        /\ client'[c].at \in {"locking", "refusing"}
        /\ client'[c].at = "refusing" => client'[c].op = "refused"
    <3>1. state \in States /\ client \in All
      BY <1>0 DEF OwnerInv, ClientTypes
    <3> HIDE DEF All
    <3>2. Enter(c)
      BY <1>2
    <3> QED BY <3>1, <3>2, EnterGoes DEF All
  <2>2. UNCHANGED <<state, tune_sem, task, last, late>>
    BY <1>2 DEF Enter
  <2>3. ~SawRest(c)'
    BY <2>1 DEF SawRest
  <2> QED
    BY <2>1, <2>2, <2>3, MoveKeepsRest
<1>3. CASE Lock(c)
  <2>1. /\ \A d \in Clients \ {c} : client'[d] = client[d]
        /\ client'[c].op = client[c].op
        /\ client'[c].at = IF AlreadyTuned(c) THEN "already"
                           ELSE IF MustStop(c) THEN "halting" ELSE "working"
    BY <1>0, <1>3 DEF Lock
  <2>2. client[c].op = "stop" => MustStop(c)
    BY DEF MustStop
  <2>3. AlreadyTuned(c) => client[c].op = "start"
    BY DEF AlreadyTuned
  <2>4. UNCHANGED <<state, tune_sem, task, last, late>>
    BY <1>3 DEF Lock, sharedVars
  <2>5. client'[c].at # "refusing" /\ (client'[c].at = "already" => client'[c].op = "start")
    BY <2>1, <2>3
  <2>6. ~SawRest(c)'
    BY <2>1, <2>2, <2>3 DEF SawRest
  <2> QED
    BY <2>1, <2>4, <2>5, <2>6, MoveKeepsRest
<1>4. CASE Halt(c) \/ SeeRest(c)
  <2>1. /\ \A d \in Clients \ {c} : client'[d] = client[d]
        /\ client'[c].op = client[c].op
        /\ client'[c].at = "stopping" \/ (client'[c].at \in {"stopped", "working"} /\ state \in AtRest)
        /\ client'[c].at = "stopping" => late' = late
        /\ client'[c].at # "stopping" => FindsRest(c)
    BY <1>0, <1>4 DEF Halt, SeeRest, Goto
  <2>2. UNCHANGED <<state, tune_sem, task, last>>
    BY <1>4 DEF Halt, SeeRest, sharedVars
  <2>3. CASE client'[c].at = "stopping"
    BY <2>1, <2>2, <2>3, MoveKeepsRest DEF SawRest
  <2>4. CASE client'[c].at # "stopping" /\ client[c].op = "stop"
    BY <2>1, <2>2, <2>4, MoveKeepsRest DEF FindsRest
  <2>5. CASE client'[c].at # "stopping" /\ client[c].op # "stop"
    BY <2>1, <2>2, <2>5, MoveKeepsRest DEF FindsRest, SawRest
  <2> QED
    BY <2>3, <2>4, <2>5
<1>5. CASE ClearStop(c)
  <2>1. /\ \A d \in Clients \ {c} : client'[d] = client[d]
        /\ client'[c].op = client[c].op /\ client'[c].at = "working"
        /\ client[c].at = "stopped"
    BY <1>0, <1>5 DEF ClearStop, Goto
  <2> QED
    BY <1>5, <2>1, MoveKeepsRest DEF ClearStop, SawRest
<1> QED
  BY <1>1, <1>2, <1>3, <1>4, <1>5

(* A call does its work and returns.  It holds the lock, so that no stop   *)
(* has seen the tuner rest, or it is refused and changes nothing.          *)
LEMMA WorkKeepsRest ==
    ASSUME RestInv, OwnerInv, NEW c \in Clients, Work(c)
    PROVE  RestInv'
<1>1. /\ Returns(c) /\ task' = task
      /\ client[c].at \in {"working", "already", "refusing"}
  BY DEF Work, StartWork, AlreadyWork, RefuseWork, StopWork, TypeWork, NoTypeWork,
         OpenWork, UsageWork, AllStopWork, AllStartWork, SearchWork, Does, Returns
<1>2. /\ client'[c] = Out /\ \A d \in Clients \ {c} : client'[d] = client[d]
      /\ last' = client[c].op
  BY <1>1 DEF Returns, OwnerInv, ClientTypes
<1>3. Out.at = "out"
  BY DEF Out
<1>4. /\ "at" \in DOMAIN task'
      /\ \A d \in Clients : /\ client'[d].at = "already" => client'[d].op = "start"
                            /\ client'[d].at = "refusing" => client'[d].op = "refused"
  BY <1>1, <1>2, <1>3 DEF RestInv
<1>5. tune_sem' \in Nat
  <2>1. tune_sem' = tune_sem \/ tune_sem' = tune_sem + 1
    BY DEF Work, StartWork, AlreadyWork, Signal, RefuseWork, StopWork, TypeWork, NoTypeWork,
           OpenWork, UsageWork, AllStopWork, AllStartWork, SearchWork, sharedVars
  <2> QED BY <2>1 DEF RestInv
<1>6. \A d \in Clients : SawRest(d)' => d # c /\ SawRest(d)
  BY <1>2, <1>3 DEF SawRest
<1>7. client[c].at # "refusing" => \A d \in Clients : ~SawRest(d)'
  BY <1>1, <1>6 DEF SawRest, OwnerInv, HoldersLock, Holding
<1>8. CASE RefuseWork(c)
  <2>1. client[c].op = "refused" /\ UNCHANGED <<state, tune_sem, late>>
    BY <1>8 DEF RefuseWork, Does, RestInv, sharedVars
  <2>2. Due' => Due
    BY <1>2, <1>6, <2>1 DEF Due
  <2> QED
    BY <1>1, <1>4, <1>5, <2>1, <2>2 DEF RestInv, Quiet, OnItsWay
<1>9. CASE StopWork(c)
  <2>1. client[c].op = "stop" /\ client[c].at = "working" /\ UNCHANGED <<state, tune_sem, late>>
    BY <1>9 DEF StopWork, Does, sharedVars
  <2>2. Due' => Due
    BY <1>6, <2>1 DEF Due, SawRest
  <2> QED
    BY <1>1, <1>4, <1>5, <2>1, <2>2 DEF RestInv, Quiet, OnItsWay
<1>10. CASE AllStopWork(c)
  <2>1. /\ late' <=> OnItsWay
        /\ client[c].op = "allstop" /\ client[c].at = "working" /\ tune_sem' = tune_sem
    BY <1>10 DEF AllStopWork, Does
  <2>2. OnItsWay' <=> OnItsWay
    BY <1>1, <2>1 DEF OnItsWay
  <2>3. Due' => state' = "EXITED"
    BY <1>2, <1>7, <2>1 DEF Due
  <2> QED
    BY <1>4, <1>5, <2>1, <2>2, <2>3 DEF RestInv, Due, Quiet, AtRest
<1>11. ASSUME client[c].op # "stop", client[c].at # "refusing",
              \/ late' = late /\ tune_sem' = tune_sem
              \/ late' = (late \/ state = "EXITED"),
              state' = "EXITED" => state = "EXITED"
       PROVE  RestInv'
  <2>1. Due' => Due /\ state = "EXITED" /\ tune_sem' = tune_sem /\ state' = state
    BY <1>2, <1>7, <1>11 DEF Due
  <2> QED
    BY <1>1, <1>4, <1>5, <2>1 DEF RestInv, Quiet, OnItsWay
<1>12. CASE StartWork(c) \/ AlreadyWork(c)
  <2>1. client[c].op = "start"
    BY <1>12 DEF StartWork, AlreadyWork, Does, RestInv
  <2>2. /\ \/ late' = late /\ tune_sem' = tune_sem
           \/ late' = (late \/ state = "EXITED")
        /\ state' = state /\ client[c].at # "refusing"
    BY <1>12 DEF StartWork, AlreadyWork, Does, Signal
  <2> QED
    BY <1>11, <2>1, <2>2
<1>13. CASE TypeWork(c) \/ NoTypeWork(c) \/ OpenWork(c) \/ UsageWork(c)
            \/ AllStartWork(c) \/ SearchWork(c)
  <2>1. /\ client[c].op # "stop" /\ client[c].at = "working"
        /\ UNCHANGED <<late, tune_sem>> /\ (state' = "EXITED" => state = "EXITED")
    BY <1>13 DEF TypeWork, NoTypeWork, OpenWork, UsageWork, AllStartWork, SearchWork, Does
  <2> QED
    BY <1>11, <2>1
<1> QED
  BY <1>8, <1>9, <1>10, <1>12, <1>13 DEF Work

LEMMA StepKeepsRest == RestInv /\ OwnerInv /\ [Next]_vars => RestInv'
<1> SUFFICES ASSUME RestInv, OwnerInv, [Next]_vars PROVE RestInv'
  OBVIOUS
<1>1. CASE Task
  BY <1>1, TaskKeepsRest
<1>2. CASE FrontendLocks \/ FrontendLoses \/ UNCHANGED vars
  BY <1>2 DEF FrontendLocks, FrontendLoses, sharedVars, vars, RestInv, Due, SawRest, Quiet, OnItsWay
<1>3. CASE \E c \in Clients : Client(c)
  BY <1>3, CallerKeepsRest, WorkKeepsRest DEF Client
<1>4. CASE \E c \in Clients : \E op \in Ops : Call(c, op)
  BY <1>4, CallerKeepsRest
<1> QED
  BY <1>1, <1>2, <1>3, <1>4 DEF Next

(* The task brings no tuner back that was taken away, but one that a start *)
(* was late for.                                                           *)
LEMMA ExitedIsLeft == RestInv /\ [Next]_vars => ExitedStays
<1> SUFFICES ASSUME RestInv, [Next]_vars, state = "EXITED", state' # "EXITED"
             PROVE  task' = task \/ late
  BY DEF ExitedStays
<1>1. CASE Task
  BY <1>1, TaskKeepsRest
<1>2. CASE FrontendLocks \/ FrontendLoses \/ \E c \in Clients : \E op \in Ops : Call(c, op)
  BY <1>2 DEF FrontendLocks, FrontendLoses, Call
<1>3. CASE \E c \in Clients : Client(c)
  BY <1>3 DEF Client, Enter, Lock, Halt, SeeRest, ClearStop, Work, StartWork, AlreadyWork,
              RefuseWork, StopWork, TypeWork, NoTypeWork, OpenWork, UsageWork, AllStopWork,
              AllStartWork, SearchWork, Returns
<1>4. CASE UNCHANGED vars
  BY <1>4 DEF vars
<1> QED
  BY <1>1, <1>2, <1>3, <1>4 DEF Next

(* A tuner at rest is left there, whatever any number of clients ask for   *)
(* and on a television or not: the task takes no tuner back that was taken *)
(* away, and after a stop (TuneStopTuner) nothing starts it again, but for *)
(* a start whose signal the task had not answered when the stop looked, or *)
(* which came while the tuner was away.                                    *)
THEOREM RestIsRespectedTheorem == Spec => RestIsRespected
<1>1. Init => OwnerInv /\ RestInv
  <2>1. Init => OwnerInv
    BY DEF Init, OwnerInv, ClientTypes, HoldersLock, StopHasOwner, Out, Places,
           Holding, AllOps, States
  <2>2. Init => RestInv
    BY DEF Init, RestInv, Due, SawRest, Out
  <2> QED
    BY <2>1, <2>2
<1>2. OwnerInv /\ RestInv /\ [Next]_vars => (OwnerInv /\ RestInv)'
  BY StepKeepsOwner, StepKeepsRest
<1>3. RestInv => StoppedStays
  BY DEF RestInv, Due, Quiet, StoppedStays
<1>4. RestInv /\ RestInv' /\ [Next]_vars => [StoppedStays' /\ ExitedStays]_vars
  BY <1>3, ExitedIsLeft DEF RestInv, Due, Quiet, StoppedStays
<1> QED
  BY <1>1, <1>2, <1>4, PTL DEF Spec, RestIsRespected

------------------------------------------------------------------------------
(* The blind scan.                                                         *)

(* What it does to the path is a step of the tuner, or leaves the clients, *)
(* their lock and the request to stop as they are.                         *)
LEMMA ScanStepKeepsOwner == OwnerInv /\ [ScanNext]_allVars => OwnerInv'
<1> SUFFICES ASSUME OwnerInv, [ScanNext]_allVars PROVE OwnerInv'
  OBVIOUS
<1>1. CASE Tuner
  BY <1>1, StepKeepsOwner DEF Tuner
<1>2. CASE Scanner
  BY <1>2, StepKeepsOwner
     DEF Scanner, Turn, ScanBegins, ScanStart, ScanWait, ScanUser, ScanWaitExit, ScanCancel
<1>3. CASE STB_Tune_BlindExit \/ Join \/ UNCHANGED allVars
  BY <1>3, StepKeepsOwner DEF STB_Tune_BlindExit, Join, allVars
<1>4. CASE STB_Tune_BlindScan
  BY <1>4, ClientsKept DEF STB_Tune_BlindScan, sharedVars, OwnerInv, ClientTypes
<1> QED
  BY <1>1, <1>2, <1>3, <1>4 DEF ScanNext

(* The same beside a blind scan, whose thread and calls use the same path: *)
(* no request to stop outlives the call that made it (stbhwtun.c).         *)
THEOREM StopHasOwnerInScan == ScanSpec => []StopHasOwner
<1>1. ScanInit => OwnerInv
  BY DEF ScanInit, Init, OwnerInv, ClientTypes, HoldersLock, StopHasOwner, Out,
         Places, Holding, AllOps, States
<1>2. OwnerInv => StopHasOwner
  BY DEF OwnerInv
<1> QED
  BY <1>1, <1>2, ScanStepKeepsOwner, PTL DEF ScanSpec

------------------------------------------------------------------------------
(* Where the thread is and what it has decided.                            *)
Statuses == {"Init", "Start", "Wait", "User", "WaitExit", "Cancel", "Exit"}

Scanners == [at : {"none", "top", "acting", "ended"}, status : Statuses,
             event : Events \cup {NoEvent}]

(* While the frontend is in scan mode the thread has begun its scan, and   *)
(* has not decided to leave: a turn of its loop needs that to keep         *)
(* ScanModeHasThread.                                                      *)
ModeInv ==
    /\ scanner \in Scanners
    /\ hw_scan = "on" => /\ scanner.at \in {"top", "acting"}
                         /\ scanner.status \notin {"Init", "Start", "Exit"}

LEMMA ScannerKeepsMode == ModeInv /\ Scanner => ModeInv'
<1> SUFFICES ASSUME ModeInv, Scanner PROVE ModeInv'
  OBVIOUS
<1> USE DEF ModeInv, Scanners, Statuses, Acts, NextStatus
<1>1. CASE Turn BY <1>1 DEF Turn
<1>2. CASE ScanBegins BY <1>2 DEF ScanBegins
<1>3. CASE ScanStart BY <1>3 DEF ScanStart
<1>4. CASE ScanWait
  <2>1. CASE NextStatus("Wait")
    BY <1>4, <2>1 DEF ScanWait
  <2>2. CASE \E event \in Events :
                scanner' = [at |-> "top", status |-> "User", event |-> event]
    BY <1>4, <2>2 DEF ScanWait
  <2> QED
    BY <1>4, <2>1, <2>2 DEF ScanWait
<1>5. CASE ScanUser BY <1>5 DEF ScanUser
<1>6. CASE ScanWaitExit BY <1>6 DEF ScanWaitExit
<1>7. CASE ScanCancel BY <1>7 DEF ScanCancel
<1> QED
  BY <1>1, <1>2, <1>3, <1>4, <1>5, <1>6, <1>7 DEF Scanner

LEMMA ScanStepKeepsMode == ModeInv /\ [ScanNext]_allVars => ModeInv'
<1> SUFFICES ASSUME ModeInv, [ScanNext]_allVars PROVE ModeInv'
  OBVIOUS
<1> USE DEF ModeInv, Scanners, Statuses
<1>1. CASE Tuner BY <1>1 DEF Tuner, scanVars
<1>2. CASE Scanner BY <1>2, ScannerKeepsMode
<1>3. CASE STB_Tune_BlindScan BY <1>3 DEF STB_Tune_BlindScan, NoThread
<1>4. CASE STB_Tune_BlindExit BY <1>4 DEF STB_Tune_BlindExit
<1>5. CASE Join BY <1>5 DEF Join, NoThread
<1>6. CASE UNCHANGED allVars BY <1>6 DEF allVars, scanVars
<1> QED
  BY <1>1, <1>2, <1>3, <1>4, <1>5, <1>6 DEF ScanNext

(* The frontend is in scan mode only while there is a thread that will     *)
(* take it out, or because the driver would not leave the mode when it was *)
(* told to, whatever else it reports and refuses, and whatever any number  *)
(* of clients do to the path meanwhile (fend_blindscan_thread).            *)
THEOREM ScanModeHasThreadTheorem == ScanSpec => []ScanModeHasThread
<1>1. ScanInit => ModeInv
  BY DEF ScanInit, ModeInv, Scanners, Statuses, NoThread
<1>2. ModeInv => ScanModeHasThread
  BY DEF ModeInv, ScanModeHasThread
<1> QED
  BY <1>1, <1>2, ScanStepKeepsMode, PTL DEF ScanSpec

------------------------------------------------------------------------------
Full == Len(channels) = MaxChannels

(* A transponder that the callback is still to be told of is listed as     *)
(* well, or did not fit.                                                   *)
ListInv ==
    /\ scanner \in Scanners
    /\ channels \in Seq(Freqs)
    /\ ResultIsListed
    /\ scanner.status = "User" /\ scanner.event.kind = "result" =>
          scanner.event.freq \in ToSet(channels) \/ Full

(* The list only grows, a full one stays as it is, and what has come in is *)
(* in it then, or it is full.                                              *)
LEMMA ListedGrows ==
    ASSUME NEW tp \in Freqs, channels \in Seq(Freqs)
    PROVE  /\ Listed(tp) \in Seq(Freqs)
           /\ ToSet(channels) \subseteq ToSet(Listed(tp))
           /\ Full => Listed(tp) = channels
           /\ tp \in ToSet(Listed(tp)) \/ Len(Listed(tp)) = MaxChannels
<1>1. CASE Contains(channels, tp) \/ Full
  BY <1>1 DEF Listed, Contains, ToSet, Full
<1>2. CASE ~Contains(channels, tp) /\ ~Full
  <2>1. Listed(tp) = Append(channels, tp)
    BY <1>2 DEF Listed, Full
  <2>2. /\ Append(channels, tp) \in Seq(Freqs)
        /\ DOMAIN Append(channels, tp) = 1 .. Len(channels) + 1
        /\ \A i \in 1 .. Len(channels) : Append(channels, tp)[i] = channels[i]
        /\ Append(channels, tp)[Len(channels) + 1] = tp
    OBVIOUS
  <2>3. DOMAIN channels = 1 .. Len(channels) /\ Len(channels) \in Nat
    OBVIOUS
  <2>4. ToSet(channels) \subseteq ToSet(Append(channels, tp))
    BY <2>2, <2>3 DEF ToSet
  <2>5. tp \in ToSet(Append(channels, tp))
    BY <2>2, <2>3 DEF ToSet
  <2> QED
    BY <1>2, <2>1, <2>2, <2>4, <2>5
<1> QED
  BY <1>1, <1>2

LEMMA ScannerKeepsList == ListInv /\ Scanner => ListInv'
<1> SUFFICES ASSUME ListInv, Scanner PROVE ListInv'
  OBVIOUS
<1> USE DEF ListInv, ResultIsListed, Full, Scanners, Statuses, Acts, NextStatus
<1>1. CASE Turn BY <1>1 DEF Turn
<1>2. CASE ScanBegins BY <1>2 DEF ScanBegins
<1>3. CASE ScanStart BY <1>3 DEF ScanStart
<1>4. CASE ScanWait
  <2>1. CASE NextStatus("Wait") /\ UNCHANGED channels
    BY <1>4, <2>1 DEF ScanWait
  <2>2. CASE \E event \in Events :
                /\ scanner' = [at |-> "top", status |-> "User", event |-> event]
                /\ channels' = IF event.kind = "result" THEN Listed(event.freq)
                               ELSE channels
    <3>1. PICK event \in Events :
                /\ scanner' = [at |-> "top", status |-> "User", event |-> event]
                /\ channels' = IF event.kind = "result" THEN Listed(event.freq)
                               ELSE channels
      BY <2>2
    <3>2. told' = told /\ scanner' \in Scanners
      BY <1>4, <3>1 DEF ScanWait
    <3>3. CASE event.kind = "result"
      <4>1. event.freq \in Freqs
        BY <3>3 DEF Events
      <4> QED
        BY <3>1, <3>2, <3>3, <4>1, ListedGrows
    <3>4. CASE event.kind # "result"
      BY <3>1, <3>2, <3>4
    <3> QED
      BY <3>3, <3>4
  <2> QED
    BY <1>4, <2>1, <2>2 DEF ScanWait
<1>5. CASE ScanUser BY <1>5 DEF ScanUser
<1>6. CASE ScanWaitExit BY <1>6 DEF ScanWaitExit
<1>7. CASE ScanCancel BY <1>7 DEF ScanCancel
<1> QED
  BY <1>1, <1>2, <1>3, <1>4, <1>5, <1>6, <1>7 DEF Scanner

LEMMA ScanStepKeepsList == ListInv /\ [ScanNext]_allVars => ListInv'
<1> SUFFICES ASSUME ListInv, [ScanNext]_allVars PROVE ListInv'
  OBVIOUS
<1> USE DEF ListInv, ResultIsListed, Full, Scanners, Statuses
<1>1. CASE Tuner BY <1>1 DEF Tuner, scanVars
<1>2. CASE Scanner BY <1>2, ScannerKeepsList
<1>3. CASE STB_Tune_BlindScan BY <1>3 DEF STB_Tune_BlindScan, NoThread
<1>4. CASE STB_Tune_BlindExit BY <1>4 DEF STB_Tune_BlindExit
<1>5. CASE Join BY <1>5 DEF Join, NoThread
<1>6. CASE UNCHANGED allVars BY <1>6 DEF allVars, scanVars
<1> QED
  BY <1>1, <1>2, <1>3, <1>4, <1>5, <1>6 DEF ScanNext

(* Every transponder that the scan found is in the list when the callback  *)
(* is told of it, for a list of any length that is not full                *)
(* (fend_blindscan_thread and STB_Tune_BlindGetTPInfo).  Nothing is said   *)
(* of the starts with a lock, which the callback is told of as well.       *)
THEOREM ResultIsListedTheorem == ScanSpec => []ResultIsListed
<1>1. ScanInit => ListInv
  BY DEF ScanInit, ListInv, ResultIsListed, Scanners, Statuses, NoThread
<1>2. ListInv => ResultIsListed
  BY DEF ListInv
<1> QED
  BY <1>1, <1>2, ScanStepKeepsList, PTL DEF ScanSpec
==============================================================================
