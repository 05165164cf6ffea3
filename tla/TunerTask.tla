------------------------------ MODULE TunerTask ------------------------------
(***************************************************************************)
(* hw/src/stbhwtun.c: one path of a DVB or ATSC tuner.  TunerTask tunes    *)
(* when tune_sem is signalled, watches the signal while it is tuned, and   *)
(* closes the frontend when nobody has used it for a while.  The calls of  *)
(* the API run in threads of their own.  They take tstatus->lock one after *)
(* the other; TunerTask shares tstatus->mutex with them, for one read or   *)
(* write at a time, and those are the steps here.                          *)
(*                                                                         *)
(* A change of any tuning parameter is a change of the frequency.  The     *)
(* wait for a tuner in TUNER_EXITED is a guard: tunertask_sem only makes   *)
(* it look again sooner.                                                   *)
(***************************************************************************)
EXTENDS Integers

CONSTANTS Clients, Freqs, NoFreq, NoClient,
          Ops,          \* the calls that the clients make
          IsTv,         \* isTvPlatform
          WaitLock,     \* polls that fit in WAIT_LOCK_TIMEOUT
          Useless,      \* TUNER_USELESS_TIMEOUT
          LostTimes,    \* TUNER_LOST_LOCK_TIMES
          MaxCalls,     \* bound: calls the clients make
          Opened,       \* the path was opened, given a type and is in use
          Patient       \* no call while a start has yet to reach TunerTask

VARIABLES
    state, stop, freq, lock_flags, signal_type, frontend_fd, frontend_usage,
    search_mode,        \* the fields of S_TUNER_STATUS; TRUE for a type in
                        \* use, an open descriptor and FEND_FL_LOCK
    lock, tune_sem,     \* tstatus->lock, tstatus->tune_sem
    task,               \* where TunerTask is, and its local variables
    hw_freq, hw_locked, \* the frontend
    client, calls,      \* where each client is; calls made so far
    last, answer,       \* the last call to return; the event since the last
                        \* start
    late                \* a start was under way that the task had not
                        \* answered when a call last looked whether the
                        \* tuner rests, or was made while it was away

sharedVars == <<state, stop, freq, lock_flags, signal_type, frontend_fd,
                frontend_usage, search_mode, tune_sem>>
hwVars == <<hw_freq, hw_locked>>
vars == <<state, stop, freq, lock_flags, signal_type, frontend_fd,
          frontend_usage, search_mode, lock, tune_sem, task, hw_freq,
          hw_locked, client, calls, last, late, answer>>

States == {"IDLE", "TUNING", "LOCKED", "RELOCKING", "EXITED"}
AtRest == {"IDLE", "EXITED"}

AllOps == {"start", "stop", "type", "notype", "open", "use", "unuse", "allstart",
           "allstop", "search", "nosearch"}

(* Nobody is no client, and the clients make the calls listed here.        *)
ASSUME NobodyAssumption == NoClient \notin Clients
ASSUME OpsAssumption == Ops \subseteq AllOps

Out == [at |-> "out", op |-> "stop", changed |-> FALSE, state |-> "IDLE"]

(* STB_TuneInitialise for one path, or what it is after STB_TuneOpen,      *)
(* STB_TuneSetSignalType and STB_TuneUpdateFeUsage(path, TRUE).            *)
Init ==
    /\ state = "IDLE"
    /\ stop = FALSE
    /\ freq = NoFreq
    /\ lock_flags = FALSE
    /\ signal_type = Opened
    /\ frontend_fd = Opened
    /\ frontend_usage = IF Opened THEN 1 ELSE 0
    /\ search_mode = FALSE
    /\ lock = NoClient
    /\ tune_sem = 0
    /\ task = [at |-> "top", polls |-> 0, idle |-> 0, lost |-> 0,
               tuner_locked |-> FALSE]
    /\ hw_freq = NoFreq
    /\ hw_locked = FALSE
    /\ client = [c \in Clients |-> Out]
    /\ calls = 0
    /\ last = "none"
    /\ late = FALSE
    /\ answer = "none"

------------------------------------------------------------------------------
(* TunerTask.                                                              *)

TaskGoes(to) == task' = [task EXCEPT !.at = to]

(* The top of the endless loop: what to do depends on the state.           *)
Look ==
    /\ task.at = "top"
    /\ task' = IF state = "IDLE" THEN [task EXCEPT !.at = "waiting"]
               ELSE [task EXCEPT !.idle = 0,
                                 !.at = IF state \in {"LOCKED", "RELOCKING"}
                                        THEN "monitor" ELSE "top",
                                 !.tuner_locked = IF state \in {"LOCKED", "RELOCKING"}
                                                  THEN state = "LOCKED" ELSE @]
    /\ UNCHANGED <<sharedVars, lock, hwVars, client, calls, last, late, answer>>

(* tune_sem was signalled within the second.                               *)
Wake ==
    /\ task.at = "waiting"
    /\ tune_sem > 0
    /\ tune_sem' = tune_sem - 1
    /\ task' = [task EXCEPT !.idle = 0, !.at = "woken"]
    /\ UNCHANGED <<state, stop, freq, lock_flags, signal_type, frontend_fd,
                   frontend_usage, search_mode, lock, hwVars, client, calls,
                   last, late, answer>>

(* It was not: after ten times the frontend of a path that nobody uses is  *)
(* to be closed.                                                           *)
Idle ==
    /\ task.at = "waiting"
    /\ tune_sem = 0
    /\ LET idle == IF task.idle < Useless THEN task.idle + 1 ELSE Useless
       IN  task' = [task EXCEPT !.idle = idle, !.at =
                       IF idle >= Useless /\ frontend_usage = 0
                       THEN "closing" ELSE "top"]
    /\ UNCHANGED <<sharedVars, lock, hwVars, client, calls, last, late, answer>>

(* CloseTuner                                                              *)
CloseTuner ==
    /\ frontend_fd' = FALSE
    /\ IF frontend_fd
       THEN /\ signal_type' = FALSE /\ freq' = NoFreq
            /\ hw_freq' = NoFreq /\ hw_locked' = FALSE
       ELSE UNCHANGED <<signal_type, freq, hwVars>>

CloseUnused ==
    /\ task.at = "closing"
    /\ lock = NoClient
    /\ CloseTuner
    /\ task' = [task EXCEPT !.at = "top", !.idle = 0]
    /\ UNCHANGED <<state, stop, lock_flags, frontend_usage, search_mode, lock,
                   tune_sem, client, calls, last, late, answer>>

(* A start found the tuner locked: only the state has to follow.           *)
TakeLocked ==
    /\ task.at = "woken" /\ lock_flags
    /\ state' = "LOCKED"
    /\ TaskGoes("clearing")
    /\ UNCHANGED <<stop, freq, lock_flags, signal_type, frontend_fd,
                   frontend_usage, search_mode, lock, tune_sem, hwVars, client,
                   calls, last, late, answer>>

ClearFlag ==
    /\ task.at = "clearing"
    /\ lock_flags' = FALSE
    /\ task' = [task EXCEPT !.at = "monitor", !.tuner_locked = TRUE]
    /\ UNCHANGED <<state, stop, freq, signal_type, frontend_fd, frontend_usage,
                   search_mode, lock, tune_sem, hwVars, client, calls, last, late,
                   answer>>

(* wait_lock_timeout is computed here, but the loop never looks at it.     *)
BeginTuning ==
    /\ task.at = "woken" /\ ~lock_flags
    /\ state' = "TUNING"
    /\ task' = [task EXCEPT !.at = IF stop THEN "stopped" ELSE "tuning",
                            !.polls = 0]
    /\ UNCHANGED <<stop, freq, lock_flags, signal_type, frontend_fd,
                   frontend_usage, search_mode, lock, tune_sem, hwVars, client,
                   calls, last, late, answer>>

(* An event of the frontend, or none within 50 ms.                         *)
Verdicts == {"none"} \cup IF ~frontend_fd THEN {}
                          ELSE IF hw_locked THEN {"locked"} ELSE {"timedout"}

(* start_time is taken anew and anew; only a mutant uses it.               *)
PollAnew ==
    /\ task.at = "tuning"
    /\ \E v \in Verdicts :
          task' = [task EXCEPT !.polls = (@ + 1) % WaitLock, !.at =
              IF v = "timedout" THEN "unlocked"
              ELSE IF stop THEN "stopped"
              ELSE IF v = "locked" THEN "locked" ELSE "tuning"]
    /\ UNCHANGED <<sharedVars, lock, hwVars, client, calls, last, late, answer>>

(* One turn of the loop that waits for the lock; a lock of the wrong       *)
(* delivery system does not count.                                         *)
Poll ==
    /\ task.at = "tuning"
    /\ \E v \in Verdicts :
          task' = [task EXCEPT !.polls = @ + 1, !.at =
              IF v = "timedout" THEN "unlocked"
              ELSE IF stop THEN "stopped"
              ELSE IF v = "locked" THEN "locked"
              ELSE IF task.polls + 1 >= WaitLock THEN "outoftime"
              ELSE "tuning"]
    /\ UNCHANGED <<sharedVars, lock, hwVars, client, calls, last, late, answer>>

EndTuning ==
    /\ \/ task.at = "stopped" /\ state' = "IDLE" /\ UNCHANGED answer
       \/ task.at = "locked" /\ state' = "LOCKED" /\ answer' = "LOCKED"
       \/ /\ task.at \in {"unlocked", "outoftime"}
          /\ state' = "RELOCKING" /\ answer' = "NOTLOCKED"
    /\ TaskGoes("top")
    /\ UNCHANGED <<stop, freq, lock_flags, signal_type, frontend_fd,
                   frontend_usage, search_mode, lock, tune_sem, hwVars, client,
                   calls, last, late>>

(* The request is taken back but the state stays; only a mutant uses it.   *)
MonitorStopKept ==
    /\ stop' = FALSE
    /\ TaskGoes("top")
    /\ UNCHANGED <<state, answer>>

(* One turn of the loop that watches the signal.  A stop is answered by    *)
(* taking the request back.                                                *)
MonitorStop ==
    /\ stop' = FALSE
    /\ state' = "IDLE"
    /\ TaskGoes("top")
    /\ UNCHANGED answer

(* The signal is what the state says, or a loss not yet believed.          *)
MonitorSame(now) ==
    /\ \/ now = (state = "LOCKED")
       \/ search_mode /\ ~now /\ task.lost < LostTimes
    /\ task' = [task EXCEPT !.tuner_locked = now, !.lost =
                   IF now THEN 0 ELSE IF state = "LOCKED" THEN @ + 1 ELSE @]
    /\ UNCHANGED <<state, stop, answer>>

MonitorChange(now) ==
    /\ now # (state = "LOCKED")
    /\ now \/ ~search_mode \/ task.lost = LostTimes
    /\ state' = IF now THEN "LOCKED" ELSE "RELOCKING"
    /\ answer' = IF now THEN "LOCKED" ELSE "NOTLOCKED"
    /\ task' = [task EXCEPT !.tuner_locked = now, !.lost = IF now \/ search_mode THEN 0 ELSE @]
    /\ UNCHANGED stop

(* An event of another frequency, which a satellite tuner tests (the call  *)
(* IsTuningParameterMatched): the loop is left, to be entered again, and   *)
(* nobody has looked at stop.                                              *)
MonitorOther ==
    /\ task.at = "monitor" /\ frontend_fd
    /\ TaskGoes("top")
    /\ UNCHANGED <<sharedVars, lock, hwVars, client, calls, last, late, answer>>

Monitor ==
    /\ task.at = "monitor"
    /\ IF state \notin {"LOCKED", "RELOCKING"}
       THEN TaskGoes("top") /\ UNCHANGED <<state, stop, answer>>
       ELSE IF stop THEN MonitorStop
       ELSE \E v \in Verdicts :
               LET now == IF v = "none" THEN task.tuner_locked ELSE v = "locked"
               IN  MonitorSame(now) \/ MonitorChange(now)
    /\ UNCHANGED <<freq, lock_flags, signal_type, frontend_fd, frontend_usage,
                   search_mode, lock, tune_sem, hwVars, client, calls, last, late>>

Task == \/ Look \/ Wake \/ Idle \/ CloseUnused \/ TakeLocked \/ ClearFlag
        \/ BeginTuning \/ Poll \/ EndTuning \/ Monitor \/ MonitorOther

------------------------------------------------------------------------------
(* The frontend.                                                           *)

FrontendLocks ==
    /\ hw_freq # NoFreq /\ ~hw_locked
    /\ hw_locked' = TRUE
    /\ UNCHANGED <<sharedVars, lock, task, hw_freq, client, calls, last, late, answer>>

FrontendLoses ==
    /\ hw_locked
    /\ hw_locked' = FALSE
    /\ UNCHANGED <<sharedVars, lock, task, hw_freq, client, calls, last, late, answer>>

------------------------------------------------------------------------------
(* The calls of the API.  Each takes tstatus->lock, may have to stop the   *)
(* tuner first, does its work and gives the lock back.                     *)

Goto(c, to) == client' = [client EXCEPT ![c].at = to]

Call(c, op) ==
    /\ client[c].at = "out"
    /\ calls < MaxCalls
    /\ Patient => tune_sem = 0 /\ task.at \notin {"woken", "clearing"}
    /\ calls' = calls + 1
    /\ client' = [client EXCEPT ![c] = [Out EXCEPT !.op = op, !.at =
                      IF op \in {"start", "open"} THEN "entering" ELSE "locking"]]
    /\ answer' = IF op = "start" THEN "none" ELSE answer
    /\ UNCHANGED <<sharedVars, lock, task, hwVars, last, late>>

(* STB_TuneStartTuner and STB_TuneOpen wait for a tuner that was taken     *)
(* away; the start then writes its parameters and takes note of the state, *)
(* all without tstatus->lock.                                              *)
Enter(c) ==
    LET op == client[c].op
    IN  /\ client[c].at = "entering"
        /\ ~(IsTv /\ state = "EXITED" /\ ~search_mode)
        /\ \/ op = "open" /\ Goto(c, "locking") /\ UNCHANGED freq
           \/ /\ op = "start" /\ signal_type
              /\ \E f \in Freqs :
                    /\ freq' = f
                    /\ client' = [client EXCEPT ![c].at = "locking",
                           ![c].changed = freq # f, ![c].state = state]
           \/ /\ op = "start" /\ ~signal_type
              /\ client' = [client EXCEPT ![c].op = "refused", ![c].at =
                     IF state \in AtRest THEN "refusing" ELSE "locking"]
              /\ UNCHANGED freq
        /\ UNCHANGED <<state, stop, lock_flags, signal_type, frontend_fd,
                       frontend_usage, search_mode, tune_sem, lock, task, hwVars,
                       calls, last, late, answer>>

(* Whether a call has to stop the tuner before it does its work.           *)
MustStop(c) ==
    LET moving == state \notin AtRest
    IN  CASE client[c].op \in {"stop", "refused"} -> TRUE
          [] client[c].op = "start"   -> client[c].state \notin AtRest
          [] client[c].op = "type"    -> frontend_fd /\ moving
          [] client[c].op = "notype"  -> signal_type /\ frontend_fd /\ moving
          [] client[c].op = "allstop" -> frontend_fd /\ moving
          [] OTHER -> FALSE

(* GetTunerLockStatus and the parameters: the transport is the one wanted. *)
AlreadyTuned(c) == client[c].op = "start" /\ ~client[c].changed /\ hw_locked

Lock(c) ==
    /\ client[c].at = "locking"
    /\ lock = NoClient
    /\ lock' = c
    /\ client' = [client EXCEPT ![c].changed = MustStop(c), ![c].at =
           IF AlreadyTuned(c) THEN "already"
           ELSE IF MustStop(c) THEN "halting" ELSE "working"]
    /\ UNCHANGED <<sharedVars, task, hwVars, calls, last, late, answer>>

(* A start that the task has been told of and has not answered.            *)
OnItsWay ==
    \/ tune_sem > 0
    \/ task.at \in {"woken", "clearing", "tuning", "stopped", "locked", "unlocked",
                     "outoftime"}

(* A call that is to stop the tuner has found it at rest.                  *)
FindsRest(c) == late' = IF client[c].op = "stop" THEN OnItsWay ELSE late

(* TuneStopTuner: nothing to do for a tuner at rest.                       *)
Halt(c) ==
    /\ client[c].at = "halting"
    /\ IF state \in AtRest
       THEN Goto(c, "working") /\ FindsRest(c) /\ UNCHANGED stop
       ELSE Goto(c, "stopping") /\ stop' = TRUE /\ UNCHANGED late
    /\ UNCHANGED <<state, freq, lock_flags, signal_type, frontend_fd,
                   frontend_usage, search_mode, tune_sem, lock, task, hwVars,
                   calls, last, answer>>

(* The wait for the task is left out; only a mutant uses it.               *)
SeeRestAtOnce(c) ==
    /\ client[c].at = "stopping"
    /\ Goto(c, "stopped")
    /\ FindsRest(c)
    /\ UNCHANGED <<sharedVars, lock, task, hwVars, calls, last, answer>>

(* Its loop, which looks at the state every 30 ms.                         *)
SeeRest(c) ==
    /\ client[c].at = "stopping"
    /\ state \in AtRest
    /\ Goto(c, "stopped")
    /\ FindsRest(c)
    /\ UNCHANGED <<sharedVars, lock, task, hwVars, calls, last, answer>>

(* The reset of the flag is left to the task; only a mutant uses it.       *)
ClearStopNot(c) ==
    /\ client[c].at = "stopped"
    /\ Goto(c, "working")
    /\ UNCHANGED <<sharedVars, lock, task, hwVars, calls, last, late, answer>>

ClearStop(c) ==
    /\ client[c].at = "stopped"
    /\ stop' = FALSE
    /\ Goto(c, "working")
    /\ UNCHANGED <<state, freq, lock_flags, signal_type, frontend_fd,
                   frontend_usage, search_mode, tune_sem, lock, task, hwVars,
                   calls, last, late, answer>>

Returns(c) ==
    /\ client' = [client EXCEPT ![c] = Out]
    /\ lock' = IF lock = c THEN NoClient ELSE lock
    /\ last' = client[c].op
    /\ UNCHANGED <<task, calls>>

Does(c, op) == client[c].at = "working" /\ client[c].op = op

(* tune_sem is signalled, which a tuner that was taken away cannot answer. *)
Signal ==
    /\ tune_sem' = tune_sem + 1
    /\ late' = (late \/ state = "EXITED")

(* StartTune, and the semaphore if the frontend took the parameters.       *)
StartWork(c) ==
    /\ Does(c, "start")
    /\ \/ /\ frontend_fd
          /\ hw_freq' = freq /\ hw_locked' = FALSE
          /\ Signal
          /\ UNCHANGED answer
       \/ answer' = "NOTLOCKED" /\ UNCHANGED <<hwVars, tune_sem, late>>
    /\ Returns(c)
    /\ UNCHANGED <<state, stop, freq, lock_flags, signal_type, frontend_fd,
                   frontend_usage, search_mode>>

AlreadyWork(c) ==
    /\ client[c].at = "already"
    /\ answer' = "LOCKED"
    /\ IF client[c].state = "IDLE"
       THEN lock_flags' = TRUE /\ Signal
       ELSE UNCHANGED <<lock_flags, tune_sem, late>>
    /\ Returns(c)
    /\ UNCHANGED <<state, stop, freq, signal_type, frontend_fd, frontend_usage,
                   search_mode, hwVars>>

(* A type that the tuner does not have in use is refused.                  *)
RefuseWork(c) ==
    /\ Does(c, "refused") \/ client[c].at = "refusing"
    /\ answer' = "NOTLOCKED"
    /\ Returns(c)
    /\ UNCHANGED <<sharedVars, hwVars, late>>

StopWork(c) ==
    /\ Does(c, "stop")
    /\ Returns(c)
    /\ UNCHANGED <<sharedVars, hwVars, late, answer>>

(* STB_TuneSetSignalType, for another type than the one in use (for the    *)
(* same it does nothing): SetSysType needs the frontend and may fail, and  *)
(* the old type is gone then as well.                                      *)
TypeWork(c) ==
    /\ Does(c, "type")
    /\ signal_type' \in IF frontend_fd THEN BOOLEAN ELSE {signal_type}
    /\ Returns(c)
    /\ UNCHANGED <<state, stop, freq, lock_flags, frontend_fd, frontend_usage,
                   search_mode, tune_sem, hwVars, late, answer>>

(* A search that ends on a television gives up the frontend as well.       *)
NoTypeWork(c) ==
    /\ Does(c, "notype")
    /\ IF client[c].changed /\ IsTv /\ search_mode
       THEN CloseTuner
       ELSE /\ signal_type' = (signal_type /\ ~frontend_fd)
            /\ UNCHANGED <<freq, frontend_fd, hwVars>>
    /\ Returns(c)
    /\ UNCHANGED <<state, stop, lock_flags, frontend_usage, search_mode,
                   tune_sem, late, answer>>

(* OpenTuner                                                               *)
OpenWork(c) ==
    /\ Does(c, "open")
    /\ frontend_fd' \in {TRUE, frontend_fd}
    /\ Returns(c)
    /\ UNCHANGED <<state, stop, freq, lock_flags, signal_type, frontend_usage,
                   search_mode, tune_sem, hwVars, late, answer>>

(* STB_TuneUpdateFeUsage                                                   *)
UsageWork(c) ==
    /\ Does(c, "use") \/ Does(c, "unuse")
    /\ frontend_usage' = (frontend_usage + IF client[c].op = "use" THEN 1 ELSE 255) % 256
    /\ Returns(c)
    /\ UNCHANGED <<state, stop, freq, lock_flags, signal_type, frontend_fd,
                   search_mode, tune_sem, hwVars, late, answer>>

(* STB_TuneAllStop and STB_TuneAllStart for this path.                     *)
AllStopWork(c) ==
    /\ Does(c, "allstop")
    /\ CloseTuner
    /\ state' = IF IsTv THEN "EXITED" ELSE state
    /\ search_mode' = (search_mode /\ ~IsTv)
    /\ late' = OnItsWay
    /\ Returns(c)
    /\ UNCHANGED <<stop, lock_flags, frontend_usage, tune_sem, answer>>

AllStartWork(c) ==
    LET wakes == IsTv /\ state = "EXITED"
    IN  /\ Does(c, "allstart")
        /\ state' = IF wakes THEN "IDLE" ELSE state
        /\ search_mode' = (search_mode /\ ~wakes)
        /\ Returns(c)
        /\ UNCHANGED <<stop, freq, lock_flags, signal_type, frontend_fd,
                       frontend_usage, tune_sem, hwVars, late, answer>>

(* STB_TuneSetSearchMode                                                   *)
SearchWork(c) ==
    LET mode == client[c].op = "search"
    IN  /\ Does(c, "search") \/ Does(c, "nosearch")
        /\ state' = IF IsTv /\ mode /\ ~search_mode /\ state = "EXITED"
                    THEN "IDLE" ELSE state
        /\ search_mode' = IF IsTv THEN mode ELSE search_mode
        /\ Returns(c)
        /\ UNCHANGED <<stop, freq, lock_flags, signal_type, frontend_fd,
                       frontend_usage, tune_sem, hwVars, late, answer>>

Work(c) == \/ StartWork(c) \/ AlreadyWork(c) \/ RefuseWork(c) \/ StopWork(c)
           \/ TypeWork(c) \/ NoTypeWork(c) \/ OpenWork(c) \/ UsageWork(c)
           \/ AllStopWork(c) \/ AllStartWork(c) \/ SearchWork(c)

Client(c) == Enter(c) \/ Lock(c) \/ Halt(c) \/ SeeRest(c) \/ ClearStop(c) \/ Work(c)

Next == \/ Task \/ FrontendLocks \/ FrontendLoses
        \/ \E c \in Clients : Client(c) \/ \E op \in Ops : Call(c, op)

Spec == Init /\ [][Next]_vars

(* The task runs, and so does a client inside a call.  That the loop of    *)
(* TuneStopTuner looks again is all it is granted: it may look at the      *)
(* wrong moments.  The frontend does not have an event of another          *)
(* frequency at each poll for ever.                                        *)
FairSpec == /\ Spec /\ WF_vars(Task) /\ SF_vars(Monitor)
            /\ \A c \in Clients : WF_vars(Client(c))

------------------------------------------------------------------------------
TypeOK ==
    /\ state \in States
    /\ {stop, lock_flags, signal_type, frontend_fd, search_mode, hw_locked} \subseteq BOOLEAN
    /\ {freq, hw_freq} \subseteq Freqs \cup {NoFreq}
    /\ frontend_usage \in 0 .. 255
    /\ lock \in Clients \cup {NoClient}
    /\ tune_sem \in 0 .. MaxCalls
    /\ task \in [at : {"top", "waiting", "woken", "clearing", "closing", "tuning",
                       "stopped", "locked", "unlocked", "outoftime", "monitor"},
                 polls : 0 .. WaitLock, idle : 0 .. Useless,
                 lost : 0 .. LostTimes,
                 tuner_locked : BOOLEAN]
    /\ client \in [Clients -> [at : {"out", "entering", "refusing", "locking",
                        "already", "halting", "stopping", "stopped", "working"},
                 op : AllOps \cup {"refused"}, changed : BOOLEAN, state : States]]
    /\ calls \in 0 .. MaxCalls
    /\ last \in AllOps \cup {"none", "refused"}
    /\ answer \in {"none", "LOCKED", "NOTLOCKED"}
    /\ late \in BOOLEAN

(* A request to stop never outlives the call that made it: the next        *)
(* attempt to tune would give up at once.                                  *)
StopHasOwner ==
    stop => /\ lock \in Clients
            /\ client[lock].at \in {"stopping", "stopped"}

(* STB_TuneStopTuner "Stops any locking attempt, or unlocks if locked"     *)
(* (stbhwtun.c:873): when the last call was a stop, the tuner rests, but   *)
(* for a start that the stop came too early for.                           *)
StoppedStays == last = "stop" /\ ~late => state \in AtRest

(* A tuner that was taken away is given back by STB_TuneAllStart or a      *)
(* search, and TunerTask does not take it by itself, but for a start that  *)
(* was under way.                                                          *)
ExitedStays == state = "EXITED" /\ state' # "EXITED" => task' = task \/ late

(* A tuner at rest is left there: the task brings no tuner back that was   *)
(* stopped or taken away, whatever calls were and are made, unless a start *)
(* is on its way whose signal the stop did not wait for.                   *)
RestIsRespected == [][StoppedStays' /\ ExitedStays]_vars

(* Nobody tunes for ever.                                                  *)
TuningEnds == state = "TUNING" ~> state # "TUNING"

(* A call that stops the tuner returns, and so lets go of tstatus->lock.   *)
StopReturns == \A c \in Clients : client[c].at = "stopping" ~> client[c].at = "out"
=============================================================================
