------------------------------- MODULE TuneFsm -------------------------------
(***************************************************************************)
(* hw/src/stbhwtun_ex.c over hw/src/fsm_base.c: the tuner of an ISDB       *)
(* system.  Each path has a bounded queue, a task that reads it and a      *)
(* state machine; the clients of STB_TuneStartTuner and STB_TuneStopTuner  *)
(* and the task itself write to the queue.  There is ONE timer, ONE        *)
(* timeout message and ONE start time for all paths together.              *)
(*                                                                         *)
(* A task takes a message and moves its state machine in one step, except  *)
(* that it may be held up twice: while it polls the frontend (50 ms), and  *)
(* when it writes to its own queue.                                        *)
(***************************************************************************)
EXTENDS Integers, Sequences, SequencesExt

CONSTANTS Paths, Clients, Freqs,
          NoFreq, NoClient, NoPath,
          QueueMax,       \* TUNE_FSM_TASK_QUEUE_MAX_ENTRIES
          MaxPolls,       \* intervals of 100 ms that fit in WAIT_LOCK_TIMEOUT
          MaxCallbacks,   \* bound: expiries whose callback has yet to run
          MaxCalls,       \* bound: calls the clients make
          StopFirst       \* every client stops a path before it starts it

VARIABLES
    queue,              \* sg_tune_task_msg_queue_ptr_array
    fsm,                \* current_state_ptr of each path's FSM_INSTANCE
    task,               \* what each tune_fsm_task is doing
    state, freq,        \* tstatus->state, tstatus->freq
    params_changed,     \* tstatus->tuning_params_changed
    lock,               \* who has tstatus->lock
    timer, timeout_msg, callbacks, polls,
                        \* sg_tune_fsm_timer, sg_timeout_msg, its callbacks in
                        \* flight, time since sg_start_time in intervals
    hw_freq, hw_locked, \* the frontend
    client, calls,      \* where each client is; calls made so far
    answer, seen_lock   \* the event sent since the last start; whether the
                        \* signal locked since the last StartTune

taskVars   == <<queue, fsm, task, state>>
timerVars  == <<timer, timeout_msg, callbacks, polls>>
hwVars     == <<hw_freq, hw_locked, seen_lock>>
clientVars == <<freq, params_changed, lock, client, calls>>
fsmVars    == <<queue, fsm, task, state, freq, params_changed, lock,
                timer, timeout_msg, callbacks, polls, hw_freq, hw_locked,
                client, calls, answer, seen_lock>>

CntrlMsgs == {"START", "STOP", "CHANGE"}
InnerMsgs == {"LOCKED", "UNLOCKED", "STOPPED"}
TimerMsgs == {"CHKLOCK", "TRACKING_CHK", "RELOCKING_CHK"}
FsmMsgs == CntrlMsgs \cup InnerMsgs \cup TimerMsgs
States == {"IDLE", "TUNING", "TRACKING", "RELOCKING", "STOPPING"}

(* The rows of the transition tables that change the state: state,         *)
(* message, target.  At most one row of a state answers a message: the     *)
(* order of a table plays a part only for UNLOCKED in TRACKING, whose      *)
(* number is also the one of CHANGE, and there the row to RELOCKING comes  *)
(* first.                                                                  *)
IdleRows == { <<"IDLE", "START", "TUNING">>, <<"IDLE", "CHANGE", "TRACKING">> }

TuningRows ==
    { <<"TUNING", "LOCKED", "TRACKING">>, <<"TUNING", "UNLOCKED", "RELOCKING">>,
      <<"TUNING", "STOP", "STOPPING">> }

TrackingRows ==
    { <<"TRACKING", "STOP", "STOPPING">>, <<"TRACKING", "START", "TUNING">>,
      <<"TRACKING", "UNLOCKED", "RELOCKING">> }

(* A stop is forgotten while the signal is being found again; only a       *)
(* mutant uses it.                                                         *)
RelockingRowsNoStop ==
    { <<"RELOCKING", "START", "TUNING">>, <<"RELOCKING", "LOCKED", "TRACKING">> }

RelockingRows ==
    { <<"RELOCKING", "STOP", "STOPPING">>, <<"RELOCKING", "START", "TUNING">>,
      <<"RELOCKING", "LOCKED", "TRACKING">> }

StoppingRows == { <<"STOPPING", "STOPPED", "IDLE">> }

Transitions ==
    IdleRows \cup TuningRows \cup TrackingRows \cup RelockingRows \cup StoppingRows

(* The rows that stay where they are and look at the frontend.             *)
CheckRows ==
    { <<"TUNING",    "CHKLOCK">>,
      <<"TRACKING",  "TRACKING_CHK">>,
      <<"RELOCKING", "RELOCKING_CHK">> }

(* TRACKING also compares msg->event with EN_TUNE_CNTRL_EVENT_CHANGE_TUNE_ *)
(* STATE whatever the type: RELOCKING_CHK has the same number.             *)
RecheckRows == { <<"TRACKING", "CHANGE">>, <<"TRACKING", "RELOCKING_CHK">> }

NoTimer == [exists |-> FALSE, armed |-> FALSE]

(* tstatus->state as the entry functions set it; STOPPING has none.        *)
Shown(s) == CASE s = "IDLE"      -> "IDLE"
              [] s = "TUNING"    -> "TUNING"
              [] s = "TRACKING"  -> "LOCKED"
              [] s = "RELOCKING" -> "RELOCKING"

Out == [at |-> "out", path |-> NoPath, changed |-> FALSE, msg |-> "STOP",
        stopped |-> TRUE]

(* stb_tune_fsm_init, stb_tune_fsm_create for every path.                  *)
FsmInit ==
    /\ queue = [p \in Paths |-> <<>>]
    /\ fsm = [p \in Paths |-> "IDLE"]
    /\ task = [p \in Paths |-> "reading"]
    /\ state = [p \in Paths |-> "IDLE"]
    /\ freq = [p \in Paths |-> NoFreq]
    /\ params_changed \in [Paths -> BOOLEAN]
    /\ lock = [p \in Paths |-> NoClient]
    /\ timer = NoTimer
    /\ timeout_msg = [path |-> NoPath, event |-> "CHKLOCK"]
    /\ callbacks = 0
    /\ polls = 0
    /\ hw_freq = [p \in Paths |-> NoFreq]
    /\ hw_locked = [p \in Paths |-> FALSE]
    /\ client = [c \in Clients |-> Out]
    /\ calls = 0
    /\ answer = [p \in Paths |-> "none"]
    /\ seen_lock = [p \in Paths |-> FALSE]

------------------------------------------------------------------------------
(* The timer.                                                              *)

DeleteTimer == timer' = NoTimer /\ UNCHANGED timeout_msg

(* _add_fsm_timer: whatever timer there was is deleted, whatever message   *)
(* was to be sent is overwritten.                                          *)
AddTimer(p, event) ==
    /\ timer' = [exists |-> TRUE, armed |-> TRUE]
    /\ timeout_msg' = [path |-> p, event |-> event]

(* STB_OSRestartTimer does nothing once the timer is deleted.              *)
RestartTimer ==
    /\ timer' = [timer EXCEPT !.armed = timer.exists]
    /\ UNCHANGED timeout_msg

Expire ==
    /\ timer.armed
    /\ callbacks < MaxCallbacks
    /\ timer' = [timer EXCEPT !.armed = FALSE]
    /\ callbacks' = callbacks + 1
    /\ UNCHANGED <<taskVars, timeout_msg, polls, hwVars, clientVars, answer>>

(* _send_fsm_timeout_msg runs in a thread of its own, some time after the  *)
(* expiry, and sends what the global message says by then.                 *)
TimerCallback ==
    LET p == timeout_msg.path
    IN  /\ callbacks > 0
        /\ Len(queue[p]) < QueueMax
        /\ queue' = [queue EXCEPT ![p] = Append(@, timeout_msg.event)]
        /\ callbacks' = callbacks - 1
        /\ UNCHANGED <<fsm, task, state, timer, timeout_msg, polls, hwVars,
                       clientVars, answer>>

------------------------------------------------------------------------------
(* The task of a path.                                                     *)

(* STB_OSReadQueue hands the task the oldest message.                      *)
Reads(p, m) ==
    /\ task[p] = "reading"
    /\ queue[p] # <<>>
    /\ m = Head(queue[p])
    /\ queue' = [queue EXCEPT ![p] = Tail(@)]

(* TransState to another state: exit functions of the three states that    *)
(* use the timer delete it, entry functions set tstatus->state.            *)
Moves(p, target) ==
    /\ fsm' = [fsm EXCEPT ![p] = target]
    /\ state' = [state EXCEPT ![p] =
                    IF target = "STOPPING" THEN @ ELSE Shown(target)]

Timed(s) == s \in {"TUNING", "TRACKING", "RELOCKING"}

(* No row answers: the message is dropped.                                 *)
Drop(p, m) ==
    /\ ~ \E target \in States : <<fsm[p], m, target>> \in Transitions
    /\ <<fsm[p], m>> \notin CheckRows \cup RecheckRows
    /\ UNCHANGED <<fsm, task, state, timer, timeout_msg, polls, hw_freq,
                   seen_lock, answer>>

(* The check function of a row to TUNING calls StartTune, with what        *)
(* tstatus says now and not when the message was sent.                     *)
StartTuneFails(p, m) ==
    /\ <<fsm[p], m, "TUNING">> \in Transitions
    /\ answer' = [answer EXCEPT ![p] = "NOTLOCKED"]
    /\ UNCHANGED <<fsm, task, state, timer, timeout_msg, polls, hw_freq,
                   seen_lock>>

ToTuning(p, m) ==
    /\ <<fsm[p], m, "TUNING">> \in Transitions
    /\ hw_freq' = [hw_freq EXCEPT ![p] = freq[p]]
    /\ seen_lock' = [seen_lock EXCEPT ![p] = FALSE]
    /\ IF Timed(fsm[p]) THEN DeleteTimer ELSE UNCHANGED <<timer, timeout_msg>>
    /\ Moves(p, "TUNING")
    /\ polls' = 0
    /\ task' = [task EXCEPT ![p] = "entering"]
    /\ UNCHANGED answer

ToTracking(p, m) ==
    /\ <<fsm[p], m, "TRACKING">> \in Transitions
    /\ Moves(p, "TRACKING")
    /\ answer' = [answer EXCEPT ![p] = "LOCKED"]
    /\ AddTimer(p, "TRACKING_CHK")
    /\ UNCHANGED <<task, polls, hw_freq, seen_lock>>

ToRelocking(p, m) ==
    /\ <<fsm[p], m, "RELOCKING">> \in Transitions
    /\ Moves(p, "RELOCKING")
    /\ answer' = [answer EXCEPT ![p] = "NOTLOCKED"]
    /\ AddTimer(p, "RELOCKING_CHK")
    /\ UNCHANGED <<task, polls, hw_freq, seen_lock>>

ToStopping(p, m) ==
    /\ <<fsm[p], m, "STOPPING">> \in Transitions
    /\ Moves(p, "STOPPING")
    /\ DeleteTimer
    /\ task' = [task EXCEPT ![p] = "STOPPED"]
    /\ UNCHANGED <<polls, hw_freq, seen_lock, answer>>

ToIdle(p, m) ==
    /\ <<fsm[p], m, "IDLE">> \in Transitions
    /\ Moves(p, "IDLE")
    /\ UNCHANGED <<task, timer, timeout_msg, polls, hw_freq, seen_lock, answer>>

(* Time passes until the task polls: one interval at the least.            *)
StartCheck(p, m) ==
    /\ <<fsm[p], m>> \in CheckRows
    /\ polls' \in IF polls < MaxPolls THEN polls + 1 .. MaxPolls ELSE {polls}
    /\ task' = [task EXCEPT ![p] = "checking"]
    /\ UNCHANGED <<fsm, state, timer, timeout_msg, hw_freq, seen_lock, answer>>

Recheck(p, m) ==
    /\ <<fsm[p], m>> \in RecheckRows
    /\ IF hw_locked[p]
       THEN /\ answer' = [answer EXCEPT ![p] = "LOCKED"]
            /\ UNCHANGED <<timer, timeout_msg>>
       ELSE RestartTimer /\ UNCHANGED answer
    /\ UNCHANGED <<fsm, task, state, polls, hw_freq, seen_lock>>

(* stb_tune_fsm_msg_handle on the next message.  StartTune makes the       *)
(* frontend look for the signal anew.                                      *)
Handle(p) ==
    /\ \E m \in FsmMsgs :
          /\ Reads(p, m)
          /\ \/ Drop(p, m) \/ StartTuneFails(p, m)
             \/ ToTuning(p, m) \/ ToTracking(p, m) \/ ToRelocking(p, m)
             \/ ToStopping(p, m) \/ ToIdle(p, m)
             \/ StartCheck(p, m) \/ Recheck(p, m)
    /\ hw_locked' = [hw_locked EXCEPT ![p] = @ /\ task'[p] # "entering"]
    /\ UNCHANGED <<callbacks, clientVars>>

(* _check_hw_lock_status: an event of the frontend, or none within 50 ms.  *)
Verdicts(p) == {"none", IF hw_locked[p] THEN "locked" ELSE "timedout"}

Says(p, inner) ==
    /\ task' = [task EXCEPT ![p] = inner]
    /\ UNCHANGED <<timer, timeout_msg>>

Waits(p) == task' = [task EXCEPT ![p] = "reading"]

(* An attempt that never runs out of time; only a mutant uses it.          *)
CheckTuningForEver(p, verdict) ==
    /\ fsm[p] = "TUNING"
    /\ \/ verdict = "locked" /\ Says(p, "LOCKED")
       \/ verdict = "timedout" /\ Says(p, "UNLOCKED")
       \/ /\ verdict = "none" /\ task[p] = "entering"
          /\ AddTimer(p, "CHKLOCK") /\ Waits(p)
       \/ /\ verdict = "none" /\ task[p] = "checking"
          /\ RestartTimer /\ Waits(p)

(* Entry of TUNING, and the row of TUNING on CHKLOCK.                      *)
CheckTuning(p, verdict) ==
    /\ fsm[p] = "TUNING"
    /\ \/ verdict = "locked" /\ Says(p, "LOCKED")
       \/ verdict = "timedout" /\ Says(p, "UNLOCKED")
       \/ /\ verdict = "none" /\ task[p] = "entering"
          /\ AddTimer(p, "CHKLOCK") /\ Waits(p)
       \/ /\ verdict = "none" /\ task[p] = "checking" /\ polls < MaxPolls
          /\ RestartTimer /\ Waits(p)
       \/ /\ verdict = "none" /\ task[p] = "checking" /\ polls = MaxPolls
          /\ Says(p, "UNLOCKED")

CheckTracking(p, verdict) ==
    /\ fsm[p] = "TRACKING"
    /\ IF verdict = "timedout" THEN Says(p, "UNLOCKED")
                               ELSE RestartTimer /\ Waits(p)

(* The one-shot timer is not set again; only a mutant uses it.             *)
CheckRelockingOnce(p, verdict) ==
    /\ fsm[p] = "RELOCKING"
    /\ IF verdict = "locked" THEN Says(p, "LOCKED")
       ELSE Waits(p) /\ UNCHANGED <<timer, timeout_msg>>

CheckRelocking(p, verdict) ==
    /\ fsm[p] = "RELOCKING"
    /\ IF verdict = "locked" THEN Says(p, "LOCKED")
                             ELSE RestartTimer /\ Waits(p)

Check(p) ==
    /\ task[p] \in {"entering", "checking"}
    /\ \E v \in Verdicts(p) :
          CheckTuning(p, v) \/ CheckTracking(p, v) \/ CheckRelocking(p, v)
    /\ UNCHANGED <<queue, fsm, state, callbacks, polls, hwVars, clientVars,
                   answer>>

(* The task writes to the queue that nobody else reads, TIMEOUT_NEVER.     *)
SendToSelf(p) ==
    /\ task[p] \in InnerMsgs
    /\ Len(queue[p]) < QueueMax
    /\ queue' = [queue EXCEPT ![p] = Append(@, task[p])]
    /\ task' = [task EXCEPT ![p] = "reading"]
    /\ UNCHANGED <<fsm, state, timerVars, hwVars, clientVars, answer>>

Task(p) == Handle(p) \/ Check(p) \/ SendToSelf(p)

------------------------------------------------------------------------------
(* The frontend: a signal may lock once it is tuned to, and may be lost.   *)

FrontendLocks(p) ==
    /\ hw_freq[p] # NoFreq
    /\ ~hw_locked[p]
    /\ hw_locked' = [hw_locked EXCEPT ![p] = TRUE]
    /\ seen_lock' = [seen_lock EXCEPT ![p] = TRUE]
    /\ UNCHANGED <<taskVars, timerVars, hw_freq, clientVars, answer>>

FrontendLoses(p) ==
    /\ hw_locked[p]
    /\ hw_locked' = [hw_locked EXCEPT ![p] = FALSE]
    /\ UNCHANGED <<taskVars, timerVars, hw_freq, seen_lock, clientVars, answer>>

------------------------------------------------------------------------------
(* The clients.                                                            *)

Goto(c, r) == client' = [client EXCEPT ![c] = r]

(* STB_TuneStartTuner up to stb_tune_update_tune_parameter: the new        *)
(* parameters are in tstatus before anything else happens.                 *)
StartTuner(c, p, f) ==
    /\ client[c].at = "out"
    /\ calls < MaxCalls
    /\ StopFirst => client[c].stopped
    /\ calls' = calls + 1
    /\ Goto(c, [client[c] EXCEPT !.at = "deciding", !.path = p,
                                 !.changed = freq[p] # f, !.stopped = FALSE])
    /\ freq' = [freq EXCEPT ![p] = f]
    /\ answer' = [answer EXCEPT ![p] = "none"]
    /\ UNCHANGED <<taskVars, timerVars, hwVars, params_changed, lock>>

(* The rest of stb_tune_start_tuner: tune, or say that the tuner is there. *)
Decide(c) ==
    LET p == client[c].path
    IN  /\ client[c].at = "deciding"
        /\ Goto(c, [client[c] EXCEPT !.at = "sending", !.msg =
               IF client[c].changed \/ params_changed[p] \/ ~hw_locked[p]
               THEN "START" ELSE "CHANGE"])
        /\ UNCHANGED <<taskVars, timerVars, hwVars, freq, params_changed, lock,
                       calls, answer>>

(* STB_TuneStopTuner: under the path's lock, the state is read first.      *)
StopTuner(c, p) ==
    /\ client[c].at = "out"
    /\ calls < MaxCalls
    /\ lock[p] = NoClient
    /\ calls' = calls + 1
    /\ lock' = [lock EXCEPT ![p] = c]
    /\ Goto(c, [client[c] EXCEPT !.at = "sending", !.path = p, !.msg = "STOP",
                                 !.stopped = state[p] = "IDLE"])
    /\ UNCHANGED <<taskVars, timerVars, hwVars, freq, params_changed, answer>>

Send(c) ==
    LET p == client[c].path
    IN  /\ client[c].at = "sending"
        /\ Len(queue[p]) < QueueMax
        /\ queue' = [queue EXCEPT ![p] = Append(@, client[c].msg)]
        /\ Goto(c, IF client[c].msg = "STOP"
                   THEN [client[c] EXCEPT !.at = "stopping"]
                   ELSE [Out EXCEPT !.stopped = FALSE])
        /\ UNCHANGED <<fsm, task, state, timerVars, hwVars, freq,
                       params_changed, lock, calls, answer>>

(* TuneStopTuner returns when the state it read, or reads again every 30   *)
(* ms, is IDLE.                                                            *)
Stopped(c) ==
    LET p == client[c].path
    IN  /\ client[c].at = "stopping"
        /\ client[c].stopped \/ state[p] = "IDLE"
        /\ lock' = [lock EXCEPT ![p] = NoClient]
        /\ Goto(c, Out)
        /\ UNCHANGED <<taskVars, timerVars, hwVars, freq, params_changed, calls,
                       answer>>

Client(c) == Decide(c) \/ Send(c) \/ Stopped(c)

FsmNext ==
    \/ \E p \in Paths : Task(p) \/ FrontendLocks(p) \/ FrontendLoses(p)
    \/ Expire \/ TimerCallback
    \/ \E c \in Clients :
          \/ Client(c)
          \/ \E p \in Paths : StopTuner(c, p) \/ \E f \in Freqs : StartTuner(c, p, f)

FsmSpec == FsmInit /\ [][FsmNext]_fsmVars

(* Tasks run, an armed timer expires and its callback runs, a client that  *)
(* is inside a call goes on.  Nothing is said of the frontend.             *)
FsmFairSpec ==
    /\ FsmSpec
    /\ \A p \in Paths : WF_fsmVars(Task(p))
    /\ WF_fsmVars(Expire) /\ WF_fsmVars(TimerCallback)
    /\ \A c \in Clients : WF_fsmVars(Client(c))

------------------------------------------------------------------------------
FsmTypeOK ==
    /\ queue \in [Paths -> Seq(FsmMsgs)]
    /\ \A p \in Paths : Len(queue[p]) <= QueueMax
    /\ fsm \in [Paths -> States]
    /\ task \in [Paths -> {"reading", "entering", "checking"} \cup InnerMsgs]
    /\ state \in [Paths -> {"IDLE", "TUNING", "LOCKED", "RELOCKING"}]
    /\ freq \in [Paths -> Freqs \cup {NoFreq}]
    /\ params_changed \in [Paths -> BOOLEAN]
    /\ lock \in [Paths -> Clients \cup {NoClient}]
    /\ timer \in [exists : BOOLEAN, armed : BOOLEAN]
    /\ timeout_msg \in [path : Paths \cup {NoPath}, event : TimerMsgs]
    /\ callbacks \in 0 .. MaxCallbacks
    /\ polls \in 0 .. MaxPolls
    /\ hw_freq \in [Paths -> Freqs \cup {NoFreq}]
    /\ hw_locked \in [Paths -> BOOLEAN]
    /\ client \in [Clients -> [at : {"out", "deciding", "sending", "stopping"},
                               path : Paths \cup {NoPath}, changed : BOOLEAN,
                               msg : CntrlMsgs, stopped : BOOLEAN]]
    /\ calls \in 0 .. MaxCalls
    /\ answer \in [Paths -> {"none", "LOCKED", "NOTLOCKED"}]
    /\ seen_lock \in [Paths -> BOOLEAN]

(* STOPPING has no timer: it ends only because exactly one STOPPED is on   *)
(* its way, and no STOPPED is ever on its way for another state to ignore. *)
StoppingEnds ==
    \A p \in Paths :
        LET coming == Cardinality({i \in DOMAIN queue[p] : queue[p][i] = "STOPPED"})
                        + (IF task[p] = "STOPPED" THEN 1 ELSE 0)
        IN  coming = IF fsm[p] = "STOPPING" THEN 1 ELSE 0

(* "Start Check Timer & Try Again" (stbhwtun_ex.c:929, 1084, 1294): a state *)
(* that waits for the frontend is never left without a wake-up, be it the  *)
(* timer, its callback, a message that the state answers, or the task.     *)
Answers(s, m) == <<s, m>> \in CheckRows \/ \E t \in States : <<s, m, t>> \in Transitions

TriesAgain ==
    \A p \in Paths : Timed(fsm[p]) =>
        \/ /\ timer.armed \/ callbacks > 0
           /\ timeout_msg.path = p /\ Answers(fsm[p], timeout_msg.event)
        \/ \E m \in Range(queue[p]) \ CntrlMsgs : Answers(fsm[p], m)
        \/ task[p] # "reading"

(* A timer that is running belongs to the state its path is in.            *)
TimerFitsState ==
    timer.armed => <<fsm[timeout_msg.path], timeout_msg.event>> \in CheckRows

(* A path at work is never stranded: a STOPPING path ends, a path that      *)
(* waits for the frontend is woken, and by no timer but its own, whatever  *)
(* messages cross each other in the queue.                                 *)
NeverStranded == StoppingEnds /\ TriesAgain /\ TimerFitsState

(* A start is on its way from a client to the state machine.               *)
StartPending(p) ==
    \/ "START" \in Range(queue[p])
    \/ \E c \in Clients :
          /\ client[c].path = p
          /\ \/ client[c].at = "deciding"
             \/ client[c].at = "sending" /\ client[c].msg # "STOP"

(* STB_TuneStartTuner "Starts the tuner, it will then attempt to lock      *)
(* specified signal" (stbhwtun.c:648), for clients that stop a path before *)
(* they start it: a LOCKED that follows a start whose message has been read*)
(* is about the signal of that start, which was tuned to and locked.       *)
LockedIsForThisSignal ==
    \A p \in Paths :
        answer[p] = "LOCKED" /\ ~StartPending(p)
            => hw_freq[p] = freq[p] /\ seen_lock[p]

(* An attempt to lock ends: with the signal, with the report that there is *)
(* none, or because somebody stopped it.                                   *)
TuningEnds == \A p \in Paths : fsm[p] = "TUNING" ~> fsm[p] # "TUNING"

(* STB_TuneStopTuner, which waits in a loop for the state machine, returns. *)
StopReturns == \A c \in Clients : client[c].at = "stopping" ~> client[c].at = "out"
=============================================================================
