------------------------------ MODULE BlindScan ------------------------------
(***************************************************************************)
(* hw/src/stbhwtun.c: the blind scan of a path, beside its TunerTask and   *)
(* the calls of the API.  fend_blindscan_thread puts the frontend into     *)
(* scan mode, collects the transponders that the driver reports and tells  *)
(* the callback of each; each time it uses the frontend or the list it     *)
(* takes tstatus->lock, which a call that stops the tuner may have for     *)
(* long.  STB_Tune_BlindExit asks the thread to leave, and joins it.       *)
(*                                                                         *)
(* The scans of a path follow each other: each is ended by one call of     *)
(* STB_Tune_BlindExit before the next begins.                              *)
(***************************************************************************)
EXTENDS TunerTask, SequencesExt

CONSTANTS ScanWeight,   \* bound: how many of MaxCalls a scan counts for
          MaxChannels   \* FEND_BS_MAX_CHANNEL

VARIABLES
    enable_blindscan_thread,
    channels,           \* bs_setting.channels up to m_uiChannelCount
    scanner,            \* the thread: BS_Status, where it is in its loop, and
                        \* cur_bsevent
    user,               \* the caller of the scan: "out", "joining"
    hw_scan,            \* whether the frontend is in scan mode: "off", "on",
                        \* or "kept" by a driver that would not leave it
    told                \* the events that told the callback of a transponder

scanVars == <<enable_blindscan_thread, channels, scanner, user, told>>
allVars == <<vars, scanVars, hw_scan>>

NoEvent == [kind |-> "none", freq |-> NoFreq]

(* What the driver reports: a new start, one that it has locked to, how    *)
(* far it is, a transponder, or an event that is none of these.            *)
Events == [kind : {"result", "locked"}, freq : Freqs]
          \cup [kind : {"start", "process", "finished", "others"}, freq : {NoFreq}]

NoThread == [at |-> "none", status |-> "Exit", event |-> NoEvent]

ScanInit ==
    /\ Init
    /\ enable_blindscan_thread = FALSE
    /\ channels = <<>>
    /\ scanner = NoThread
    /\ user = "out"
    /\ hw_scan = "off"
    /\ told = {}

------------------------------------------------------------------------------
(* STB_Tune_BlindScan and STB_Tune_BlindExit.                              *)

(* The list is emptied without the lock.  The thread may not be created;   *)
(* then there is none to join.                                             *)
STB_Tune_BlindScan ==
    /\ user = "out" /\ scanner.at = "none"
    /\ calls + ScanWeight <= MaxCalls
    /\ calls' = calls + ScanWeight
    /\ channels' = <<>>
    /\ told' = {}
    /\ enable_blindscan_thread' = TRUE
    /\ scanner' \in {NoThread, [at |-> "top", status |-> "Init", event |-> NoEvent]}
    /\ UNCHANGED <<sharedVars, lock, task, hwVars, client, last, late, answer,
                   user, hw_scan>>

STB_Tune_BlindExit ==
    /\ user = "out" /\ scanner.at # "none"
    /\ enable_blindscan_thread' = FALSE
    /\ user' = "joining"
    /\ UNCHANGED <<vars, channels, scanner, hw_scan, told>>

(* pthread_join returns once the thread has.                               *)
Join ==
    /\ user = "joining" /\ scanner.at = "ended"
    /\ user' = "out"
    /\ scanner' = NoThread
    /\ UNCHANGED <<vars, enable_blindscan_thread, channels, hw_scan, told>>

------------------------------------------------------------------------------
(* fend_blindscan_thread.                                                  *)

(* The top of its loop; the state "WaitExit" is left in no other way.      *)
Turn ==
    /\ scanner.at = "top"
    /\ scanner' = IF scanner.status = "Exit" THEN [scanner EXCEPT !.at = "ended"]
                  ELSE [scanner EXCEPT !.at = "acting", !.status =
                           IF enable_blindscan_thread THEN @ ELSE "Cancel"]
    /\ UNCHANGED <<vars, enable_blindscan_thread, channels, user, hw_scan, told>>

Acts(status) == scanner.at = "acting" /\ scanner.status = status

NextStatus(status) == scanner' = [scanner EXCEPT !.at = "top", !.status = status]

ScanBegins ==
    /\ Acts("Init")
    /\ NextStatus("Start")
    /\ UNCHANGED <<vars, enable_blindscan_thread, channels, user, hw_scan, told>>

(* AM_FEND_IBlindScanAPI_Start: the driver takes the settings if the       *)
(* frontend is open, or refuses them, which the callback is told.          *)
ScanStart ==
    /\ Acts("Start")
    /\ lock = NoClient
    /\ \/ frontend_fd /\ hw_scan' = "on" /\ NextStatus("Wait")
       \/ UNCHANGED hw_scan /\ NextStatus("Exit")
    /\ UNCHANGED <<vars, enable_blindscan_thread, channels, user, told>>

(* The list when a transponder comes in: once each, as far as they fit.    *)
Listed(tp) ==
    IF Contains(channels, tp) \/ Len(channels) = MaxChannels THEN channels
    ELSE Append(channels, tp)

(* The event is handed on before it is in the list; only a mutant uses it. *)
ScanWaitUnlisted ==
    /\ Acts("Wait")
    /\ lock = NoClient
    /\ \/ NextStatus("Wait")
       \/ /\ hw_scan = "on"
          /\ \E event \in Events :
                scanner' = [at |-> "top", status |-> "User", event |-> event]
    /\ UNCHANGED <<vars, enable_blindscan_thread, channels, user, hw_scan, told>>

(* AM_FEND_IBlindScanAPI_GetScanEvent: an event, or none in 200 ms.        *)
ScanWait ==
    /\ Acts("Wait")
    /\ lock = NoClient
    /\ \/ NextStatus("Wait") /\ UNCHANGED channels
       \/ /\ hw_scan = "on"
          /\ \E event \in Events :
                /\ scanner' = [at |-> "top", status |-> "User", event |-> event]
                /\ channels' = IF event.kind = "result" THEN Listed(event.freq)
                               ELSE channels
    /\ UNCHANGED <<vars, enable_blindscan_thread, user, hw_scan, told>>

(* The callback, which a start with a lock tells of a transponder as well, *)
(* and what the event means for the scan.  The event is used no more.      *)
ScanUser ==
    /\ Acts("User")
    /\ told' = told \cup ({scanner.event} \cap [kind : {"result", "locked"}, freq : Freqs])
    /\ scanner' = [at |-> "top", event |-> NoEvent, status |->
                      IF scanner.event.kind = "finished" THEN "WaitExit" ELSE "Wait"]
    /\ UNCHANGED <<vars, enable_blindscan_thread, channels, user, hw_scan>>

(* A scan that is through ends by itself; only a mutant uses it.           *)
ScanWaitExitLeaves ==
    /\ Acts("WaitExit")
    /\ NextStatus("Exit")
    /\ UNCHANGED <<vars, enable_blindscan_thread, channels, user, hw_scan, told>>

(* After 100 % the thread sleeps until it is asked to leave.               *)
ScanWaitExit ==
    /\ Acts("WaitExit")
    /\ NextStatus("WaitExit")
    /\ UNCHANGED <<vars, enable_blindscan_thread, channels, user, hw_scan, told>>

(* AM_FEND_BlindDump and AM_FEND_IBlindScanAPI_Exit.  A driver that does   *)
(* not leave the scan mode is only logged: the thread ends all the same.   *)
ScanCancel ==
    /\ Acts("Cancel")
    /\ lock = NoClient
    /\ hw_scan' \in {"off", IF hw_scan = "off" THEN "off" ELSE "kept"}
    /\ NextStatus("Exit")
    /\ UNCHANGED <<vars, enable_blindscan_thread, channels, user, told>>

Scanner == \/ Turn \/ ScanBegins \/ ScanStart \/ ScanWait \/ ScanUser
           \/ ScanWaitExit \/ ScanCancel

(* A step of the tuner; a frontend that is closed forgets its scan.        *)
Tuner ==
    /\ Next
    /\ hw_scan' = IF frontend_fd' THEN hw_scan ELSE "off"
    /\ UNCHANGED scanVars

ScanNext == \/ Tuner \/ Scanner
            \/ STB_Tune_BlindScan \/ STB_Tune_BlindExit \/ Join

ScanSpec == ScanInit /\ [][ScanNext]_allVars

------------------------------------------------------------------------------
(* The frontend is in scan mode only while there is a thread that will     *)
(* take it out: when the exit has returned it can be tuned again, whatever *)
(* was done to the path meanwhile (stbhwtun.c:3753), unless the driver     *)
(* would not leave the mode, which the thread does not try twice.          *)
ScanModeHasThread == hw_scan = "on" => scanner.at \in {"top", "acting"}

(* Who is told of a transponder that the scan found, finds it when he asks *)
(* for the list (STB_Tune_BlindGetTPInfo), unless the list is full.  Of a  *)
(* start with a lock he is told in the same words, and it is in no list.   *)
ResultIsListed ==
    \/ \A event \in told : event.kind = "result" => event.freq \in ToSet(channels)
    \/ Len(channels) = MaxChannels
=============================================================================
