----------------------------- MODULE CaSessions -----------------------------
(***************************************************************************)
(* hw/src/ca_glue_amlmp.c: the descrambler handles of the stack and their  *)
(* sessions with the library of the conditional access system, and the one *)
(* session of playback with its PIN check.                                 *)
(*                                                                         *)
(* A call under g_ca_mutex is one step.  STB_CAPVRRecordStart takes no     *)
(* mutex and is two: a PMT may be reported in between.  cas_event_cb is    *)
(* called by the library's thread, and compares the session some time      *)
(* before it stores what the event says.  The library's close waits until  *)
(* the callback of that session has returned, and the handle of a closed   *)
(* session does not come back.  A close may be refused where the code      *)
(* looks at the result; elsewhere it is taken to work.                     *)
(*                                                                         *)
(* A handle belongs to a live service or to a recording.  Its user makes   *)
(* one call at a time; PMTs are reported from elsewhere.                   *)
(***************************************************************************)
EXTENDS Integers, Sequences

CONSTANTS LiveHandles, RecHandles,
          Pmts,         \* the PMTs: [loop, streams] with the descriptors of the
                        \* service, and the ES PID and descriptors of each
                        \* stream; a descriptor is [tag, len, ca_id, ca_pid]
          SupportedIds, \* Aml_MP_CAS_IsSystemIdSupported
          CasFails,     \* what the library may fail to do: a subset of
                        \* {"open", "register", "start", "stop", "close"}
          Retries,      \* a recording is started anew after a failed start
          MaxSessions, MaxCaCalls   \* bounds

ASSUME SessionsAssumption == MaxSessions \in Nat /\ MaxCaCalls \in Nat

(* A handle is for one of the two.                                         *)
ASSUME HandlesAssumption == LiveHandles \cap RecHandles = {}

ASSUME PmtsAssumption == \A pmt \in Pmts : DOMAIN pmt.streams \subseteq Nat

Handles == LiveHandles \cup RecHandles
None == 0
Sessions == 1 .. MaxSessions

VARIABLES
    glue,               \* STB_CA_Glue_t of each handle
    rec_call,           \* where the call of a recording is
    rec_result,         \* what the last STB_CAPVRRecordStart returned
    session,            \* the sessions of the library
    opened,             \* how many there have been
    g_pvrplay_session, g_pvrplay_replay, g_checkpin_status,
    decrypt,            \* where STB_CAPVRPlayDecrypt is
    event,              \* what cas_event_cb is about to store, and of whom
    pin_of,             \* the session that g_checkpin_status is from
    ca_calls

playVars == <<g_pvrplay_session, g_pvrplay_replay, g_checkpin_status, decrypt, event, pin_of>>
caVars == <<glue, rec_call, rec_result, session, opened, ca_calls, playVars>>

(* STB_CAAcquireDescrambler clears the handle.  session_info is the ECM    *)
(* PID of the first entry of the list: no other entry is ever read.  The   *)
(* order of pids is not looked at.                                         *)
ClearHandle == [held |-> TRUE, session_info |-> None, cas_session |-> None,
                has_ca |-> FALSE, pids |-> {}, is_descrambling |-> FALSE, is_timeshift |-> FALSE]
FreeHandle == [ClearHandle EXCEPT !.held = FALSE]

NoEvent == [says |-> "none", of |-> None]

CaInit ==
    /\ glue = [h \in Handles |-> FreeHandle]
    /\ rec_call = [h \in RecHandles |-> "out"]
    /\ rec_result = [h \in RecHandles |-> "none"]
    /\ session = [s \in Sessions |-> [use |-> "closed", on |-> FALSE, pids |-> {}]]
    /\ opened = 0
    /\ g_pvrplay_session = None /\ g_pvrplay_replay = FALSE /\ g_checkpin_status = "max"
    /\ decrypt = "out" /\ event = NoEvent /\ pin_of = None
    /\ ca_calls = 0

Held(h) == glue[h].held

Call == ca_calls < MaxCaCalls /\ ca_calls' = ca_calls + 1

CanFail(what) == IF what \in CasFails THEN BOOLEAN ELSE {FALSE}

(* The library's session of that number.                                   *)
OpenedFor(use) == [use |-> use, on |-> FALSE, pids |-> {}]
Closed(ses, s) == [ses EXCEPT ![s] = [use |-> "closed", on |-> FALSE, pids |-> {}]]

(* It has been stopped, but not closed.                                    *)
Halted(ses, s) == [ses EXCEPT ![s] = [use |-> "halted", on |-> FALSE, pids |-> @.pids]]

EsPidsOf(pids) == {pid.es : pid \in pids}

------------------------------------------------------------------------------
(* Handles and PMTs.                                                       *)

(* STB_CAAcquireDescrambler, for a CA system that is supported.            *)
AcquireDescrambler(h) ==
    /\ Call /\ ~Held(h)
    /\ glue' = [glue EXCEPT ![h] = ClearHandle]
    /\ IF h \in RecHandles THEN rec_result' = [rec_result EXCEPT ![h] = "none"]
                           ELSE UNCHANGED rec_result
    /\ UNCHANGED <<rec_call, session, opened, playVars>>

(* What STB_CAReleaseDescrambler leaves of the session: it stops the one   *)
(* kind or the other, and closes it whatever that returned.                *)
ReleasedSession(g) ==
    IF g.cas_session # None THEN Closed(session, g.cas_session) ELSE session

ReleaseDescrambler(h) ==
    /\ Call /\ Held(h)
    /\ h \in RecHandles => rec_call[h] = "out"
    /\ session' = ReleasedSession(glue[h])
    /\ glue' = [glue EXCEPT ![h] = FreeHandle]
    /\ IF h \in RecHandles THEN rec_result' = [rec_result EXCEPT ![h] = "none"]
                           ELSE UNCHANGED rec_result
    /\ UNCHANGED <<rec_call, opened, playVars>>

(* _STB_ParseCaDescriptor: a CA descriptor too short for a system and a    *)
(* PID makes no entry.                                                     *)
CaDescs(loop) == SelectSeq(loop, LAMBDA d : d.tag = "CA" /\ d.len >= 4)

(* Of several systems the first one that is supported counts.              *)
FirstSupported(descs) ==
    LET supported == SelectSeq(descs, LAMBDA d : d.ca_id \in SupportedIds)
    IN  IF supported = <<>> THEN None ELSE supported[1].ca_pid

(* What _STB_CAGetPmtDescArrayList makes of a PMT, with the ECM PID of the *)
(* service and of each stream; 0 for none.                                 *)
CaList(pmt) ==
    [global |-> FirstSupported(CaDescs(pmt.loop)),
     streams |-> [i \in DOMAIN pmt.streams |->
                    [es |-> pmt.streams[i].es,
                     ecm |-> FirstSupported(CaDescs(pmt.streams[i].loop))]]]

(* STB_CAReportPMT, with _STB_CollectESCaInfo: a supported descriptor of   *)
(* the service counts for all streams, without one each counts for its own.*)
Scrambled(list) == {i \in DOMAIN list.streams : list.streams[i].ecm # None}

CaPids(list) ==
    IF list.global # None
    THEN {[es |-> list.streams[i].es, ecm |-> list.global] : i \in DOMAIN list.streams}
    ELSE {list.streams[i] : i \in Scrambled(list)}

(* add_sess_pid appends what is not there yet, so that the first ECM PID a *)
(* handle has heard of stays first.                                        *)
FirstEcm(list) ==
    IF list.global # None THEN list.global
    ELSE IF Scrambled(list) = {} THEN None
    ELSE list.streams[CHOOSE i \in Scrambled(list) : \A j \in Scrambled(list) : i <= j].ecm

ReportPMT(h, pmt) ==
    /\ Call /\ Held(h)
    /\ LET list == CaList(pmt)
       IN  glue' = [glue EXCEPT
             ![h].session_info = IF @ = None THEN FirstEcm(list) ELSE @,
             ![h].has_ca = (list.global # None \/ Scrambled(list) # {}),
             ![h].pids = CaPids(list)]
    /\ UNCHANGED <<rec_call, rec_result, session, opened, playVars>>

------------------------------------------------------------------------------
(* A live service.                                                         *)

(* Only a mutant uses it.                                                  *)
StartAttemptLeavesOpen(h, registered, started) ==
    IF registered /\ glue[h].pids # {}
    THEN [use |-> "live", on |-> started, pids |-> EsPidsOf(glue[h].pids)]
    ELSE [use |-> "closed", on |-> FALSE, pids |-> {}]

(* What becomes of the session that STB_CADescrambleServiceStart opened:   *)
(* each way that does not reach the end of the call closes it.             *)
StartAttempt(h, registered, started) ==
    IF registered /\ glue[h].pids # {} /\ started
    THEN [use |-> "live", on |-> TRUE, pids |-> EsPidsOf(glue[h].pids)]
    ELSE [use |-> "closed", on |-> FALSE, pids |-> {}]

DescrambleServiceStart(h) ==
    /\ Call /\ Held(h) /\ glue[h].has_ca /\ ~glue[h].is_descrambling
    /\ opened < MaxSessions
    /\ \E fails \in CanFail("open"), unreg \in CanFail("register"), bad \in CanFail("start") :
          IF fails THEN UNCHANGED <<glue, session, opened>>
          ELSE LET s == opened + 1
                   works == ~unreg /\ glue[h].pids # {} /\ ~bad
               IN  /\ opened' = s
                   /\ session' = [session EXCEPT ![s] = StartAttempt(h, ~unreg, ~bad)]
                   /\ IF works
                      THEN glue' = [glue EXCEPT
                             ![h].cas_session = IF glue[h].session_info # None THEN s ELSE @,
                             ![h].is_descrambling = TRUE]
                      ELSE UNCHANGED glue
    /\ UNCHANGED <<rec_call, rec_result, playVars>>

(* When the library does not stop or does not close, the call returns with *)
(* the handle as it was: after a refused close it still counts as being    *)
(* descrambled, although the session has been stopped.                     *)
DescrambleServiceStop(h) ==
    /\ Call /\ Held(h) /\ glue[h].is_descrambling
    /\ LET s == glue[h].cas_session
       IN  \/ "stop" \in CasFails /\ UNCHANGED <<session, glue>>
           \/ "close" \in CasFails /\ session' = Halted(session, s) /\ UNCHANGED glue
           \/ /\ session' = Closed(session, s)
              /\ glue' = [glue EXCEPT ![h].cas_session = None, ![h].is_descrambling = FALSE]
    /\ UNCHANGED <<rec_call, rec_result, opened, playVars>>

------------------------------------------------------------------------------
(* A recording.                                                            *)

(* STB_CASetTimeShiftOn.                                                   *)
SetTimeShiftOn(h, on) ==
    /\ Call /\ Held(h) /\ rec_call[h] = "out"
    /\ glue' = [glue EXCEPT ![h].is_timeshift = on]
    /\ UNCHANGED <<rec_call, rec_result, session, opened, playVars>>

(* STB_CAPVRRecordStart up to where it stores the session.                 *)
PVRRecordStart(h) ==
    /\ Call /\ Held(h) /\ rec_call[h] = "out"
    /\ Retries \/ rec_result[h] # "failed"
    /\ \/ /\ glue[h].session_info = None
          /\ rec_result' = [rec_result EXCEPT ![h] = "failed"]
          /\ UNCHANGED <<glue, rec_call, session, opened>>
       \/ /\ glue[h].session_info # None /\ glue[h].cas_session # None
          /\ rec_result' = [rec_result EXCEPT ![h] = "done"]
          /\ UNCHANGED <<glue, rec_call, session, opened>>
       \/ /\ glue[h].session_info # None /\ glue[h].cas_session = None
          /\ opened < MaxSessions
          /\ \E fails \in CanFail("open") :
                IF fails
                THEN /\ rec_result' = [rec_result EXCEPT ![h] = "failed"]
                     /\ UNCHANGED <<glue, rec_call, session, opened>>
                ELSE /\ opened' = opened + 1
                     /\ session' = [session EXCEPT ![opened + 1] =
                          OpenedFor(IF glue[h].is_timeshift THEN "timeshift" ELSE "record")]
                     /\ glue' = [glue EXCEPT ![h].cas_session = opened + 1]
                     /\ rec_call' = [rec_call EXCEPT ![h] = "starting"]
                     /\ UNCHANGED rec_result
    /\ UNCHANGED playVars

(* Only a mutant uses it.                                                  *)
RecordResultAlways(started) == "done"

RecordResult(started) == IF started THEN "done" ELSE "failed"

(* The rest of it reads the ECM PID of the first entry of the list of PIDs *)
(* without looking whether there is one: without, the program ends here.   *)
(* The walk over the list, which a PMT may free meanwhile, is one step.    *)
StartDVRRecord(h) ==
    /\ rec_call[h] = "starting" /\ glue[h].pids # {}
    /\ \E fails \in CanFail("start") :
          /\ session' = [session EXCEPT ![glue[h].cas_session] =
                            [use |-> @.use, on |-> ~fails, pids |-> EsPidsOf(glue[h].pids)]]
          /\ rec_result' = [rec_result EXCEPT ![h] = RecordResult(~fails)]
    /\ rec_call' = [rec_call EXCEPT ![h] = "out"]
    /\ UNCHANGED <<glue, opened, ca_calls, playVars>>

(* STB_CAPVRRecordStop, and STB_CANotifyRecordingStatus of a stop.         *)
PVRRecordStop(h) ==
    /\ Call /\ Held(h) /\ rec_call[h] = "out"
    /\ glue[h].cas_session # None
    /\ session' = Closed(session, glue[h].cas_session)
    /\ glue' = [glue EXCEPT ![h].cas_session = None]
    /\ rec_result' = [rec_result EXCEPT ![h] = "none"]
    /\ UNCHANGED <<rec_call, opened, playVars>>

------------------------------------------------------------------------------
(* Playback.                                                               *)

(* STB_CAPVRPlayStart: a replay that does not start is only logged.        *)
PVRPlayStart ==
    /\ Call /\ g_pvrplay_session = None /\ opened < MaxSessions
    /\ \E fails \in CanFail("open"), bad \in CanFail("start") :
          IF fails THEN UNCHANGED <<session, opened, g_pvrplay_session>>
          ELSE /\ opened' = opened + 1
               /\ session' = [session EXCEPT ![opened + 1] =
                                [OpenedFor("play") EXCEPT !.on = ~bad]]
               /\ g_pvrplay_session' = opened + 1
    /\ UNCHANGED <<glue, rec_call, rec_result, g_pvrplay_replay, g_checkpin_status, decrypt,
                   event, pin_of>>

(* STB_CAPVRPlayStop, after the player is gone: first the library, whose   *)
(* close returns when the callback has ...                                 *)
PVRPlayStop ==
    /\ Call /\ g_pvrplay_session # None /\ session[g_pvrplay_session].use # "closed"
    /\ decrypt = "out" /\ event.of # g_pvrplay_session
    /\ session' = Closed(session, g_pvrplay_session)
    /\ UNCHANGED <<glue, rec_call, rec_result, opened, playVars>>

(* Only a mutant uses it.                                                  *)
ForgetPlaybackNotPin ==
    /\ g_pvrplay_session # None /\ session[g_pvrplay_session].use = "closed"
    /\ g_pvrplay_session' = None /\ g_pvrplay_replay' = FALSE
    /\ UNCHANGED <<glue, rec_call, rec_result, session, opened, g_checkpin_status, decrypt,
                   event, pin_of, ca_calls>>

(* ... and then what was remembered of it.                                 *)
ForgetPlayback ==
    /\ g_pvrplay_session # None /\ session[g_pvrplay_session].use = "closed"
    /\ g_pvrplay_session' = None /\ g_pvrplay_replay' = FALSE
    /\ g_checkpin_status' = "max" /\ pin_of' = None
    /\ UNCHANGED <<glue, rec_call, rec_result, session, opened, decrypt, event, ca_calls>>

(* STB_CAPVRPlayDecrypt, called by the player for each buffer: the first   *)
(* one starts the replay, and so does the first one after a PIN was right. *)
PVRPlayDecrypt ==
    /\ decrypt = "out" /\ g_pvrplay_session # None /\ session[g_pvrplay_session].use # "closed"
    /\ \/ \E works \in {TRUE} \cup {~f : f \in CanFail("start")} :
             ~g_pvrplay_replay /\ works /\ g_pvrplay_replay' = TRUE /\ UNCHANGED decrypt
       \/ /\ g_pvrplay_replay /\ g_checkpin_status = "success"
          /\ decrypt' = "replays" /\ UNCHANGED g_pvrplay_replay
    /\ UNCHANGED <<glue, rec_call, rec_result, session, opened, g_pvrplay_session,
                   g_checkpin_status, event, pin_of, ca_calls>>

PinSettled ==
    /\ decrypt = "replays" /\ decrypt' = "out"
    /\ g_checkpin_status' = "max" /\ pin_of' = None
    /\ UNCHANGED <<glue, rec_call, rec_result, session, opened, g_pvrplay_session,
                   g_pvrplay_replay, event, ca_calls>>

(* cas_event_cb, for an event about the PIN: only one of the playback's    *)
(* session gets past the comparison ...                                    *)
PinEvent(s, says) ==
    /\ Call /\ event = NoEvent
    /\ session[s].use # "closed" /\ s = g_pvrplay_session
    /\ event' = [says |-> says, of |-> s]
    /\ UNCHANGED <<glue, rec_call, rec_result, session, opened, g_pvrplay_session,
                   g_pvrplay_replay, g_checkpin_status, decrypt, pin_of>>

(* ... and is stored later.                                                *)
StorePin ==
    /\ event # NoEvent
    /\ g_checkpin_status' = event.says /\ pin_of' = event.of
    /\ event' = NoEvent
    /\ UNCHANGED <<glue, rec_call, rec_result, session, opened, g_pvrplay_session,
                   g_pvrplay_replay, decrypt, ca_calls>>

CaNext ==
    \/ \E h \in Handles : AcquireDescrambler(h)
    \/ \E h \in Handles : ReleaseDescrambler(h)
    \/ \E h \in Handles, pmt \in Pmts : ReportPMT(h, pmt)
    \/ \E h \in LiveHandles : DescrambleServiceStart(h)
    \/ \E h \in LiveHandles : DescrambleServiceStop(h)
    \/ \E h \in RecHandles, on \in BOOLEAN : SetTimeShiftOn(h, on)
    \/ \E h \in RecHandles : PVRRecordStart(h)
    \/ \E h \in RecHandles : StartDVRRecord(h)
    \/ \E h \in RecHandles : PVRRecordStop(h)
    \/ PVRPlayStart
    \/ PVRPlayStop
    \/ ForgetPlayback
    \/ PVRPlayDecrypt
    \/ PinSettled
    \/ \E s \in Sessions, says \in {"need", "success", "failed"} : PinEvent(s, says)
    \/ StorePin

CaSpec == CaInit /\ [][CaNext]_caVars

------------------------------------------------------------------------------
(* Properties.                                                             *)

TypeOK ==
    /\ \A h \in Handles : Held(h) =>
          /\ glue[h].session_info \in Nat /\ glue[h].cas_session \in 0 .. opened
          /\ glue[h].has_ca \in BOOLEAN /\ glue[h].is_descrambling \in BOOLEAN
          /\ glue[h].has_ca => glue[h].session_info # None
    /\ rec_call \in [RecHandles -> {"out", "starting"}]
    /\ rec_result \in [RecHandles -> {"none", "failed", "done"}]
    /\ opened \in 0 .. MaxSessions
    /\ g_pvrplay_session \in 0 .. opened
    /\ g_checkpin_status \in {"max", "need", "success", "failed"}

(* A session that is open belongs to exactly one handle, or to playback,   *)
(* and what a handle or playback remembers is open, until PlayStop forgets *)
(* what it has closed.  So no way out of a start that failed in the middle,*)
(* of a stop or of a release leaves a session that nobody can close.       *)
SessionsOwned ==
    /\ \A h \in Handles : Held(h) /\ glue[h].cas_session # None =>
          session[glue[h].cas_session].use \in (IF h \in LiveHandles THEN {"live", "halted"}
                                               ELSE {"record", "timeshift"})
    /\ \A s \in Sessions : session[s].use # "closed" =>
          LET owners == {h \in Handles : Held(h) /\ glue[h].cas_session = s}
          IN  IF session[s].use = "play" THEN s = g_pvrplay_session /\ owners = {}
              ELSE \E h \in Handles : owners = {h}

(* What a handle says is true of the library: a service that counts as     *)
(* being descrambled has a session that runs, for at least one stream, and *)
(* after a STB_CAPVRRecordStart that returned 0 the recording's runs.  A   *)
(* start that failed does not change that, nor does a stop that the        *)
(* library refused; a stop whose close it refused does, for the service:   *)
(* it then counts as being descrambled until a later stop gets through.    *)
SaysWhatRuns ==
    /\ \A h \in LiveHandles : Held(h) =>
          (glue[h].is_descrambling <=> glue[h].cas_session # None)
    /\ \A h \in Handles :
          (IF h \in LiveHandles THEN Held(h) /\ glue[h].is_descrambling
                               ELSE rec_result[h] = "done")
          => /\ Held(h) /\ glue[h].cas_session # None
             /\ LET ses == session[glue[h].cas_session]
                IN  \/ ses.on /\ ses.pids # {}
                    \/ h \in LiveHandles /\ ses.use = "halted"

(* The state of the PIN check is of the playback that is going on: events  *)
(* come late, in a thread of their own, and none of them is left to the    *)
(* next playback, which would wait for a PIN that nobody asks for.         *)
PinOfThisPlayback ==
    g_checkpin_status # "max" =>
        g_pvrplay_session # None /\ pin_of = g_pvrplay_session
=============================================================================
