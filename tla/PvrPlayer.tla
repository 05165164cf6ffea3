------------------------------ MODULE PvrPlayer ------------------------------
(***************************************************************************)
(* hw/src/stbpvrpr_amlmp.c, the players: one slot per video decoder, each  *)
(* with a DVR player of the Aml_MP library, and one replay session of the  *)
(* conditional access system for all of them (hw/src/ca_glue_amlmp.c).     *)
(*                                                                         *)
(* An audio and a video decoder of the same number belong together.  The   *)
(* library calls PlayEventHandler in a thread of its own.  What a segment  *)
(* or a live recorder says of its streams is an input.                     *)
(***************************************************************************)
EXTENDS Integers, FiniteSets

CONSTANTS Decoders,     \* the players, 0 .. num_players - 1
          VideoPids, AudioPids, AdPids,
          Speeds,       \* percentages that are asked for; 0 pauses
          PlayFails,    \* what the library may fail to do, a subset of
                        \* {"create", "create smp", "streams", "rate"}
          IsM2M         \* STB_CAIsM2M

NoPid == 0              \* no stream
Off == 8191             \* 0x1fff, a stream that is not to be played

VARIABLES
    slot,       \* S_RECPLAY_STATUS of each player
    dvr,        \* its player in the library
    play_at,    \* where STB_PVRPlayStop is
    play_event, \* where PlayEventHandler is
    session     \* g_pvrplay_session is open

playVars == <<slot, dvr, play_at, play_event, session>>

NoDvr == [exists |-> FALSE, video |-> Off, audio |-> Off, ad |-> Off, speed |-> 100]

FreshSlot == [known |-> FALSE, play_state |-> "STOPPED", play_speed |-> 100,
              has_video |-> FALSE, has_audio |-> FALSE,
              video_pid |-> NoPid, audio_pid |-> NoPid, ad_pid |-> NoPid,
              is_smp |-> FALSE, secmem |-> FALSE]

PlayInit ==
    /\ slot = [d \in Decoders |-> FreshSlot]
    /\ dvr = [d \in Decoders |-> NoDvr]
    /\ play_at = [d \in Decoders |-> "out"]
    /\ play_event = [d \in Decoders |-> "none"]
    /\ session = FALSE

------------------------------------------------------------------------------
(* What others ask.  getPlayIndex finds a slot by the decoders it was      *)
(* registered with, and one that is not found is stopped.                  *)

IsPlayStopped(d) == ~slot[d].known \/ slot[d].play_state = "STOPPED"

(* The streams that the library is told to play for a slot.                *)
Streams(s, l) ==
    [l EXCEPT !.video = IF s.has_video THEN s.video_pid ELSE Off,
              !.audio = IF s.has_audio THEN s.audio_pid ELSE Off,
              !.ad = s.ad_pid]

(* updatePlayback for a player that is not stopped, in the ways it can     *)
(* end.  A slot with neither audio nor video is not given to the library.  *)
Updated(s, l) ==
    IF ~s.has_video /\ ~s.has_audio THEN {[slot |-> s, dvr |-> l, ok |-> FALSE]}
    ELSE {[slot |-> s, dvr |-> Streams(s, l), ok |-> TRUE]}
         \cup (IF "streams" \in PlayFails THEN {[slot |-> s, dvr |-> l, ok |-> FALSE]} ELSE {})

(* PVRChangeDecodePIDs of a slot that is found.                            *)
WithAudio(s, pid) ==
    [s EXCEPT !.audio_pid = pid,
              !.has_audio = IF s.audio_pid = pid THEN @ ELSE pid \notin {NoPid, Off}]
WithVideo(s, pid) ==
    IF pid = NoPid THEN s
    ELSE [s EXCEPT !.video_pid = pid, !.has_video = IF s.video_pid = pid THEN @ ELSE pid # Off]

ChangeDecodePIDs(d, video, audio, ad) ==
    LET s == [WithVideo(WithAudio(slot[d], audio), video) EXCEPT !.ad_pid = ad]
    IN  IF s = slot[d] THEN {[slot |-> s, dvr |-> dvr[d], ok |-> TRUE]} ELSE Updated(s, dvr[d])

------------------------------------------------------------------------------
(* The calls.                                                              *)

PlaySame == UNCHANGED <<play_at, play_event>>

(* STB_PVRSetPlayStartMode registers the slot and says it is stopped; a    *)
(* start mode is set before a playback starts.                             *)
SetPlayStartMode(d) ==
    /\ play_at[d] = "out" /\ ~dvr[d].exists
    /\ slot' = [slot EXCEPT ![d].known = TRUE, ![d].play_speed = 100,
                            ![d].play_state = "STOPPED"]
    /\ PlaySame /\ UNCHANGED <<dvr, session>>

PlaySetCASStatus(d) ==
    /\ play_at[d] = "out" /\ slot[d].known /\ ~dvr[d].exists
    /\ slot' = [slot EXCEPT ![d].is_smp = TRUE]
    /\ PlaySame /\ UNCHANGED <<dvr, session>>

(* The streams of the recording: audio only is played when there is no     *)
(* video, since the audio track comes from the stack later.                *)
Chosen(s, timeshift, video, audio) ==
    [s EXCEPT !.play_speed = IF timeshift THEN 0 ELSE 100,
              !.has_video = video # NoPid, !.video_pid = video,
              !.has_audio = video = NoPid /\ audio # NoPid,
              !.audio_pid = IF video = NoPid THEN audio ELSE NoPid,
              !.ad_pid = NoPid]

(* What precedes Aml_MP_DVRPlayer_Create: with a conditional access system *)
(* a session, unless there is one, and a secure buffer, which may not be   *)
(* had and which replaces the one before.                                  *)
Secured(s, secmem) == [s EXCEPT !.secmem = IF s.is_smp /\ IsM2M /\ secmem THEN TRUE ELSE @]

(* STB_PVRPlayStart of a recording with these streams, some.  An error of  *)
(* the library after the player was created is only logged: the player is  *)
(* there and has nothing to play.                                          *)
PlayStart(d) ==
    /\ play_at[d] = "out" /\ slot[d].known /\ slot[d].play_state = "STOPPED"
    /\ \E timeshift, secmem \in BOOLEAN, video \in VideoPids \cup {NoPid},
          audio \in AudioPids \cup {NoPid} :
          /\ ~(slot[d].is_smp /\ IsM2M) => secmem
          /\ LET s == Chosen(slot[d], timeshift, video, audio)
                 t == Secured(s, secmem)
             IN  IF ~s.has_video /\ ~s.has_audio
                 THEN slot' = [slot EXCEPT ![d] = s] /\ UNCHANGED <<dvr, session>>
                 ELSE /\ session' = (session \/ s.is_smp)
                      /\ \/ /\ slot' = [slot EXCEPT ![d] = [t EXCEPT !.play_state = "STARTING"]]
                            /\ \/ dvr' = [dvr EXCEPT ![d] =
                                     [Streams(t, NoDvr) EXCEPT !.exists = TRUE, !.speed = t.play_speed]]
                               \/ /\ "streams" \in PlayFails
                                  /\ dvr' = [dvr EXCEPT ![d] = [NoDvr EXCEPT !.exists = TRUE]]
                         \/ /\ (IF s.is_smp THEN "create smp" ELSE "create") \in PlayFails
                            /\ slot' = [slot EXCEPT ![d] = t]
                            /\ UNCHANGED dvr
    /\ PlaySame

(* STB_PVRSetPlaySpeed, for a player that has started.                     *)
SetPlaySpeed(d) ==
    /\ play_at[d] = "out" /\ slot[d].known /\ slot[d].play_state = "STARTED"
    /\ \E speed \in Speeds \ {slot[d].play_speed} :
          \/ /\ slot' = [slot EXCEPT ![d].play_speed = speed]
             /\ dvr' = [dvr EXCEPT ![d].speed = speed]
          \/ /\ "rate" \in PlayFails
             /\ UNCHANGED <<slot, dvr>>
    /\ PlaySame /\ UNCHANGED session

(* STB_PVRPlayStop, whoever it is for, ends the session.  The secure       *)
(* buffer goes before the player, the player when its thread is out of     *)
(* PlayEventHandler; only then the state is set.                           *)
PlayStopNothing(d) ==
    /\ play_at[d] = "out" /\ IsPlayStopped(d)
    /\ session' = FALSE
    /\ UNCHANGED <<slot, dvr>> /\ PlaySame

PlayStop(d) ==
    /\ play_at[d] = "out" /\ ~IsPlayStopped(d)
    /\ slot' = [slot EXCEPT ![d].is_smp = FALSE, ![d].secmem = @ /\ ~slot[d].is_smp]
    /\ play_at' = [play_at EXCEPT ![d] = "destroying"]
    /\ UNCHANGED <<dvr, play_event, session>>

(* The state stays; only a mutant uses it.                                 *)
DestroyDvrOnly(d) ==
    /\ play_at[d] = "destroying" /\ play_event[d] = "none"
    /\ dvr' = [dvr EXCEPT ![d] = NoDvr]
    /\ slot' = [slot EXCEPT ![d].known = FALSE]
    /\ play_at' = [play_at EXCEPT ![d] = "closing"]
    /\ UNCHANGED <<play_event, session>>

DestroyDvr(d) ==
    /\ play_at[d] = "destroying" /\ play_event[d] = "none"
    /\ dvr' = [dvr EXCEPT ![d] = NoDvr]
    /\ slot' = [slot EXCEPT ![d].play_state = "STOPPED", ![d].known = FALSE]
    /\ play_at' = [play_at EXCEPT ![d] = "closing"]
    /\ UNCHANGED <<play_event, session>>

CloseSession(d) ==
    /\ play_at[d] = "closing"
    /\ session' = FALSE
    /\ play_at' = [play_at EXCEPT ![d] = "out"]
    /\ UNCHANGED <<slot, dvr, play_event>>

------------------------------------------------------------------------------
(* PlayEventHandler: a transition that finds the player starting says that *)
(* it has started.                                                         *)

PlayTransition(d) ==
    /\ dvr[d].exists /\ play_event[d] = "none"
    /\ slot[d].play_state = "STARTING"
    /\ play_event' = [play_event EXCEPT ![d] = "started"]
    /\ UNCHANGED <<slot, dvr, play_at, session>>

PlayStarted(d) ==
    /\ play_event[d] = "started"
    /\ slot' = [slot EXCEPT ![d].play_state = "STARTED"]
    /\ play_event' = [play_event EXCEPT ![d] = "none"]
    /\ UNCHANGED <<dvr, play_at, session>>

PvrStep(d) == \/ SetPlayStartMode(d) \/ PlaySetCASStatus(d) \/ SetPlaySpeed(d)
              \/ PlayStopNothing(d) \/ PlayStop(d) \/ DestroyDvr(d) \/ CloseSession(d)

PvrEvent(d) == PlayTransition(d) \/ PlayStarted(d)

------------------------------------------------------------------------------
(* Whenever no stop is under way, a slot that is not stopped has a player  *)
(* and a slot that is stopped has none: a transition that was reported     *)
(* while the player was being stopped does not bring the slot back.        *)
StateHasPlayer ==
    \A d \in Decoders : play_at[d] # "destroying" =>
        (slot[d].play_state # "STOPPED" <=> dvr[d].exists)

(* A secure buffer is one of a session that is open, from the start of a   *)
(* playback to its stop.                                                   *)
SecmemHasSession == \A d \in Decoders : slot[d].secmem => session

(* What a playback owns comes and goes with its slot.                      *)
PlaybackOwns == StateHasPlayer /\ SecmemHasSession

(* The library plays what the slot says, at the speed it says, as long as  *)
(* the slot has something to play: a change that several calls make, of    *)
(* audio, AD and video, has reached it.                                    *)
PlaysTheSlot ==
    \A d \in Decoders : dvr[d].exists =>
        /\ slot[d].has_video \/ slot[d].has_audio => Streams(slot[d], dvr[d]) = dvr[d]
        /\ slot[d].play_speed = dvr[d].speed
=============================================================================
