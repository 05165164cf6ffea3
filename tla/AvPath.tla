-------------------------------- MODULE AvPath --------------------------------
(***************************************************************************)
(* hw/src/stbhwav_amlmp.c: an AV path, taken for a pair of decoders of the *)
(* same number, with the player of the Aml_MP library that decodes a live  *)
(* service, and the calls that go to the player of PvrPlayer instead while *)
(* a playback is not stopped.                                              *)
(*                                                                         *)
(* The stack calls for a pair of decoders one call after the other and     *)
(* with the lock of the path held, so that a call is a step; it stops live *)
(* decoding before it starts a playback and before it releases the path.   *)
(* An audio PID stands for the PID and its preselection.                   *)
(***************************************************************************)
EXTENDS PvrPlayer

CONSTANTS Paths,        \* 0 .. num_paths - 1
          AvFails,      \* what the library may fail to do, a subset of
                        \* {"create", "start", "stop", "destroy"}
          SwitchesRadio, \* the audio track is switched with nothing but audio
          Varied        \* bound: of "sound", "picture" and "playback", one is
                        \* varied in a behaviour

NoOne == 255            \* INVALID_RES_ID

(* A path is blanked by the number of its decoder (STB_AVBlankVideo takes  *)
(* the one for the other); the null values are no decoder and no PIDs.     *)
ASSUME AvPathAssumption ==
    /\ Decoders \subseteq Paths /\ NoOne \notin Decoders
    /\ {NoPid, Off} \cap (VideoPids \cup AudioPids \cup AdPids) = {}

VARIABLES
    av,         \* AV_PATH_STATUS of each path
    live,       \* the player of each path in the library
    varied,     \* what is varied, of Varied
    wanted      \* the PIDs that the stack has set in the demux of each path

avVars == <<av, live, varied, wanted>>

NoPlayer == [exists |-> FALSE, video |-> Off, audio |-> Off, ad |-> Off,
             muted |-> FALSE, hidden |-> FALSE, cached |-> FALSE,
             source |-> "demod", surface |-> FALSE,
             kept |-> FALSE]    \* the library has refused to destroy it

AvInit ==
    /\ av = [p \in Paths |->
         [owner |-> NoOne, video_pid |-> Off, audio_pid |-> Off, ad_pid |-> Off,
          presented |-> FALSE, audio_out_control |-> {}, video_out_control |-> FALSE,
          mute |-> FALSE, decoding_mode |-> {}, injecting |-> FALSE, surface |-> FALSE]]
    /\ live = [p \in Paths |-> NoPlayer]
    /\ varied \in Varied
    /\ wanted = [p \in Paths |-> [video |-> NoPid, audio |-> NoPid, ad |-> NoPid]]

Pair(p) == av[p].owner

(* STB_AVGetPath finds the path of the decoders, and no playback stops.    *)
Ready(p) == av[p].owner \in Decoders /\ play_at[av[p].owner] = "out"

IsLive(p) == Ready(p) /\ IsPlayStopped(Pair(p))
IsPvr(p) == Ready(p) /\ ~IsPlayStopped(Pair(p))

LibMay(what, can) == IF what \in AvFails THEN BOOLEAN ELSE {can}

------------------------------------------------------------------------------
(* The paths and what the stack sets in the demux.                         *)

AvOnly == UNCHANGED <<playVars, varied>>

(* STB_AVAcquirePath; the stack does not take one for the same pair again. *)
AcquirePath(p) ==
    /\ av[p].owner = NoOne /\ \A q \in Paths : q < p => av[q].owner # NoOne
    /\ \E d \in Decoders : /\ \A q \in Paths : av[q].owner # d
                           /\ av' = [av EXCEPT ![p].owner = d]
    /\ UNCHANGED <<live, wanted>> /\ AvOnly

ReleasePath(p) ==
    /\ IsLive(p) /\ ~live[p].exists
    /\ av' = [av EXCEPT ![p].owner = NoOne, ![p].decoding_mode = {},
                        ![p].mute = FALSE, ![p].surface = FALSE]
    /\ UNCHANGED <<live, wanted>> /\ AvOnly

ChangeWanted(p) ==
    /\ Ready(p)
    /\ \E video \in VideoPids \cup {NoPid}, audio \in AudioPids \cup {NoPid},
          ad \in AdPids \cup {NoPid} :
          wanted' = [wanted EXCEPT ![p] = [video |-> video, audio |-> audio, ad |-> ad]]
    /\ UNCHANGED <<av, live>> /\ AvOnly

------------------------------------------------------------------------------
(* The player of a path.                                                   *)

Cached(mode) == "CACHE ONLY" \in mode

(* The mode of the path is not set; only a mutant uses it.                 *)
CreatedNormal(p) ==
    [NoPlayer EXCEPT !.exists = TRUE,
                     !.source = IF av[p].injecting THEN "memory" ELSE "demod"]

(* AV_CreateTsPlayer_l as AV_GetPlayerHandleByPath_l calls it: the mode of *)
(* the path is set in the new player.                                      *)
Created(p) ==
    [NoPlayer EXCEPT !.exists = TRUE, !.cached = Cached(av[p].decoding_mode),
                     !.source = IF av[p].injecting THEN "memory" ELSE "demod"]

Opened(p) ==
    IF live[p].exists THEN {live[p]}
    ELSE {Created(p)} \cup (IF "create" \in AvFails THEN {NoPlayer} ELSE {})

(* AV_ReleaseTsPlayer_l: a player that the library does not destroy keeps  *)
(* its handle.                                                             *)
Released(l, gone) == IF gone THEN NoPlayer ELSE [l EXCEPT !.kept = TRUE]

(* The player is released when its last decoder has stopped.               *)
IfUsed(l, gone) ==
    IF l.video = Off /\ l.audio = Off /\ l.ad = Off THEN Released(l, gone) ELSE l

(* A playback that is told of the PIDs, in the ways that can go: said is   *)
(* what the path remembers when it could and otherwise.                    *)
Told(p, video, audio, ad, yes, no) ==
    \E c \in ChangeDecodePIDs(Pair(p), video, audio, ad) :
        /\ slot' = [slot EXCEPT ![Pair(p)] = c.slot]
        /\ dvr' = [dvr EXCEPT ![Pair(p)] = c.dvr]
        /\ av' = [av EXCEPT ![p] = IF c.ok THEN yes ELSE no]
        /\ UNCHANGED <<play_at, play_event, session, varied>>

OrOff(pid) == IF pid = NoPid THEN Off ELSE pid

------------------------------------------------------------------------------
(* STB_AVStartAudioDecoding.                                               *)

(* AV_UpdateAudioOutControl_l for a flag.                                  *)
WithFlag(s, flag, mute) ==
    [s EXCEPT !.audio_out_control = IF mute THEN @ \cup {flag} ELSE @ \ {flag},
              !.mute = IF flag = "VOL" THEN mute ELSE @]

(* AV_StartAudioDecode_l sets mute from the flags, to which it adds that   *)
(* of the volume, before the decoder starts.                               *)
AudioStarts(p, l) ==
    \E ok \in LibMay("start", TRUE) :
        LET s == WithFlag(av[p], "VOL", av[p].mute)
        IN  /\ av' = [av EXCEPT ![p] = IF ok THEN [s EXCEPT !.audio_pid = wanted[p].audio,
                                                           !.presented = TRUE] ELSE s]
            /\ live' = [live EXCEPT ![p] =
                   [l EXCEPT !.audio = IF ok THEN wanted[p].audio ELSE Off,
                             !.muted = s.audio_out_control # {}]]

AudioIsNew(p) == wanted[p].audio # av[p].audio_pid \/ ~av[p].presented

LiveAudio(p, opened) ==
    LET l == [opened EXCEPT !.muted = @ \/ av[p].audio_out_control # {}]
    IN  IF wanted[p].audio # NoPid /\ (l.audio = Off \/ AudioIsNew(p)) THEN AudioStarts(p, l)
        ELSE live' = [live EXCEPT ![p] = l] /\ UNCHANGED av

PvrAudio(p) ==
    IF wanted[p].audio # NoPid /\ AudioIsNew(p)
    THEN Told(p, wanted[p].video, wanted[p].audio, wanted[p].ad,
              [av[p] EXCEPT !.audio_pid = wanted[p].audio, !.presented = TRUE], av[p])
    ELSE UNCHANGED av /\ AvOnly

StartAudioDecoding(p) ==
    /\ \/ /\ IsLive(p)
          /\ \E l \in Opened(p) : IF l.exists THEN LiveAudio(p, l) ELSE UNCHANGED <<av, live>>
          /\ AvOnly
       \/ IsPvr(p) /\ PvrAudio(p) /\ UNCHANGED live
    /\ UNCHANGED wanted

------------------------------------------------------------------------------
(* STB_AVStartVideoDecoding; a path is blanked by the number of the        *)
(* decoder.                                                                *)

VideoStarts(p, opened) ==
    LET l == [opened EXCEPT !.surface = @ \/ av[p].surface,
                            !.hidden = @ \/ av[Pair(p)].video_out_control]
    IN  IF l.video # Off /\ wanted[p].video = av[p].video_pid
        THEN live' = [live EXCEPT ![p] = l] /\ UNCHANGED av
        ELSE \E ok \in LibMay("start", TRUE) :
               /\ live' = [live EXCEPT ![p] =
                      [l EXCEPT !.video = IF ok THEN wanted[p].video ELSE Off]]
               /\ av' = IF ok THEN [av EXCEPT ![p].video_pid = wanted[p].video] ELSE av

StartVideoDecoding(p) ==
    /\ \/ /\ IsLive(p)
          /\ \E l \in Opened(p) :
                IF l.exists /\ wanted[p].video # NoPid THEN VideoStarts(p, l)
                ELSE live' = [live EXCEPT ![p] = l] /\ UNCHANGED av
          /\ AvOnly
       \/ /\ IsPvr(p)
          /\ IF wanted[p].video # NoPid /\ wanted[p].video # av[p].video_pid
             THEN Told(p, wanted[p].video, OrOff(wanted[p].audio), wanted[p].ad,
                       [av[p] EXCEPT !.video_pid = wanted[p].video], av[p])
             ELSE UNCHANGED av /\ AvOnly
          /\ UNCHANGED live
    /\ UNCHANGED wanted

(* The player is left to the stop of the audio; only a mutant uses it.     *)
LiveVideoStopsOnly(p, ok, gone) ==
    /\ live' = [live EXCEPT ![p].video = IF ok THEN Off ELSE @]
    /\ av' = [av EXCEPT ![p].video_pid = Off]

------------------------------------------------------------------------------
(* STB_AVStopVideoDecoding: the PID is forgotten whether the library could *)
(* stop or not.                                                            *)
LiveVideoStops(p, ok, gone) ==
    /\ live' = [live EXCEPT ![p] = IF ok THEN IfUsed([@ EXCEPT !.video = Off], gone) ELSE @]
    /\ av' = [av EXCEPT ![p].video_pid = Off]

StopVideoDecoding(p) ==
    /\ \/ /\ IsLive(p) /\ live[p].exists /\ live[p].video # Off
          /\ \E ok \in LibMay("stop", TRUE), gone \in LibMay("destroy", TRUE) :
                LiveVideoStops(p, ok, gone)
          /\ AvOnly
       \/ /\ IsPvr(p) /\ wanted[p].video # NoPid
          /\ dvr[Pair(p)].video # Off /\ av[p].video_pid # Off
          /\ LET forgot == [av[p] EXCEPT !.video_pid = Off]
             IN  Told(p, Off, OrOff(wanted[p].audio), wanted[p].ad, forgot, forgot)
          /\ UNCHANGED live
    /\ UNCHANGED wanted

(* STB_AVStopAudioDecoding: one that has stopped lets the player go, too.  *)
LiveAudioStops(p, ok, gone) ==
    IF live[p].audio = Off
    THEN live' = [live EXCEPT ![p] = IfUsed(@, gone)] /\ UNCHANGED av
    ELSE /\ live' = [live EXCEPT ![p] =
                IF ok THEN IfUsed([@ EXCEPT !.audio = Off], gone) ELSE @]
         /\ av' = [av EXCEPT ![p].audio_pid = Off, ![p].presented = FALSE]

StopAudioDecoding(p) ==
    /\ \/ /\ IsLive(p) /\ live[p].exists
          /\ \E ok \in LibMay("stop", TRUE), gone \in LibMay("destroy", TRUE) :
                LiveAudioStops(p, ok, gone)
          /\ AvOnly
       \/ /\ IsPvr(p) /\ (av[p].audio_pid # Off \/ ~av[p].presented)
          /\ LET forgot == [av[p] EXCEPT !.audio_pid = Off]
             IN  Told(p, wanted[p].video, Off, wanted[p].ad, forgot, forgot)
          /\ UNCHANGED live
    /\ UNCHANGED wanted

(* STB_AVStartADDecoding does nothing for the PID that is remembered.      *)
StartADDecoding(p) ==
    /\ \/ /\ IsLive(p)
          /\ \E l \in Opened(p), ok \in LibMay("start", TRUE) :
                IF l.exists /\ wanted[p].ad # NoPid /\ wanted[p].ad # av[p].ad_pid /\ ok
                THEN /\ live' = [live EXCEPT ![p] = [l EXCEPT !.ad = wanted[p].ad]]
                     /\ av' = [av EXCEPT ![p].ad_pid = wanted[p].ad]
                ELSE live' = [live EXCEPT ![p] = l] /\ UNCHANGED av
          /\ AvOnly
       \/ /\ IsPvr(p) /\ wanted[p].ad # NoPid
          /\ Told(p, wanted[p].video, wanted[p].audio, wanted[p].ad,
                  [av[p] EXCEPT !.ad_pid = wanted[p].ad], av[p])
          /\ UNCHANGED live
    /\ UNCHANGED wanted

StopADDecoding(p) ==
    /\ \/ /\ IsLive(p) /\ live[p].exists
          /\ \E ok \in LibMay("stop", TRUE), gone \in LibMay("destroy", TRUE) :
                LET l == IF ok THEN [live[p] EXCEPT !.ad = Off] ELSE live[p]
                IN  /\ live' = [live EXCEPT ![p] =
                           IF l.audio = Off /\ l.video = Off THEN Released(l, gone) ELSE l]
                    /\ av' = IF ok THEN [av EXCEPT ![p].ad_pid = Off] ELSE av
          /\ AvOnly
       \/ /\ IsPvr(p)
          /\ Told(p, wanted[p].video, wanted[p].audio, Off, [av[p] EXCEPT !.ad_pid = Off], av[p])
          /\ UNCHANGED live
    /\ UNCHANGED wanted

------------------------------------------------------------------------------
(* STB_AVSwitchAudioTrack: a stop and a start, with the handle from before *)
(* the stop.  When the stop released the player the handle is one of a     *)
(* player that was destroyed: whatever the library makes of it, there is   *)
(* no player, and the PID is remembered or is not.                         *)
SwitchLive(p) ==
    \E stopped \in LibMay("stop", TRUE), gone \in LibMay("destroy", TRUE) :
    LET left == IF live[p].audio = Off \/ stopped
                THEN IfUsed([live[p] EXCEPT !.audio = Off], gone) ELSE live[p]
        s == IF live[p].audio = Off THEN av[p]
             ELSE [av[p] EXCEPT !.audio_pid = Off, !.presented = FALSE]
        l == [left EXCEPT !.muted = @ \/ s.audio_out_control # {}]
        n == WithFlag(s, "VOL", s.mute)
        new == [n EXCEPT !.audio_pid = wanted[p].audio, !.presented = TRUE]
    IN  IF ~left.exists
        THEN /\ live' = [live EXCEPT ![p] = NoPlayer]
             /\ av' \in {[av EXCEPT ![p] = s]}
                        \cup (IF wanted[p].audio # NoPid THEN {[av EXCEPT ![p] = new]} ELSE {})
        ELSE IF wanted[p].audio = NoPid
        THEN live' = [live EXCEPT ![p] = l] /\ av' = [av EXCEPT ![p] = s]
        ELSE \E ok \in LibMay("start", TRUE) :
               /\ av' = [av EXCEPT ![p] = IF ok THEN new ELSE n]
               /\ live' = [live EXCEPT ![p] =
                      [l EXCEPT !.audio = IF ok THEN wanted[p].audio ELSE Off,
                                !.muted = n.audio_out_control # {}]]

(* In a playback the live player is not there to be stopped.               *)
SwitchPvr(p) ==
    LET s == IF dvr[Pair(p)].audio = Off THEN av[p]
             ELSE [av[p] EXCEPT !.audio_pid = Off, !.presented = FALSE]
    IN  IF wanted[p].audio # NoPid /\ (wanted[p].audio # s.audio_pid \/ ~s.presented)
        THEN Told(p, wanted[p].video, wanted[p].audio, wanted[p].ad,
                  [s EXCEPT !.audio_pid = wanted[p].audio, !.presented = TRUE], s)
        ELSE av' = [av EXCEPT ![p] = s] /\ AvOnly

SwitchAudioTrack(p) ==
    /\ \/ /\ IsLive(p) /\ live[p].exists
          /\ (SwitchesRadio /\ live[p].audio # Off) \/ live[p].video # Off \/ live[p].ad # Off
          /\ SwitchLive(p)
          /\ AvOnly
       \/ IsPvr(p) /\ SwitchPvr(p) /\ UNCHANGED live
    /\ UNCHANGED wanted

------------------------------------------------------------------------------
(* What is set for a path, with or without a player.  A playback's player  *)
(* is told as well, which is left out, and so are the locks of             *)
(* STB_AVSetVideoBlankLock and STB_AVSetAudioMuteLock.                     *)

WithMute(l, s) == IF l.exists THEN [l EXCEPT !.muted = s.audio_out_control # {}] ELSE l

(* STB_AVSetAudioVolume, for which a volume is nothing or something, and   *)
(* STB_AVSetAudioMute.                                                     *)
SetAudioMute(p) ==
    /\ varied = "sound"
    /\ Ready(p)
    /\ \E flag \in {"VOL", "APP"}, mute \in BOOLEAN :
          LET s == WithFlag(av[p], flag, mute)
          IN  /\ av' = [av EXCEPT ![p] = s]
              /\ live' = [live EXCEPT ![p] = WithMute(@, s)]
    /\ UNCHANGED wanted /\ AvOnly

BlankVideo(d) ==
    /\ varied = "picture"
    /\ d \in Paths
    /\ \E blank \in BOOLEAN :
          /\ av' = [av EXCEPT ![d].video_out_control = blank]
          /\ live' = [p \in Paths |-> IF IsLive(p) /\ Pair(p) = d /\ live[p].exists
                                      THEN [live[p] EXCEPT !.hidden = blank] ELSE live[p]]
    /\ UNCHANGED wanted /\ AvOnly

SetSurface(p) ==
    /\ varied = "picture"
    /\ Ready(p)
    /\ av' = [av EXCEPT ![p].surface = ~@]
    /\ live' = [live EXCEPT ![p] = IF @.exists THEN [@ EXCEPT !.surface = ~av[p].surface] ELSE @]
    /\ UNCHANGED wanted /\ AvOnly

(* STB_AVSetDecodingMode: mute follows the mode only when audio is turned  *)
(* off or on, or in a mode that caches.                                    *)
SetDecodingMode(p) ==
    /\ varied = "sound"
    /\ Ready(p)
    /\ \E mode \in SUBSET {"CACHE ONLY", "AUDIO DISABLE"} :
          LET old == av[p].decoding_mode
              hears == ("AUDIO DISABLE" \in old) # ("AUDIO DISABLE" \in mode) \/ Cached(mode)
              muted == [av[p] EXCEPT !.mute = mode # {}]
              s == IF ~hears THEN av[p]
                   ELSE IF live[p].exists THEN WithFlag(muted, "VOL", muted.mute) ELSE muted
              l == [live[p] EXCEPT !.cached = live[p].exists /\
                        (IF Cached(old) # Cached(mode) THEN Cached(mode) ELSE @)]
          IN  /\ mode # old
              /\ av' = [av EXCEPT ![p] = [s EXCEPT !.decoding_mode = mode]]
              /\ live' = [live EXCEPT ![p] = IF hears THEN WithMute(l, s) ELSE l]
    /\ UNCHANGED wanted /\ AvOnly

(* With no playback, too; only a mutant uses it.                           *)
SyncDecodingAlways(p) ==
    /\ Ready(p)
    /\ LET s == slot[Pair(p)]
       IN  av' = [av EXCEPT ![p].video_pid = OrOff(s.video_pid),
                            ![p].audio_pid = OrOff(s.audio_pid), ![p].ad_pid = s.ad_pid]
    /\ UNCHANGED <<live, wanted>> /\ AvOnly

(* STB_AVSyncDecodingFromPVR.                                              *)
SyncDecodingFromPVR(p) ==
    /\ IsPvr(p)
    /\ LET s == slot[Pair(p)]
       IN  av' = [av EXCEPT ![p].video_pid = OrOff(s.video_pid),
                            ![p].audio_pid = OrOff(s.audio_pid), ![p].ad_pid = s.ad_pid]
    /\ UNCHANGED <<live, wanted>> /\ AvOnly

(* AV_StartInjection and AV_StopInjection.                                 *)
SetInjection(p) ==
    /\ varied = "picture"
    /\ av' = [av EXCEPT ![p].injecting = ~@]
    /\ UNCHANGED <<live, wanted>> /\ AvOnly

(* AV_InjectData makes a player for a path that decodes nothing, in which  *)
(* no mode is set.                                                         *)
InjectData(p) ==
    /\ IsLive(p) /\ Pair(p) = p /\ av[p].injecting /\ ~live[p].exists
    /\ av[p].video_pid = Off /\ av[p].audio_pid = Off
    /\ live' = [live EXCEPT ![p] = [NoPlayer EXCEPT !.exists = TRUE, !.source = "memory"]]
    /\ UNCHANGED <<av, wanted>> /\ AvOnly

AvStep(p) ==
    \/ AcquirePath(p) \/ ReleasePath(p) \/ ChangeWanted(p)
    \/ StartAudioDecoding(p) \/ StartVideoDecoding(p) \/ StopVideoDecoding(p)
    \/ StopAudioDecoding(p) \/ StartADDecoding(p) \/ StopADDecoding(p)
    \/ SwitchAudioTrack(p) \/ SetAudioMute(p) \/ BlankVideo(p) \/ SetSurface(p)
    \/ SetDecodingMode(p) \/ SyncDecodingFromPVR(p) \/ SetInjection(p) \/ InjectData(p)

PvrCall(d) ==
    /\ varied = "playback"
    /\ \/ PvrStep(d) \/ PvrEvent(d)
       \/ (\A p \in Paths : Pair(p) = d => ~live[p].exists) /\ PlayStart(d)
    /\ UNCHANGED avVars

Init == PlayInit /\ AvInit
Next == (\E p \in Paths : AvStep(p)) \/ (\E d \in Decoders : PvrCall(d))
vars == <<playVars, avVars>>
Spec == Init /\ [][Next]_vars

------------------------------------------------------------------------------
TypeOK ==
    /\ av \in [Paths -> [owner : Decoders \cup {NoOne}, video_pid : VideoPids \cup {Off},
           audio_pid : AudioPids \cup {Off}, ad_pid : AdPids \cup {NoPid, Off},
           presented : BOOLEAN, audio_out_control : SUBSET {"VOL", "APP"},
           video_out_control : BOOLEAN, mute : BOOLEAN,
           decoding_mode : SUBSET {"CACHE ONLY", "AUDIO DISABLE"}, injecting : BOOLEAN,
           surface : BOOLEAN]]
    /\ live \in [Paths -> [exists : BOOLEAN, video : VideoPids \cup {Off},
           audio : AudioPids \cup {Off}, ad : AdPids \cup {Off}, muted : BOOLEAN,
           hidden : BOOLEAN, cached : BOOLEAN, source : {"demod", "memory"},
           surface : BOOLEAN, kept : BOOLEAN]]
    /\ wanted \in [Paths -> [video : VideoPids \cup {NoPid}, audio : AudioPids \cup {NoPid},
           ad : AdPids \cup {NoPid}]]
    /\ play_at \in [Decoders -> {"out", "destroying", "closing"}]
    /\ play_event \in [Decoders -> {"none", "started"}]
    /\ session \in BOOLEAN /\ varied \in Varied
    /\ \A d \in Decoders : slot[d].play_state \in {"STOPPED", "STARTING", "STARTED"}

(* What a live player decodes is what its path remembers: the next start   *)
(* compares with it, so that a change of the PIDs is never taken for none, *)
(* whatever a playback left behind.                                        *)
LiveRemembered ==
    \A p \in Paths :
        /\ live[p].audio # Off => live[p].audio = av[p].audio_pid
        /\ live[p].video # Off => live[p].video = av[p].video_pid
        /\ live[p].ad # Off => live[p].ad = av[p].ad_pid

(* What is decoded is what is remembered of it, of a playback in its slot  *)
(* and of a live player in its path.                                       *)
DecodesRemembered == PlaysTheSlot /\ LiveRemembered

(* A live player is as the path was set before it was there and since: mute*)
(* while audio is decoded, hidden and with its surface while video is, and *)
(* only caching unless it plays from memory.                               *)
PlayerAsSet ==
    \A p \in Paths : live[p].exists =>
        /\ live[p].audio # Off => live[p].muted = (av[p].audio_out_control # {})
        /\ live[p].video # Off => /\ live[p].hidden = av[Pair(p)].video_out_control
                                  /\ live[p].surface = av[p].surface
        /\ live[p].source = "demod" => live[p].cached = Cached(av[p].decoding_mode)

(* The stop of the last decoder of a live player lets the player go, in    *)
(* whatever order they are stopped: no player, and no demux and decoder    *)
(* with it, is left behind that the library did not refuse to destroy.     *)
LastTakesPlayer ==
    [][\A p \in Paths :
          /\ live[p].exists
          /\ \/ live[p].audio # Off /\ live'[p].audio = Off /\ av'[p].audio_pid = Off
             \/ live[p].video # Off /\ live'[p].video = Off /\ av'[p].video_pid = Off
             \/ live[p].ad # Off /\ live'[p].ad = Off /\ av'[p].ad_pid = Off
          /\ live'[p].audio = Off /\ live'[p].video = Off /\ live'[p].ad = Off
          => ~live'[p].exists \/ live'[p].kept]_vars

(* "Switch audio track on the given audio path" (inc/stbhwav.h:517): the   *)
(* call leaves a live path with the audio that is wanted, if the library   *)
(* fails in nothing.  With SwitchesRadio the code does not do so: README,  *)
(* section 6.                                                              *)
AudioSwitched ==
    [][\A p \in Paths :
          SwitchAudioTrack(p) /\ IsLive(p) /\ wanted[p].audio # NoPid
          => live'[p].audio = wanted[p].audio]_vars
=============================================================================
