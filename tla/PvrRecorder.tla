----------------------------- MODULE PvrRecorder -----------------------------
(***************************************************************************)
(* hw/src/stbpvrpr_amlmp.c, the recorders: slots with a recorder of the    *)
(* Aml_MP library, the descrambler and encryption channels taken for the   *)
(* tracks that are recorded, and the memory of the conditional access      *)
(* system.  A slot has one caller; the library calls RecEventHandler in a  *)
(* thread of its own, and a live service shares the descrambler channels.  *)
(*                                                                         *)
(* A step is the code between two places where the library, its thread or  *)
(* the channels can come in between.  The rwlock of a slot only keeps its  *)
(* callers apart and is left out.  The channels are those of DscChannels,  *)
(* here a PID and a count each.  A call takes them one by one, since what  *)
(* it finds depends on who came in between; it gives them back in a step,  *)
(* because taking some from a count is the same in any order.              *)
(***************************************************************************)
EXTENDS Integers, FiniteSets

CONSTANTS Recorders,    \* the indices, 0 .. num_recorders - 1
          Chans,        \* the descrambler channels there are, 0 .. n
          AudioPids, VideoPid,
          MaxTracks,    \* entries of descramble_a_chanids and rec_a_chanids
          MaxRecCalls,  \* bound: calls made for recorders
          EncryptsFirst, \* encryption keys may come before the recorder runs
          StartFails,   \* what the library may fail to do: a subset of
                        \* {"create", "create smp", "start"}
          IsM2M         \* STB_CAIsM2M

ASSUME RecorderAssumption ==
    /\ Recorders \subseteq Nat /\ IsFiniteSet(Recorders)
    /\ Chans \subseteq Nat /\ AudioPids \subseteq Nat /\ MaxTracks \in Nat

NoChan == -1

VARIABLES
    rec,            \* S_REC_STATUS of each recorder
    rec_at,         \* where its caller is
    rec_lib,        \* its recorder in the library
    rec_event,      \* where RecEventHandler is
    rec_said,       \* the last event sent for the recorder
    rec_secmems,    \* secure buffers that exist for it
    channel,        \* pid and references of each descrambler channel
    live,           \* the channel that the live service holds
    rec_calls

recVars == <<rec, rec_at, rec_lib, rec_event, rec_said, rec_secmems, channel,
             live, rec_calls>>

Tracks == 1 .. MaxTracks

(* What memset leaves of an S_REC_STATUS and STB_PVRInitRecording sets; the*)
(* arrays of channel numbers keep their zeros.                             *)
FreshRecorder ==
    [tuner |-> FALSE, rec_demux |-> FALSE,
     rec_state |-> "STOPPED", rec_start_flag |-> FALSE, recorder |-> FALSE,
     secmem |-> FALSE, is_smp |-> FALSE,
     a_chanids |-> [i \in Tracks |-> 0], a_chanpids |-> [i \in Tracks |-> 0],
     des_aids |-> 0, v_chanid |-> NoChan,
     rec_a_chanids |-> [i \in Tracks |-> 0], rec_aids |-> 0, rec_v_chanid |-> NoChan]

RecInit ==
    /\ rec = [r \in Recorders |-> FreshRecorder]
    /\ rec_at = [r \in Recorders |-> "out"]
    /\ rec_lib = [r \in Recorders |-> "none"]
    /\ rec_event = [r \in Recorders |-> "none"]
    /\ rec_said = [r \in Recorders |-> "none"]
    /\ rec_secmems = [r \in Recorders |-> 0]
    /\ channel = [c \in Chans |-> [pid |-> 0, use |-> "none", ref |-> 0]]
    /\ live = NoChan
    /\ rec_calls = 0

------------------------------------------------------------------------------
(* The channels.                                                           *)

(* STB_DMXDscAlloc finds the channel of the PID and the use, or takes a    *)
(* free one, or has none.                                                  *)
ChannelFor(dsc, pid, use) ==
    LET Same == {c \in Chans : dsc[c].ref > 0 /\ dsc[c].pid = pid /\ dsc[c].use = use}
        Free == {c \in Chans : dsc[c].ref = 0}
        Least(S) == CHOOSE c \in S : \A d \in S : c <= d
    IN  IF Same # {} THEN Least(Same) ELSE IF Free # {} THEN Least(Free) ELSE NoChan

Taken(dsc, c, pid, use) ==
    IF c = NoChan THEN dsc ELSE [dsc EXCEPT ![c] = [pid |-> pid, use |-> use, ref |-> @.ref + 1]]

(* The entries of a slot that hold a channel: its video in 0, its audio in *)
(* the others, up to the count that the slot keeps of them.                *)
ChannelUses == {"descramble", "encrypt"}
EntryNos == 0 .. MaxTracks

ChanOf(s, use, i) ==
    IF use = "descramble"
    THEN IF i = 0 THEN s.v_chanid ELSE IF i <= s.des_aids THEN s.a_chanids[i] ELSE NoChan
    ELSE IF i = 0 THEN s.rec_v_chanid ELSE IF i <= s.rec_aids THEN s.rec_a_chanids[i] ELSE NoChan

(* STB_DMXDscFree for each of them: a count that is 0 stays, and a device  *)
(* that does not exist has no channels.                                    *)
HeldBy(s, use, c) == Cardinality({i \in EntryNos : ChanOf(s, use, i) = c})

Freed(dsc, s, use) ==
    [c \in Chans |-> [dsc[c] EXCEPT
        !.ref = IF @ > HeldBy(s, use, c) THEN @ - HeldBy(s, use, c) ELSE 0]]

------------------------------------------------------------------------------
(* The calls that only touch the slot.                                     *)

Begins(r) == rec_at[r] = "out" /\ rec_calls < MaxRecCalls /\ rec_calls' = rec_calls + 1

RecGoto(r, to) == rec_at' = [rec_at EXCEPT ![r] = to]

SlotOnly == UNCHANGED <<rec_at, rec_lib, rec_event, rec_said, rec_secmems, channel, live>>

(* STB_PVRAcquireRecorderIndex gives out the first slot without a tuner.   *)
Acquire(r) ==
    /\ Begins(r)
    /\ ~rec[r].tuner /\ \A q \in Recorders : q < r => rec[q].tuner
    /\ rec' = [rec EXCEPT ![r].tuner = TRUE, ![r].rec_demux = TRUE]
    /\ SlotOnly

(* STB_PVRSetRecordStartMode and STB_PVRRecordSetCASStatus, which "should  *)
(* be called before the recording is started".                             *)
Prepare(r) ==
    /\ Begins(r) /\ rec[r].tuner /\ ~rec[r].recorder
    /\ \/ rec' = [rec EXCEPT ![r].rec_state = "STOPPED"]
       \/ \E smp \in BOOLEAN : rec' = [rec EXCEPT ![r].is_smp = smp]
    /\ SlotOnly

(* STB_PVRApplyDescramblerKey takes a channel for each audio PID and then  *)
(* for the video, if the recording has one and it has no channel.  Setting *)
(* the key in the channels is not part of the model.                       *)
ApplyDescramblerKey(r) ==
    /\ Begins(r) /\ rec[r].tuner
    /\ RecGoto(r, "keying")
    /\ UNCHANGED <<rec, rec_lib, rec_event, rec_said, rec_secmems, channel, live>>

(* The PID was stored in eight bits; aid_found stays TRUE for the PIDs     *)
(* after it, and the count goes up whether an entry was made or not.       *)
Keying(r) == rec_at[r] \in {"keying", "keying found"}

KeyAudio(r) ==
    /\ Keying(r) /\ rec[r].des_aids < MaxTracks
    /\ \E pid \in AudioPids :
          LET s == rec[r]
              found == \/ rec_at[r] = "keying found"
                       \/ \E i \in 1 .. s.des_aids : s.a_chanpids[i] = pid
              n == s.des_aids + 1
              c == IF found THEN s.a_chanids[n] ELSE ChannelFor(channel, pid, "descramble")
              p == IF c = NoChan THEN 255 ELSE IF found THEN s.a_chanpids[n] ELSE pid % 256
          IN  /\ rec' = [rec EXCEPT ![r] = [s EXCEPT !.des_aids = n, !.a_chanids[n] = c,
                                                     !.a_chanpids[n] = p]]
              /\ channel' = IF found THEN channel ELSE Taken(channel, c, pid, "descramble")
              /\ RecGoto(r, IF found THEN "keying found" ELSE "keying")
    /\ UNCHANGED <<rec_lib, rec_event, rec_said, rec_secmems, live, rec_calls>>

KeyVideo(r) ==
    /\ Keying(r)
    /\ \/ /\ rec[r].v_chanid = NoChan
          /\ LET c == ChannelFor(channel, VideoPid, "descramble")
             IN  /\ rec' = [rec EXCEPT ![r].v_chanid = c]
                 /\ channel' = Taken(channel, c, VideoPid, "descramble")
       \/ UNCHANGED <<rec, channel>>
    /\ RecGoto(r, "out")
    /\ UNCHANGED <<rec_lib, rec_event, rec_said, rec_secmems, live, rec_calls>>

(* STB_PVRApplyEncryptionKey does the same; a channel for audio that could *)
(* not be had is not counted.                                              *)
ApplyEncryptionKey(r) ==
    /\ Begins(r) /\ rec[r].tuner /\ (EncryptsFirst \/ rec[r].recorder)
    /\ RecGoto(r, "encrypting")
    /\ UNCHANGED <<rec, rec_lib, rec_event, rec_said, rec_secmems, channel, live>>

EncryptAudio(r) ==
    /\ rec_at[r] = "encrypting" /\ rec[r].rec_aids < MaxTracks
    /\ \E pid \in AudioPids :
          LET n == rec[r].rec_aids + 1
              c == ChannelFor(channel, pid, "encrypt")
          IN  /\ rec' = [rec EXCEPT ![r].rec_a_chanids[n] = c,
                                    ![r].rec_aids = IF c = NoChan THEN @ ELSE n]
              /\ channel' = Taken(channel, c, pid, "encrypt")
    /\ UNCHANGED <<rec_at, rec_lib, rec_event, rec_said, rec_secmems, live, rec_calls>>

EncryptVideo(r) ==
    /\ rec_at[r] = "encrypting"
    /\ \/ /\ rec[r].rec_v_chanid = NoChan
          /\ LET c == ChannelFor(channel, VideoPid, "encrypt")
             IN  /\ rec' = [rec EXCEPT ![r].rec_v_chanid = c]
                 /\ channel' = Taken(channel, c, VideoPid, "encrypt")
       \/ UNCHANGED <<rec, channel>>
    /\ RecGoto(r, "out")
    /\ UNCHANGED <<rec_lib, rec_event, rec_said, rec_secmems, live, rec_calls>>

(* Both lists of a slot go back; the numbers of the channels become -1.    *)
GiveBackDescramblers(s, dsc) ==
    [slot |-> [s EXCEPT !.a_chanids = [i \in Tracks |-> IF i <= s.des_aids THEN NoChan ELSE @[i]],
                        !.a_chanpids = [i \in Tracks |-> IF i <= s.des_aids THEN 255 ELSE @[i]],
                        !.des_aids = 0, !.v_chanid = NoChan],
     dsc |-> Freed(dsc, s, "descramble")]

(* A stop leaves rec_aids as it is; a release sets it to 0 as well.        *)
GiveBackEncryption(s, dsc) ==
    [slot |-> [s EXCEPT !.rec_a_chanids = [i \in Tracks |-> IF i <= s.rec_aids THEN NoChan ELSE @[i]],
                        !.rec_v_chanid = NoChan],
     dsc |-> IF s.rec_demux THEN Freed(dsc, s, "encrypt") ELSE dsc]

(* STB_PVRReleaseRecorderIndex forgets the demux before it gives back what *)
(* it took from it.  The stack stops a recorder first.                     *)
Release(r) ==
    /\ Begins(r) /\ rec[r].tuner /\ ~rec[r].recorder
    /\ LET gone == [rec[r] EXCEPT !.tuner = FALSE, !.rec_demux = FALSE]
           des == GiveBackDescramblers(gone, channel)
           enc == GiveBackEncryption(des.slot, des.dsc)
       IN  /\ rec' = [rec EXCEPT ![r] = [enc.slot EXCEPT !.rec_aids = 0]]
           /\ channel' = enc.dsc
    /\ UNCHANGED <<rec_at, rec_lib, rec_event, rec_said, rec_secmems, live>>

------------------------------------------------------------------------------
(* STB_PVRRecordStart.                                                     *)

(* For block mode encryption there is a secure buffer, which may not be    *)
(* had; the list of streams that follows is left out.                      *)
RecordStart(r) ==
    /\ Begins(r) /\ rec[r].tuner /\ ~rec[r].recorder
    /\ \E secmem \in IF rec[r].is_smp /\ IsM2M THEN BOOLEAN ELSE {FALSE} :
          /\ rec' = [rec EXCEPT ![r].secmem = @ \/ secmem]
          /\ rec_secmems' = [rec_secmems EXCEPT ![r] = IF secmem THEN @ + 1 ELSE @]
    /\ RecGoto(r, "creating")
    /\ UNCHANGED <<rec_lib, rec_event, rec_said, channel, live>>

Create(r) ==
    /\ rec_at[r] = "creating"
    /\ \/ /\ rec_lib' = [rec_lib EXCEPT ![r] = "created"]
          /\ rec' = [rec EXCEPT ![r].recorder = TRUE]
          /\ RecGoto(r, "starting")
       \/ /\ (IF rec[r].is_smp THEN "create smp" ELSE "create") \in StartFails
          /\ RecGoto(r, "out")
          /\ UNCHANGED <<rec, rec_lib>>
    /\ UNCHANGED <<rec_event, rec_said, rec_secmems, channel, live, rec_calls>>

SecmemGone(r) ==
    IF rec[r].is_smp /\ rec[r].secmem THEN [rec_secmems EXCEPT ![r] = @ - 1] ELSE rec_secmems

StartLib(r) ==
    /\ rec_at[r] = "starting"
    /\ \/ /\ rec_lib' = [rec_lib EXCEPT ![r] = "running"]
          /\ RecGoto(r, "started")
          /\ UNCHANGED <<rec, rec_secmems>>
       \/ /\ "start" \in StartFails
          /\ rec_secmems' = SecmemGone(r)
          /\ rec_lib' = [rec_lib EXCEPT ![r] = "none"]
          /\ rec' = [rec EXCEPT ![r].recorder = FALSE, ![r].secmem = @ /\ ~rec[r].is_smp]
          /\ RecGoto(r, "out")
    /\ UNCHANGED <<rec_event, rec_said, channel, live, rec_calls>>

(* The library is at work, and its thread may have an event, before the    *)
(* state says so; the flag follows.                                        *)
SetStarting(r) ==
    /\ rec_at[r] = "started"
    /\ rec' = [rec EXCEPT ![r].rec_state = "STARTING"]
    /\ RecGoto(r, "flagging")
    /\ UNCHANGED <<rec_lib, rec_event, rec_said, rec_secmems, channel, live, rec_calls>>

ClearStartFlag(r) ==
    /\ rec_at[r] = "flagging"
    /\ rec' = [rec EXCEPT ![r].rec_start_flag = FALSE]
    /\ RecGoto(r, "out")
    /\ UNCHANGED <<rec_lib, rec_event, rec_said, rec_secmems, channel, live, rec_calls>>

------------------------------------------------------------------------------
(* STB_PVRRecordPause and STB_PVRRecordResume set the state whether the    *)
(* library could or not.  A change of the PIDs only concerns the library.  *)

RecordPause(r) ==
    /\ Begins(r) /\ rec[r].recorder
    /\ rec' = [rec EXCEPT ![r].rec_state = "PAUSED"]
    /\ rec_lib' \in {rec_lib, [rec_lib EXCEPT ![r] = "paused"]}
    /\ UNCHANGED <<rec_at, rec_event, rec_said, rec_secmems, channel, live>>

RecordResume(r) ==
    /\ Begins(r) /\ rec[r].recorder
    /\ rec' = [rec EXCEPT ![r].rec_state = "STARTED"]
    /\ rec_lib' \in {rec_lib, [rec_lib EXCEPT ![r] = "running"]}
    /\ UNCHANGED <<rec_at, rec_event, rec_said, rec_secmems, channel, live>>

------------------------------------------------------------------------------
(* STB_PVRRecordStop.                                                      *)

RecordStop(r) ==
    /\ Begins(r)
    /\ rec[r].recorder /\ rec[r].rec_state # "STOPPED"
    /\ rec_secmems' = SecmemGone(r)
    /\ rec' = [rec EXCEPT ![r].rec_state = "STOPPED", ![r].secmem = @ /\ ~rec[r].is_smp]
    /\ rec_lib' = [rec_lib EXCEPT ![r] = "stopped"]
    /\ RecGoto(r, "giving back")
    /\ UNCHANGED <<rec_event, rec_said, channel, live>>

(* The video is left out; only a mutant uses it.                           *)
GiveBackAudio(r) ==
    /\ rec_at[r] = "giving back"
    /\ LET des == GiveBackDescramblers([rec[r] EXCEPT !.v_chanid = NoChan], channel)
       IN  rec' = [rec EXCEPT ![r] = des.slot] /\ channel' = des.dsc
    /\ RecGoto(r, "destroying")
    /\ UNCHANGED <<rec_lib, rec_event, rec_said, rec_secmems, live, rec_calls>>

(* Without the lock, which the code says is for others to get on.          *)
GiveBack(r) ==
    /\ rec_at[r] = "giving back"
    /\ LET des == GiveBackDescramblers(rec[r], channel)
           enc == GiveBackEncryption(des.slot, des.dsc)
       IN  rec' = [rec EXCEPT ![r] = enc.slot] /\ channel' = enc.dsc
    /\ RecGoto(r, "destroying")
    /\ UNCHANGED <<rec_lib, rec_event, rec_said, rec_secmems, live, rec_calls>>

(* Aml_MP_DVRRecorder_Destroy returns when the library's thread is out of  *)
(* RecEventHandler, and ends its events.                                   *)
Destroy(r) ==
    /\ rec_at[r] = "destroying"
    /\ rec_event[r] = "none"
    /\ rec_lib' = [rec_lib EXCEPT ![r] = "none"]
    /\ rec' = [rec EXCEPT ![r].recorder = FALSE]
    /\ RecGoto(r, "reporting")
    /\ UNCHANGED <<rec_event, rec_said, rec_secmems, channel, live, rec_calls>>

(* The state is left to the beginning of the stop; only a mutant uses it.  *)
ReportStopOnly(r) ==
    /\ rec_at[r] = "reporting"
    /\ rec_said' = [rec_said EXCEPT ![r] = "STOP"]
    /\ rec' = [rec EXCEPT ![r].is_smp = FALSE]
    /\ RecGoto(r, "out")
    /\ UNCHANGED <<rec_lib, rec_event, rec_secmems, channel, live, rec_calls>>

(* The state is set again, since the handler may have changed it.          *)
ReportStop(r) ==
    /\ rec_at[r] = "reporting"
    /\ rec_said' = [rec_said EXCEPT ![r] = "STOP"]
    /\ rec' = [rec EXCEPT ![r].rec_state = "STOPPED", ![r].is_smp = FALSE]
    /\ RecGoto(r, "out")
    /\ UNCHANGED <<rec_lib, rec_event, rec_secmems, channel, live, rec_calls>>

------------------------------------------------------------------------------
(* RecEventHandler, in the library's thread: a status that says started is *)
(* looked at, and then believed.  After a write error the stop is reported *)
(* and nothing else changes.                                               *)

Events(r) == rec_lib[r] \notin {"none", "created"} /\ rec_event[r] = "none"

ReadStatus(r) ==
    /\ Events(r)
    /\ rec_event' = [rec_event EXCEPT ![r] =
           IF \/ rec[r].rec_state = "STARTING"
              \/ ~rec[r].rec_start_flag /\ rec[r].rec_state = "STARTED"
           THEN "start" ELSE "store"]
    /\ UNCHANGED <<rec, rec_at, rec_lib, rec_said, rec_secmems, channel, live, rec_calls>>

TakeStatus(r) ==
    /\ rec_event[r] \in {"start", "store"}
    /\ IF rec_event[r] = "start"
       THEN /\ rec' = [rec EXCEPT ![r].rec_state = "STARTED", ![r].rec_start_flag = TRUE]
            /\ rec_said' = [rec_said EXCEPT ![r] = "START"]
       ELSE rec_said' = [rec_said EXCEPT ![r] = "STORE"] /\ UNCHANGED rec
    /\ rec_event' = [rec_event EXCEPT ![r] = "none"]
    /\ UNCHANGED <<rec_at, rec_lib, rec_secmems, channel, live, rec_calls>>

WriteError(r) ==
    /\ Events(r) /\ rec_lib[r] = "running"
    /\ rec_said' = [rec_said EXCEPT ![r] = "STOP"]
    /\ UNCHANGED <<rec, rec_at, rec_lib, rec_event, rec_secmems, channel, live, rec_calls>>

(* A live service takes a channel for the same video, and frees it.        *)
LiveTakes ==
    /\ live = NoChan
    /\ LET c == ChannelFor(channel, VideoPid, "descramble")
       IN  live' = c /\ channel' = Taken(channel, c, VideoPid, "descramble") /\ c # NoChan
    /\ UNCHANGED <<rec, rec_at, rec_lib, rec_event, rec_said, rec_secmems, rec_calls>>

LiveFrees ==
    /\ live # NoChan
    /\ live' = NoChan
    /\ channel' = IF channel[live].ref > 0 THEN [channel EXCEPT ![live].ref = @ - 1] ELSE channel
    /\ UNCHANGED <<rec, rec_at, rec_lib, rec_event, rec_said, rec_secmems, rec_calls>>

RecCaller(r) == \/ Acquire(r) \/ Prepare(r) \/ ApplyDescramblerKey(r) \/ KeyAudio(r)
                \/ KeyVideo(r) \/ ApplyEncryptionKey(r) \/ EncryptAudio(r)
                \/ EncryptVideo(r) \/ Release(r) \/ RecordStart(r) \/ Create(r) \/ StartLib(r)
                \/ SetStarting(r) \/ ClearStartFlag(r) \/ RecordPause(r) \/ RecordResume(r)
                \/ RecordStop(r) \/ GiveBack(r) \/ Destroy(r) \/ ReportStop(r)

RecNext == \/ \E r \in Recorders : RecCaller(r) \/ ReadStatus(r) \/ TakeStatus(r) \/ WriteError(r)
           \/ LiveTakes \/ LiveFrees

RecSpec == RecInit /\ [][RecNext]_recVars

------------------------------------------------------------------------------
RecTypeOK ==
    /\ rec_at \in [Recorders -> {"out", "keying", "keying found", "encrypting",
                                "creating", "starting", "started", "flagging",
                                "giving back", "destroying", "reporting"}]
    /\ rec_lib \in [Recorders -> {"none", "created", "running", "paused", "stopped"}]
    /\ rec_event \in [Recorders -> {"none", "start", "store"}]
    /\ rec_said \in [Recorders -> {"none", "START", "STORE", "STOP"}]
    /\ rec_secmems \in [Recorders -> Nat]
    /\ channel \in [Chans -> [pid : Nat, use : {"none", "descramble", "encrypt"}, ref : Nat]]
    /\ live \in Chans \cup {NoChan} /\ rec_calls \in 0 .. MaxRecCalls
    /\ \A r \in Recorders :
          /\ rec[r].rec_state \in {"STOPPED", "STARTING", "STARTED", "PAUSED"}
          /\ rec[r].des_aids \in 0 .. MaxTracks /\ rec[r].rec_aids \in 0 .. MaxTracks
          /\ rec[r].v_chanid \in Chans \cup {NoChan} /\ rec[r].rec_v_chanid \in Chans \cup {NoChan}
          /\ rec[r].a_chanids \in [Tracks -> Chans \cup {NoChan}]

(* A recorder that nobody is stopping or starting, and that is not there   *)
(* in the library either, is stopped, and the last that was said of it is  *)
(* that it stopped: no event that was under way brings it back.            *)
RestIsStopped ==
    \A r \in Recorders : rec_at[r] = "out" /\ ~rec[r].recorder =>
        /\ rec[r].rec_state = "STOPPED"
        /\ rec_lib[r] = "none"
        /\ rec_said[r] \in {"none", "STOP"}

(* Every reference to a descrambler channel is one of the live service or  *)
(* of an entry of a recorder, and every entry has its reference: what is   *)
(* given back is what was taken, on every way a recording can end.         *)
Holders(c) == {h \in Recorders \X ChannelUses \X EntryNos : ChanOf(rec[h[1]], h[2], h[3]) = c}

ChannelsBalanced ==
    \A c \in Chans : channel[c].ref = Cardinality(Holders(c)) + (IF live = c THEN 1 ELSE 0)

(* A secure buffer of a recorder is one that the recorder knows of.        *)
SecmemsOwned == \A r \in Recorders : rec_secmems[r] = IF rec[r].secmem THEN 1 ELSE 0

(* What recorders took, of channels and of secure memory, is what they     *)
(* know to give back.                                                      *)
TakenIsKnown == ChannelsBalanced /\ SecmemsOwned
=============================================================================
