----------------------------- MODULE DscChannels -----------------------------
(***************************************************************************)
(* hw/src/stbhwdmx.c on an SC2: the table of descrambler channels, shared  *)
(* by the tracks of the live services and by the recorders, and what a     *)
(* track does with it.  STB_DMXDscAlloc, STB_DMXSetKey and STB_DMXDscFree  *)
(* hold dsc->mutex from end to end and are one step each; ApplyKey,        *)
(* ClearKey and ResetDscChannel call them one after the other without a    *)
(* lock, so that the calls of several users mix.                           *)
(*                                                                         *)
(* The descrambler type is taken to be part of the PID, as the table takes *)
(* it, and there is one transport stream source (STB_GetDmxTsSource).      *)
(***************************************************************************)
EXTENDS Integers, FiniteSets, Functions

CONSTANTS Users,        \* tracks and recorders
          Devs,         \* demux paths; each has its descrambler device
          dsc_dev,      \* the device of each user
          Pids, Data,   \* PIDs other than 0; key data
          Slots,        \* the SC2_DSC_CH_NUM entries of dsc_pid_channel
          Chans, Keys,  \* the channels and the keys the hardware has
          MayFail,      \* a device may fail to open, an ioctl to allocate
          MaxCalls      \* bound: calls that the users make

ASSUME UsersAssumption == IsFiniteSet(Users)
ASSUME SlotsAssumption == Slots \subseteq Nat /\ IsFiniteSet(Slots)
ASSUME IdsAssumption == Chans \subseteq Nat /\ Keys \subseteq Nat
ASSUME DevsAssumption == dsc_dev \in [Users -> Devs]

None == -1                  \* no channel, no key
NoPid == 0
Parities == {"even", "odd"}
KeyKinds == Parities \X {"key", "iv"}

VARIABLES dsc_fd, dsc_ref,      \* of each device: open, reference count
          dsc_pid_channel,      \* the table
          hw_chans,             \* channels that CA_ALLOC gave out
          hw_keys,              \* keys that KEY_ALLOC gave out, and what is
                                \* loaded in them
          track,                \* S_DES_TRACK_INFO of each user, its PID, and
                                \* where it is in its call
          calls

deviceVars == <<dsc_fd, dsc_ref, dsc_pid_channel, hw_chans, hw_keys>>
vars == <<dsc_fd, dsc_ref, dsc_pid_channel, hw_chans, hw_keys, track, calls>>

FreeSlot == [ref |-> 0, pid |-> NoPid, dev_id |-> None, chan_id |-> None,
             key_id |-> [k \in KeyKinds |-> None]]

(* STB_DMXInitialise                                                       *)
Init ==
    /\ dsc_fd = [d \in Devs |-> FALSE]
    /\ dsc_ref = [d \in Devs |-> 0]
    /\ dsc_pid_channel = [s \in Slots |-> FreeSlot]
    /\ hw_chans = {}
    /\ hw_keys = [k \in {} |-> "empty"]
    /\ track = [u \in Users |-> [at |-> "out", chanid |-> None, pid |-> NoPid,
                                 parity |-> "none", data |-> "none"]]
    /\ calls = 0

Least(S) == CHOOSE s \in S : \A r \in S : s <= r
Used == {s \in Slots : dsc_pid_channel[s].ref > 0}

------------------------------------------------------------------------------
(* The table.                                                              *)

(* dev_id not compared; only a mutant uses it.                             *)
FindByPidAnywhere(pid, dev) == {s \in Used : dsc_pid_channel[s].pid = pid}

(* sc2_find_dsc_channel_by_pid, sc2_find_dsc_channel_by_channel            *)
FindByPid(pid, dev) ==
    {s \in Used : dsc_pid_channel[s].pid = pid /\ dsc_pid_channel[s].dev_id = dev}

FindByChannel(chan) == {s \in Used : dsc_pid_channel[s].chan_id = chan}

(* A second user that is not counted; only a mutant uses it.               *)
ShareUncounted(s, u) ==
    /\ dsc_ref' = [dsc_ref EXCEPT ![dsc_dev[u]] = @ + 1]
    /\ track' = [track EXCEPT ![u].chanid = dsc_pid_channel[s].chan_id,
          ![u].at = IF dsc_pid_channel[s].chan_id = None THEN "out" ELSE "keying"]
    /\ UNCHANGED <<dsc_pid_channel, hw_chans>>

(* The PID has its channel already: one user more, of the channel and of   *)
(* the device.                                                             *)
Share(s, u) ==
    /\ dsc_pid_channel' = [dsc_pid_channel EXCEPT ![s].ref = @ + 1]
    /\ dsc_ref' = [dsc_ref EXCEPT ![dsc_dev[u]] = @ + 1]
    /\ track' = [track EXCEPT ![u].chanid = dsc_pid_channel[s].chan_id,
          ![u].at = IF dsc_pid_channel[s].chan_id = None THEN "out" ELSE "keying"]
    /\ UNCHANGED hw_chans

(* A new channel.  The result of CA_ALLOC is not looked at: ca_index = -1  *)
(* takes a slot like any other.  With a full table the channel is given    *)
(* out by the hardware and entered nowhere.                                *)
Enter(chan, u) ==
    LET free == Slots \ Used
        got  == IF free = {} THEN None ELSE chan
    IN  /\ hw_chans' = hw_chans \cup ({chan} \ {None})
        /\ IF free = {} THEN UNCHANGED <<dsc_pid_channel, dsc_ref>>
           ELSE /\ dsc_pid_channel' = [dsc_pid_channel EXCEPT ![Least(free)] =
                       [FreeSlot EXCEPT !.ref = 1, !.pid = track[u].pid,
                                        !.dev_id = dsc_dev[u], !.chan_id = chan]]
                /\ dsc_ref' = [dsc_ref EXCEPT ![dsc_dev[u]] = @ + 1]
        /\ track' = [track EXCEPT ![u].chanid = got,
                        ![u].at = IF got = None THEN "out" ELSE "keying"]

(* CA_ALLOC: a channel nobody has, or a failure.                           *)
Grants ==
    LET free == Chans \ hw_chans
    IN  (IF free = {} THEN {None} ELSE {Least(free)})
            \cup (IF MayFail THEN {None} ELSE {})

(* STB_DMXDscAlloc                                                         *)
Alloc(u) ==
    LET d == dsc_dev[u]
        known == FindByPid(track[u].pid, d)
    IN  /\ track[u].at = "allocating"
        /\ \/ /\ dsc_fd' = [dsc_fd EXCEPT ![d] = TRUE]
              /\ IF known # {} THEN Share(Least(known), u)
                 ELSE \E chan \in Grants : Enter(chan, u)
           \/ /\ MayFail /\ dsc_ref[d] = 0 /\ ~dsc_fd[d]
              /\ track' = [track EXCEPT ![u].at = "out"]
              /\ UNCHANGED <<dsc_fd, dsc_ref, dsc_pid_channel, hw_chans>>
        /\ UNCHANGED <<hw_keys, calls>>

KeysOf(s) == {dsc_pid_channel[s].key_id[k] : k \in KeyKinds} \ {None}

(* key_free of all that the slot names.                                    *)
KeyFree(s) == KeysOf(s)

(* STB_DMXDscFree.  A channel that others use loses one reference, its     *)
(* device none, and the device is not looked at.                           *)
Free(u) ==
    LET d == dsc_dev[u]
        mine == FindByChannel(track[u].chanid)
        s == Least(mine)
        last == mine # {} /\ dsc_pid_channel[s].ref = 1
        shared == mine # {} /\ ~last
    IN  /\ track[u].at = "freeing"
        /\ dsc_pid_channel' =
              IF shared THEN [dsc_pid_channel EXCEPT ![s].ref = @ - 1]
              ELSE IF last THEN [dsc_pid_channel EXCEPT ![s] = FreeSlot]
              ELSE dsc_pid_channel
        /\ hw_chans' = IF last THEN hw_chans \ {track[u].chanid} ELSE hw_chans
        /\ hw_keys' = IF last THEN Restrict(hw_keys, DOMAIN hw_keys \ KeyFree(s))
                              ELSE hw_keys
        /\ dsc_ref' = IF last THEN [dsc_ref EXCEPT ![d] = @ - 1] ELSE dsc_ref
        /\ dsc_fd' = IF shared THEN dsc_fd
                     ELSE [dsc_fd EXCEPT ![d] = @ /\ dsc_ref'[d] # 0]
        /\ track' = [track EXCEPT ![u].chanid = None, ![u].at =
              IF track[u].pid # NoPid /\ track[u].parity # "none"
              THEN "allocating" ELSE "out"]
        /\ UNCHANGED calls

(* key_alloc of one key or none: what the slot names is kept, what it does *)
(* not is asked for.                                                       *)
KeyGrants(has, taken) ==
    IF has # None THEN {has}
    ELSE LET free == Keys \ (DOMAIN hw_keys \cup taken)
         IN  (IF free = {} THEN {None} ELSE {Least(free)})
                 \cup (IF MayFail THEN {None} ELSE {})

(* STB_DMXSetKey: the key and the vector of one parity, unless somebody    *)
(* else uses the channel too.                                              *)
SetKey(u) ==
    LET mine == FindByChannel(track[u].chanid)
        s == Least(mine)
        k == <<track[u].parity, "key">>
        v == <<track[u].parity, "iv">>
    IN  /\ track[u].at = "keying"
        /\ IF mine = {} \/ dsc_pid_channel[s].ref > 1
           THEN UNCHANGED <<dsc_pid_channel, hw_keys>>
           ELSE \E key \in KeyGrants(dsc_pid_channel[s].key_id[k], {}) :
                \E iv \in KeyGrants(dsc_pid_channel[s].key_id[v], {key}) :
                    LET got == {key, iv} \ {None}
                    IN  /\ dsc_pid_channel' = [dsc_pid_channel EXCEPT
                               ![s].key_id[k] = key, ![s].key_id[v] = iv]
                        /\ hw_keys' = [i \in DOMAIN hw_keys \cup got |->
                               IF i \in got THEN track[u].data ELSE hw_keys[i]]
        /\ track' = [track EXCEPT ![u].at = "out"]
        /\ UNCHANGED <<dsc_fd, dsc_ref, hw_chans, calls>>

------------------------------------------------------------------------------
(* The calls of the users.                                                 *)

Calls(u) ==
    /\ track[u].at = "out"
    /\ calls < MaxCalls
    /\ calls' = calls + 1
    /\ UNCHANGED deviceVars

(* STB_DMXSetDescramblerKeyData: the key of the other parity is forgotten. *)
(* ApplyKey does nothing without a PID.                                    *)
SetDescramblerKeyData(u) ==
    /\ Calls(u)
    /\ \E p \in Parities, d \in Data :
          track' = [track EXCEPT ![u].parity = p, ![u].data = d, ![u].at =
              IF track[u].pid = NoPid THEN "out"
              ELSE IF track[u].chanid = None THEN "allocating" ELSE "keying"]

(* ClearKey, from STB_DMXGetDescramblerKey and STB_DMXFreeDescramblerKey   *)
(* and, with a PID of 0, from STB_DMXChangeDecodePIDs.                     *)
ClearKey(u) ==
    /\ Calls(u)
    /\ \E pid \in {track[u].pid, NoPid} :
          track' = [track EXCEPT ![u].pid = pid, ![u].parity = "none",
                        ![u].data = "none", ![u].at =
                        IF track[u].chanid = None THEN "out" ELSE "freeing"]

(* STB_DMXChangeDecodePIDs with another PID, on a path that does not play  *)
(* from memory: ResetDscChannel, ApplyKey.                                 *)
ChangePid(u) ==
    /\ Calls(u)
    /\ \E pid \in Pids \ {track[u].pid} :
          track' = [track EXCEPT ![u].pid = pid, ![u].at =
                        IF track[u].chanid # None THEN "freeing"
                        ELSE IF track[u].parity # "none" THEN "allocating"
                        ELSE "out"]

Next == \E u \in Users :
            \/ SetDescramblerKeyData(u) \/ ClearKey(u) \/ ChangePid(u)
            \/ Alloc(u) \/ SetKey(u) \/ Free(u)

Spec == Init /\ [][Next]_vars

------------------------------------------------------------------------------
TypeOK ==
    /\ dsc_fd \in [Devs -> BOOLEAN]
    /\ dsc_ref \in [Devs -> 0 .. MaxCalls]
    /\ dsc_pid_channel \in [Slots ->
           [ref : 0 .. MaxCalls, pid : Pids \cup {NoPid}, dev_id : Devs \cup {None},
            chan_id : Chans \cup {None}, key_id : [KeyKinds -> Keys \cup {None}]]]
    /\ hw_chans \subseteq Chans
    /\ DOMAIN hw_keys \subseteq Keys /\ Range(hw_keys) \subseteq Data
    /\ track \in [Users -> [at : {"out", "allocating", "keying", "freeing"},
                            chanid : Chans \cup {None}, pid : Pids \cup {NoPid},
                            parity : Parities \cup {"none"}, data : Data \cup {"none"}]]
    /\ calls \in 0 .. MaxCalls

(* What a user holds works: the channel is the one of its PID on its own   *)
(* device, the hardware has it and the device is open, whatever the other  *)
(* users freed in the meantime.                                            *)
HeldChannelWorks ==
    \A u \in Users : track[u].chanid # None =>
        \E s \in FindByChannel(track[u].chanid) :
            /\ dsc_pid_channel[s].dev_id = dsc_dev[u]
            /\ dsc_pid_channel[s].pid = track[u].pid \/ track[u].at = "freeing"
            /\ track[u].chanid \in hw_chans
            /\ dsc_fd[dsc_dev[u]]

(* A channel is counted once for every user that holds it: it is given     *)
(* back when the last of them frees it and not before.                     *)
RefsAreHolders ==
    \A s \in Used : dsc_pid_channel[s].chan_id # None =>
        dsc_pid_channel[s].ref =
            Cardinality({u \in Users : track[u].chanid = dsc_pid_channel[s].chan_id})

(* Every key that the hardware gave out is named once, in a channel in     *)
(* use: no key is lost when channels come and go, and none is shared.      *)
KeysHaveOwner ==
    /\ DOMAIN hw_keys = UNION {KeysOf(s) : s \in Used}
    /\ \A s, r \in Used, k, j \in KeyKinds :
          /\ dsc_pid_channel[s].key_id[k] = dsc_pid_channel[r].key_id[j]
          /\ dsc_pid_channel[s].key_id[k] # None
          => s = r /\ k = j

(* The table and the hardware agree about who has what.                    *)
TableBalanced == RefsAreHolders /\ KeysHaveOwner

(* STB_DMXSetDescramblerKeyData "Set the descrambler key data for the      *)
(* specified track on this path", "TRUE on success" (stbhwdmx.c:2797): the *)
(* key it was given is the one the channel descrambles with afterwards.    *)
KeyTakesEffect ==
    [][\A u \in Users : track[u].at = "keying" /\ track'[u].at = "out" =>
          \E s \in FindByChannel(track[u].chanid) :
              LET k == dsc_pid_channel'[s].key_id[<<track[u].parity, "key">>]
              IN  k # None /\ hw_keys'[k] = track[u].data]_vars
=============================================================================
