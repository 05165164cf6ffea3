------------------------- MODULE DscChannelsProofs -------------------------
(***************************************************************************)
(* The table of descrambler channels, for any users, devices, slots,       *)
(* channels and keys, and whatever the hardware refuses: what a user holds *)
(* works, the counts are right and no key is lost.                         *)
(***************************************************************************)
EXTENDS DscChannels, FiniteSetTheorems, WellFoundedInduction, TLAPS

(* What the table says of a slot, and who holds its channel.               *)
Chan(s) == dsc_pid_channel[s].chan_id
Holders(c) == {u \in Users : track[u].chanid = c}
SlotsOf(d) == {s \in Used : dsc_pid_channel[s].dev_id = d}

Entry == [ref : Nat, pid : Pids \cup {NoPid}, dev_id : Devs \cup {None},
          chan_id : Chans \cup {None}, key_id : [KeyKinds -> Keys \cup {None}]]

Track == [at : {"out", "allocating", "keying", "freeing"}, chanid : Chans \cup {None},
          pid : Pids \cup {NoPid}, parity : Parities \cup {"none"},
          data : Data \cup {"none"}]

Types ==
    /\ dsc_fd \in [Devs -> BOOLEAN]
    /\ dsc_ref \in [Devs -> Nat]
    /\ dsc_pid_channel \in [Slots -> Entry]
    /\ hw_chans \subseteq Chans
    /\ track \in [Users -> Track]

(* Where a user is in its call says whether it has a channel, and a key.   *)
Consistent(des) ==
    /\ des.at = "allocating" => des.chanid = None
    /\ des.at \in {"keying", "freeing"} => des.chanid # None
    /\ des.at \in {"allocating", "keying"} => des.parity \in Parities

CallInv == \A u \in Users : Consistent(track[u])

(* No channel is in two slots, and the hardware has those that are.        *)
TableInv ==
    /\ \A s \in Used : Chan(s) # None => Chan(s) \in hw_chans
    /\ \A s, r \in Used : Chan(s) = Chan(r) /\ Chan(s) # None => s = r

(* A channel that is held is in a slot for its PID and its device.         *)
HeldInv ==
    \A u \in Users : track[u].chanid # None =>
        \E s \in Used :
            /\ Chan(s) = track[u].chanid
            /\ dsc_pid_channel[s].dev_id = dsc_dev[u]
            /\ dsc_pid_channel[s].pid = track[u].pid \/ track[u].at = "freeing"

(* The device of every slot in use is open; its count is never below the   *)
(* number of these slots.  It may be above: a shared channel that is freed *)
(* leaves it as it is.                                                     *)
DeviceInv ==
    /\ \A s \in Used : dsc_pid_channel[s].dev_id \in Devs
    /\ \A s \in Used : dsc_fd[dsc_pid_channel[s].dev_id]
    /\ \A d \in Devs : dsc_ref[d] >= Cardinality(SlotsOf(d))

DscInv == Types /\ CallInv /\ TableInv /\ HeldInv /\ DeviceInv /\ RefsAreHolders /\ KeysHaveOwner

------------------------------------------------------------------------------
(* Lemmas about the table.                                                 *)

LEMMA LeastIn ==
    ASSUME NEW S \in SUBSET Nat, S # {} PROVE Least(S) \in S
<1>1. PICK x \in S : \A y \in S : ~(<<y, x>> \in OpToRel(<, Nat))
  BY NatLessThanWellFounded, WFMin
<1>2. \A y \in S : x <= y
  <2> SUFFICES ASSUME NEW y \in S, y < x PROVE FALSE
    OBVIOUS
  <2>1. <<y, x>> \in Nat \X Nat
    OBVIOUS
  <2> QED
    BY <1>1, <2>1 DEF OpToRel
<1> QED
  BY <1>2 DEF Least

LEMMA LeastOfOne ==
    ASSUME NEW s \in Nat PROVE Least({s}) = s
BY LeastIn

(* What changes when one user gets or loses a channel.                     *)
LEMMA HoldersChange ==
    ASSUME Types, NEW u \in Users, NEW c \in Chans,
           \A w \in Users \ {u} : track'[w].chanid = track[w].chanid
    PROVE  /\ Cardinality(Holders(c)) \in Nat
           /\ u \in Holders(c) /\ Cardinality(Holders(c)) = 1 => Holders(c) = {u}
           /\ (track'[u].chanid = c <=> track[u].chanid = c) => Holders(c)' = Holders(c)
           /\ track'[u].chanid = c /\ track[u].chanid # c =>
                  Cardinality(Holders(c)') = Cardinality(Holders(c)) + 1
           /\ track'[u].chanid # c /\ track[u].chanid = c =>
                  Cardinality(Holders(c)') = Cardinality(Holders(c)) - 1
<1>1. IsFiniteSet(Holders(c)) /\ Cardinality(Holders(c)) \in Nat
  BY UsersAssumption, FS_Subset, FS_CardinalityType DEF Holders
<1>2. ASSUME u \in Holders(c), Cardinality(Holders(c)) = 1 PROVE Holders(c) = {u}
  BY <1>1, <1>2, FS_Singleton
<1>3. ASSUME track'[u].chanid = c <=> track[u].chanid = c PROVE Holders(c)' = Holders(c)
  BY <1>3 DEF Holders
<1>4. ASSUME track'[u].chanid = c, track[u].chanid # c
      PROVE  Cardinality(Holders(c)') = Cardinality(Holders(c)) + 1
  <2>1. Holders(c)' = Holders(c) \cup {u} /\ u \notin Holders(c)
    BY <1>4 DEF Holders
  <2> QED
    BY <1>1, <2>1, FS_AddElement
<1>5. ASSUME track'[u].chanid # c, track[u].chanid = c
      PROVE  Cardinality(Holders(c)') = Cardinality(Holders(c)) - 1
  <2>1. Holders(c)' = Holders(c) \ {u} /\ u \in Holders(c)
    BY <1>5 DEF Holders
  <2> QED
    BY <1>1, <2>1, FS_RemoveElement
<1> QED
  BY <1>1, <1>2, <1>3, <1>4, <1>5

LEMMA SlotsFinite ==
    ASSUME NEW d PROVE IsFiniteSet(SlotsOf(d)) /\ Cardinality(SlotsOf(d)) \in Nat
BY SlotsAssumption, FS_Subset, FS_CardinalityType DEF SlotsOf, Used

(* Who holds a channel finds its slot, and it alone.                       *)
LEMMA HeldSlot ==
    ASSUME DscInv, NEW u \in Users, track[u].chanid # None
    PROVE  \E s \in Used :
               /\ FindByChannel(track[u].chanid) = {s}
               /\ Least(FindByChannel(track[u].chanid)) = s
               /\ Chan(s) = track[u].chanid
               /\ dsc_pid_channel[s].dev_id = dsc_dev[u]
<1>1. PICK s \in Used : Chan(s) = track[u].chanid /\ dsc_pid_channel[s].dev_id = dsc_dev[u]
  BY DEF DscInv, HeldInv
<1>2. FindByChannel(track[u].chanid) = {s}
  BY <1>1 DEF FindByChannel, DscInv, TableInv, Chan
<1>3. s \in Nat
  BY SlotsAssumption DEF Used
<1> QED
  BY <1>1, <1>2, <1>3, LeastOfOne

(* The keys of the hardware, one by one.                                   *)
KeyNamed(x) ==
    x # None /\ \E s \in Used, k \in KeyKinds : dsc_pid_channel[s].key_id[k] = x

LEMMA KeysNamed ==
    /\ DOMAIN hw_keys = UNION {KeysOf(s) : s \in Used}
           <=> \A x : x \in DOMAIN hw_keys <=> KeyNamed(x)
    /\ (DOMAIN hw_keys = UNION {KeysOf(s) : s \in Used})'
           <=> \A x : x \in DOMAIN hw_keys' <=> KeyNamed(x)'
<1>1. \A x : x \in UNION {KeysOf(s) : s \in Used} <=> KeyNamed(x)
  BY DEF KeysOf, KeyNamed
<1>2. \A x : x \in (UNION {KeysOf(s) : s \in Used})' <=> KeyNamed(x)'
  BY DEF KeysOf, KeyNamed
<1>3. \A S, T : S = T <=> \A x : x \in S <=> x \in T
  OBVIOUS
<1>4. DOMAIN hw_keys = UNION {KeysOf(s) : s \in Used}
          <=> \A x : x \in DOMAIN hw_keys <=> x \in UNION {KeysOf(s) : s \in Used}
  BY <1>3
<1>5. (DOMAIN hw_keys = UNION {KeysOf(s) : s \in Used})'
          <=> \A x : x \in DOMAIN hw_keys' <=> x \in (UNION {KeysOf(s) : s \in Used})'
  BY <1>3
<1> QED
  BY <1>1, <1>2, <1>4, <1>5

------------------------------------------------------------------------------
LEMMA DscInitInv == Init => DscInv
<1> SUFFICES ASSUME Init PROVE DscInv
  OBVIOUS
<1>1. Used = {}
  BY DEF Init, Used, FreeSlot
<1>2. Types
  BY DEF Init, Types, FreeSlot, Entry, Track
<1>3. CallInv /\ TableInv /\ HeldInv /\ RefsAreHolders
  BY <1>1 DEF Init, CallInv, Consistent, TableInv, HeldInv, RefsAreHolders
<1>4. DeviceInv
  <2>1. \A d \in Devs : SlotsOf(d) = {} /\ dsc_ref[d] = 0
    BY <1>1 DEF SlotsOf, Init
  <2> QED
    BY <1>1, <2>1, FS_EmptySet DEF DeviceInv
<1>5. KeysHaveOwner
  BY <1>1 DEF Init, KeysHaveOwner
<1> QED
  BY <1>2, <1>3, <1>4, <1>5 DEF DscInv

(* A user begins a call: the table stays as it is, and so does the channel *)
(* of the user.                                                            *)
LEMMA BeginStep ==
    ASSUME DscInv, NEW u \in Users,
           SetDescramblerKeyData(u) \/ ClearKey(u) \/ ChangePid(u)
    PROVE  DscInv'
<1> USE DEF DscInv
<1>1. UNCHANGED deviceVars /\ track[u].at = "out"
  BY DEF SetDescramblerKeyData, ClearKey, ChangePid, Calls
<1>2. /\ track' = [track EXCEPT ![u] = track'[u]]
      /\ track'[u] \in Track
      /\ Consistent(track'[u])
      /\ track'[u].chanid = track[u].chanid
      /\ track[u].chanid # None =>
             track'[u].at = "freeing" \/ track'[u].pid = track[u].pid
  <2>0. track \in [Users -> Track] /\ track[u] \in Track
    BY DEF Types
  <2>1. CASE SetDescramblerKeyData(u)
    <3> DEFINE to == IF track[u].pid = NoPid THEN "out"
                     ELSE IF track[u].chanid = None THEN "allocating" ELSE "keying"
    <3>1. PICK p \in Parities, d \in Data :
              track' = [track EXCEPT ![u].parity = p, ![u].data = d, ![u].at = to]
      BY <2>1 DEF SetDescramblerKeyData
    <3>2. to \in {"out", "allocating", "keying"}
          /\ (to = "allocating" => track[u].chanid = None)
          /\ (to = "keying" => track[u].chanid # None)
      OBVIOUS
    <3> HIDE DEF to
    <3>3. track'[u] = [track[u] EXCEPT !.parity = p, !.data = d, !.at = to]
          /\ track' = [track EXCEPT ![u] = track'[u]]
      BY <2>0, <3>1
    <3> QED
      BY <2>0, <3>2, <3>3 DEF Track, Consistent
  <2>2. CASE ClearKey(u)
    <3> DEFINE to == IF track[u].chanid = None THEN "out" ELSE "freeing"
    <3>1. PICK pid \in {track[u].pid, NoPid} :
              track' = [track EXCEPT ![u].pid = pid, ![u].parity = "none",
                                     ![u].data = "none", ![u].at = to]
      BY <2>2 DEF ClearKey
    <3>2. /\ to \in {"out", "freeing"} /\ (to = "freeing" <=> track[u].chanid # None)
          /\ pid \in Pids \cup {NoPid}
      BY <2>0 DEF Track
    <3> HIDE DEF to
    <3>3. track'[u] = [track[u] EXCEPT !.pid = pid, !.parity = "none", !.data = "none",
                                       !.at = to]
          /\ track' = [track EXCEPT ![u] = track'[u]]
      BY <2>0, <3>1
    <3> QED
      BY <2>0, <3>2, <3>3 DEF Track, Consistent
  <2>3. CASE ChangePid(u)
    <3> DEFINE to == IF track[u].chanid # None THEN "freeing"
                     ELSE IF track[u].parity # "none" THEN "allocating" ELSE "out"
    <3>1. PICK pid \in Pids : track' = [track EXCEPT ![u].pid = pid, ![u].at = to]
      BY <2>3 DEF ChangePid
    <3>2. /\ to \in {"out", "allocating", "freeing"}
          /\ (to = "allocating" => track[u].chanid = None /\ track[u].parity # "none")
          /\ (to = "freeing" <=> track[u].chanid # None)
      OBVIOUS
    <3> HIDE DEF to
    <3>3. track'[u] = [track[u] EXCEPT !.pid = pid, !.at = to]
          /\ track' = [track EXCEPT ![u] = track'[u]]
      BY <2>0, <3>1
    <3> QED
      BY <2>0, <3>2, <3>3 DEF Track, Consistent
  <2> QED
    BY <2>1, <2>2, <2>3
<1>3. Types' /\ (\A w \in Users : track'[w].chanid = track[w].chanid) /\ CallInv'
  BY <1>1, <1>2 DEF Types, deviceVars, CallInv
<1>4. \A w \in Users : track[w].chanid # None =>
          \/ track'[w].at = "freeing"
          \/ track'[w].pid = track[w].pid /\ track[w].at # "freeing"
          \/ track'[w] = track[w]
  BY <1>1, <1>2 DEF Types
<1>5. Used' = Used /\ TableInv' /\ DeviceInv' /\ KeysHaveOwner'
  BY <1>1 DEF deviceVars, Used, TableInv, Chan, DeviceInv, SlotsOf, KeysHaveOwner, KeysOf
<1>7. HeldInv'
  BY <1>1, <1>3, <1>4, <1>5 DEF HeldInv, Chan, deviceVars
<1>8. RefsAreHolders'
  BY <1>1, <1>3, <1>5 DEF RefsAreHolders, deviceVars
<1> QED
  BY <1>3, <1>5, <1>7, <1>8

(* STB_DMXDscAlloc finds the channel of the PID.                           *)
LEMMA ShareStep ==
    ASSUME DscInv, NEW u \in Users, track[u].at = "allocating",
           NEW s \in FindByPid(track[u].pid, dsc_dev[u]), Share(s, u),
           dsc_fd' = [dsc_fd EXCEPT ![dsc_dev[u]] = TRUE], UNCHANGED hw_keys
    PROVE  DscInv'
<1> USE DevsAssumption DEF DscInv
<1>0. /\ s \in Used /\ s \in Slots /\ dsc_pid_channel[s].pid = track[u].pid
      /\ dsc_pid_channel[s].dev_id = dsc_dev[u]
      /\ track[u].chanid = None /\ track[u].parity \in Parities
  BY DEF FindByPid, Used, CallInv, Consistent
<1>1. /\ \A r \in Slots \ {s} : dsc_pid_channel'[r] = dsc_pid_channel[r]
      /\ dsc_pid_channel'[s] = [dsc_pid_channel[s] EXCEPT !.ref = @ + 1]
      /\ dsc_pid_channel' \in [Slots -> Entry]
      /\ dsc_pid_channel'[s].ref = dsc_pid_channel[s].ref + 1
  <2>1. dsc_pid_channel \in [Slots -> Entry] /\ dsc_pid_channel[s] \in Entry
    BY <1>0 DEF Types
  <2> DEFINE e == [dsc_pid_channel[s] EXCEPT !.ref = dsc_pid_channel[s].ref + 1]
  <2>2. dsc_pid_channel' = [dsc_pid_channel EXCEPT ![s] = e]
    BY <1>0 DEF Share
  <2>3. e \in Entry /\ e.ref = dsc_pid_channel[s].ref + 1
    BY SMTT(30), <2>1 DEF Entry
  <2> HIDE DEF e
  <2>4. dsc_pid_channel' \in [Slots -> Entry] /\ dsc_pid_channel'[s] = e
        /\ \A r \in Slots \ {s} : dsc_pid_channel'[r] = dsc_pid_channel[r]
    BY <1>0, <2>1, <2>2, <2>3
  <2> QED
    BY <2>3, <2>4 DEF e
<1>2. \A r \in Slots : /\ dsc_pid_channel'[r].pid = dsc_pid_channel[r].pid
                       /\ dsc_pid_channel'[r].dev_id = dsc_pid_channel[r].dev_id
                       /\ dsc_pid_channel'[r].chan_id = dsc_pid_channel[r].chan_id
                       /\ dsc_pid_channel'[r].key_id = dsc_pid_channel[r].key_id
  BY <1>0, <1>1 DEF Types, Entry
<1>3. Used' = Used
  <2>1. dsc_pid_channel'[s].ref > 0 /\ dsc_pid_channel[s].ref > 0
    BY <1>0, <1>1 DEF Used, Types, Entry
  <2> QED
    BY <1>0, <1>1, <2>1 DEF Used
<1>4. /\ \A w \in Users \ {u} : track'[w] = track[w]
      /\ track'[u] \in Track /\ Consistent(track'[u])
      /\ track'[u].chanid = Chan(s) /\ track'[u].pid = track[u].pid
      /\ track' \in [Users -> Track]
  <2> DEFINE to == IF dsc_pid_channel[s].chan_id = None THEN "out" ELSE "keying"
  <2>1. track' = [track EXCEPT ![u].chanid = Chan(s), ![u].at = to]
    BY DEF Share, Chan
  <2>2. /\ to \in {"out", "keying"} /\ (to = "keying" => Chan(s) # None)
        /\ Chan(s) \in Chans \cup {None}
    BY <1>0 DEF Types, Entry, Chan
  <2> HIDE DEF to
  <2>3. track'[u] = [track[u] EXCEPT !.chanid = Chan(s), !.at = to]
        /\ track' = [track EXCEPT ![u] = track'[u]]
    BY <2>1 DEF Types
  <2>4. track[u] \in Track
    BY DEF Types
  <2>5. track'[u] \in Track /\ Consistent(track'[u])
        /\ track'[u].chanid = Chan(s) /\ track'[u].pid = track[u].pid
    BY <1>0, <2>2, <2>3, <2>4 DEF Track, Consistent
  <2> QED
    BY <2>3, <2>5 DEF Types
<1>5. Types'
  BY <1>0, <1>1, <1>4 DEF Types, Share
<1>6. CallInv'
  BY <1>4 DEF CallInv
<1>7. TableInv'
  BY <1>2, <1>3 DEF TableInv, Chan, Used, Share
<1>8. HeldInv'
  BY <1>0, <1>2, <1>3, <1>4 DEF HeldInv, Chan, Used
<1>9. DeviceInv'
  <2>1. \A d \in Devs : SlotsOf(d)' = SlotsOf(d)
    BY <1>2, <1>3 DEF SlotsOf, Used
  <2>2. \A d \in Devs : dsc_ref'[d] >= dsc_ref[d]
    BY DEF Share, Types
  <2>3. \A d \in Devs : Cardinality(SlotsOf(d)) \in Nat
    BY SlotsFinite
  <2>4. \A d \in Devs : dsc_ref'[d] >= Cardinality(SlotsOf(d)')
    BY <1>5, <2>1, <2>2, <2>3 DEF DeviceInv, Types
  <2> QED
    BY <1>2, <1>3, <2>4 DEF DeviceInv, Types, Used
<1>10. RefsAreHolders'
  <2> SUFFICES ASSUME NEW r \in Used, NEW c, c = dsc_pid_channel'[r].chan_id, c # None
               PROVE  dsc_pid_channel'[r].ref = Cardinality(Holders(c)')
    BY <1>3 DEF RefsAreHolders, Holders
  <2>1. c = Chan(r) /\ c \in Chans /\ r \in Slots
    BY <1>2 DEF Used, Types, Entry, Chan
  <2>2. dsc_pid_channel[r].ref = Cardinality(Holders(c))
    BY <2>1 DEF RefsAreHolders, Holders, Chan
  <2>3. CASE r = s
    BY ZenonT(60), <1>0, <1>1, <1>4, <2>1, <2>2, <2>3, HoldersChange
  <2>4. CASE r # s
    <3>1. c # Chan(s)
      BY <1>0, <2>1, <2>4 DEF TableInv
    <3> QED
      BY <1>0, <1>1, <1>4, <2>1, <2>2, <2>4, <3>1, HoldersChange
  <2> QED
    BY <2>3, <2>4
<1>11. KeysHaveOwner'
  BY <1>2, <1>3 DEF KeysHaveOwner, KeysOf, Used
<1> QED
  BY <1>5, <1>6, <1>7, <1>8, <1>9, <1>10, <1>11

(* STB_DMXDscAlloc enters a new channel, or fails to get one, or has no    *)
(* place for it.                                                           *)
LEMMA EnterStep ==
    ASSUME DscInv, NEW u \in Users, track[u].at = "allocating",
           NEW chan \in Grants, Enter(chan, u),
           dsc_fd' = [dsc_fd EXCEPT ![dsc_dev[u]] = TRUE], UNCHANGED hw_keys
    PROVE  DscInv'
<1> USE DevsAssumption DEF DscInv
<1> DEFINE free == Slots \ Used
           s == Least(free)
           d == dsc_dev[u]
           got == IF free = {} THEN None ELSE chan
           new == [FreeSlot EXCEPT !.ref = 1, !.pid = track[u].pid, !.dev_id = d,
                                   !.chan_id = chan]
<1>0. /\ track[u].chanid = None /\ track[u].parity \in Parities /\ d \in Devs
      /\ track \in [Users -> Track] /\ track[u] \in Track
  BY DEF CallInv, Consistent, Types
<1>1. chan = None \/ (chan \in Chans /\ chan \notin hw_chans /\ chan # None)
  <2>1. Chans \ hw_chans # {} => Least(Chans \ hw_chans) \in Chans \ hw_chans
    BY IdsAssumption, LeastIn
  <2> QED
    BY <2>1, IdsAssumption DEF Grants, None
<1>2. /\ \A w \in Users \ {u} : track'[w] = track[w]
      /\ track'[u] \in Track /\ Consistent(track'[u])
      /\ track'[u].chanid = got /\ track'[u].pid = track[u].pid
      /\ track' \in [Users -> Track]
  <2> DEFINE to == IF got = None THEN "out" ELSE "keying"
  <2>1. track' = [track EXCEPT ![u].chanid = got, ![u].at = to]
    BY DEF Enter
  <2>2. /\ to \in {"out", "keying"} /\ (to = "keying" => got # None)
        /\ got \in Chans \cup {None}
    BY <1>1
  <2> HIDE DEF to, got
  <2>3. track'[u] = [track[u] EXCEPT !.chanid = got, !.at = to]
        /\ track' = [track EXCEPT ![u] = track'[u]]
    BY <1>0, <2>1
  <2>4. track'[u] \in Track /\ Consistent(track'[u])
        /\ track'[u].chanid = got /\ track'[u].pid = track[u].pid
    BY <1>0, <2>2, <2>3 DEF Track, Consistent
  <2> QED
    BY <1>0, <2>3, <2>4
<1>3. /\ hw_chans' = hw_chans \cup ({chan} \ {None})
      /\ \A e \in Devs : dsc_fd[e] => dsc_fd'[e]
      /\ dsc_fd'[d] /\ dsc_fd' \in [Devs -> BOOLEAN]
      /\ CallInv'
  BY <1>0, <1>2 DEF Enter, Types, CallInv
<1>4. CASE free = {}
  <2>1. dsc_pid_channel' = dsc_pid_channel /\ dsc_ref' = dsc_ref /\ got = None
    BY <1>4 DEF Enter
  <2>2. Used' = Used
    BY <2>1 DEF Used
  <2>3. Types'
    BY <1>1, <1>2, <1>3, <2>1 DEF Types
  <2>4. TableInv' /\ HeldInv' /\ KeysHaveOwner'
    BY <1>2, <1>3, <2>1, <2>2 DEF TableInv, HeldInv, KeysHaveOwner, Chan, KeysOf
  <2>5. DeviceInv'
    BY <1>3, <2>1, <2>2 DEF DeviceInv, SlotsOf
  <2>6. RefsAreHolders'
    <3> HIDE DEF got
    <3>1. \A w \in Users : track'[w].chanid = track[w].chanid
      BY <1>0, <1>2, <2>1
    <3> QED
      BY <2>1, <2>2, <3>1 DEF RefsAreHolders
  <2> QED
    BY <1>3, <2>3, <2>4, <2>5, <2>6
<1>5. CASE free # {}
  <2>1. s \in Slots /\ s \notin Used /\ got = chan
    BY <1>5, SlotsAssumption, LeastIn
  <2>2. /\ dsc_pid_channel' = [dsc_pid_channel EXCEPT ![s] = new]
        /\ dsc_ref' = [dsc_ref EXCEPT ![d] = @ + 1]
    BY <1>5 DEF Enter
  <2>3. /\ new.ref = 1 /\ new.pid = track[u].pid /\ new.dev_id = d /\ new.chan_id = chan
        /\ \A k \in KeyKinds : new.key_id[k] = None
        /\ new \in Entry
    BY <1>0, <1>1 DEF FreeSlot, Entry, Track
  <2> HIDE DEF new, free, s, got
  <2>4. /\ \A r \in Slots \ {s} : dsc_pid_channel'[r] = dsc_pid_channel[r]
        /\ dsc_pid_channel'[s] = new
        /\ dsc_pid_channel' \in [Slots -> Entry]
    BY <2>1, <2>2, <2>3 DEF Types
  <2>5. Used' = Used \cup {s} /\ \A r \in Used : r # s /\ r \in Slots
    BY <2>1, <2>3, <2>4 DEF Used
  <2>6. /\ \A e \in Devs \ {d} : dsc_ref'[e] = dsc_ref[e]
        /\ dsc_ref'[d] = dsc_ref[d] + 1 /\ dsc_ref' \in [Devs -> Nat]
    BY <1>0, <2>2 DEF Types
  <2>7. Types'
    BY <1>1, <1>2, <1>3, <2>4, <2>6 DEF Types
  <2>8. TableInv'
    BY <1>1, <1>3, <2>3, <2>4, <2>5 DEF TableInv, Chan
  <2>9. HeldInv'
    <3> SUFFICES ASSUME NEW w \in Users, track'[w].chanid # None
                 PROVE  \E r \in Used' :
                            /\ Chan(r)' = track'[w].chanid
                            /\ dsc_pid_channel'[r].dev_id = dsc_dev[w]
                            /\ \/ dsc_pid_channel'[r].pid = track'[w].pid
                               \/ track'[w].at = "freeing"
      BY DEF HeldInv
    <3>1. CASE w = u
      BY <1>2, <2>1, <2>3, <2>4, <2>5, <3>1 DEF Chan
    <3>2. CASE w # u
      BY <1>2, <2>4, <2>5, <3>2 DEF HeldInv, Chan
    <3> QED
      BY <3>1, <3>2
  <2>10. DeviceInv'
    <3>1. \A r \in Used' : dsc_pid_channel'[r].dev_id \in Devs
                           /\ dsc_fd'[dsc_pid_channel'[r].dev_id]
      BY <1>0, <1>3, <2>3, <2>4, <2>5 DEF DeviceInv
    <3>2. ASSUME NEW e \in Devs PROVE dsc_ref'[e] >= Cardinality(SlotsOf(e)')
      <4>0. dsc_ref[e] \in Nat /\ dsc_ref[e] >= Cardinality(SlotsOf(e))
            /\ IsFiniteSet(SlotsOf(e)) /\ Cardinality(SlotsOf(e)) \in Nat
        BY SlotsFinite DEF DeviceInv, Types
      <4>1. CASE e = d
        <5>1. SlotsOf(e)' = SlotsOf(e) \cup {s} /\ s \notin SlotsOf(e)
          BY <2>1, <2>3, <2>4, <2>5, <4>1 DEF SlotsOf
        <5>2. Cardinality(SlotsOf(e)') = Cardinality(SlotsOf(e)) + 1
          BY <4>0, <5>1, FS_AddElement
        <5> QED
          BY <2>6, <4>0, <4>1, <5>2
      <4>2. CASE e # d
        <5>1. SlotsOf(e)' = SlotsOf(e)
          BY <2>1, <2>3, <2>4, <2>5, <4>2 DEF SlotsOf
        <5> QED
          BY <2>6, <4>0, <4>2, <5>1
      <4> QED
        BY <4>1, <4>2
    <3> QED
      BY <3>1, <3>2 DEF DeviceInv
  <2>11. RefsAreHolders'
    <3> SUFFICES ASSUME NEW r \in Used', NEW c, c = dsc_pid_channel'[r].chan_id, c # None
                 PROVE  dsc_pid_channel'[r].ref = Cardinality(Holders(c)')
      BY DEF RefsAreHolders, Holders
    <3>1. CASE r = s
      <4>1. c = chan /\ c \in Chans /\ c \notin hw_chans
        BY <1>1, <2>3, <2>4, <3>1
      <4>2. \A w \in Users : track[w].chanid # c
        BY <4>1 DEF HeldInv, TableInv
      <4>3. Holders(c)' = {u}
        BY <1>2, <2>1, <4>1, <4>2 DEF Holders
      <4> QED
        BY <2>3, <2>4, <3>1, <4>3, FS_Singleton
    <3>2. CASE r # s
      <4>1. r \in Used /\ c = Chan(r) /\ c \in Chans /\ c \in hw_chans
            /\ dsc_pid_channel'[r].ref = dsc_pid_channel[r].ref
        BY <2>4, <2>5, <3>2 DEF Chan, TableInv, Types
      <4>2. dsc_pid_channel[r].ref = Cardinality(Holders(c))
        BY <4>1 DEF RefsAreHolders, Holders, Chan
      <4>3. c # chan
        BY <1>1, <4>1
      <4> QED
        BY <1>0, <1>2, <2>1, <4>1, <4>2, <4>3, HoldersChange
    <3> QED
      BY <3>1, <3>2
  <2>12. KeysHaveOwner'
    <3>1. \A x : KeyNamed(x)' <=> KeyNamed(x)
      BY <2>3, <2>4, <2>5 DEF KeyNamed
    <3>2. \A x : x \in DOMAIN hw_keys' <=> KeyNamed(x)'
      BY <3>1, KeysNamed DEF KeysHaveOwner
    <3> QED
      BY <2>3, <2>4, <2>5, <3>2, KeysNamed DEF KeysHaveOwner
  <2> QED
    BY <1>3, <2>7, <2>8, <2>9, <2>10, <2>11, <2>12
<1> QED
  BY <1>4, <1>5

(* What STB_DMXDscFree leaves of a user.                                   *)
LEMMA FreedTrack ==
    ASSUME Types, NEW u \in Users, Free(u)
    PROVE  /\ \A w \in Users \ {u} : track'[w] = track[w]
           /\ track'[u] \in Track /\ Consistent(track'[u]) /\ track'[u].chanid = None
           /\ track' \in [Users -> Track]
<1> DEFINE to == IF track[u].pid # NoPid /\ track[u].parity # "none"
                 THEN "allocating" ELSE "out"
<1>1. track' = [track EXCEPT ![u].chanid = None, ![u].at = to]
  BY DEF Free
<1>2. to \in {"out", "allocating"} /\ (to = "allocating" => track[u].parity # "none")
  OBVIOUS
<1> HIDE DEF to
<1>3. track \in [Users -> Track] /\ track[u] \in Track
  BY DEF Types
<1>4. track'[u] = [track[u] EXCEPT !.chanid = None, !.at = to]
      /\ track' = [track EXCEPT ![u] = track'[u]]
  BY <1>1, <1>3
<1>5. track'[u] \in Track /\ Consistent(track'[u]) /\ track'[u].chanid = None
  BY <1>2, <1>3, <1>4 DEF Track, Consistent
<1> QED
  BY <1>3, <1>4, <1>5

LEMMA FreeStep ==
    ASSUME DscInv, NEW u \in Users, Free(u)
    PROVE  DscInv'
<1> USE DevsAssumption DEF DscInv
<1> DEFINE d == dsc_dev[u]
<1>0. track[u].at = "freeing" /\ track[u].chanid # None /\ track[u].chanid \in Chans
      /\ d \in Devs
  BY DEF Free, CallInv, Consistent, Types, Track
<1>1. PICK c : c = track[u].chanid
  OBVIOUS
<1>2. PICK s \in Used :
          /\ FindByChannel(c) = {s} /\ Least(FindByChannel(c)) = s
          /\ Chan(s) = c /\ dsc_pid_channel[s].dev_id = d
  BY <1>0, <1>1, HeldSlot
<1>3. /\ s \in Slots /\ dsc_pid_channel[s].ref \in Nat /\ dsc_pid_channel[s].ref > 0
      /\ dsc_pid_channel \in [Slots -> Entry] /\ c \in Chans /\ c # None
      /\ dsc_pid_channel[s].ref = Cardinality(Holders(c))
  BY <1>0, <1>1, <1>2 DEF Used, Types, Entry, RefsAreHolders, Holders, Chan
<1>4. /\ \A w \in Users \ {u} : track'[w] = track[w]
      /\ track'[u] \in Track /\ Consistent(track'[u]) /\ track'[u].chanid = None
      /\ track' \in [Users -> Track]
  BY FreedTrack
<1>5. CallInv'
  BY <1>4 DEF CallInv
<1>6. CASE dsc_pid_channel[s].ref = 1
  <2>1. /\ dsc_pid_channel' = [dsc_pid_channel EXCEPT ![s] = FreeSlot]
        /\ hw_chans' = hw_chans \ {c}
        /\ hw_keys' = Restrict(hw_keys, DOMAIN hw_keys \ KeysOf(s))
        /\ dsc_ref' = [dsc_ref EXCEPT ![d] = @ - 1]
        /\ dsc_fd' = [dsc_fd EXCEPT ![d] = @ /\ dsc_ref'[d] # 0]
    BY <1>1, <1>2, <1>6 DEF Free, KeyFree
  <2>2. FreeSlot \in Entry /\ FreeSlot.ref = 0
    BY DEF FreeSlot, Entry
  <2>3. /\ \A r \in Slots \ {s} : dsc_pid_channel'[r] = dsc_pid_channel[r]
        /\ dsc_pid_channel'[s] = FreeSlot
        /\ dsc_pid_channel' \in [Slots -> Entry]
    BY <1>3, <2>1, <2>2
  <2>4. Used' = Used \ {s} /\ Used \subseteq Slots
    BY <1>3, <2>2, <2>3 DEF Used
  <2>5. \A r \in Used : r # s => Chan(r) # c /\ dsc_pid_channel'[r] = dsc_pid_channel[r]
    BY <1>2, <1>3, <2>3, <2>4 DEF TableInv
  <2>6. \A e \in Devs : /\ IsFiniteSet(SlotsOf(e)) /\ Cardinality(SlotsOf(e)) \in Nat
                        /\ dsc_ref[e] \in Nat /\ dsc_ref[e] >= Cardinality(SlotsOf(e))
    BY SlotsFinite DEF DeviceInv, Types
  <2>7. /\ SlotsOf(d)' = SlotsOf(d) \ {s} /\ s \in SlotsOf(d)
        /\ \A e \in Devs \ {d} : SlotsOf(e)' = SlotsOf(e)
    BY <1>2, <2>4, <2>5 DEF SlotsOf
  <2>8. Cardinality(SlotsOf(d)) > 0 /\ Cardinality(SlotsOf(d)') = Cardinality(SlotsOf(d)) - 1
    BY <1>0, <2>6, <2>7, FS_RemoveElement, FS_EmptySet
  <2>9. /\ \A e \in Devs \ {d} : dsc_ref'[e] = dsc_ref[e]
        /\ dsc_ref'[d] = dsc_ref[d] - 1 /\ dsc_ref' \in [Devs -> Nat]
    BY <1>0, <2>1, <2>6, <2>8 DEF Types
  <2>10. /\ dsc_fd' \in [Devs -> BOOLEAN]
         /\ \A e \in Devs \ {d} : dsc_fd'[e] = dsc_fd[e]
         /\ dsc_fd[d] /\ dsc_ref'[d] # 0 => dsc_fd'[d]
    <3> DEFINE on == dsc_fd[d] /\ dsc_ref'[d] # 0
    <3>1. dsc_fd' = [dsc_fd EXCEPT ![d] = on] /\ on \in BOOLEAN
      BY <2>1
    <3>2. on <=> dsc_fd[d] /\ dsc_ref'[d] # 0
      OBVIOUS
    <3> HIDE DEF on
    <3> QED
      BY <1>0, <3>1, <3>2 DEF Types
  <2>11. Types'
    BY <1>4, <2>1, <2>3, <2>9, <2>10 DEF Types
  <2>12. TableInv'
    BY <2>1, <2>4, <2>5 DEF TableInv, Chan
  <2>13. Holders(c) = {u}
    BY ZenonT(60), <1>1, <1>3, <1>4, <1>6, HoldersChange DEF Holders
  <2>14. HeldInv'
    <3> SUFFICES ASSUME NEW w \in Users, track'[w].chanid # None
                 PROVE  \E r \in Used' :
                            /\ Chan(r)' = track'[w].chanid
                            /\ dsc_pid_channel'[r].dev_id = dsc_dev[w]
                            /\ \/ dsc_pid_channel'[r].pid = track'[w].pid
                               \/ track'[w].at = "freeing"
      BY DEF HeldInv
    <3>1. w # u /\ track'[w] = track[w] /\ track[w].chanid # c
      BY <1>4, <2>13 DEF Holders
    <3>2. PICK r \in Used :
              /\ Chan(r) = track[w].chanid /\ dsc_pid_channel[r].dev_id = dsc_dev[w]
              /\ dsc_pid_channel[r].pid = track[w].pid \/ track[w].at = "freeing"
      BY <3>1 DEF HeldInv
    <3> QED
      BY <1>2, <2>4, <2>5, <3>1, <3>2 DEF Chan
  <2>15. DeviceInv'
    <3>1. ASSUME NEW e \in Devs PROVE dsc_ref'[e] >= Cardinality(SlotsOf(e)')
      <4>1. CASE e = d
        <5>1. SlotsOf(e)' = SlotsOf(d)'
          BY <4>1 DEF SlotsOf
        <5> QED
          BY <1>0, <2>6, <2>8, <2>9, <4>1, <5>1
      <4>2. CASE e # d
        BY <2>6, <2>7, <2>9, <4>2
      <4> QED
        BY <4>1, <4>2
    <3>2. ASSUME NEW r \in Used'
          PROVE  dsc_pid_channel'[r].dev_id \in Devs /\ dsc_fd'[dsc_pid_channel'[r].dev_id]
      <4>1. r \in Used /\ r # s /\ dsc_pid_channel'[r] = dsc_pid_channel[r]
        BY <2>4, <2>5
      <4>2. PICK e \in Devs : e = dsc_pid_channel[r].dev_id /\ dsc_fd[e]
        BY <4>1 DEF DeviceInv
      <4>3. CASE e = d
        <5>1. r \in SlotsOf(d)' /\ IsFiniteSet(SlotsOf(d)')
          <6>1. IsFiniteSet(SlotsOf(d)')
            BY <1>0, <2>6, <2>7, FS_RemoveElement
          <6>2. r \in SlotsOf(d)'
            BY <4>1, <4>2, <4>3 DEF SlotsOf
          <6> QED
            BY <6>1, <6>2
        <5>2. Cardinality(SlotsOf(d)') # 0
          BY <5>1, FS_EmptySet
        <5>3. dsc_ref'[d] # 0
          BY <1>0, <2>6, <2>8, <2>9, <5>2
        <5> QED
          BY <2>10, <4>1, <4>2, <4>3, <5>3
      <4>4. CASE e # d
        BY <2>10, <4>1, <4>2, <4>4
      <4> QED
        BY <4>3, <4>4
    <3> QED
      BY <3>1, <3>2 DEF DeviceInv
  <2>16. RefsAreHolders'
    <3> SUFFICES ASSUME NEW r \in Used', NEW b, b = dsc_pid_channel'[r].chan_id, b # None
                 PROVE  dsc_pid_channel'[r].ref = Cardinality(Holders(b)')
      BY DEF RefsAreHolders, Holders
    <3>1. r \in Used /\ dsc_pid_channel'[r] = dsc_pid_channel[r] /\ b = Chan(r) /\ b # c
          /\ b \in Chans
      BY <2>4, <2>5 DEF Chan, TableInv, Types
    <3>2. dsc_pid_channel[r].ref = Cardinality(Holders(b))
      BY <3>1 DEF RefsAreHolders, Holders, Chan
    <3> QED
      BY <1>1, <1>4, <3>1, <3>2, HoldersChange
  <2>17. KeysHaveOwner'
    <3>1. \A x : KeyNamed(x)' <=> KeyNamed(x) /\ x \notin KeysOf(s)
      <4>1. ASSUME NEW x, KeyNamed(x)' PROVE KeyNamed(x) /\ x \notin KeysOf(s)
        BY <1>2, <2>4, <2>5, <4>1 DEF KeyNamed, KeysOf, KeysHaveOwner
      <4>2. ASSUME NEW x, KeyNamed(x), x \notin KeysOf(s) PROVE KeyNamed(x)'
        BY <1>2, <2>4, <2>5, <4>2 DEF KeyNamed, KeysOf
      <4> QED
        BY <4>1, <4>2
    <3>2. \A x : x \in DOMAIN hw_keys' <=> x \in DOMAIN hw_keys /\ x \notin KeysOf(s)
      BY <2>1 DEF Restrict
    <3>3. \A x : x \in DOMAIN hw_keys' <=> KeyNamed(x)'
      BY <3>1, <3>2, KeysNamed DEF KeysHaveOwner
    <3> QED
      BY <2>4, <2>5, <3>3, KeysNamed DEF KeysHaveOwner
  <2> QED
    BY <1>5, <2>11, <2>12, <2>14, <2>15, <2>16, <2>17
<1>7. CASE dsc_pid_channel[s].ref # 1
  <2>1. /\ dsc_pid_channel' = [dsc_pid_channel EXCEPT ![s].ref = @ - 1]
        /\ UNCHANGED <<hw_chans, hw_keys, dsc_ref, dsc_fd>>
    BY <1>1, <1>2, <1>7 DEF Free
  <2> DEFINE e == [dsc_pid_channel[s] EXCEPT !.ref = dsc_pid_channel[s].ref - 1]
  <2>2. dsc_pid_channel' = [dsc_pid_channel EXCEPT ![s] = e]
    BY <1>3, <2>1
  <2>3. /\ e \in Entry /\ e.ref = dsc_pid_channel[s].ref - 1 /\ e.ref > 0
        /\ e.pid = dsc_pid_channel[s].pid /\ e.dev_id = dsc_pid_channel[s].dev_id
        /\ e.chan_id = dsc_pid_channel[s].chan_id /\ e.key_id = dsc_pid_channel[s].key_id
    <3>1. dsc_pid_channel[s] \in Entry
      BY <1>3
    <3> QED
      BY <1>3, <1>7, <3>1 DEF Entry
  <2> HIDE DEF e
  <2>4. /\ dsc_pid_channel' \in [Slots -> Entry] /\ dsc_pid_channel'[s] = e
        /\ \A r \in Slots \ {s} : dsc_pid_channel'[r] = dsc_pid_channel[r]
    BY <1>3, <2>2, <2>3
  <2>5. Used' = Used
    BY <1>3, <2>3, <2>4 DEF Used
  <2>6. \A r \in Slots : /\ dsc_pid_channel'[r].pid = dsc_pid_channel[r].pid
                         /\ dsc_pid_channel'[r].dev_id = dsc_pid_channel[r].dev_id
                         /\ dsc_pid_channel'[r].chan_id = dsc_pid_channel[r].chan_id
                         /\ dsc_pid_channel'[r].key_id = dsc_pid_channel[r].key_id
    BY <1>3, <2>3, <2>4
  <2>7. Types'
    BY <1>4, <2>1, <2>4 DEF Types
  <2>8. TableInv'
    BY <2>1, <2>5, <2>6 DEF TableInv, Chan, Used
  <2>9. HeldInv'
    BY <1>4, <2>5, <2>6 DEF HeldInv, Chan, Used
  <2>10. DeviceInv'
    <3>1. \A f \in Devs : SlotsOf(f)' = SlotsOf(f)
      BY <2>5, <2>6 DEF SlotsOf, Used
    <3> QED
      BY <2>1, <2>5, <2>6, <3>1 DEF DeviceInv, Used
  <2>11. RefsAreHolders'
    <3> SUFFICES ASSUME NEW r \in Used, NEW b, b = dsc_pid_channel'[r].chan_id, b # None
                 PROVE  dsc_pid_channel'[r].ref = Cardinality(Holders(b)')
      BY <2>5 DEF RefsAreHolders, Holders
    <3>1. r \in Slots /\ b = Chan(r) /\ b \in Chans
      BY <2>6 DEF Chan, TableInv, Types, Used
    <3>2. dsc_pid_channel[r].ref = Cardinality(Holders(b))
      BY <3>1 DEF RefsAreHolders, Holders, Chan
    <3>3. CASE r = s
      BY <1>1, <1>2, <1>4, <2>3, <2>4, <3>1, <3>2, <3>3, HoldersChange
    <3>4. CASE r # s
      <4>1. b # c
        BY <1>2, <3>1, <3>4 DEF TableInv
      <4> QED
        BY <1>1, <1>4, <2>4, <3>1, <3>2, <3>4, <4>1, HoldersChange
    <3> QED
      BY <3>3, <3>4
  <2>12. KeysHaveOwner'
    BY <2>1, <2>5, <2>6 DEF KeysHaveOwner, KeysOf, Used
  <2> QED
    BY <1>5, <2>7, <2>8, <2>9, <2>10, <2>11, <2>12
<1> QED
  BY <1>6, <1>7

(* key_alloc keeps what is named and gives what nobody has.                *)
LEMMA KeyGranted ==
    ASSUME NEW has \in Keys \cup {None}, NEW taken, NEW key \in KeyGrants(has, taken)
    PROVE  /\ key \in Keys \cup {None}
           /\ has # None => key = has
           /\ has = None /\ key # None => key \notin DOMAIN hw_keys /\ key \notin taken
<1>1. CASE has # None
  BY <1>1 DEF KeyGrants
<1>2. CASE has = None
  <2> DEFINE free == Keys \ (DOMAIN hw_keys \cup taken)
  <2>1. free # {} => Least(free) \in free
    BY IdsAssumption, LeastIn
  <2> QED
    BY <1>2, <2>1 DEF KeyGrants
<1> QED
  BY <1>1, <1>2

(* STB_DMXSetKey when nobody else uses the channel.                        *)
LEMMA KeyStored ==
    ASSUME DscInv, NEW s \in Used, NEW k \in KeyKinds, NEW v \in KeyKinds, k # v,
           NEW key \in KeyGrants(dsc_pid_channel[s].key_id[k], {}),
           NEW iv \in KeyGrants(dsc_pid_channel[s].key_id[v], {key}),
           dsc_pid_channel' = [dsc_pid_channel EXCEPT ![s].key_id[k] = key,
                                                      ![s].key_id[v] = iv],
           DOMAIN hw_keys' = DOMAIN hw_keys \cup ({key, iv} \ {None})
    PROVE  /\ dsc_pid_channel' \in [Slots -> Entry]
           /\ \A r \in Slots : /\ dsc_pid_channel'[r].ref = dsc_pid_channel[r].ref
                               /\ dsc_pid_channel'[r].pid = dsc_pid_channel[r].pid
                               /\ dsc_pid_channel'[r].dev_id = dsc_pid_channel[r].dev_id
                               /\ dsc_pid_channel'[r].chan_id = dsc_pid_channel[r].chan_id
           /\ KeysHaveOwner'
<1> DEFINE old == dsc_pid_channel[s].key_id
           ids == [old EXCEPT ![k] = key, ![v] = iv]
           e == [dsc_pid_channel[s] EXCEPT !.key_id = ids]
<1>1. s \in Slots /\ dsc_pid_channel \in [Slots -> Entry] /\ dsc_pid_channel[s] \in Entry
  BY DEF Used, DscInv, Types
<1>2. old \in [KeyKinds -> Keys \cup {None}]
  BY <1>1 DEF Entry
<1>3. /\ key \in Keys \cup {None} /\ iv \in Keys \cup {None}
      /\ old[k] # None => key = old[k]
      /\ old[v] # None => iv = old[v]
      /\ old[k] = None /\ key # None => key \notin DOMAIN hw_keys
      /\ old[v] = None /\ iv # None => iv \notin DOMAIN hw_keys /\ iv # key
  BY <1>2, KeyGranted
<1>4. /\ ids \in [KeyKinds -> Keys \cup {None}]
      /\ ids[k] = key /\ ids[v] = iv
      /\ \A j \in KeyKinds \ {k, v} : ids[j] = old[j]
  BY <1>2, <1>3
<1>5. dsc_pid_channel' = [dsc_pid_channel EXCEPT ![s] = e]
  BY <1>1
<1> HIDE DEF ids
<1>6. /\ e \in Entry /\ e.key_id = ids
      /\ e.ref = dsc_pid_channel[s].ref /\ e.pid = dsc_pid_channel[s].pid
      /\ e.dev_id = dsc_pid_channel[s].dev_id /\ e.chan_id = dsc_pid_channel[s].chan_id
  BY <1>1, <1>4 DEF Entry
<1> HIDE DEF e, old
<1>7. /\ dsc_pid_channel' \in [Slots -> Entry] /\ dsc_pid_channel'[s] = e
      /\ \A r \in Slots \ {s} : dsc_pid_channel'[r] = dsc_pid_channel[r]
  BY ZenonT(60), <1>1, <1>5, <1>6
<1>8. Used' = Used /\ Used \subseteq Slots
  BY <1>1, <1>6, <1>7 DEF Used
<1>9. /\ \A r \in Used \ {s}, j \in KeyKinds :
             dsc_pid_channel'[r].key_id[j] = dsc_pid_channel[r].key_id[j]
      /\ dsc_pid_channel'[s].key_id[k] = key
      /\ dsc_pid_channel'[s].key_id[v] = iv
      /\ \A j \in KeyKinds \ {k, v} :
             dsc_pid_channel'[s].key_id[j] = dsc_pid_channel[s].key_id[j]
  <2>1. \A r \in Used \ {s} : dsc_pid_channel'[r] = dsc_pid_channel[r]
    BY <1>7, <1>8
  <2>2. dsc_pid_channel'[s].key_id = ids
    BY <1>6, <1>7
  <2>3. \A j \in KeyKinds \ {k, v} : ids[j] = dsc_pid_channel[s].key_id[j]
    BY <1>4 DEF old
  <2> QED
    BY <1>4, <2>1, <2>2, <2>3
(* What a slot names is as it was, or the key or the vector it lacked.     *)
<1>9a. \A r \in Used, j \in KeyKinds :
           \/ dsc_pid_channel'[r].key_id[j] = dsc_pid_channel[r].key_id[j]
           \/ /\ r = s /\ j = k /\ dsc_pid_channel'[r].key_id[j] = key
              /\ key # None => key \notin DOMAIN hw_keys
           \/ /\ r = s /\ j = v /\ dsc_pid_channel'[r].key_id[j] = iv
              /\ iv # None => iv \notin DOMAIN hw_keys /\ iv # key
  <2> SUFFICES ASSUME NEW r \in Used, NEW j \in KeyKinds
               PROVE  \/ dsc_pid_channel'[r].key_id[j] = dsc_pid_channel[r].key_id[j]
                      \/ /\ r = s /\ j = k /\ dsc_pid_channel'[r].key_id[j] = key
                         /\ key # None => key \notin DOMAIN hw_keys
                      \/ /\ r = s /\ j = v /\ dsc_pid_channel'[r].key_id[j] = iv
                         /\ iv # None => iv \notin DOMAIN hw_keys /\ iv # key
    OBVIOUS
  <2>1. CASE r = s /\ j = k
    BY <1>3, <1>9, <2>1 DEF old
  <2>2. CASE r = s /\ j = v
    BY <1>3, <1>9, <2>2 DEF old
  <2>3. CASE r # s \/ j \notin {k, v}
    BY <1>9, <2>3
  <2> QED
    BY <2>1, <2>2, <2>3
<1>10. \A x : x \in DOMAIN hw_keys <=> KeyNamed(x)
  BY KeysNamed DEF DscInv, KeysHaveOwner
<1>11. \A r \in Used, j \in KeyKinds :
           dsc_pid_channel[r].key_id[j] # None
               => dsc_pid_channel[r].key_id[j] \in DOMAIN hw_keys
  BY <1>10 DEF KeyNamed
<1>12. \A x : KeyNamed(x)' <=> KeyNamed(x) \/ x \in {key, iv} \ {None}
  <2>1. ASSUME NEW x, KeyNamed(x)' PROVE KeyNamed(x) \/ x \in {key, iv} \ {None}
    <3>1. PICK r \in Used, j \in KeyKinds : dsc_pid_channel'[r].key_id[j] = x /\ x # None
      BY <1>8, <2>1 DEF KeyNamed
    <3> QED
      BY <1>9a, <3>1 DEF KeyNamed
  <2>2. ASSUME NEW x, x \in {key, iv} \ {None} PROVE KeyNamed(x)'
    <3>1. CASE x = key
      BY <1>8, <1>9, <2>2, <3>1 DEF KeyNamed
    <3>2. CASE x = iv
      BY <1>8, <1>9, <2>2, <3>2 DEF KeyNamed
    <3> QED
      BY <2>2, <3>1, <3>2
  <2>3. ASSUME NEW x, KeyNamed(x) PROVE KeyNamed(x)'
    <3>1. PICK r \in Used, j \in KeyKinds : dsc_pid_channel[r].key_id[j] = x /\ x # None
      BY <2>3 DEF KeyNamed
    <3>2. dsc_pid_channel'[r].key_id[j] = x
      <4>1. CASE r = s /\ j \in {k, v}
        BY <1>3, <1>9, <3>1, <4>1 DEF old
      <4>2. CASE r # s \/ j \notin {k, v}
        BY <1>9, <3>1, <4>2
      <4> QED
        BY <4>1, <4>2
    <3> QED
      BY <1>8, <3>1, <3>2 DEF KeyNamed
  <2> QED
    BY <2>1, <2>2, <2>3
<1>13. (DOMAIN hw_keys = UNION {KeysOf(r) : r \in Used})'
  <2>1. \A x : x \in DOMAIN hw_keys' <=> KeyNamed(x)'
    BY <1>10, <1>12
  <2> QED
    BY <2>1, KeysNamed
<1>14. ASSUME NEW r \in Used, NEW q \in Used, NEW i \in KeyKinds, NEW j \in KeyKinds,
              dsc_pid_channel'[r].key_id[i] = dsc_pid_channel'[q].key_id[j],
              dsc_pid_channel'[r].key_id[i] # None
       PROVE  r = q /\ i = j
  <2>1. dsc_pid_channel[r].key_id[i] = dsc_pid_channel[q].key_id[j]
        /\ dsc_pid_channel[r].key_id[i] # None => r = q /\ i = j
    BY DEF DscInv, KeysHaveOwner
  <2>2. CASE /\ dsc_pid_channel'[r].key_id[i] = dsc_pid_channel[r].key_id[i]
             /\ dsc_pid_channel'[q].key_id[j] = dsc_pid_channel[q].key_id[j]
    BY <1>14, <2>1, <2>2
  <2>3. \/ dsc_pid_channel'[r].key_id[i] = dsc_pid_channel[r].key_id[i]
        \/ /\ r = s /\ i = k /\ dsc_pid_channel'[r].key_id[i] = key
           /\ key \notin DOMAIN hw_keys
        \/ /\ r = s /\ i = v /\ dsc_pid_channel'[r].key_id[i] = iv
           /\ iv \notin DOMAIN hw_keys /\ iv # key
    BY ZenonT(60), <1>14, <1>9a
  <2>4. \/ dsc_pid_channel'[q].key_id[j] = dsc_pid_channel[q].key_id[j]
        \/ /\ q = s /\ j = k /\ dsc_pid_channel'[q].key_id[j] = key
           /\ key \notin DOMAIN hw_keys
        \/ /\ q = s /\ j = v /\ dsc_pid_channel'[q].key_id[j] = iv
           /\ iv \notin DOMAIN hw_keys /\ iv # key
    <3>1. dsc_pid_channel'[q].key_id[j] # None
      BY <1>14
    <3> QED
      BY ZenonT(60), <1>9a, <3>1
  <2>5. /\ dsc_pid_channel[r].key_id[i] # None
               => dsc_pid_channel[r].key_id[i] \in DOMAIN hw_keys
        /\ dsc_pid_channel[q].key_id[j] # None
               => dsc_pid_channel[q].key_id[j] \in DOMAIN hw_keys
    BY <1>11
  <2> QED
    BY <1>14, <2>2, <2>3, <2>4, <2>5
<1>15. KeysHaveOwner'
  <2>1. \A r, q \in Used', i, j \in KeyKinds :
            /\ dsc_pid_channel'[r].key_id[i] = dsc_pid_channel'[q].key_id[j]
            /\ dsc_pid_channel'[r].key_id[i] # None
            => r = q /\ i = j
    <3>1. SUFFICES ASSUME NEW r \in Used', NEW q \in Used', NEW i \in KeyKinds,
                          NEW j \in KeyKinds,
                          dsc_pid_channel'[r].key_id[i] = dsc_pid_channel'[q].key_id[j],
                          dsc_pid_channel'[r].key_id[i] # None
                   PROVE  r = q /\ i = j
      OBVIOUS
    <3>2. r \in Used /\ q \in Used
      BY <1>8
    <3> QED
      BY <1>14, <3>1, <3>2
  <2> QED
    BY <1>13, <2>1 DEF KeysHaveOwner
<1>16. ASSUME NEW r \in Slots
       PROVE  /\ dsc_pid_channel'[r].ref = dsc_pid_channel[r].ref
              /\ dsc_pid_channel'[r].pid = dsc_pid_channel[r].pid
              /\ dsc_pid_channel'[r].dev_id = dsc_pid_channel[r].dev_id
              /\ dsc_pid_channel'[r].chan_id = dsc_pid_channel[r].chan_id
  BY <1>6, <1>7
<1> QED
  BY <1>7, <1>15, <1>16

LEMMA SetKeyStep ==
    ASSUME DscInv, NEW u \in Users, SetKey(u)
    PROVE  DscInv'
<1> USE DEF DscInv
<1>1. /\ track[u].at = "keying" /\ track[u].chanid # None /\ track[u].parity \in Parities
      /\ track \in [Users -> Track] /\ track[u] \in Track
      /\ track' = [track EXCEPT ![u].at = "out"]
      /\ UNCHANGED <<dsc_fd, dsc_ref, hw_chans>>
  BY DEF SetKey, CallInv, Consistent, Types
<1>2. track'[u] = [track[u] EXCEPT !.at = "out"] /\ track' = [track EXCEPT ![u] = track'[u]]
  BY <1>1
<1>3. /\ \A w \in Users \ {u} : track'[w] = track[w]
      /\ \A w \in Users : track'[w].chanid = track[w].chanid /\ track'[w].pid = track[w].pid
      /\ track'[u].at = "out" /\ track' \in [Users -> Track]
  BY <1>1, <1>2 DEF Track
<1>4. PICK s \in Used : /\ FindByChannel(track[u].chanid) = {s}
                        /\ Least(FindByChannel(track[u].chanid)) = s
  BY <1>1, HeldSlot
<1>5. /\ dsc_pid_channel' \in [Slots -> Entry]
      /\ \A r \in Slots : /\ dsc_pid_channel'[r].ref = dsc_pid_channel[r].ref
                          /\ dsc_pid_channel'[r].pid = dsc_pid_channel[r].pid
                          /\ dsc_pid_channel'[r].dev_id = dsc_pid_channel[r].dev_id
                          /\ dsc_pid_channel'[r].chan_id = dsc_pid_channel[r].chan_id
      /\ KeysHaveOwner'
  <2>1. CASE UNCHANGED <<dsc_pid_channel, hw_keys>>
    BY <2>1 DEF Types, KeysHaveOwner, KeysOf, Used
  <2>2. CASE ~UNCHANGED <<dsc_pid_channel, hw_keys>>
    <3> DEFINE k == <<track[u].parity, "key">>
               v == <<track[u].parity, "iv">>
    <3>1. k \in KeyKinds /\ v \in KeyKinds /\ k # v
      BY <1>1 DEF KeyKinds
    <3>2. PICK key \in KeyGrants(dsc_pid_channel[s].key_id[k], {}) :
              \E iv \in KeyGrants(dsc_pid_channel[s].key_id[v], {key}) :
                  /\ dsc_pid_channel' = [dsc_pid_channel EXCEPT ![s].key_id[k] = key,
                                                                ![s].key_id[v] = iv]
                  /\ DOMAIN hw_keys' = DOMAIN hw_keys \cup ({key, iv} \ {None})
      BY <1>4, <2>2 DEF SetKey
    <3>3. PICK iv \in KeyGrants(dsc_pid_channel[s].key_id[v], {key}) :
              /\ dsc_pid_channel' = [dsc_pid_channel EXCEPT ![s].key_id[k] = key,
                                                            ![s].key_id[v] = iv]
              /\ DOMAIN hw_keys' = DOMAIN hw_keys \cup ({key, iv} \ {None})
      BY <3>2
    <3> HIDE DEF k, v
    <3> QED
      BY <3>1, <3>3, KeyStored
  <2> QED
    BY <2>1, <2>2
<1>6. Used' = Used /\ Used \subseteq Slots
  BY <1>5 DEF Used
<1>7. Types' /\ CallInv' /\ TableInv'
  BY <1>1, <1>3, <1>5, <1>6 DEF Types, CallInv, Consistent, TableInv, Chan
<1>8. HeldInv'
  BY <1>1, <1>3, <1>5, <1>6 DEF HeldInv, Chan
<1>9. DeviceInv'
  <2>1. \A d \in Devs : SlotsOf(d)' = SlotsOf(d)
    BY <1>5, <1>6 DEF SlotsOf
  <2> QED
    BY <1>1, <1>5, <1>6, <2>1 DEF DeviceInv
<1>10. RefsAreHolders'
  <2> SUFFICES ASSUME NEW r \in Used, NEW c, c = dsc_pid_channel'[r].chan_id, c # None
               PROVE  dsc_pid_channel'[r].ref = Cardinality(Holders(c)')
    BY <1>6 DEF RefsAreHolders, Holders
  <2>1. Holders(c)' = Holders(c)
    BY <1>3 DEF Holders
  <2>2. dsc_pid_channel[r].ref = Cardinality(Holders(c))
    BY <1>5, <1>6 DEF RefsAreHolders, Holders
  <2> QED
    BY <1>5, <1>6, <2>1, <2>2
<1> QED
  BY <1>5, <1>7, <1>8, <1>9, <1>10

LEMMA AllocStep ==
    ASSUME DscInv, NEW u \in Users, Alloc(u)
    PROVE  DscInv'
<1> DEFINE d == dsc_dev[u]
           known == FindByPid(track[u].pid, d)
<1>1. CASE /\ dsc_fd' = [dsc_fd EXCEPT ![d] = TRUE]
           /\ IF known # {} THEN Share(Least(known), u)
              ELSE \E chan \in Grants : Enter(chan, u)
  <2>1. known # {} => Least(known) \in known
    BY SlotsAssumption, LeastIn DEF FindByPid, Used
  <2> QED
    BY <1>1, <2>1, ShareStep, EnterStep DEF Alloc
<1>2. CASE /\ track' = [track EXCEPT ![u].at = "out"]
           /\ UNCHANGED <<dsc_fd, dsc_ref, dsc_pid_channel, hw_chans>>
  <2> USE DEF DscInv
  <2>0. UNCHANGED deviceVars /\ track[u].chanid = None /\ track \in [Users -> Track]
    BY <1>2 DEF Alloc, deviceVars, CallInv, Consistent, Types
  <2>1. /\ \A w \in Users \ {u} : track'[w] = track[w]
        /\ track'[u].at = "out" /\ track'[u].chanid = None /\ track' \in [Users -> Track]
    BY <1>2, <2>0 DEF Track
  <2>2. Types' /\ CallInv' /\ HeldInv'
    BY <2>0, <2>1 DEF Types, CallInv, Consistent, HeldInv, deviceVars, Used, Chan
  <2>3. TableInv' /\ DeviceInv' /\ KeysHaveOwner'
    BY <2>0 DEF deviceVars, Used, TableInv, Chan, DeviceInv, SlotsOf, KeysHaveOwner, KeysOf
  <2>4. \A w \in Users : track'[w].chanid = track[w].chanid
    BY <2>0, <2>1
  <2>5. RefsAreHolders'
    BY <2>0, <2>4 DEF RefsAreHolders, deviceVars, Used
  <2> QED
    BY <2>2, <2>3, <2>5
<1> QED
  BY <1>1, <1>2 DEF Alloc

LEMMA DscInvariant == Spec => []DscInv
<1>1. DscInv /\ [Next]_vars => DscInv'
  <2>1. ASSUME DscInv, UNCHANGED vars PROVE DscInv'
    BY <2>1 DEF vars, DscInv, Types, CallInv, TableInv, Chan, HeldInv, DeviceInv, SlotsOf,
                RefsAreHolders, KeysHaveOwner, KeysOf, Used
  <2> QED
    BY <2>1, BeginStep, AllocStep, SetKeyStep, FreeStep DEF Next
<1> QED
  BY <1>1, DscInitInv, PTL DEF Spec

(* What a user holds works, for any number of users, devices, slots and    *)
(* channels (STB_DMXDscAlloc, STB_DMXDscFree).                             *)
THEOREM HeldChannelWorksTheorem == Spec => []HeldChannelWorks
<1>1. DscInv => HeldChannelWorks
  <2> SUFFICES ASSUME DscInv, NEW u \in Users, track[u].chanid # None
               PROVE  \E s \in FindByChannel(track[u].chanid) :
                          /\ dsc_pid_channel[s].dev_id = dsc_dev[u]
                          /\ dsc_pid_channel[s].pid = track[u].pid \/ track[u].at = "freeing"
                          /\ track[u].chanid \in hw_chans
                          /\ dsc_fd[dsc_dev[u]]
    BY DEF HeldChannelWorks
  <2>1. PICK s \in Used :
            /\ Chan(s) = track[u].chanid
            /\ dsc_pid_channel[s].dev_id = dsc_dev[u]
            /\ dsc_pid_channel[s].pid = track[u].pid \/ track[u].at = "freeing"
    BY DEF DscInv, HeldInv
  <2>2. s \in FindByChannel(track[u].chanid)
    BY <2>1 DEF FindByChannel, Chan
  <2>3. track[u].chanid \in hw_chans /\ dsc_fd[dsc_dev[u]]
    BY <2>1 DEF DscInv, TableInv, DeviceInv
  <2> QED
    BY <2>1, <2>2, <2>3
<1> QED
  BY <1>1, DscInvariant, PTL

(* The count of a channel is the number of its users, and every key that   *)
(* the hardware gave out has exactly one owner in the table.               *)
THEOREM TableBalancedTheorem == Spec => []TableBalanced
<1>1. DscInv => TableBalanced
  BY DEF DscInv, TableBalanced
<1> QED
  BY <1>1, DscInvariant, PTL
=============================================================================
