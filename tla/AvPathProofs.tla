----------------------------- MODULE AvPathProofs -----------------------------
(***************************************************************************)
(* Theorems about the players of live services and of playbacks, for any   *)
(* number of paths and decoders, any PIDs and any failures but those that  *)
(* a theorem excludes.                                                     *)
(***************************************************************************)
EXTENDS AvPath, TLAPS

------------------------------------------------------------------------------
(* The records, and what they hold.                                        *)

Pids(s) == s \cup {NoPid, Off}
PathRec == [owner : Decoders \cup {NoOne}, video_pid : Pids(VideoPids),
            audio_pid : Pids(AudioPids), ad_pid : Pids(AdPids),
            presented : BOOLEAN, audio_out_control : SUBSET {"VOL", "APP"},
            video_out_control : BOOLEAN, mute : BOOLEAN,
            decoding_mode : SUBSET {"CACHE ONLY", "AUDIO DISABLE"},
            injecting : BOOLEAN, surface : BOOLEAN]
LiveRec == [exists : BOOLEAN, video : Pids(VideoPids), audio : Pids(AudioPids),
            ad : Pids(AdPids), muted : BOOLEAN, hidden : BOOLEAN, cached : BOOLEAN,
            source : {"demod", "memory"}, surface : BOOLEAN, kept : BOOLEAN]
SlotRec == [known : BOOLEAN, play_state : {"STOPPED", "STARTING", "STARTED"},
            play_speed : Speeds \cup {0, 100}, has_video : BOOLEAN, has_audio : BOOLEAN,
            video_pid : Pids(VideoPids), audio_pid : Pids(AudioPids),
            ad_pid : Pids(AdPids), is_smp : BOOLEAN, secmem : BOOLEAN]
DvrRec == [exists : BOOLEAN, video : Pids(VideoPids), audio : Pids(AudioPids),
           ad : Pids(AdPids), speed : Speeds \cup {0, 100}]
WantedRec == [video : VideoPids \cup {NoPid}, audio : AudioPids \cup {NoPid},
              ad : AdPids \cup {NoPid}]

Types ==
    /\ av \in [Paths -> PathRec]
    /\ live \in [Paths -> LiveRec]
    /\ slot \in [Decoders -> SlotRec]
    /\ dvr \in [Decoders -> DvrRec]
    /\ wanted \in [Paths -> WantedRec]
    /\ play_at \in [Decoders -> {"out", "destroying", "closing"}]
    /\ play_event \in [Decoders -> {"none", "started"}]

(* A slot stays registered while it is not stopped, its player exists while*)
(* it is not, and an event under way is about a player that is there.      *)
StateInv ==
    \A d \in Decoders :
        /\ play_event[d] = "started" => slot[d].play_state # "STOPPED"
        /\ ~slot[d].known => slot[d].play_state = "STOPPED"
        /\ play_at[d] # "destroying" => (slot[d].play_state # "STOPPED" <=> dvr[d].exists)

(* A live player is one of a path whose playback is at rest; nothing is    *)
(* left of one that was released.                                          *)
LiveInv ==
    \A p \in Paths :
        /\ ~live[p].exists => live[p] = NoPlayer
        /\ live[p].exists => /\ av[p].owner \in Decoders
                             /\ play_at[av[p].owner] = "out"
                             /\ slot[av[p].owner].play_state = "STOPPED"

BaseInv == Types /\ StateInv /\ LiveInv

(* What a slot says is what its player plays.                              *)
Plays(s, l) == s.has_video \/ s.has_audio => Streams(s, l) = l

(* What a path remembers is what its player decodes.                       *)
Remembered(a, l) ==
    /\ l.audio # Off => l.audio = a.audio_pid
    /\ l.video # Off => l.video = a.video_pid
    /\ l.ad # Off => l.ad = a.ad_pid

(* A player is as its path and the blanking b are set.  Hidden and surface *)
(* are never ahead of them, also while there is no video: the start of     *)
(* video only adds to them.                                                *)
AsSet(a, l, b) ==
    /\ l.audio # Off => l.muted = (a.audio_out_control # {})
    /\ l.hidden => b
    /\ l.video # Off => l.hidden = b
    /\ l.surface => a.surface
    /\ l.video # Off => l.surface = a.surface
    /\ l.exists /\ l.source = "demod" => l.cached = Cached(a.decoding_mode)

Blanked(p) == av[av[p].owner].video_out_control
SetInv == \A p \in Paths : AsSet(av[p], live[p], Blanked(p))

(* What a path goes through in a call, as far as it matters here.          *)
LastTakes(l, a2, l2) ==
    /\ l.exists
    /\ \/ l.audio # Off /\ l2.audio = Off /\ a2.audio_pid = Off
       \/ l.video # Off /\ l2.video = Off /\ a2.video_pid = Off
       \/ l.ad # Off /\ l2.ad = Off /\ a2.ad_pid = Off
    /\ l2.audio = Off /\ l2.video = Off /\ l2.ad = Off
    => ~l2.exists \/ l2.kept
Goes(a, a2, l, l2, b) ==
    /\ a2 \in PathRec /\ l2 \in LiveRec
    /\ ~l2.exists => l2 = NoPlayer
    /\ a2.video_out_control = a.video_out_control
    /\ l2.exists => a2.owner = a.owner
    /\ AsSet(a, l, b) => AsSet(a2, l2, b)
    /\ "stop" \notin AvFails /\ Remembered(a, l) => Remembered(a2, l2) /\ LastTakes(l, a2, l2)

------------------------------------------------------------------------------
(* Lemmas about single players.                                            *)

LEMMA NoPlayerType == NoPlayer \in LiveRec
BY DEF NoPlayer, LiveRec, Pids

(* No player is nothing that could be set otherwise.                       *)
LEMMA NothingIsAsSet ==
    ASSUME NEW a, NEW b PROVE AsSet(a, NoPlayer, b) /\ Remembered(a, NoPlayer)
BY DEF AsSet, Remembered, NoPlayer

(* A path without a player goes anywhere that has none.                    *)
LEMMA GoesWithNone ==
    ASSUME NEW a \in PathRec, NEW a2 \in PathRec, NEW b,
           a2.video_out_control = a.video_out_control
    PROVE Goes(a, a2, NoPlayer, NoPlayer, b)
<1>1. ~NoPlayer.exists
  BY DEF NoPlayer
<1> QED
  BY <1>1, NoPlayerType, NothingIsAsSet DEF Goes, LastTakes

(* A player that is there, or is made for a call.                          *)
LEMMA OpensTo ==
    ASSUME BaseInv, NEW p \in Paths, NEW l \in Opened(p)
    PROVE  /\ l \in LiveRec
           /\ ~l.exists => l = NoPlayer
           /\ \A b, a2, l2 : Goes(av[p], a2, l, l2, b) => Goes(av[p], a2, live[p], l2, b)
<1> DEFINE c == Cached(av[p].decoding_mode)
           from == IF av[p].injecting THEN "memory" ELSE "demod"
<1>1. CASE live[p].exists
  BY <1>1 DEF Opened, BaseInv, Types
<1>2. CASE l = Created(p) /\ ~live[p].exists
  <2>1. c \in BOOLEAN /\ from \in {"memory", "demod"}
    BY DEF Cached
  <2>2. Created(p) = [NoPlayer EXCEPT !.exists = TRUE, !.cached = c, !.source = from]
    BY Zenon DEF Created
  <2> HIDE DEF c, from
  <2>3. /\ Created(p) \in LiveRec
        /\ Created(p).exists /\ Created(p).video = Off /\ Created(p).audio = Off
        /\ Created(p).ad = Off /\ ~Created(p).hidden /\ ~Created(p).surface
        /\ Created(p).cached = c
    BY <2>1, <2>2 DEF NoPlayer, LiveRec, Pids
  <2>4. \A b : AsSet(av[p], l, b) /\ Remembered(av[p], l)
    BY <1>2, <2>3 DEF AsSet, Remembered, c
  <2>5. ~live[p].exists
    BY <1>2
  <2>6. ASSUME NEW b, NEW a2, NEW l2, Goes(av[p], a2, l, l2, b)
        PROVE  Goes(av[p], a2, live[p], l2, b)
    BY <2>4, <2>5, <2>6 DEF Goes, LastTakes
  <2> QED
    BY <1>2, <2>3, <2>6
<1>3. CASE l = NoPlayer /\ ~live[p].exists
  BY <1>3, NoPlayerType DEF BaseInv, LiveInv
<1> QED
  BY <1>1, <1>2, <1>3 DEF Opened

(* A flag of the audio that is set or cleared leaves the rest.             *)
LEMMA FlagSet ==
    ASSUME NEW a \in PathRec, NEW flag \in {"VOL", "APP"}, NEW m \in BOOLEAN
    PROVE  /\ WithFlag(a, flag, m) \in PathRec
           /\ WithFlag(a, flag, m).owner = a.owner
           /\ WithFlag(a, flag, m).video_pid = a.video_pid
           /\ WithFlag(a, flag, m).audio_pid = a.audio_pid
           /\ WithFlag(a, flag, m).ad_pid = a.ad_pid
           /\ WithFlag(a, flag, m).video_out_control = a.video_out_control
           /\ WithFlag(a, flag, m).decoding_mode = a.decoding_mode
           /\ WithFlag(a, flag, m).surface = a.surface
<1> DEFINE aoc == IF m THEN a.audio_out_control \cup {flag} ELSE a.audio_out_control \ {flag}
           mu == IF flag = "VOL" THEN m ELSE a.mute
<1>1. aoc \in SUBSET {"VOL", "APP"} /\ mu \in BOOLEAN
  BY DEF PathRec
<1>2. WithFlag(a, flag, m) = [a EXCEPT !.audio_out_control = aoc, !.mute = mu]
  BY Zenon DEF WithFlag
<1> HIDE DEF aoc, mu
<1> QED
  BY <1>1, <1>2 DEF PathRec

------------------------------------------------------------------------------
(* The calls for live services: each goes from a player that is there.     *)

Does(p, l) ==
    \E a2, l2 : /\ av' = [av EXCEPT ![p] = a2]
                /\ live' = [live EXCEPT ![p] = l2]
                /\ Goes(av[p], a2, l, l2, Blanked(p))

(* The start of audio, as far as the library goes along.                   *)
LEMMA AudioStartsFrom ==
    ASSUME BaseInv, NEW p \in Paths, NEW l \in LiveRec, l.exists,
           NEW m \in BOOLEAN, wanted[p].audio # NoPid,
           AudioStarts(p, [l EXCEPT !.muted = m])
    PROVE  Does(p, l)
<1> DEFINE a == av[p]
           w == wanted[p].audio
           s == WithFlag(a, "VOL", a.mute)
           mm == s.audio_out_control # {}
           l1 == [l EXCEPT !.muted = m]
<1>1. a \in PathRec /\ w \in AudioPids
  BY DEF BaseInv, Types, WantedRec
<1>2. w \in Pids(AudioPids) /\ w # Off /\ Off \in Pids(AudioPids)
  BY <1>1, AvPathAssumption DEF Pids
<1>3. /\ s \in PathRec /\ s.owner = a.owner /\ s.video_pid = a.video_pid
      /\ s.audio_pid = a.audio_pid /\ s.ad_pid = a.ad_pid
      /\ s.video_out_control = a.video_out_control
      /\ s.decoding_mode = a.decoding_mode /\ s.surface = a.surface
  <2>1. a.mute \in BOOLEAN
    BY <1>1 DEF PathRec
  <2> QED
    BY ZenonT(60), <1>1, <2>1, FlagSet
<1>4. PICK ok \in BOOLEAN :
         /\ av' = [av EXCEPT ![p] = IF ok THEN [s EXCEPT !.audio_pid = w, !.presented = TRUE]
                                    ELSE s]
         /\ live' = [live EXCEPT ![p] =
                [l1 EXCEPT !.audio = IF ok THEN w ELSE Off, !.muted = mm]]
  BY DEF AudioStarts, LibMay
<1> DEFINE yes == TRUE
           a2 == IF ok THEN [s EXCEPT !.audio_pid = w, !.presented = yes] ELSE s
           au == IF ok THEN w ELSE Off
           l2 == [l1 EXCEPT !.audio = au, !.muted = mm]
<1>5. av' = [av EXCEPT ![p] = a2] /\ live' = [live EXCEPT ![p] = l2]
  BY <1>4, Zenon
<1>6. mm = (s.audio_out_control # {}) /\ mm \in BOOLEAN /\ yes \in BOOLEAN
  OBVIOUS
<1>7. /\ au \in Pids(AudioPids) /\ (au = Off <=> ~ok)
      /\ ok => au = w
  BY <1>2
<1> HIDE DEF s, mm, yes, au, w
<1>8. /\ a2 \in PathRec /\ a2.owner = a.owner /\ a2.video_pid = a.video_pid
      /\ a2.ad_pid = a.ad_pid /\ a2.video_out_control = a.video_out_control
      /\ a2.decoding_mode = a.decoding_mode /\ a2.surface = a.surface
      /\ a2.audio_out_control = s.audio_out_control
      /\ ok => a2.audio_pid = w
      /\ ~ok => a2.audio_pid = a.audio_pid
  BY <1>2, <1>3, <1>6 DEF PathRec
<1>9. /\ l2 \in LiveRec /\ l2.exists = l.exists /\ l2.video = l.video /\ l2.ad = l.ad
      /\ l2.audio = au /\ l2.muted = mm /\ l2.hidden = l.hidden
      /\ l2.cached = l.cached /\ l2.source = l.source /\ l2.surface = l.surface
  <2>1. /\ l1 \in LiveRec /\ l1.exists = l.exists /\ l1.video = l.video /\ l1.ad = l.ad
        /\ l1.hidden = l.hidden /\ l1.cached = l.cached /\ l1.source = l.source
        /\ l1.surface = l.surface
    BY DEF LiveRec
  <2> HIDE DEF l1
  <2> QED
    BY <1>6, <1>7, <2>1 DEF LiveRec
<1> HIDE DEF a2, l2
<1>10. ASSUME NEW b PROVE Goes(a, a2, l, l2, b)
  <2>1. ASSUME AsSet(a, l, b) PROVE AsSet(a2, l2, b)
    BY <1>6, <1>8, <1>9, <2>1 DEF AsSet
  <2>2. ASSUME Remembered(a, l) PROVE Remembered(a2, l2) /\ LastTakes(l, a2, l2)
    BY <1>7, <1>8, <1>9, <2>2 DEF Remembered, LastTakes
  <2> QED
    BY <1>8, <1>9, <2>1, <2>2 DEF Goes
<1> QED
  BY <1>5, <1>10 DEF Does

(* A call that leaves the path alone and changes its player so.            *)
LEMMA PlayerOnly ==
    ASSUME BaseInv, NEW p \in Paths, NEW l, NEW l2, UNCHANGED av,
           live' = [live EXCEPT ![p] = l2], Goes(av[p], av[p], l, l2, Blanked(p))
    PROVE  Does(p, l)
<1>1. av' = [av EXCEPT ![p] = av[p]]
  BY DEF BaseInv, Types
<1> QED
  BY <1>1 DEF Does

LEMMA AudioFrom ==
    ASSUME BaseInv, NEW p \in Paths, NEW l \in LiveRec, l.exists, LiveAudio(p, l)
    PROVE  Does(p, l)
<1> DEFINE m == l.muted \/ av[p].audio_out_control # {}
           l2 == [l EXCEPT !.muted = m]
<1>1. m \in BOOLEAN
  BY DEF LiveRec
<1>2. [l EXCEPT !.muted = @ \/ av[p].audio_out_control # {}] = l2
  OBVIOUS
<1>3. \/ wanted[p].audio # NoPid /\ AudioStarts(p, l2)
      \/ live' = [live EXCEPT ![p] = l2] /\ UNCHANGED av
  BY <1>2, Zenon DEF LiveAudio
<1>4. m = (l.muted \/ av[p].audio_out_control # {})
  OBVIOUS
<1> HIDE DEF m
<1>5. CASE wanted[p].audio # NoPid /\ AudioStarts(p, l2)
  BY <1>1, <1>5, AudioStartsFrom
<1>6. CASE live' = [live EXCEPT ![p] = l2] /\ UNCHANGED av
  <2>1. /\ l2 \in LiveRec /\ l2.exists = l.exists /\ l2.video = l.video /\ l2.ad = l.ad
        /\ l2.audio = l.audio /\ l2.muted = m /\ l2.hidden = l.hidden
        /\ l2.cached = l.cached /\ l2.source = l.source /\ l2.surface = l.surface
    BY <1>1 DEF LiveRec
  <2> HIDE DEF l2
  <2>2. av[p] \in PathRec
    BY DEF BaseInv, Types
  <2>3. ASSUME NEW b PROVE Goes(av[p], av[p], l, l2, b)
    BY <1>4, <2>1, <2>2 DEF Goes, AsSet, Remembered, LastTakes
  <2> QED
    BY <1>6, <2>3, PlayerOnly
<1> QED
  BY <1>3, <1>5, <1>6

(* The start of video, which adds the surface and the blanking.            *)
LEMMA VideoFrom ==
    ASSUME BaseInv, NEW p \in Paths, NEW l \in LiveRec, l.exists, IsLive(p),
           wanted[p].video # NoPid, VideoStarts(p, l)
    PROVE  Does(p, l)
<1> DEFINE a == av[p]
           b == Blanked(p)
           w == wanted[p].video
           f == l.surface \/ a.surface
           h == l.hidden \/ b
           l1 == [l EXCEPT !.surface = f, !.hidden = h]
<1>1. a \in PathRec /\ w \in VideoPids /\ b \in BOOLEAN
  <2>1. a.owner \in Paths
    BY AvPathAssumption DEF IsLive, Ready
  <2> QED
    BY <2>1 DEF BaseInv, Types, WantedRec, PathRec, Blanked
<1>2. w \in Pids(VideoPids) /\ w # Off /\ Off \in Pids(VideoPids)
  BY <1>1, AvPathAssumption DEF Pids
<1>3. f \in BOOLEAN /\ h \in BOOLEAN /\ f = (l.surface \/ a.surface) /\ h = (l.hidden \/ b)
  BY <1>1 DEF LiveRec, PathRec
<1>4. [l EXCEPT !.surface = @ \/ av[p].surface,
                !.hidden = @ \/ av[Pair(p)].video_out_control] = l1
  BY DEF Blanked, Pair
<1>5. \/ /\ live' = [live EXCEPT ![p] = l1] /\ UNCHANGED av
      \/ \E ok \in BOOLEAN :
            /\ live' = [live EXCEPT ![p] = [l1 EXCEPT !.video = IF ok THEN w ELSE Off]]
            /\ av' = IF ok THEN [av EXCEPT ![p].video_pid = w] ELSE av
  BY <1>4, Zenon DEF VideoStarts, LibMay
<1> HIDE DEF f, h
<1>6. /\ l1 \in LiveRec /\ l1.exists = l.exists /\ l1.video = l.video /\ l1.ad = l.ad
      /\ l1.audio = l.audio /\ l1.muted = l.muted /\ l1.hidden = h
      /\ l1.cached = l.cached /\ l1.source = l.source /\ l1.surface = f
  BY <1>3 DEF LiveRec
<1> HIDE DEF l1, b
<1>7. CASE live' = [live EXCEPT ![p] = l1] /\ UNCHANGED av
  <2>1. Goes(a, a, l, l1, b)
    BY ZenonT(60), <1>1, <1>3, <1>6 DEF Goes, AsSet, Remembered, LastTakes, LiveRec, PathRec
  <2>2. av' = [av EXCEPT ![p] = a]
    BY <1>7 DEF BaseInv, Types
  <2> QED
    BY <1>7, <2>1, <2>2 DEF b, Does
<1>8. CASE \E ok \in BOOLEAN :
            /\ live' = [live EXCEPT ![p] = [l1 EXCEPT !.video = IF ok THEN w ELSE Off]]
            /\ av' = IF ok THEN [av EXCEPT ![p].video_pid = w] ELSE av
  <2>1. PICK ok \in BOOLEAN :
            /\ live' = [live EXCEPT ![p] = [l1 EXCEPT !.video = IF ok THEN w ELSE Off]]
            /\ av' = IF ok THEN [av EXCEPT ![p].video_pid = w] ELSE av
    BY <1>8
  <2> DEFINE vi == IF ok THEN w ELSE Off
             l2 == [l1 EXCEPT !.video = vi]
             a2 == IF ok THEN [a EXCEPT !.video_pid = w] ELSE a
  <2>2. live' = [live EXCEPT ![p] = l2] /\ av' = [av EXCEPT ![p] = a2]
    BY <1>1, <2>1 DEF BaseInv, Types
  <2>3. vi \in Pids(VideoPids) /\ (vi = Off <=> ~ok) /\ (ok => vi = w)
    BY <1>2
  <2> HIDE DEF vi
  <2>4. /\ a2 \in PathRec /\ a2.owner = a.owner /\ a2.audio_pid = a.audio_pid
        /\ a2.ad_pid = a.ad_pid /\ a2.video_out_control = a.video_out_control
        /\ a2.decoding_mode = a.decoding_mode /\ a2.surface = a.surface
        /\ a2.audio_out_control = a.audio_out_control
        /\ ok => a2.video_pid = w
        /\ ~ok => a2.video_pid = a.video_pid
    BY <1>1, <1>2 DEF PathRec
  <2>5. /\ l2 \in LiveRec /\ l2.exists = l.exists /\ l2.video = vi /\ l2.ad = l.ad
        /\ l2.audio = l.audio /\ l2.muted = l.muted /\ l2.hidden = h
        /\ l2.cached = l.cached /\ l2.source = l.source /\ l2.surface = f
    BY <1>6, <2>3 DEF LiveRec
  <2> HIDE DEF a2, l2
  <2>6. ASSUME AsSet(a, l, b) PROVE AsSet(a2, l2, b)
    BY ZenonT(60), <1>1, <1>3, <2>4, <2>5, <2>6 DEF AsSet, LiveRec, PathRec
  <2>7. ASSUME Remembered(a, l) PROVE Remembered(a2, l2) /\ LastTakes(l, a2, l2)
    BY <2>3, <2>4, <2>5, <2>7 DEF Remembered, LastTakes
  <2>8. Goes(a, a2, l, l2, b)
    BY <2>4, <2>5, <2>6, <2>7 DEF Goes
  <2> QED
    BY <2>2, <2>8 DEF b, Does
<1> QED
  BY <1>5, <1>7, <1>8

------------------------------------------------------------------------------
(* The calls that stop.  The player goes when nothing is left to decode.   *)

LEMMA Forgets ==
    ASSUME NEW a \in PathRec
    PROVE  LET v == [a EXCEPT !.video_pid = Off]
               u == [a EXCEPT !.audio_pid = Off]
               x == [a EXCEPT !.ad_pid = Off]
           IN  /\ v \in PathRec /\ u \in PathRec /\ x \in PathRec
               /\ v.video_pid = Off /\ v.audio_pid = a.audio_pid /\ v.ad_pid = a.ad_pid
               /\ u.video_pid = a.video_pid /\ u.audio_pid = Off /\ u.ad_pid = a.ad_pid
               /\ x.video_pid = a.video_pid /\ x.audio_pid = a.audio_pid /\ x.ad_pid = Off
               /\ \A y \in {u, v, x} :
                     /\ y.owner = a.owner /\ y.video_out_control = a.video_out_control
                     /\ y.decoding_mode = a.decoding_mode /\ y.surface = a.surface
                     /\ y.audio_out_control = a.audio_out_control
BY DEF PathRec, Pids

LEMMA Silenced ==
    ASSUME NEW l \in LiveRec
    PROVE  LET v == [l EXCEPT !.video = Off]
               u == [l EXCEPT !.audio = Off]
               x == [l EXCEPT !.ad = Off]
           IN  /\ v \in LiveRec /\ u \in LiveRec /\ x \in LiveRec
               /\ v.video = Off /\ v.audio = l.audio /\ v.ad = l.ad
               /\ u.video = l.video /\ u.audio = Off /\ u.ad = l.ad
               /\ x.video = l.video /\ x.audio = l.audio /\ x.ad = Off
               /\ \A y \in {u, v, x} :
                     /\ y.exists = l.exists /\ y.muted = l.muted /\ y.hidden = l.hidden
                     /\ y.cached = l.cached /\ y.source = l.source
                     /\ y.surface = l.surface
BY DEF LiveRec, Pids

SameSettings(a, a2) ==
    /\ a2.owner = a.owner /\ a2.video_out_control = a.video_out_control
    /\ a2.decoding_mode = a.decoding_mode /\ a2.surface = a.surface
    /\ a2.audio_out_control = a.audio_out_control
SamePlayer(l, m) ==
    /\ m.exists = l.exists /\ m.muted = l.muted /\ m.hidden = l.hidden
    /\ m.cached = l.cached /\ m.source = l.source /\ m.surface = l.surface

(* A player that the library did not destroy is as it was.                 *)
SameDecoders(l, m) == m.audio = l.audio /\ m.video = l.video /\ m.ad = l.ad

LEMMA KeptPlayer ==
    ASSUME NEW m \in LiveRec
    PROVE  LET k == [m EXCEPT !.kept = TRUE]
           IN  k \in LiveRec /\ SamePlayer(m, k) /\ SameDecoders(m, k) /\ k.kept
<1> DEFINE yes == TRUE
           k == [m EXCEPT !.kept = yes]
<1>1. yes \in BOOLEAN /\ yes
  OBVIOUS
<1> HIDE DEF yes
<1>2. k \in LiveRec /\ SamePlayer(m, k) /\ SameDecoders(m, k) /\ k.kept
  BY <1>1 DEF LiveRec, SamePlayer, SameDecoders
<1> QED
  BY <1>2 DEF yes

(* A player that decodes less goes when it decodes nothing.                *)
LEMMA LessDecoded ==
    ASSUME NEW a \in PathRec, NEW a2 \in PathRec, NEW l \in LiveRec, NEW m \in LiveRec, NEW b,
           NEW gone \in BOOLEAN, SameSettings(a, a2), SamePlayer(l, m), l.exists,
           m.audio = Off \/ (m.audio = l.audio /\ a2.audio_pid = a.audio_pid),
           m.video = Off \/ (m.video = l.video /\ a2.video_pid = a.video_pid),
           m.ad = Off \/ (m.ad = l.ad /\ a2.ad_pid = a.ad_pid)
    PROVE  Goes(a, a2, l, IfUsed(m, gone), b)
<1>1. CASE m.video = Off /\ m.audio = Off /\ m.ad = Off /\ gone
  <2>1. IfUsed(m, gone) = NoPlayer /\ ~NoPlayer.exists
    BY <1>1 DEF IfUsed, Released, NoPlayer
  <2> QED
    BY <2>1, NoPlayerType, NothingIsAsSet DEF Goes, LastTakes, SameSettings
<1>2. CASE ~(m.video = Off /\ m.audio = Off /\ m.ad = Off)
  <2>1. IfUsed(m, gone) = m
    BY <1>2 DEF IfUsed
  <2>2. ASSUME AsSet(a, l, b) PROVE AsSet(a2, m, b)
    BY <2>2 DEF AsSet, SameSettings, SamePlayer
  <2>3. ASSUME Remembered(a, l) PROVE Remembered(a2, m) /\ LastTakes(l, a2, m)
    BY <1>2, <2>3 DEF Remembered, LastTakes
  <2> QED
    BY <2>1, <2>2, <2>3 DEF Goes, SameSettings, SamePlayer
<1>3. CASE m.video = Off /\ m.audio = Off /\ m.ad = Off /\ ~gone
  <2> DEFINE k == [m EXCEPT !.kept = TRUE]
  <2>1. IfUsed(m, gone) = k
    BY <1>3 DEF IfUsed, Released
  <2>2. k \in LiveRec /\ SamePlayer(m, k) /\ SameDecoders(m, k) /\ k.kept
    BY KeptPlayer
  <2> HIDE DEF k
  <2>3. ASSUME AsSet(a, l, b) PROVE AsSet(a2, k, b)
    BY <2>2, <2>3, <1>3 DEF AsSet, SameSettings, SamePlayer, SameDecoders
  <2>4. Remembered(a2, k) /\ LastTakes(l, a2, k)
    BY <1>3, <2>2 DEF Remembered, LastTakes, SameDecoders
  <2> QED
    BY <2>1, <2>2, <2>3, <2>4 DEF Goes, SameSettings, SamePlayer
<1> QED
  BY <1>1, <1>2, <1>3

LEMMA MayBeGone == LibMay("destroy", TRUE) \subseteq BOOLEAN
BY DEF LibMay

(* When the library does not stop, the path may have forgotten all the     *)
(* same.                                                                   *)
LEMMA FailsToStop ==
    ASSUME NEW a \in PathRec, NEW a2 \in PathRec, NEW l \in LiveRec, NEW m \in LiveRec, NEW b,
           SameSettings(a, a2), SamePlayer(l, m), SameDecoders(l, m), l.exists,
           "stop" \in AvFails
    PROVE  Goes(a, a2, l, m, b)
BY DEF Goes, SameSettings, SamePlayer, SameDecoders, AsSet

(* A player that goes away leaves nothing to compare.                      *)
LEMMA GoesAway ==
    ASSUME NEW a, NEW a2 \in PathRec, NEW l, NEW b,
           a2.video_out_control = a.video_out_control
    PROVE  Goes(a, a2, l, NoPlayer, b)
<1>1. ~NoPlayer.exists
  BY DEF NoPlayer
<1> QED
  BY <1>1, NoPlayerType, NothingIsAsSet DEF Goes, LastTakes

LEMMA VideoStopsFrom ==
    ASSUME BaseInv, NEW p \in Paths, live[p].exists,
           NEW ok \in LibMay("stop", TRUE), NEW gone \in LibMay("destroy", TRUE),
           LiveVideoStops(p, ok, gone)
    PROVE  Does(p, live[p])
<1> DEFINE a == av[p]
           a2 == [a EXCEPT !.video_pid = Off]
           l == live[p]
           m == [l EXCEPT !.video = Off]
<1>1. a \in PathRec /\ l \in LiveRec
  BY DEF BaseInv, Types
<1>2. /\ a2 \in PathRec /\ SameSettings(a, a2)
      /\ a2.audio_pid = a.audio_pid /\ a2.ad_pid = a.ad_pid
  BY <1>1, Forgets DEF SameSettings
<1>3. /\ m \in LiveRec /\ SamePlayer(l, m)
      /\ m.video = Off /\ m.audio = l.audio /\ m.ad = l.ad
  BY <1>1, Silenced DEF SamePlayer
<1>4. av' = [av EXCEPT ![p] = a2] /\ live' = [live EXCEPT ![p] = IF ok THEN IfUsed(m, gone) ELSE l]
  BY DEF LiveVideoStops, BaseInv, Types
<1> HIDE DEF a2, m
<1>5. Goes(a, a2, l, IfUsed(m, gone), Blanked(p))
  BY <1>1, <1>2, <1>3, MayBeGone, LessDecoded
<1>6. ~ok => Goes(a, a2, l, l, Blanked(p))
  <2>1. ~ok => "stop" \in AvFails
    BY DEF LibMay
  <2> QED
    BY <1>1, <1>2, <2>1, FailsToStop DEF SamePlayer, SameDecoders
<1> QED
  BY <1>4, <1>5, <1>6 DEF Does

LEMMA AudioStopsFrom ==
    ASSUME BaseInv, NEW p \in Paths, live[p].exists,
           NEW ok \in LibMay("stop", TRUE), NEW gone \in LibMay("destroy", TRUE),
           LiveAudioStops(p, ok, gone)
    PROVE  Does(p, live[p])
<1> DEFINE no == FALSE
           a == av[p]
           u == [a EXCEPT !.audio_pid = Off]
           a2 == [a EXCEPT !.audio_pid = Off, !.presented = no]
           l == live[p]
           m == [l EXCEPT !.audio = Off]
<1>1. a \in PathRec /\ l \in LiveRec
  BY DEF BaseInv, Types
<1>2. no \in BOOLEAN
  OBVIOUS
<1>3. CASE l.audio = Off
  <2>1. live' = [live EXCEPT ![p] = IfUsed(l, gone)] /\ UNCHANGED av
    BY <1>3 DEF LiveAudioStops
  <2>2. SameSettings(a, a) /\ SamePlayer(l, l)
    BY DEF SameSettings, SamePlayer
  <2>3. Goes(a, a, l, IfUsed(l, gone), Blanked(p))
    BY <1>1, <2>2, MayBeGone, LessDecoded
  <2> QED
    BY <2>1, <2>3, PlayerOnly
<1>4. CASE l.audio # Off
  <2>1. av' = [av EXCEPT ![p] = a2] /\ live' = [live EXCEPT ![p] = IF ok THEN IfUsed(m, gone) ELSE l]
    BY <1>4 DEF LiveAudioStops, BaseInv, Types
  <2> HIDE DEF no
  <2>2. /\ u \in PathRec /\ SameSettings(a, u)
        /\ u.video_pid = a.video_pid /\ u.ad_pid = a.ad_pid
    BY <1>1, Forgets DEF SameSettings
  <2>3. a2 = [u EXCEPT !.presented = no]
    BY <1>1 DEF PathRec
  <2> HIDE DEF u
  <2>4. /\ a2 \in PathRec /\ SameSettings(a, a2)
        /\ a2.video_pid = a.video_pid /\ a2.ad_pid = a.ad_pid
    BY <1>2, <2>2, <2>3 DEF SameSettings, PathRec
  <2>5. /\ m \in LiveRec /\ SamePlayer(l, m)
        /\ m.audio = Off /\ m.video = l.video /\ m.ad = l.ad
    BY <1>1, Silenced DEF SamePlayer
  <2> HIDE DEF a2, m
  <2>6. Goes(a, a2, l, IfUsed(m, gone), Blanked(p))
    BY <1>1, <2>4, <2>5, MayBeGone, LessDecoded
  <2>7. ~ok => Goes(a, a2, l, l, Blanked(p))
    <3>1. ~ok => "stop" \in AvFails
      BY DEF LibMay
    <3> QED
      BY <1>1, <2>4, <3>1, FailsToStop DEF SamePlayer, SameDecoders
  <2> QED
    BY <2>1, <2>6, <2>7 DEF Does
<1> QED
  BY <1>3, <1>4

------------------------------------------------------------------------------
(* The switch of the audio track: a stop and a start of the same player,   *)
(* unless the stop released it.                                            *)
LEMMA SwitchesFrom ==
    ASSUME BaseInv, NEW p \in Paths, live[p].exists, SwitchLive(p)
    PROVE  Does(p, live[p])
<1> DEFINE no == FALSE
           yes == TRUE
           a == av[p]
           l == live[p]
           b == Blanked(p)
           w == wanted[p].audio
           u == [l EXCEPT !.audio = Off]
           s == IF l.audio = Off THEN a ELSE [a EXCEPT !.audio_pid = Off, !.presented = no]
           n == WithFlag(s, "VOL", s.mute)
           new == [n EXCEPT !.audio_pid = w, !.presented = yes]
           aoc == s.audio_out_control # {}
           mm == n.audio_out_control # {}
<1>1. a \in PathRec /\ l \in LiveRec /\ w \in AudioPids \cup {NoPid}
  BY DEF BaseInv, Types, WantedRec
<1>2. PICK stopped \in LibMay("stop", TRUE), gone \in LibMay("destroy", TRUE) :
         LET left == IF l.audio = Off \/ stopped THEN IfUsed(u, gone) ELSE l
             l1 == [left EXCEPT !.muted = @ \/ s.audio_out_control # {}]
         IN  IF ~left.exists
             THEN /\ live' = [live EXCEPT ![p] = NoPlayer]
                  /\ av' \in {[av EXCEPT ![p] = s]}
                             \cup (IF w # NoPid THEN {[av EXCEPT ![p] = new]} ELSE {})
             ELSE IF w = NoPid
             THEN live' = [live EXCEPT ![p] = l1] /\ av' = [av EXCEPT ![p] = s]
             ELSE \E ok \in LibMay("start", TRUE) :
                    /\ av' = [av EXCEPT ![p] = IF ok THEN new ELSE n]
                    /\ live' = [live EXCEPT ![p] =
                           [l1 EXCEPT !.audio = IF ok THEN w ELSE Off, !.muted = mm]]
  BY Zenon DEF SwitchLive
<1> DEFINE left == IF l.audio = Off \/ stopped THEN IfUsed(u, gone) ELSE l
           k == [u EXCEPT !.kept = TRUE]
           m1 == left.muted \/ aoc
           l1 == [left EXCEPT !.muted = m1]
<1>3. \/ /\ ~left.exists /\ live' = [live EXCEPT ![p] = NoPlayer]
         /\ \/ av' = [av EXCEPT ![p] = s]
            \/ w # NoPid /\ av' = [av EXCEPT ![p] = new]
      \/ /\ left.exists /\ live' = [live EXCEPT ![p] = l1] /\ av' = [av EXCEPT ![p] = s]
      \/ /\ left.exists /\ w # NoPid
         /\ \E ok \in BOOLEAN :
               /\ av' = [av EXCEPT ![p] = IF ok THEN new ELSE n]
               /\ live' = [live EXCEPT ![p] =
                      [l1 EXCEPT !.audio = IF ok THEN w ELSE Off, !.muted = mm]]
  <2>1. LibMay("start", TRUE) \subseteq BOOLEAN
    BY DEF LibMay
  <2>2. [left EXCEPT !.muted = @ \/ s.audio_out_control # {}] = l1
    OBVIOUS
  <2> QED
    BY <1>2, <2>1, <2>2, Zenon
<1>4. /\ yes \in BOOLEAN /\ no \in BOOLEAN
      /\ mm \in BOOLEAN /\ mm = (n.audio_out_control # {})
      /\ aoc \in BOOLEAN /\ aoc = (s.audio_out_control # {})
  OBVIOUS
<1> HIDE DEF yes, no
<1>5. /\ s \in PathRec /\ SameSettings(a, s)
      /\ s.video_pid = a.video_pid /\ s.ad_pid = a.ad_pid
      /\ l.audio = Off => s.audio_pid = a.audio_pid
      /\ l.audio # Off => s.audio_pid = Off
  <2> DEFINE e == [a EXCEPT !.audio_pid = Off]
  <2>1. /\ e \in PathRec /\ SameSettings(a, e) /\ e.audio_pid = Off
        /\ e.video_pid = a.video_pid /\ e.ad_pid = a.ad_pid
    BY <1>1, Forgets DEF SameSettings
  <2>2. [a EXCEPT !.audio_pid = Off, !.presented = no] = [e EXCEPT !.presented = no]
    BY <1>1 DEF PathRec
  <2> HIDE DEF e
  <2>3. /\ [e EXCEPT !.presented = no] \in PathRec
        /\ SameSettings(a, [e EXCEPT !.presented = no])
        /\ [e EXCEPT !.presented = no].audio_pid = Off
        /\ [e EXCEPT !.presented = no].video_pid = a.video_pid
        /\ [e EXCEPT !.presented = no].ad_pid = a.ad_pid
    BY <1>4, <2>1 DEF SameSettings, PathRec
  <2>4. SameSettings(a, a)
    BY DEF SameSettings
  <2>5. CASE l.audio = Off
    BY <1>1, <2>4, <2>5
  <2>6. CASE l.audio # Off
    <3>1. s = [e EXCEPT !.presented = no]
      BY <2>2, <2>6
    <3> QED
      BY <2>3, <2>6, <3>1
  <2> QED
    BY <2>5, <2>6
<1> HIDE DEF s
<1>6. /\ n \in PathRec /\ n.owner = s.owner /\ n.video_pid = s.video_pid
      /\ n.audio_pid = s.audio_pid /\ n.ad_pid = s.ad_pid
      /\ n.video_out_control = s.video_out_control
      /\ n.decoding_mode = s.decoding_mode /\ n.surface = s.surface
  <2>1. s.mute \in BOOLEAN
    BY <1>5 DEF PathRec
  <2> QED
    BY <1>5, <2>1, FlagSet
<1> HIDE DEF n
<1>7. w # NoPid => w \in Pids(AudioPids) /\ w # Off
  BY <1>1, AvPathAssumption DEF Pids
<1>8. w # NoPid =>
      /\ new \in PathRec /\ new.owner = a.owner /\ new.video_pid = a.video_pid
      /\ new.audio_pid = w /\ new.ad_pid = a.ad_pid
      /\ new.video_out_control = a.video_out_control
      /\ new.decoding_mode = a.decoding_mode /\ new.surface = a.surface
      /\ new.audio_out_control = n.audio_out_control
  BY <1>4, <1>5, <1>6, <1>7 DEF PathRec, SameSettings
<1> HIDE DEF new
<1>9. /\ u \in LiveRec /\ SamePlayer(l, u)
      /\ u.audio = Off /\ u.video = l.video /\ u.ad = l.ad
  BY <1>1, Silenced DEF SamePlayer
<1> HIDE DEF u
<1>20. /\ k \in LiveRec /\ SamePlayer(l, k) /\ k.kept
       /\ k.audio = Off /\ k.video = l.video /\ k.ad = l.ad
  BY <1>9, KeptPlayer DEF SamePlayer, SameDecoders
<1>10. \/ left = NoPlayer /\ ~left.exists
       \/ left = u /\ ~(u.video = Off /\ u.ad = Off)
       \/ left = k
       \/ left = l /\ "stop" \in AvFails
  <2>1. ~NoPlayer.exists
    BY DEF NoPlayer
  <2> QED
    BY <1>9, <2>1 DEF IfUsed, Released, LibMay
<1> HIDE DEF left, k
<1>11. CASE ~left.exists /\ live' = [live EXCEPT ![p] = NoPlayer]
  <2>1. Goes(a, s, l, NoPlayer, b)
    BY <1>5, GoesAway DEF SameSettings
  <2>2. w # NoPid => Goes(a, new, l, NoPlayer, b)
    BY <1>8, GoesAway
  <2> QED
    BY <1>3, <1>11, <2>1, <2>2 DEF Does
<1>12. ASSUME left.exists
       PROVE  /\ left \in LiveRec /\ SamePlayer(l, left)
              /\ left.video = l.video /\ left.ad = l.ad
              /\ left.audio = Off \/ left.audio = l.audio
              /\ "stop" \notin AvFails =>
                    /\ left.audio = Off
                    /\ (~(left.video = Off /\ left.ad = Off)) \/ left.kept
  BY <1>1, <1>9, <1>10, <1>12, <1>20 DEF SamePlayer
<1>13. left.exists => m1 \in BOOLEAN /\ m1 = (left.muted \/ aoc)
  BY <1>4, <1>12 DEF LiveRec
<1> HIDE DEF m1
<1>14. ASSUME left.exists
       PROVE  /\ l1 \in LiveRec /\ l1.exists = l.exists /\ l1.video = l.video
              /\ l1.ad = l.ad /\ l1.audio = left.audio /\ l1.muted = m1
              /\ l1.hidden = l.hidden /\ l1.cached = l.cached
              /\ l1.source = l.source /\ l1.surface = l.surface /\ l1.kept = left.kept
  BY <1>12, <1>13, <1>14 DEF LiveRec, SamePlayer
<1> HIDE DEF l1
<1>15. CASE /\ left.exists /\ live' = [live EXCEPT ![p] = l1] /\ av' = [av EXCEPT ![p] = s]
  <2>1. ASSUME AsSet(a, l, b) PROVE AsSet(s, l1, b)
    BY ZenonT(60), <1>4, <1>5, <1>12, <1>13, <1>14, <1>15, <2>1 DEF AsSet, SameSettings, SamePlayer
  <2>2. ASSUME Remembered(a, l), "stop" \notin AvFails
        PROVE  Remembered(s, l1) /\ LastTakes(l, s, l1)
    BY <1>5, <1>12, <1>14, <1>15, <2>2 DEF Remembered, LastTakes
  <2>3. Goes(a, s, l, l1, b)
    BY <1>5, <1>14, <1>15, <2>1, <2>2 DEF Goes, SameSettings
  <2> QED
    BY <1>15, <2>3 DEF Does
<1>16. CASE /\ left.exists /\ w # NoPid
            /\ \E ok \in BOOLEAN :
                  /\ av' = [av EXCEPT ![p] = IF ok THEN new ELSE n]
                  /\ live' = [live EXCEPT ![p] =
                         [l1 EXCEPT !.audio = IF ok THEN w ELSE Off, !.muted = mm]]
  <2>1. PICK ok \in BOOLEAN :
                  /\ av' = [av EXCEPT ![p] = IF ok THEN new ELSE n]
                  /\ live' = [live EXCEPT ![p] =
                         [l1 EXCEPT !.audio = IF ok THEN w ELSE Off, !.muted = mm]]
    BY <1>16
  <2> DEFINE au == IF ok THEN w ELSE Off
             a2 == IF ok THEN new ELSE n
             l2 == [l1 EXCEPT !.audio = au, !.muted = mm]
  <2>2. av' = [av EXCEPT ![p] = a2] /\ live' = [live EXCEPT ![p] = l2]
    BY <2>1, Zenon
  <2>3. au \in Pids(AudioPids) /\ (au = Off <=> ~ok) /\ (ok => au = w)
    BY <1>7, <1>16 DEF Pids
  <2>4. mm = (a2.audio_out_control # {}) /\ mm \in BOOLEAN
    BY <1>4, <1>8, <1>16
  <2>5. /\ a2 \in PathRec /\ a2.owner = a.owner /\ a2.video_pid = a.video_pid
        /\ a2.ad_pid = a.ad_pid /\ a2.video_out_control = a.video_out_control
        /\ a2.decoding_mode = a.decoding_mode /\ a2.surface = a.surface
        /\ ok => a2.audio_pid = w
    BY <1>5, <1>6, <1>8, <1>16 DEF SameSettings
  <2> HIDE DEF au, a2, mm
  <2>6. /\ l2 \in LiveRec /\ l2.exists = l.exists /\ l2.video = l.video /\ l2.ad = l.ad
        /\ l2.audio = au /\ l2.muted = mm /\ l2.hidden = l.hidden
        /\ l2.cached = l.cached /\ l2.source = l.source /\ l2.surface = l.surface
        /\ l2.kept = left.kept
    BY <1>14, <1>16, <2>3, <2>4 DEF LiveRec
  <2> HIDE DEF l2
  <2>7. ASSUME AsSet(a, l, b) PROVE AsSet(a2, l2, b)
    BY <2>4, <2>5, <2>6, <2>7 DEF AsSet
  <2>8. ASSUME Remembered(a, l), "stop" \notin AvFails
        PROVE  Remembered(a2, l2) /\ LastTakes(l, a2, l2)
    BY <1>12, <1>16, <2>3, <2>5, <2>6, <2>8 DEF Remembered, LastTakes
  <2>9. Goes(a, a2, l, l2, b)
    BY <2>5, <2>6, <2>7, <2>8 DEF Goes
  <2> QED
    BY <2>2, <2>9 DEF Does
<1> QED
  BY <1>3, <1>11, <1>15, <1>16

------------------------------------------------------------------------------
(* What a playback is told.                                                *)

SameSlot(s, t) ==
    /\ t.known = s.known /\ t.play_state = s.play_state /\ t.play_speed = s.play_speed
    /\ t.is_smp = s.is_smp /\ t.secmem = s.secmem

LEMMA AudioChanged ==
    ASSUME NEW s \in SlotRec, NEW pid \in Pids(AudioPids)
    PROVE  WithAudio(s, pid) \in SlotRec /\ SameSlot(s, WithAudio(s, pid))
<1> DEFINE h == IF s.audio_pid = pid THEN s.has_audio ELSE pid \notin {NoPid, Off}
           r == [s EXCEPT !.audio_pid = pid, !.has_audio = h]
<1>1. WithAudio(s, pid) = r
  BY Zenon DEF WithAudio
<1>2. h \in BOOLEAN
  BY DEF SlotRec
<1> HIDE DEF h
<1>3. r \in SlotRec
  BY <1>2 DEF SlotRec
<1>4. SameSlot(s, r)
  BY DEF SlotRec, SameSlot
<1>5. SameSlot(s, s)
  BY DEF SameSlot
<1> HIDE DEF r
<1> QED
  BY <1>1, <1>3, <1>4, <1>5

LEMMA VideoChanged ==
    ASSUME NEW s \in SlotRec, NEW pid \in Pids(VideoPids)
    PROVE  WithVideo(s, pid) \in SlotRec /\ SameSlot(s, WithVideo(s, pid))
<1> DEFINE h == IF s.video_pid = pid THEN s.has_video ELSE pid # Off
           r == [s EXCEPT !.video_pid = pid, !.has_video = h]
<1>1. WithVideo(s, pid) = IF pid = NoPid THEN s ELSE r
  BY Zenon DEF WithVideo
<1>2. h \in BOOLEAN
  BY DEF SlotRec
<1> HIDE DEF h
<1>3. r \in SlotRec
  BY <1>2 DEF SlotRec
<1>4. SameSlot(s, r)
  BY DEF SlotRec, SameSlot
<1>5. SameSlot(s, s)
  BY DEF SameSlot
<1> HIDE DEF r
<1> QED
  BY <1>1, <1>3, <1>4, <1>5

(* A player that is told of its streams plays what the slot says.          *)
LEMMA StreamsPlay ==
    ASSUME NEW s \in SlotRec, NEW l \in DvrRec
    PROVE  /\ Streams(s, l) \in DvrRec
           /\ Streams(s, l).exists = l.exists /\ Streams(s, l).speed = l.speed
           /\ Plays(s, Streams(s, l))
<1> DEFINE vi == IF s.has_video THEN s.video_pid ELSE Off
           au == IF s.has_audio THEN s.audio_pid ELSE Off
           x == s.ad_pid
           e == [l EXCEPT !.video = vi, !.audio = au, !.ad = x]
<1>1. Streams(s, l) = e /\ Streams(s, e) = [e EXCEPT !.video = vi, !.audio = au, !.ad = x]
  BY Zenon DEF Streams
<1>2. vi \in Pids(VideoPids) /\ au \in Pids(AudioPids) /\ x \in Pids(AdPids)
  BY DEF SlotRec, Pids
<1> HIDE DEF vi, au, x
<1>3. /\ e \in DvrRec /\ e.exists = l.exists /\ e.speed = l.speed
      /\ e.video = vi /\ e.audio = au /\ e.ad = x
  BY <1>2 DEF DvrRec
<1> HIDE DEF e
<1>4. [e EXCEPT !.video = vi, !.audio = au, !.ad = x] = e
  BY <1>3 DEF DvrRec
<1> QED
  BY <1>1, <1>3, <1>4 DEF Plays

SlotMoves(d) ==
    \E s \in SlotRec, e \in DvrRec :
        /\ slot' = [slot EXCEPT ![d] = s] /\ dvr' = [dvr EXCEPT ![d] = e]
        /\ SameSlot(slot[d], s)
        /\ e.exists = dvr[d].exists /\ e.speed = dvr[d].speed
        /\ "streams" \notin PlayFails /\ Plays(slot[d], dvr[d]) => Plays(s, e)

LEMMA PidsChange ==
    ASSUME BaseInv, NEW d \in Decoders, NEW video \in Pids(VideoPids),
           NEW audio \in Pids(AudioPids), NEW ad \in Pids(AdPids),
           NEW c \in ChangeDecodePIDs(d, video, audio, ad)
    PROVE  /\ c.slot \in SlotRec /\ c.dvr \in DvrRec
           /\ SameSlot(slot[d], c.slot)
           /\ c.dvr.exists = dvr[d].exists /\ c.dvr.speed = dvr[d].speed
           /\ c.ok \in BOOLEAN
           /\ "streams" \notin PlayFails /\ Plays(slot[d], dvr[d]) => Plays(c.slot, c.dvr)
<1> DEFINE l == dvr[d]
           t == WithVideo(WithAudio(slot[d], audio), video)
           s == [t EXCEPT !.ad_pid = ad]
<1>1. slot[d] \in SlotRec /\ l \in DvrRec
  BY DEF BaseInv, Types
<1>2. t \in SlotRec /\ SameSlot(slot[d], t)
  <2> DEFINE u == WithAudio(slot[d], audio)
  <2>1. u \in SlotRec /\ SameSlot(slot[d], u)
    BY <1>1, AudioChanged
  <2> HIDE DEF u
  <2>2. WithVideo(u, video) \in SlotRec /\ SameSlot(u, WithVideo(u, video))
    BY <2>1, VideoChanged
  <2> QED
    BY <2>1, <2>2 DEF u, SameSlot
<1>3. c \in IF s = slot[d] THEN {[slot |-> s, dvr |-> l, ok |-> TRUE]} ELSE Updated(s, l)
  BY Zenon DEF ChangeDecodePIDs
<1> HIDE DEF t
<1>4. s \in SlotRec /\ SameSlot(slot[d], s)
  BY <1>2 DEF SlotRec, SameSlot
<1> HIDE DEF s, l
<1>5. \/ s = slot[d] /\ c = [slot |-> s, dvr |-> l, ok |-> TRUE]
      \/ ~s.has_video /\ ~s.has_audio /\ c = [slot |-> s, dvr |-> l, ok |-> FALSE]
      \/ c = [slot |-> s, dvr |-> Streams(s, l), ok |-> TRUE]
      \/ "streams" \in PlayFails /\ c = [slot |-> s, dvr |-> l, ok |-> FALSE]
  BY <1>3 DEF Updated
<1>6. /\ Streams(s, l) \in DvrRec /\ Streams(s, l).exists = l.exists
      /\ Streams(s, l).speed = l.speed /\ Plays(s, Streams(s, l))
  BY <1>1, <1>4, StreamsPlay DEF l
<1>7. c.slot = s /\ c.ok \in BOOLEAN
  <2>1. \A z, y : [slot |-> s, dvr |-> z, ok |-> y].slot = s
    OBVIOUS
  <2>2. c.slot = s
    BY <1>5, <2>1, Zenon
  <2>3. \A z : /\ [slot |-> s, dvr |-> z, ok |-> TRUE].ok = TRUE
               /\ [slot |-> s, dvr |-> z, ok |-> FALSE].ok = FALSE
    BY Zenon
  <2>4. c.ok = TRUE \/ c.ok = FALSE
    BY <1>5, <2>3, Zenon
  <2> QED
    BY <2>2, <2>4
<1>8. \/ c.dvr = Streams(s, l)
      \/ c.dvr = l /\ (s = slot[d] \/ (~s.has_video /\ ~s.has_audio) \/ "streams" \in PlayFails)
  BY <1>5
<1>9. ASSUME "streams" \notin PlayFails, Plays(slot[d], l) PROVE Plays(s, c.dvr)
  <2>1. CASE c.dvr = Streams(s, l)
    BY <1>6, <2>1
  <2>2. CASE c.dvr = l /\ s = slot[d]
    BY <1>9, <2>2
  <2>3. CASE ~s.has_video /\ ~s.has_audio
    BY <2>3 DEF Plays
  <2> QED
    BY <1>8, <1>9, <2>1, <2>2, <2>3
<1> QED
  BY <1>1, <1>4, <1>6, <1>7, <1>8, <1>9 DEF l

(* A call in a playback: it has no live player, and its slot stays what it *)
(* is but for the streams.                                                 *)
LEMMA NoneInPlayback ==
    ASSUME BaseInv, NEW p \in Paths, IsPvr(p)
    PROVE  live[p] = NoPlayer /\ Pair(p) \in Decoders
BY DEF BaseInv, Types, LiveInv, IsPvr, Ready, IsPlayStopped, Pair

LEMMA PathOnly ==
    ASSUME BaseInv, NEW p \in Paths, live[p] = NoPlayer, NEW a2 \in PathRec,
           a2.video_out_control = av[p].video_out_control,
           av' = [av EXCEPT ![p] = a2], UNCHANGED live
    PROVE  Does(p, live[p])
<1>1. live' = [live EXCEPT ![p] = NoPlayer] /\ av[p] \in PathRec
  BY DEF BaseInv, Types
<1> QED
  BY <1>1, GoesWithNone DEF Does

LEMMA ToldGoes ==
    ASSUME BaseInv, NEW p \in Paths, IsPvr(p), UNCHANGED live,
           NEW video \in Pids(VideoPids), NEW audio \in Pids(AudioPids),
           NEW ad \in Pids(AdPids), NEW yes \in PathRec, NEW no \in PathRec,
           yes.video_out_control = av[p].video_out_control,
           no.video_out_control = av[p].video_out_control,
           Told(p, video, audio, ad, yes, no)
    PROVE  /\ Does(p, live[p]) /\ SlotMoves(Pair(p))
           /\ UNCHANGED <<play_at, play_event, session>>
<1>1. live[p] = NoPlayer /\ Pair(p) \in Decoders
  BY NoneInPlayback
<1>2. PICK c \in ChangeDecodePIDs(Pair(p), video, audio, ad) :
        /\ slot' = [slot EXCEPT ![Pair(p)] = c.slot]
        /\ dvr' = [dvr EXCEPT ![Pair(p)] = c.dvr]
        /\ av' = [av EXCEPT ![p] = IF c.ok THEN yes ELSE no]
  BY DEF Told
<1>3. SlotMoves(Pair(p))
  BY ZenonT(60), <1>1, <1>2, PidsChange DEF SlotMoves
<1>4. Does(p, live[p])
  <2>1. PICK a2 \in {yes, no} : av' = [av EXCEPT ![p] = a2]
    BY <1>2
  <2> QED
    BY <1>1, <2>1, PathOnly
<1> QED
  BY <1>3, <1>4 DEF Told

------------------------------------------------------------------------------
(* The calls for a path: what each does to it, to its player and to a      *)
(* playback.                                                               *)

PathMoves(p) ==
    /\ Does(p, live[p])
    /\ wanted' \in [Paths -> WantedRec]
    /\ live' = live \/ IsLive(p) \/ live[p].exists
    /\ \/ UNCHANGED playVars
       \/ IsPvr(p) /\ SlotMoves(Pair(p)) /\ UNCHANGED <<play_at, play_event, session>>

LEMMA Stays ==
    ASSUME BaseInv, NEW p \in Paths, UNCHANGED <<av, live>>
    PROVE  Does(p, live[p])
<1>1. /\ av' = [av EXCEPT ![p] = av[p]] /\ live' = [live EXCEPT ![p] = live[p]]
      /\ av[p] \in PathRec /\ live[p] \in LiveRec
  BY DEF BaseInv, Types
<1>2. Goes(av[p], av[p], live[p], live[p], Blanked(p))
  BY <1>1 DEF Goes, LastTakes, BaseInv, LiveInv
<1> QED
  BY <1>1, <1>2 DEF Does

LEMMA FromOpened ==
    ASSUME BaseInv, NEW p \in Paths, NEW l \in Opened(p), Does(p, l)
    PROVE  Does(p, live[p])
BY OpensTo DEF Does

LEMMA WantedSame == BaseInv /\ UNCHANGED wanted => wanted' \in [Paths -> WantedRec]
BY DEF BaseInv, Types

LEMMA LiveMoves ==
    ASSUME BaseInv, NEW p \in Paths, Does(p, live[p]), AvOnly, UNCHANGED wanted,
           UNCHANGED live \/ IsLive(p) \/ live[p].exists
    PROVE  PathMoves(p)
<1>1. UNCHANGED playVars
  BY DEF AvOnly
<1> QED
  BY <1>1, WantedSame DEF PathMoves

LEMMA PvrMoves ==
    ASSUME BaseInv, NEW p \in Paths, IsPvr(p), Does(p, live[p]), SlotMoves(Pair(p)),
           UNCHANGED <<play_at, play_event, session>>, UNCHANGED live, UNCHANGED wanted
    PROVE  PathMoves(p)
BY WantedSame DEF PathMoves

LEMMA WantedPids ==
    ASSUME BaseInv, NEW p \in Paths
    PROVE  /\ wanted[p].video \in Pids(VideoPids) /\ wanted[p].audio \in Pids(AudioPids)
           /\ wanted[p].ad \in Pids(AdPids) /\ OrOff(wanted[p].audio) \in Pids(AudioPids)
           /\ wanted[p].video \in VideoPids \cup {NoPid}
           /\ wanted[p].ad \in AdPids \cup {NoPid}
           /\ Off \in Pids(AudioPids) /\ Off \in Pids(VideoPids) /\ Off \in Pids(AdPids)
BY DEF BaseInv, Types, WantedRec, Pids, OrOff

(* A live player that shows itself without its opening.                    *)
LEMMA OpenedOnly ==
    ASSUME BaseInv, NEW p \in Paths, NEW l \in Opened(p), UNCHANGED av,
           live' = [live EXCEPT ![p] = l]
    PROVE  Does(p, live[p])
<1>1. l \in LiveRec /\ (~l.exists => l = NoPlayer) /\ av[p] \in PathRec
  BY OpensTo DEF BaseInv, Types
<1>2. Goes(av[p], av[p], l, l, Blanked(p))
  BY <1>1 DEF Goes, LastTakes
<1> QED
  BY <1>2, PlayerOnly, FromOpened

LEMMA StartAudioMoves ==
    ASSUME BaseInv, NEW p \in Paths, StartAudioDecoding(p) PROVE PathMoves(p)
<1>1. CASE /\ IsLive(p) /\ AvOnly
           /\ \E l \in Opened(p) : IF l.exists THEN LiveAudio(p, l) ELSE UNCHANGED <<av, live>>
  <2>1. PICK l \in Opened(p) : IF l.exists THEN LiveAudio(p, l) ELSE UNCHANGED <<av, live>>
    BY <1>1
  <2>2. l \in LiveRec
    BY OpensTo
  <2>3. l.exists => Does(p, live[p])
    BY <2>1, <2>2, AudioFrom, FromOpened
  <2>4. ~l.exists => Does(p, live[p])
    BY <2>1, Stays
  <2> QED
    BY <1>1, <2>3, <2>4, LiveMoves DEF StartAudioDecoding
<1>2. CASE IsPvr(p) /\ PvrAudio(p) /\ UNCHANGED live
  <2> DEFINE yes == [av[p] EXCEPT !.audio_pid = wanted[p].audio, !.presented = TRUE]
  <2>1. CASE Told(p, wanted[p].video, wanted[p].audio, wanted[p].ad, yes, av[p])
    <3> DEFINE t == TRUE
               y == [av[p] EXCEPT !.audio_pid = wanted[p].audio, !.presented = t]
    <3>1. yes = y
      OBVIOUS
    <3>2. t \in BOOLEAN /\ av[p] \in PathRec
      BY DEF BaseInv, Types
    <3> HIDE DEF t
    <3>3. y \in PathRec /\ y.video_out_control = av[p].video_out_control
      BY <3>2, WantedPids DEF PathRec
    <3> HIDE DEF y, yes
    <3>4. /\ Does(p, live[p]) /\ SlotMoves(Pair(p))
          /\ UNCHANGED <<play_at, play_event, session>>
      BY <1>2, <2>1, <3>1, <3>2, <3>3, WantedPids, ToldGoes
    <3> QED
      BY <1>2, <3>4, PvrMoves DEF StartAudioDecoding
  <2>2. CASE UNCHANGED av /\ AvOnly
    BY <1>2, <2>2, Stays, LiveMoves DEF StartAudioDecoding
  <2> QED
    BY <1>2, <2>1, <2>2 DEF PvrAudio
<1> QED
  BY <1>1, <1>2 DEF StartAudioDecoding

LEMMA StartVideoMoves ==
    ASSUME BaseInv, NEW p \in Paths, StartVideoDecoding(p) PROVE PathMoves(p)
<1>1. CASE /\ IsLive(p) /\ AvOnly
           /\ \E l \in Opened(p) :
                 IF l.exists /\ wanted[p].video # NoPid THEN VideoStarts(p, l)
                 ELSE live' = [live EXCEPT ![p] = l] /\ UNCHANGED av
  <2>1. PICK l \in Opened(p) :
                 IF l.exists /\ wanted[p].video # NoPid THEN VideoStarts(p, l)
                 ELSE live' = [live EXCEPT ![p] = l] /\ UNCHANGED av
    BY <1>1
  <2>2. l \in LiveRec
    BY OpensTo
  <2>3. ASSUME l.exists, wanted[p].video # NoPid PROVE Does(p, live[p])
    <3>1. VideoStarts(p, l)
      BY <2>1, <2>3
    <3>2. Does(p, l)
      BY <1>1, <2>2, <2>3, <3>1, VideoFrom
    <3> QED
      BY <3>2, FromOpened
  <2>4. ASSUME ~(l.exists /\ wanted[p].video # NoPid) PROVE Does(p, live[p])
    BY <2>1, <2>4, OpenedOnly
  <2> QED
    BY <1>1, <2>3, <2>4, LiveMoves DEF StartVideoDecoding
<1>2. CASE /\ IsPvr(p) /\ UNCHANGED live
           /\ IF wanted[p].video # NoPid /\ wanted[p].video # av[p].video_pid
              THEN Told(p, wanted[p].video, OrOff(wanted[p].audio), wanted[p].ad,
                        [av[p] EXCEPT !.video_pid = wanted[p].video], av[p])
              ELSE UNCHANGED av /\ AvOnly
  <2> DEFINE yes == [av[p] EXCEPT !.video_pid = wanted[p].video]
  <2>1. CASE Told(p, wanted[p].video, OrOff(wanted[p].audio), wanted[p].ad, yes, av[p])
    <3>1. av[p] \in PathRec
      BY DEF BaseInv, Types
    <3>2. yes \in PathRec /\ yes.video_out_control = av[p].video_out_control
      BY <3>1, WantedPids DEF PathRec
    <3> HIDE DEF yes
    <3>3. /\ Does(p, live[p]) /\ SlotMoves(Pair(p))
          /\ UNCHANGED <<play_at, play_event, session>>
      BY <1>2, <2>1, <3>1, <3>2, WantedPids, ToldGoes
    <3> QED
      BY <1>2, <3>3, PvrMoves DEF StartVideoDecoding
  <2>2. CASE UNCHANGED av /\ AvOnly
    BY <1>2, <2>2, Stays, LiveMoves DEF StartVideoDecoding
  <2> QED
    BY <1>2, <2>1, <2>2
<1> QED
  BY <1>1, <1>2 DEF StartVideoDecoding

LEMMA StopVideoMoves ==
    ASSUME BaseInv, NEW p \in Paths, StopVideoDecoding(p) PROVE PathMoves(p)
<1>1. CASE /\ IsLive(p) /\ live[p].exists /\ live[p].video # Off
           /\ \E ok \in LibMay("stop", TRUE), gone \in LibMay("destroy", TRUE) :
                 LiveVideoStops(p, ok, gone)
           /\ AvOnly
  BY <1>1, VideoStopsFrom, LiveMoves DEF StopVideoDecoding
<1>2. CASE /\ IsPvr(p) /\ UNCHANGED live
           /\ LET forgot == [av[p] EXCEPT !.video_pid = Off]
              IN  Told(p, Off, OrOff(wanted[p].audio), wanted[p].ad, forgot, forgot)
  <2> DEFINE forgot == [av[p] EXCEPT !.video_pid = Off]
  <2>1. av[p] \in PathRec
    BY DEF BaseInv, Types
  <2>2. forgot \in PathRec /\ forgot.video_out_control = av[p].video_out_control
    BY <2>1, Forgets
  <2>3. Told(p, Off, OrOff(wanted[p].audio), wanted[p].ad, forgot, forgot)
    BY <1>2
  <2> HIDE DEF forgot
  <2>4. /\ Does(p, live[p]) /\ SlotMoves(Pair(p)) /\ UNCHANGED <<play_at, play_event, session>>
    BY <1>2, <2>2, <2>3, WantedPids, ToldGoes
  <2> QED
    BY <1>2, <2>4, PvrMoves DEF StopVideoDecoding
<1> QED
  BY <1>1, <1>2 DEF StopVideoDecoding

LEMMA StopAudioMoves ==
    ASSUME BaseInv, NEW p \in Paths, StopAudioDecoding(p) PROVE PathMoves(p)
<1>1. CASE /\ IsLive(p) /\ live[p].exists
           /\ \E ok \in LibMay("stop", TRUE), gone \in LibMay("destroy", TRUE) :
                 LiveAudioStops(p, ok, gone)
           /\ AvOnly
  BY <1>1, AudioStopsFrom, LiveMoves DEF StopAudioDecoding
<1>2. CASE /\ IsPvr(p) /\ UNCHANGED live
           /\ LET forgot == [av[p] EXCEPT !.audio_pid = Off]
              IN  Told(p, wanted[p].video, Off, wanted[p].ad, forgot, forgot)
  <2> DEFINE forgot == [av[p] EXCEPT !.audio_pid = Off]
  <2>1. av[p] \in PathRec
    BY DEF BaseInv, Types
  <2>2. forgot \in PathRec /\ forgot.video_out_control = av[p].video_out_control
    BY <2>1, Forgets
  <2>3. Told(p, wanted[p].video, Off, wanted[p].ad, forgot, forgot)
    BY <1>2
  <2> HIDE DEF forgot
  <2>4. /\ Does(p, live[p]) /\ SlotMoves(Pair(p)) /\ UNCHANGED <<play_at, play_event, session>>
    BY <1>2, <2>2, <2>3, WantedPids, ToldGoes
  <2> QED
    BY <1>2, <2>4, PvrMoves DEF StopAudioDecoding
<1> QED
  BY <1>1, <1>2 DEF StopAudioDecoding

LEMMA StartADMoves ==
    ASSUME BaseInv, NEW p \in Paths, StartADDecoding(p) PROVE PathMoves(p)
<1> DEFINE a == av[p]
           w == wanted[p].ad
           a2 == [a EXCEPT !.ad_pid = w]
<1>1. a \in PathRec /\ w \in Pids(AdPids) /\ w # Off
  BY WantedPids, AvPathAssumption DEF BaseInv, Types, NoPid, Off
<1>2. /\ a2 \in PathRec /\ SameSettings(a, a2) /\ a2.ad_pid = w
      /\ a2.audio_pid = a.audio_pid /\ a2.video_pid = a.video_pid
  BY <1>1 DEF PathRec, SameSettings
<1>3. CASE /\ IsLive(p) /\ AvOnly
           /\ \E l \in Opened(p), ok \in LibMay("start", TRUE) :
                IF l.exists /\ w # NoPid /\ w # a.ad_pid /\ ok
                THEN live' = [live EXCEPT ![p] = [l EXCEPT !.ad = w]] /\ av' = [av EXCEPT ![p].ad_pid = w]
                ELSE live' = [live EXCEPT ![p] = l] /\ UNCHANGED av
  <2>1. PICK l \in Opened(p), ok \in LibMay("start", TRUE) :
                IF l.exists /\ w # NoPid /\ w # a.ad_pid /\ ok
                THEN live' = [live EXCEPT ![p] = [l EXCEPT !.ad = w]] /\ av' = [av EXCEPT ![p].ad_pid = w]
                ELSE live' = [live EXCEPT ![p] = l] /\ UNCHANGED av
    BY <1>3
  <2>2. ASSUME l.exists, live' = [live EXCEPT ![p] = [l EXCEPT !.ad = w]],
               av' = [av EXCEPT ![p].ad_pid = w]
        PROVE  Does(p, live[p])
    <3> DEFINE l2 == [l EXCEPT !.ad = w]
    <3>1. l \in LiveRec
      BY OpensTo
    <3>2. /\ l2 \in LiveRec /\ SamePlayer(l, l2) /\ l2.ad = w
          /\ l2.audio = l.audio /\ l2.video = l.video
      BY <1>1, <3>1 DEF LiveRec, SamePlayer
    <3>3. av' = [av EXCEPT ![p] = a2] /\ live' = [live EXCEPT ![p] = l2]
      BY <2>2
    <3> HIDE DEF a2, l2
    <3>4. ASSUME AsSet(a, l, Blanked(p)) PROVE AsSet(a2, l2, Blanked(p))
      BY <1>2, <3>2, <3>4 DEF AsSet, SameSettings, SamePlayer
    <3>5. ASSUME Remembered(a, l) PROVE Remembered(a2, l2) /\ LastTakes(l, a2, l2)
      BY <1>1, <1>2, <3>2, <3>5 DEF Remembered, LastTakes
    <3>6. Goes(a, a2, l, l2, Blanked(p))
      BY <1>2, <2>2, <3>2, <3>4, <3>5 DEF Goes, SameSettings, SamePlayer
    <3> QED
      BY <3>3, <3>6, FromOpened DEF Does
  <2>3. Does(p, live[p])
    BY <2>1, <2>2, OpenedOnly
  <2> QED
    BY <1>3, <2>3, LiveMoves DEF StartADDecoding
<1>4. CASE /\ IsPvr(p) /\ UNCHANGED live
           /\ Told(p, wanted[p].video, wanted[p].audio, wanted[p].ad, a2, a)
  <2> HIDE DEF a2
  <2>1. /\ Does(p, live[p]) /\ SlotMoves(Pair(p)) /\ UNCHANGED <<play_at, play_event, session>>
    BY <1>1, <1>2, <1>4, WantedPids, ToldGoes DEF SameSettings
  <2> QED
    BY <1>4, <2>1, PvrMoves DEF StartADDecoding
<1> QED
  BY <1>3, <1>4 DEF StartADDecoding

LEMMA StopADMoves ==
    ASSUME BaseInv, NEW p \in Paths, StopADDecoding(p) PROVE PathMoves(p)
<1> DEFINE a == av[p]
           l == live[p]
           a2 == [a EXCEPT !.ad_pid = Off]
           m == [l EXCEPT !.ad = Off]
<1>1. a \in PathRec /\ l \in LiveRec
  BY DEF BaseInv, Types
<1>2. /\ a2 \in PathRec /\ SameSettings(a, a2)
      /\ a2.audio_pid = a.audio_pid /\ a2.video_pid = a.video_pid
  BY <1>1, Forgets DEF SameSettings
<1>3. /\ m \in LiveRec /\ SamePlayer(l, m)
      /\ m.audio = l.audio /\ m.video = l.video /\ m.ad = Off
  BY <1>1, Silenced DEF SamePlayer
<1>4. CASE /\ IsLive(p) /\ l.exists
           /\ \E ok \in LibMay("stop", TRUE), gone \in LibMay("destroy", TRUE) :
                LET k == IF ok THEN m ELSE l
                IN  /\ live' = [live EXCEPT ![p] =
                           IF k.audio = Off /\ k.video = Off THEN Released(k, gone) ELSE k]
                    /\ av' = IF ok THEN [av EXCEPT ![p].ad_pid = Off] ELSE av
           /\ AvOnly
  <2>1. PICK ok \in LibMay("stop", TRUE), gone \in LibMay("destroy", TRUE) :
                LET k == IF ok THEN m ELSE l
                IN  /\ live' = [live EXCEPT ![p] =
                           IF k.audio = Off /\ k.video = Off THEN Released(k, gone) ELSE k]
                    /\ av' = IF ok THEN [av EXCEPT ![p].ad_pid = Off] ELSE av
    BY <1>4
  <2>2. CASE ok
    <3>1. live' = [live EXCEPT ![p] = IfUsed(m, gone)] /\ av' = [av EXCEPT ![p] = a2]
      BY <1>3, <2>1, <2>2 DEF IfUsed
    <3> HIDE DEF a2, m
    <3>2. Goes(a, a2, l, IfUsed(m, gone), Blanked(p))
      BY <1>1, <1>2, <1>3, <1>4, MayBeGone, LessDecoded
    <3>3. Does(p, l)
      BY <3>1, <3>2 DEF Does
    <3> QED
      BY <1>4, <3>3, LiveMoves DEF StopADDecoding
  <2>3. CASE ~ok
    <3>1. "stop" \in AvFails
      BY <2>3 DEF LibMay
    <3>2. SameSettings(a, a)
      BY DEF SameSettings
    <3> DEFINE k == [l EXCEPT !.kept = TRUE]
    <3>3. Goes(a, a, l, l, Blanked(p))
      BY <1>1, <1>4, <3>1, <3>2, FailsToStop DEF SamePlayer, SameDecoders
    <3>4. Goes(a, a, l, NoPlayer, Blanked(p))
      BY <1>1, GoesAway
    <3>5. UNCHANGED av /\ \/ live' = [live EXCEPT ![p] = l]
                          \/ live' = [live EXCEPT ![p] = NoPlayer]
                          \/ live' = [live EXCEPT ![p] = k]
      BY <2>1, <2>3 DEF Released
    <3>7. k \in LiveRec /\ SamePlayer(l, k) /\ SameDecoders(l, k)
      BY <1>1, KeptPlayer
    <3> HIDE DEF k
    <3>8. Goes(a, a, l, k, Blanked(p))
      BY <1>1, <1>4, <3>1, <3>2, <3>7, FailsToStop
    <3>6. Does(p, l)
      BY <3>3, <3>4, <3>5, <3>8, PlayerOnly
    <3> QED
      BY <1>4, <3>6, LiveMoves DEF StopADDecoding
  <2> QED
    BY <2>2, <2>3
<1>5. CASE /\ IsPvr(p) /\ UNCHANGED live
           /\ Told(p, wanted[p].video, wanted[p].audio, Off, a2, a)
  <2> HIDE DEF a2
  <2>1. /\ Does(p, live[p]) /\ SlotMoves(Pair(p)) /\ UNCHANGED <<play_at, play_event, session>>
    BY <1>1, <1>2, <1>5, WantedPids, ToldGoes DEF SameSettings
  <2> QED
    BY <1>5, <2>1, PvrMoves DEF StopADDecoding
<1> QED
  BY <1>4, <1>5 DEF StopADDecoding

LEMMA SwitchMoves ==
    ASSUME BaseInv, NEW p \in Paths, SwitchAudioTrack(p) PROVE PathMoves(p)
<1>1. CASE /\ IsLive(p) /\ live[p].exists /\ SwitchLive(p) /\ AvOnly
  BY <1>1, SwitchesFrom, LiveMoves DEF SwitchAudioTrack
<1>2. CASE IsPvr(p) /\ SwitchPvr(p) /\ UNCHANGED live
  <2> DEFINE yes == TRUE
             no == FALSE
             a == av[p]
             w == wanted[p].audio
             s == IF dvr[Pair(p)].audio = Off THEN a
                  ELSE [a EXCEPT !.audio_pid = Off, !.presented = no]
             new == [s EXCEPT !.audio_pid = w, !.presented = yes]
  <2>1. \/ Told(p, wanted[p].video, w, wanted[p].ad, new, s)
        \/ av' = [av EXCEPT ![p] = s] /\ AvOnly
    BY <1>2, Zenon DEF SwitchPvr
  <2>2. a \in PathRec /\ w \in Pids(AudioPids) /\ yes \in BOOLEAN /\ no \in BOOLEAN
    BY WantedPids DEF BaseInv, Types
  <2> HIDE DEF yes, no, w
  <2>3. s \in PathRec /\ s.video_out_control = a.video_out_control
    <3>1. [a EXCEPT !.audio_pid = Off, !.presented = no] \in PathRec
      BY <2>2, WantedPids DEF PathRec
    <3>2. [a EXCEPT !.audio_pid = Off, !.presented = no].video_out_control
              = a.video_out_control
      BY <2>2 DEF PathRec
    <3> QED
      BY <2>2, <3>1, <3>2
  <2> HIDE DEF s
  <2>4. new \in PathRec /\ new.video_out_control = a.video_out_control
    BY <2>2, <2>3 DEF PathRec
  <2> HIDE DEF new
  <2>5. CASE Told(p, wanted[p].video, w, wanted[p].ad, new, s)
    <3>1. /\ Does(p, live[p]) /\ SlotMoves(Pair(p)) /\ UNCHANGED <<play_at, play_event, session>>
      BY <1>2, <2>2, <2>3, <2>4, <2>5, WantedPids, ToldGoes
    <3> QED
      BY <1>2, <3>1, PvrMoves DEF SwitchAudioTrack
  <2>6. CASE av' = [av EXCEPT ![p] = s] /\ AvOnly
    <3>1. Does(p, live[p])
      BY <1>2, <2>3, <2>6, NoneInPlayback, PathOnly
    <3> QED
      BY <1>2, <2>6, <3>1, LiveMoves DEF SwitchAudioTrack
  <2> QED
    BY <2>1, <2>5, <2>6
<1> QED
  BY <1>1, <1>2 DEF SwitchAudioTrack

------------------------------------------------------------------------------
(* What is set for a path, with or without a player.                       *)

LEMMA CachedType == ASSUME NEW x PROVE Cached(x) \in BOOLEAN
BY DEF Cached

LEMMA AcquireMoves ==
    ASSUME BaseInv, NEW p \in Paths, AcquirePath(p) \/ ReleasePath(p) PROVE PathMoves(p)
<1>1. av[p] \in PathRec
  BY DEF BaseInv, Types
<1>2. live[p] = NoPlayer
  BY AvPathAssumption DEF AcquirePath, ReleasePath, BaseInv, LiveInv
<1>3. \E a2 \in PathRec : /\ a2.video_out_control = av[p].video_out_control
                         /\ av' = [av EXCEPT ![p] = a2]
  <2>1. CASE AcquirePath(p)
    <3>1. PICK d \in Decoders : av' = [av EXCEPT ![p].owner = d]
      BY <2>1 DEF AcquirePath
    <3> DEFINE a2 == [av[p] EXCEPT !.owner = d]
    <3>2. a2 \in PathRec /\ a2.video_out_control = av[p].video_out_control
      BY <1>1 DEF PathRec
    <3>3. av' = [av EXCEPT ![p] = a2]
      BY <3>1
    <3> QED
      BY <3>2, <3>3
  <2>2. CASE ReleasePath(p)
    <3> DEFINE no == FALSE
               a2 == [av[p] EXCEPT !.owner = NoOne, !.decoding_mode = {}, !.mute = no,
                                   !.surface = no]
    <3>1. av' = [av EXCEPT ![p] = a2]
      BY <2>2 DEF ReleasePath
    <3>2. no \in BOOLEAN
      OBVIOUS
    <3> HIDE DEF no
    <3>3. a2 \in PathRec /\ a2.video_out_control = av[p].video_out_control
      BY <1>1, <3>2 DEF PathRec
    <3> QED
      BY <3>1, <3>3
  <2> QED
    BY <2>1, <2>2
<1>4. AvOnly /\ UNCHANGED live /\ UNCHANGED wanted
  BY DEF AcquirePath, ReleasePath
<1> QED
  BY <1>2, <1>3, <1>4, PathOnly, LiveMoves

LEMMA WantedMoves ==
    ASSUME BaseInv, NEW p \in Paths, ChangeWanted(p) PROVE PathMoves(p)
<1>1. PICK r \in WantedRec : wanted' = [wanted EXCEPT ![p] = r]
  BY DEF ChangeWanted, WantedRec
<1>2. wanted' \in [Paths -> WantedRec]
  BY <1>1 DEF BaseInv, Types
<1>3. UNCHANGED <<av, live>> /\ UNCHANGED playVars
  BY DEF ChangeWanted, AvOnly
<1> QED
  BY <1>2, <1>3, Stays DEF PathMoves

LEMMA MuteMoves ==
    ASSUME BaseInv, NEW p \in Paths, SetAudioMute(p) PROVE PathMoves(p)
<1>1. PICK flag \in {"VOL", "APP"}, mute \in BOOLEAN :
         /\ av' = [av EXCEPT ![p] = WithFlag(av[p], flag, mute)]
         /\ live' = [live EXCEPT ![p] = WithMute(live[p], WithFlag(av[p], flag, mute))]
  BY DEF SetAudioMute
<1> DEFINE a == av[p]
           l == live[p]
           s == WithFlag(a, flag, mute)
           m == s.audio_out_control # {}
           l2 == [l EXCEPT !.muted = m]
<1>2. a \in PathRec /\ l \in LiveRec
  BY DEF BaseInv, Types
<1>3. /\ s \in PathRec /\ s.owner = a.owner /\ s.video_pid = a.video_pid
      /\ s.audio_pid = a.audio_pid /\ s.ad_pid = a.ad_pid
      /\ s.video_out_control = a.video_out_control
      /\ s.decoding_mode = a.decoding_mode /\ s.surface = a.surface
  BY <1>2, FlagSet
<1> HIDE DEF s
<1>4. m \in BOOLEAN /\ m = (s.audio_out_control # {})
  OBVIOUS
<1>5. WithMute(l, s) = IF l.exists THEN l2 ELSE l
  BY Zenon DEF WithMute
<1> HIDE DEF m
<1>6. Does(p, l)
  <2>1. CASE l.exists
    <3>1. /\ l2 \in LiveRec /\ l2.exists = l.exists /\ l2.video = l.video /\ l2.ad = l.ad
          /\ l2.audio = l.audio /\ l2.muted = m /\ l2.hidden = l.hidden
          /\ l2.cached = l.cached /\ l2.source = l.source /\ l2.surface = l.surface
      BY <1>2, <1>4 DEF LiveRec
    <3> HIDE DEF l2
    <3>2. Goes(a, s, l, l2, Blanked(p))
      BY <1>3, <1>4, <2>1, <3>1 DEF Goes, AsSet, Remembered, LastTakes
    <3> QED
      BY <1>1, <1>5, <2>1, <3>2 DEF Does, s
  <2>2. CASE ~l.exists
    <3>1. l = NoPlayer
      BY <2>2 DEF BaseInv, LiveInv
    <3>2. Goes(a, s, l, l, Blanked(p))
      BY <1>2, <1>3, <3>1, GoesWithNone
    <3> QED
      BY <1>1, <1>5, <2>2, <3>2 DEF Does, s
  <2> QED
    BY <2>1, <2>2
<1>7. live' = live \/ IsLive(p) \/ l.exists
  BY <1>1, <1>5 DEF s, BaseInv, Types
<1> QED
  BY <1>6, <1>7, LiveMoves DEF SetAudioMute

LEMMA SurfaceMoves ==
    ASSUME BaseInv, NEW p \in Paths, SetSurface(p) PROVE PathMoves(p)
<1> DEFINE a == av[p]
           l == live[p]
           f == ~a.surface
           a2 == [a EXCEPT !.surface = f]
           l2 == [l EXCEPT !.surface = f]
<1>1. a \in PathRec /\ l \in LiveRec
  BY DEF BaseInv, Types
<1>2. av' = [av EXCEPT ![p] = a2] /\ live' = [live EXCEPT ![p] = IF l.exists THEN l2 ELSE l]
  BY <1>1, Zenon DEF SetSurface, BaseInv, Types
<1>3. f \in BOOLEAN
  OBVIOUS
<1> HIDE DEF f
<1>4. /\ a2 \in PathRec /\ a2.owner = a.owner /\ a2.video_pid = a.video_pid
      /\ a2.audio_pid = a.audio_pid /\ a2.ad_pid = a.ad_pid
      /\ a2.video_out_control = a.video_out_control
      /\ a2.audio_out_control = a.audio_out_control
      /\ a2.decoding_mode = a.decoding_mode /\ a2.surface = f
  BY <1>1, <1>3 DEF PathRec
<1>5. /\ l2 \in LiveRec /\ l2.exists = l.exists /\ l2.video = l.video /\ l2.ad = l.ad
      /\ l2.audio = l.audio /\ l2.muted = l.muted /\ l2.hidden = l.hidden
      /\ l2.cached = l.cached /\ l2.source = l.source /\ l2.surface = f
  BY <1>1, <1>3 DEF LiveRec
<1> HIDE DEF a2, l2
<1>6. Does(p, l)
  <2>1. l.exists => Goes(a, a2, l, l2, Blanked(p))
    BY <1>4, <1>5 DEF Goes, AsSet, Remembered, LastTakes
  <2>2. ASSUME ~l.exists PROVE Goes(a, a2, l, l, Blanked(p))
    <3>1. l = NoPlayer
      BY <2>2 DEF BaseInv, LiveInv
    <3> QED
      BY <1>1, <1>4, <3>1, GoesWithNone
  <2> QED
    BY <1>2, <2>1, <2>2 DEF Does
<1>7. UNCHANGED live \/ IsLive(p) \/ l.exists
  BY <1>2 DEF BaseInv, Types
<1> QED
  BY <1>6, <1>7, LiveMoves DEF SetSurface

LEMMA ModeMoves ==
    ASSUME BaseInv, NEW p \in Paths, SetDecodingMode(p) PROVE PathMoves(p)
<1>1. PICK mode \in SUBSET {"CACHE ONLY", "AUDIO DISABLE"} :
          LET old == av[p].decoding_mode
              hears == ("AUDIO DISABLE" \in old) # ("AUDIO DISABLE" \in mode) \/ Cached(mode)
              muted == [av[p] EXCEPT !.mute = mode # {}]
              s == IF ~hears THEN av[p]
                   ELSE IF live[p].exists THEN WithFlag(muted, "VOL", muted.mute) ELSE muted
              l == [live[p] EXCEPT !.cached = live[p].exists /\
                        (IF Cached(old) # Cached(mode) THEN Cached(mode) ELSE @)]
          IN  /\ av' = [av EXCEPT ![p] = [s EXCEPT !.decoding_mode = mode]]
              /\ live' = [live EXCEPT ![p] = IF hears THEN WithMute(l, s) ELSE l]
  BY DEF SetDecodingMode
<1> DEFINE a == av[p]
           l == live[p]
           old == a.decoding_mode
           hears == ("AUDIO DISABLE" \in old) # ("AUDIO DISABLE" \in mode) \/ Cached(mode)
           mu == mode # {}
           muted == [a EXCEPT !.mute = mu]
           s == IF ~hears THEN a ELSE IF l.exists THEN WithFlag(muted, "VOL", muted.mute) ELSE muted
           c == l.exists /\ (IF Cached(old) # Cached(mode) THEN Cached(mode) ELSE l.cached)
           l1 == [l EXCEPT !.cached = c]
           m == s.audio_out_control # {}
           l2 == [l1 EXCEPT !.muted = m]
           a2 == [s EXCEPT !.decoding_mode = mode]
<1>2. /\ av' = [av EXCEPT ![p] = a2]
      /\ live' = [live EXCEPT ![p] = IF hears THEN (IF l1.exists THEN l2 ELSE l1) ELSE l1]
  BY <1>1, Zenon DEF WithMute
<1>3. a \in PathRec /\ l \in LiveRec
  BY DEF BaseInv, Types
<1>4. /\ mu \in BOOLEAN /\ m \in BOOLEAN /\ m = (s.audio_out_control # {})
      /\ c \in BOOLEAN
      /\ l.exists => c = IF Cached(old) # Cached(mode) THEN Cached(mode) ELSE l.cached
      /\ ~l.exists => c = FALSE
  <2>1. mu \in BOOLEAN /\ m \in BOOLEAN /\ m = (s.audio_out_control # {})
    OBVIOUS
  <2>2. l.exists \in BOOLEAN /\ l.cached \in BOOLEAN
    BY <1>3 DEF LiveRec
  <2>3. Cached(old) \in BOOLEAN /\ Cached(mode) \in BOOLEAN
    BY CachedType
  <2> HIDE DEF m, mu, s, hears, muted, l, old
  <2>4. c \in BOOLEAN
    BY <2>2, <2>3
  <2>5. l.exists => c = IF Cached(old) # Cached(mode) THEN Cached(mode) ELSE l.cached
    BY <2>2, <2>3
  <2>6. ~l.exists => c = FALSE
    BY <2>2, <2>3
  <2> QED
    BY <2>1, <2>4, <2>5, <2>6
<1> HIDE DEF mu, c
<1>5. /\ muted \in PathRec /\ muted.mute \in BOOLEAN
      /\ muted.owner = a.owner /\ muted.video_pid = a.video_pid
      /\ muted.audio_pid = a.audio_pid /\ muted.ad_pid = a.ad_pid
      /\ muted.video_out_control = a.video_out_control /\ muted.surface = a.surface
  BY <1>3, <1>4 DEF PathRec
<1> HIDE DEF muted
<1>6. /\ s \in PathRec /\ s.owner = a.owner /\ s.video_pid = a.video_pid
      /\ s.audio_pid = a.audio_pid /\ s.ad_pid = a.ad_pid
      /\ s.video_out_control = a.video_out_control /\ s.surface = a.surface
  BY ZenonT(60), <1>3, <1>5, FlagSet
<1>7. ~hears => s = a
  OBVIOUS
<1> HIDE DEF s, hears, m
<1>8. /\ a2 \in PathRec /\ a2.owner = a.owner /\ a2.video_pid = a.video_pid
      /\ a2.audio_pid = a.audio_pid /\ a2.ad_pid = a.ad_pid
      /\ a2.video_out_control = a.video_out_control /\ a2.surface = a.surface
      /\ a2.decoding_mode = mode /\ a2.audio_out_control = s.audio_out_control
  BY <1>6 DEF PathRec
<1>9. /\ l1 \in LiveRec /\ l1.exists = l.exists /\ l1.video = l.video /\ l1.ad = l.ad
      /\ l1.audio = l.audio /\ l1.muted = l.muted /\ l1.hidden = l.hidden
      /\ l1.cached = c /\ l1.source = l.source /\ l1.surface = l.surface
  BY <1>3, <1>4 DEF LiveRec
<1>10. ~l.exists => l1 = NoPlayer
  <2>1. ASSUME ~l.exists PROVE l1 = NoPlayer
    <3>1. l = NoPlayer /\ c = FALSE
      BY <1>4, <2>1 DEF BaseInv, LiveInv
    <3>2. NoPlayer.cached = FALSE
      BY Zenon DEF NoPlayer
    <3>3. l.cached = c
      BY <3>1, <3>2
    <3>4. l1 = l
      BY <1>3, <3>3 DEF LiveRec
    <3> QED
      BY <3>1, <3>4
  <2> QED
    BY <2>1
<1> HIDE DEF l1
<1>11. /\ l2 \in LiveRec /\ l2.exists = l.exists /\ l2.video = l.video /\ l2.ad = l.ad
       /\ l2.audio = l.audio /\ l2.muted = m /\ l2.hidden = l.hidden
       /\ l2.cached = c /\ l2.source = l.source /\ l2.surface = l.surface
  BY <1>4, <1>9 DEF LiveRec
<1> HIDE DEF a2, l2
<1>12. Does(p, l)
  <2>1. ASSUME l.exists PROVE Goes(a, a2, l, l2, Blanked(p))
    <3>1. ASSUME AsSet(a, l, Blanked(p)) PROVE AsSet(a2, l2, Blanked(p))
      BY <1>4, <1>8, <1>11, <2>1, <3>1 DEF AsSet, Cached
    <3> QED
      BY <1>8, <1>11, <2>1, <3>1 DEF Goes, Remembered, LastTakes
  <2>2. ASSUME l.exists, ~hears PROVE Goes(a, a2, l, l1, Blanked(p))
    <3>1. ASSUME AsSet(a, l, Blanked(p)) PROVE AsSet(a2, l1, Blanked(p))
      BY <1>4, <1>7, <1>8, <1>9, <2>2, <3>1 DEF AsSet, Cached
    <3> QED
      BY <1>8, <1>9, <2>2, <3>1 DEF Goes, Remembered, LastTakes
  <2>3. ASSUME ~l.exists PROVE Goes(a, a2, l, l1, Blanked(p))
    <3>1. l = NoPlayer /\ l1 = NoPlayer
      BY <1>10, <2>3 DEF BaseInv, LiveInv
    <3> QED
      BY <1>3, <1>8, <3>1, GoesWithNone
  <2>4. \/ live' = [live EXCEPT ![p] = l1] /\ (~hears \/ ~l.exists)
        \/ live' = [live EXCEPT ![p] = l2] /\ l.exists
    BY <1>2, <1>9
  <2> QED
    BY <1>2, <2>1, <2>2, <2>3, <2>4 DEF Does
<1>13. UNCHANGED live \/ IsLive(p) \/ l.exists
  <2>1. ASSUME ~l.exists PROVE UNCHANGED live
    <3>1. live' = [live EXCEPT ![p] = l1] /\ l1 = NoPlayer /\ l = NoPlayer
      BY <1>2, <1>9, <1>10, <2>1 DEF BaseInv, LiveInv
    <3> QED
      BY <3>1 DEF BaseInv, Types
  <2> QED
    BY <2>1
<1> QED
  BY <1>12, <1>13, LiveMoves DEF SetDecodingMode

LEMMA SyncMoves ==
    ASSUME BaseInv, NEW p \in Paths, SyncDecodingFromPVR(p) PROVE PathMoves(p)
<1> DEFINE d == Pair(p)
           vi == OrOff(slot[d].video_pid)
           au == OrOff(slot[d].audio_pid)
           x == slot[d].ad_pid
           a2 == [av[p] EXCEPT !.video_pid = vi, !.audio_pid = au, !.ad_pid = x]
<1>1. IsPvr(p) /\ UNCHANGED live /\ UNCHANGED wanted /\ AvOnly
  BY DEF SyncDecodingFromPVR
<1>2. live[p] = NoPlayer /\ d \in Decoders
  BY <1>1, NoneInPlayback
<1>3. av' = [av EXCEPT ![p] = a2]
  BY DEF SyncDecodingFromPVR
<1>4. /\ vi \in Pids(VideoPids) /\ au \in Pids(AudioPids) /\ x \in Pids(AdPids)
      /\ av[p] \in PathRec
  BY <1>2 DEF BaseInv, Types, SlotRec, OrOff, Pids
<1> HIDE DEF vi, au, x
<1>5. a2 \in PathRec /\ a2.video_out_control = av[p].video_out_control
  BY <1>4 DEF PathRec
<1> QED
  BY <1>1, <1>2, <1>3, <1>5, PathOnly, LiveMoves

LEMMA InjectionMoves ==
    ASSUME BaseInv, NEW p \in Paths, SetInjection(p) \/ InjectData(p) PROVE PathMoves(p)
<1>1. av[p] \in PathRec /\ live[p] \in LiveRec
  BY DEF BaseInv, Types
<1>2. CASE SetInjection(p)
  <2> DEFINE i == ~av[p].injecting
             a2 == [av[p] EXCEPT !.injecting = i]
  <2>1. av' = [av EXCEPT ![p] = a2]
    BY <1>2, Zenon DEF SetInjection, BaseInv, Types
  <2>2. i \in BOOLEAN
    OBVIOUS
  <2> HIDE DEF i
  <2>3. /\ a2 \in PathRec /\ SameSettings(av[p], a2)
        /\ a2.video_pid = av[p].video_pid /\ a2.audio_pid = av[p].audio_pid
        /\ a2.ad_pid = av[p].ad_pid
    BY <1>1, <2>2 DEF PathRec, SameSettings
  <2> HIDE DEF a2
  <2>4. Goes(av[p], a2, live[p], live[p], Blanked(p))
    BY <1>1, <2>3 DEF Goes, SameSettings, AsSet, Remembered, LastTakes, BaseInv, LiveInv
  <2>5. live' = [live EXCEPT ![p] = live[p]]
    BY <1>2 DEF SetInjection, BaseInv, Types
  <2>6. Does(p, live[p])
    BY <2>1, <2>4, <2>5 DEF Does
  <2> QED
    BY <1>2, <2>6, LiveMoves DEF SetInjection
<1>3. CASE InjectData(p)
  <2> DEFINE yes == TRUE
             l2 == [NoPlayer EXCEPT !.exists = yes, !.source = "memory"]
  <2>1. live' = [live EXCEPT ![p] = l2] /\ UNCHANGED av
    BY <1>3 DEF InjectData
  <2>2. yes \in BOOLEAN /\ yes
    OBVIOUS
  <2> HIDE DEF yes
  <2>3. /\ l2 \in LiveRec /\ l2.exists /\ l2.source = "memory"
        /\ l2.video = Off /\ l2.audio = Off /\ l2.ad = Off
        /\ l2.hidden = NoPlayer.hidden /\ l2.surface = NoPlayer.surface
    BY <2>2, NoPlayerType DEF LiveRec, NoPlayer, Pids
  <2>4. ~NoPlayer.hidden /\ ~NoPlayer.surface /\ ~NoPlayer.exists
    BY DEF NoPlayer
  <2>5. live[p] = NoPlayer
    BY <1>3 DEF InjectData, BaseInv, LiveInv
  <2> HIDE DEF l2
  <2>6. Goes(av[p], av[p], live[p], l2, Blanked(p))
    BY <1>1, <2>3, <2>4, <2>5 DEF Goes, AsSet, Remembered, LastTakes
  <2>7. Does(p, live[p])
    BY <2>1, <2>6, PlayerOnly
  <2> QED
    BY <1>3, <2>7, LiveMoves DEF InjectData
<1> QED
  BY <1>2, <1>3

(* All of them but the blanking, which is of all paths at once.            *)
LEMMA AvMoves ==
    ASSUME BaseInv, NEW p \in Paths, AvStep(p) PROVE PathMoves(p) \/ BlankVideo(p)
BY AcquireMoves, WantedMoves, StartAudioMoves, StartVideoMoves, StopVideoMoves,
   StopAudioMoves, StartADMoves, StopADMoves, SwitchMoves, MuteMoves, SurfaceMoves,
   ModeMoves, SyncMoves, InjectionMoves DEF AvStep

------------------------------------------------------------------------------
(* The calls and the events of a playback.                                 *)

(* What a player plays, field by field.                                    *)
VideoOf(s) == IF s.has_video THEN s.video_pid ELSE Off
AudioOf(s) == IF s.has_audio THEN s.audio_pid ELSE Off

LEMMA PlaysFields ==
    ASSUME NEW s \in SlotRec, NEW l \in DvrRec
    PROVE  Plays(s, l) <=> (s.has_video \/ s.has_audio =>
                                /\ l.video = VideoOf(s) /\ l.audio = AudioOf(s)
                                /\ l.ad = s.ad_pid)
<1> DEFINE vi == VideoOf(s)
           au == AudioOf(s)
           x == s.ad_pid
           e == [l EXCEPT !.video = vi, !.audio = au, !.ad = x]
<1>1. Streams(s, l) = e
  BY Zenon DEF Streams, VideoOf, AudioOf
<1>2. vi \in Pids(VideoPids) /\ au \in Pids(AudioPids) /\ x \in Pids(AdPids)
  BY DEF SlotRec, Pids, VideoOf, AudioOf
<1> HIDE DEF vi, au, x
<1>3. e.video = vi /\ e.audio = au /\ e.ad = x
  BY <1>2 DEF DvrRec
<1>4. l.video = vi /\ l.audio = au /\ l.ad = x => e = l
  BY DEF DvrRec
<1> HIDE DEF e
<1>5. e = l <=> l.video = vi /\ l.audio = au /\ l.ad = x
  BY <1>3, <1>4
<1> QED
  BY <1>1, <1>5 DEF Plays, vi, au, x

Sound(s, e, at, ev) ==
    /\ ev = "started" => s.play_state # "STOPPED"
    /\ ~s.known => s.play_state = "STOPPED"
    /\ at # "destroying" => (s.play_state # "STOPPED" <=> e.exists)
SlotPlays(s, e) == e.exists => Plays(s, e) /\ s.play_speed = e.speed
Secure(s, open, at) ==
    s.secmem => s.is_smp /\ s.play_state # "STOPPED" /\ open /\ at = "out"
AtRest(s, at) == at = "out" /\ s.play_state = "STOPPED"

PlayGoes(d, s, e, at, ev) ==
    /\ s \in SlotRec /\ e \in DvrRec
    /\ at \in {"out", "destroying", "closing"} /\ ev \in {"none", "started"}
    /\ slot' = [slot EXCEPT ![d] = s] /\ dvr' = [dvr EXCEPT ![d] = e]
    /\ play_at' = [play_at EXCEPT ![d] = at] /\ play_event' = [play_event EXCEPT ![d] = ev]
    /\ Sound(s, e, at, ev)
    /\ AtRest(slot[d], play_at[d]) => \/ AtRest(s, at)
                                      \/ \A p \in Paths : Pair(p) = d => ~live[p].exists
    /\ "streams" \notin PlayFails /\ SlotPlays(slot[d], dvr[d]) => SlotPlays(s, e)
    /\ "create smp" \notin PlayFails /\ Secure(slot[d], session, play_at[d])
           => Secure(s, session', at)
PlayMoves(d) == \E s, e, at, ev : PlayGoes(d, s, e, at, ev)

LEMMA SlotTypes ==
    ASSUME BaseInv, NEW d \in Decoders
    PROVE  /\ slot[d] \in SlotRec /\ dvr[d] \in DvrRec
           /\ play_at[d] \in {"out", "destroying", "closing"}
           /\ play_event[d] \in {"none", "started"}
           /\ slot = [slot EXCEPT ![d] = slot[d]] /\ dvr = [dvr EXCEPT ![d] = dvr[d]]
           /\ play_at = [play_at EXCEPT ![d] = play_at[d]]
           /\ play_event = [play_event EXCEPT ![d] = play_event[d]]
           /\ Sound(slot[d], dvr[d], play_at[d], play_event[d])
BY DEF BaseInv, Types, StateInv, Sound

LEMMA StartModeMoves ==
    ASSUME BaseInv, NEW d \in Decoders, SetPlayStartMode(d) \/ PlaySetCASStatus(d)
    PROVE  PlayMoves(d)
<1> DEFINE yes == TRUE
           s0 == slot[d]
           e == dvr[d]
<1>1. /\ s0 \in SlotRec /\ e \in DvrRec /\ play_at[d] = "out"
      /\ play_event[d] \in {"none", "started"} /\ ~e.exists
      /\ s0.play_state = "STOPPED" /\ play_event[d] = "none"
  BY SlotTypes DEF SetPlayStartMode, PlaySetCASStatus, Sound
<1>2. /\ UNCHANGED <<dvr, session, play_at, play_event>>
  BY DEF SetPlayStartMode, PlaySetCASStatus, PlaySame
<1>3. yes \in BOOLEAN
  OBVIOUS
<1>4. CASE SetPlayStartMode(d)
  <2> DEFINE s == [s0 EXCEPT !.known = yes, !.play_speed = 100, !.play_state = "STOPPED"]
  <2>1. slot' = [slot EXCEPT ![d] = s]
    BY <1>4 DEF SetPlayStartMode
  <2> HIDE DEF yes
  <2>2. s \in SlotRec /\ s.play_state = "STOPPED" /\ s.secmem = s0.secmem
    BY ZenonT(60), <1>1, <1>3 DEF SlotRec
  <2> HIDE DEF s
  <2>3. PlayGoes(d, s, e, play_at[d], play_event[d])
    BY <1>1, <1>2, <2>1, <2>2, SlotTypes DEF PlayGoes, Sound, SlotPlays, Secure, AtRest
  <2> QED
    BY <2>3 DEF PlayMoves
<1>5. CASE PlaySetCASStatus(d)
  <2> DEFINE s == [s0 EXCEPT !.is_smp = yes]
  <2>1. slot' = [slot EXCEPT ![d] = s]
    BY <1>5 DEF PlaySetCASStatus
  <2> HIDE DEF yes
  <2>2. /\ s \in SlotRec /\ s.play_state = "STOPPED" /\ s.secmem = s0.secmem
    BY <1>1, <1>3 DEF SlotRec
  <2> HIDE DEF s
  <2>3. PlayGoes(d, s, e, play_at[d], play_event[d])
    BY <1>1, <1>2, <2>1, <2>2, SlotTypes DEF PlayGoes, Sound, SlotPlays, Secure, AtRest
  <2> QED
    BY <2>3 DEF PlayMoves
<1> QED
  BY <1>4, <1>5

LEMMA SpeedMoves ==
    ASSUME BaseInv, NEW d \in Decoders, SetPlaySpeed(d) PROVE PlayMoves(d)
<1>1. UNCHANGED <<play_at, play_event, session>> /\ play_at[d] = "out"
  BY DEF SetPlaySpeed, PlaySame
<1>2. PICK speed \in Speeds :
          \/ /\ slot' = [slot EXCEPT ![d].play_speed = speed]
             /\ dvr' = [dvr EXCEPT ![d].speed = speed]
          \/ UNCHANGED <<slot, dvr>>
  BY DEF SetPlaySpeed
<1> DEFINE s == [slot[d] EXCEPT !.play_speed = speed]
           e == [dvr[d] EXCEPT !.speed = speed]
<1>3. /\ s \in SlotRec /\ s.known = slot[d].known /\ s.play_state = slot[d].play_state
      /\ s.has_video = slot[d].has_video /\ s.has_audio = slot[d].has_audio
      /\ s.video_pid = slot[d].video_pid /\ s.audio_pid = slot[d].audio_pid
      /\ s.ad_pid = slot[d].ad_pid /\ s.is_smp = slot[d].is_smp
      /\ s.secmem = slot[d].secmem /\ s.play_speed = speed
  BY SlotTypes DEF SlotRec
<1>4. /\ e \in DvrRec /\ e.exists = dvr[d].exists /\ e.video = dvr[d].video
      /\ e.audio = dvr[d].audio /\ e.ad = dvr[d].ad /\ e.speed = speed
  BY SlotTypes DEF DvrRec
<1>5. CASE slot' = [slot EXCEPT ![d] = s] /\ dvr' = [dvr EXCEPT ![d] = e]
  <2> HIDE DEF s, e
  <2>1. SlotPlays(slot[d], dvr[d]) => SlotPlays(s, e)
    BY <1>3, <1>4, SlotTypes, PlaysFields DEF SlotPlays, VideoOf, AudioOf
  <2>2. PlayGoes(d, s, e, play_at[d], play_event[d])
    BY <1>1, <1>3, <1>4, <1>5, <2>1, SlotTypes DEF PlayGoes, Sound, Secure, AtRest
  <2> QED
    BY <2>2 DEF PlayMoves
<1>6. CASE UNCHANGED <<slot, dvr>>
  <2>1. PlayGoes(d, slot[d], dvr[d], play_at[d], play_event[d])
    BY <1>1, <1>6, SlotTypes DEF PlayGoes
  <2> QED
    BY <2>1 DEF PlayMoves
<1> QED
  BY <1>2, <1>5, <1>6

LEMMA StopMoves ==
    ASSUME BaseInv, NEW d \in Decoders,
           PlayStopNothing(d) \/ PlayStop(d) \/ DestroyDvr(d) \/ CloseSession(d)
    PROVE  PlayMoves(d)
<1> DEFINE no == FALSE
           s0 == slot[d]
           ev == play_event[d]
<1>1. no \in BOOLEAN /\ no = FALSE /\ s0 \in SlotRec
  BY SlotTypes
<1>2. CASE PlayStopNothing(d)
  <2>1. s0.play_state = "STOPPED"
    BY <1>2, SlotTypes DEF PlayStopNothing, IsPlayStopped, Sound
  <2>2. PlayGoes(d, s0, dvr[d], play_at[d], ev)
    BY <1>2, <2>1, SlotTypes DEF PlayGoes, Secure, PlayStopNothing, PlaySame
  <2> QED
    BY <2>2 DEF PlayMoves
<1>3. CASE PlayStop(d)
  <2> DEFINE c == s0.secmem /\ ~s0.is_smp
             s1 == [s0 EXCEPT !.is_smp = no]
             s == [s1 EXCEPT !.secmem = c]
  <2>1. slot' = [slot EXCEPT ![d] = s]
    BY <1>3 DEF PlayStop
  <2>2. c \in BOOLEAN /\ c = (s0.secmem /\ ~s0.is_smp)
    BY SlotTypes DEF SlotRec
  <2> HIDE DEF no, c, s0
  <2>3. s1 \in SlotRec /\ s \in SlotRec
    <3>1. s1 \in SlotRec
      BY <1>1 DEF SlotRec
    <3> HIDE DEF s1
    <3> QED
      BY ZenonT(60), <3>1, <2>2 DEF SlotRec
  <2>4. /\ s.known = s0.known /\ s.play_state = s0.play_state
        /\ s.has_video = s0.has_video /\ s.has_audio = s0.has_audio
        /\ s.video_pid = s0.video_pid /\ s.audio_pid = s0.audio_pid
        /\ s.ad_pid = s0.ad_pid /\ s.play_speed = s0.play_speed
    BY <1>1 DEF SlotRec
  <2>5. s.secmem = c
    BY <1>1 DEF SlotRec
  <2>6. /\ s \in SlotRec /\ s.known = s0.known /\ s.play_state = s0.play_state
        /\ s.has_video = s0.has_video /\ s.has_audio = s0.has_audio
        /\ s.video_pid = s0.video_pid /\ s.audio_pid = s0.audio_pid
        /\ s.ad_pid = s0.ad_pid /\ s.play_speed = s0.play_speed /\ s.secmem = c
    BY <2>3, <2>4, <2>5
  <2> HIDE DEF s
  <2> USE DEF s0
  <2>7. s0.play_state # "STOPPED"
    BY <1>3 DEF PlayStop, IsPlayStopped
  <2>8. SlotPlays(s0, dvr[d]) => SlotPlays(s, dvr[d])
    BY <2>6, SlotTypes, PlaysFields DEF SlotPlays, VideoOf, AudioOf
  <2>9. PlayGoes(d, s, dvr[d], "destroying", ev)
    BY <1>3, <2>1, <2>2, <2>6, <2>7, <2>8, SlotTypes
    DEF PlayGoes, Sound, Secure, AtRest, PlayStop
  <2> QED
    BY <2>9 DEF PlayMoves
<1>4. CASE DestroyDvr(d)
  <2> DEFINE s == [s0 EXCEPT !.play_state = "STOPPED", !.known = no]
  <2>1. slot' = [slot EXCEPT ![d] = s]
    BY <1>4 DEF DestroyDvr
  <2> HIDE DEF no, s0
  <2>2. s \in SlotRec /\ s.play_state = "STOPPED" /\ s.secmem = s0.secmem
    BY <1>1 DEF SlotRec
  <2> HIDE DEF s
  <2> USE DEF s0
  <2>3. NoDvr \in DvrRec /\ ~NoDvr.exists
    BY DEF NoDvr, DvrRec, Pids
  <2>4. PlayGoes(d, s, NoDvr, "closing", ev)
    BY <1>4, <2>1, <2>2, <2>3, SlotTypes
    DEF PlayGoes, Sound, Secure, AtRest, SlotPlays, DestroyDvr
  <2> QED
    BY <2>4 DEF PlayMoves
<1>5. CASE CloseSession(d)
  <2>1. PlayGoes(d, s0, dvr[d], "out", ev)
    BY <1>5, SlotTypes DEF PlayGoes, Sound, Secure, AtRest, CloseSession
  <2> QED
    BY <2>1 DEF PlayMoves
<1> QED
  BY <1>2, <1>3, <1>4, <1>5

LEMMA NoDvrType == NoDvr \in DvrRec /\ ~NoDvr.exists
BY DEF NoDvr, DvrRec, Pids

LEMMA ChosenSlot ==
    ASSUME NEW s0 \in SlotRec, NEW timeshift \in BOOLEAN, NEW video \in VideoPids \cup {NoPid},
           NEW audio \in AudioPids \cup {NoPid}
    PROVE  LET s == Chosen(s0, timeshift, video, audio)
           IN  /\ s \in SlotRec /\ s.known = s0.known /\ s.play_state = s0.play_state
               /\ s.is_smp = s0.is_smp /\ s.secmem = s0.secmem
<1> DEFINE sp == IF timeshift THEN 0 ELSE 100
           hv == video # NoPid
           ha == video = NoPid /\ audio # NoPid
           ap == IF video = NoPid THEN audio ELSE NoPid
           s == [s0 EXCEPT !.play_speed = sp, !.has_video = hv, !.video_pid = video,
                           !.has_audio = ha, !.audio_pid = ap, !.ad_pid = NoPid]
<1>1. Chosen(s0, timeshift, video, audio) = s
  BY Zenon DEF Chosen
<1>2. /\ sp \in Speeds \cup {0, 100} /\ hv \in BOOLEAN /\ ha \in BOOLEAN
      /\ video \in Pids(VideoPids) /\ ap \in Pids(AudioPids) /\ NoPid \in Pids(AdPids)
  BY DEF Pids
<1> HIDE DEF sp, hv, ha, ap
<1>3. s \in SlotRec
  BY <1>2 DEF SlotRec
<1>4. /\ s.known = s0.known /\ s.play_state = s0.play_state
      /\ s.is_smp = s0.is_smp /\ s.secmem = s0.secmem
  BY DEF SlotRec
<1> HIDE DEF s
<1> QED
  BY <1>1, <1>3, <1>4

LEMMA SecuredSlot ==
    ASSUME NEW s \in SlotRec, NEW secmem \in BOOLEAN
    PROVE  LET t == Secured(s, secmem)
           IN  /\ t \in SlotRec /\ t.known = s.known /\ t.play_state = s.play_state
               /\ t.is_smp = s.is_smp /\ (t.secmem => s.secmem \/ s.is_smp)
<1> DEFINE c == IF s.is_smp /\ IsM2M /\ secmem THEN TRUE ELSE s.secmem
           t == [s EXCEPT !.secmem = c]
<1>1. Secured(s, secmem) = t
  BY Zenon DEF Secured
<1>2. c \in BOOLEAN /\ (c => s.secmem \/ s.is_smp)
  BY DEF SlotRec
<1> HIDE DEF c
<1>3. /\ t \in SlotRec /\ t.known = s.known /\ t.play_state = s.play_state
      /\ t.is_smp = s.is_smp /\ t.secmem = c
  BY <1>2 DEF SlotRec
<1> HIDE DEF t
<1> QED
  BY <1>1, <1>2, <1>3

(* A player that was made plays its slot, whatever the state of that says. *)
LEMMA StartedPlays ==
    ASSUME NEW t \in SlotRec
    PROVE  LET s == [t EXCEPT !.play_state = "STARTING"]
               e == [Streams(t, NoDvr) EXCEPT !.exists = TRUE, !.speed = t.play_speed]
           IN  /\ s \in SlotRec /\ e \in DvrRec /\ e.exists
               /\ s.known = t.known /\ s.play_state = "STARTING"
               /\ s.is_smp = t.is_smp /\ s.secmem = t.secmem
               /\ SlotPlays(s, e)
<1> DEFINE yes == TRUE
           x == Streams(t, NoDvr)
           sp == t.play_speed
           s == [t EXCEPT !.play_state = "STARTING"]
           e == [x EXCEPT !.exists = yes, !.speed = sp]
<1>1. /\ s \in SlotRec /\ s.known = t.known /\ s.play_state = "STARTING"
      /\ s.is_smp = t.is_smp /\ s.secmem = t.secmem /\ s.has_video = t.has_video
      /\ s.has_audio = t.has_audio /\ s.video_pid = t.video_pid
      /\ s.audio_pid = t.audio_pid /\ s.ad_pid = t.ad_pid /\ s.play_speed = sp
  BY DEF SlotRec
<1>2. x \in DvrRec /\ Plays(t, x)
  BY NoDvrType, StreamsPlay
<1>3. sp \in Speeds \cup {0, 100}
  BY DEF SlotRec
<1>4. yes \in BOOLEAN /\ yes
  OBVIOUS
<1> HIDE DEF yes, x, sp, s
<1>5. /\ e \in DvrRec /\ e.exists /\ e.video = x.video /\ e.audio = x.audio /\ e.ad = x.ad
      /\ e.speed = sp
  BY <1>2, <1>3, <1>4 DEF DvrRec
<1> HIDE DEF e
<1>6. Plays(s, e)
  BY <1>1, <1>2, <1>5, PlaysFields DEF VideoOf, AudioOf
<1> QED
  BY <1>1, <1>5, <1>6 DEF SlotPlays, s, e, x, sp, yes

LEMMA StartMoves ==
    ASSUME BaseInv, NEW d \in Decoders, PlayStart(d),
           \A p \in Paths : Pair(p) = d => ~live[p].exists
    PROVE  PlayMoves(d)
<1>1. PICK timeshift \in BOOLEAN, secmem \in BOOLEAN, video \in VideoPids \cup {NoPid},
           audio \in AudioPids \cup {NoPid} :
        /\ ~(slot[d].is_smp /\ IsM2M) => secmem
        /\ LET s == Chosen(slot[d], timeshift, video, audio)
               t == Secured(s, secmem)
           IN  IF ~s.has_video /\ ~s.has_audio
               THEN slot' = [slot EXCEPT ![d] = s] /\ UNCHANGED <<dvr, session>>
               ELSE /\ session' = (session \/ s.is_smp)
                    /\ \/ /\ slot' = [slot EXCEPT ![d] = [t EXCEPT !.play_state = "STARTING"]]
                          /\ \/ dvr' = [dvr EXCEPT ![d] =
                                   [Streams(t, NoDvr) EXCEPT !.exists = TRUE, !.speed = t.play_speed]]
                             \/ /\ "streams" \in PlayFails
                                /\ dvr' = [dvr EXCEPT ![d] = [NoDvr EXCEPT !.exists = TRUE]]
                       \/ /\ (IF s.is_smp THEN "create smp" ELSE "create") \in PlayFails
                          /\ slot' = [slot EXCEPT ![d] = t]
                          /\ UNCHANGED dvr
  BY Zenon DEF PlayStart
<1> DEFINE s0 == slot[d]
           s == Chosen(s0, timeshift, video, audio)
           t == Secured(s, secmem)
           r == [t EXCEPT !.play_state = "STARTING"]
           e == [Streams(t, NoDvr) EXCEPT !.exists = TRUE, !.speed = t.play_speed]
           silent == [NoDvr EXCEPT !.exists = TRUE]
<1>2. /\ s0 \in SlotRec /\ s0.known /\ s0.play_state = "STOPPED" /\ play_at[d] = "out"
      /\ dvr[d] \in DvrRec /\ ~dvr[d].exists /\ play_event[d] = "none"
      /\ UNCHANGED <<play_at, play_event>>
  BY SlotTypes DEF PlayStart, PlaySame, Sound
<1>3. /\ s \in SlotRec /\ s.known = s0.known /\ s.play_state = s0.play_state
      /\ s.is_smp = s0.is_smp /\ s.secmem = s0.secmem
  BY ZenonT(60), <1>2, ChosenSlot
<1> HIDE DEF s
<1>4. /\ t \in SlotRec /\ t.known = s.known /\ t.play_state = s.play_state
      /\ t.is_smp = s.is_smp /\ (t.secmem => s.secmem \/ s.is_smp)
  BY <1>3, SecuredSlot
<1> HIDE DEF t
<1>5. /\ r \in SlotRec /\ e \in DvrRec /\ e.exists /\ r.known = t.known
      /\ r.play_state = "STARTING" /\ r.is_smp = t.is_smp /\ r.secmem = t.secmem
      /\ SlotPlays(r, e)
  BY <1>4, StartedPlays
<1>6. \/ slot' = [slot EXCEPT ![d] = s] /\ UNCHANGED <<dvr, session>>
      \/ /\ session' = (session \/ s.is_smp)
         /\ slot' = [slot EXCEPT ![d] = r] /\ dvr' = [dvr EXCEPT ![d] = e]
      \/ /\ session' = (session \/ s.is_smp) /\ "streams" \in PlayFails
         /\ slot' = [slot EXCEPT ![d] = r] /\ dvr' = [dvr EXCEPT ![d] = silent]
      \/ /\ session' = (session \/ s.is_smp)
         /\ "create smp" \notin PlayFails => ~s.is_smp
         /\ slot' = [slot EXCEPT ![d] = t] /\ UNCHANGED dvr
  BY <1>1, Zenon DEF s, t
<1>10. silent \in DvrRec /\ silent.exists
  <2> DEFINE yes == TRUE
  <2>1. yes \in BOOLEAN /\ yes
    OBVIOUS
  <2> HIDE DEF yes
  <2>2. [NoDvr EXCEPT !.exists = yes] \in DvrRec /\ [NoDvr EXCEPT !.exists = yes].exists
    BY <2>1, NoDvrType DEF DvrRec
  <2> QED
    BY <2>2 DEF yes
<1> HIDE DEF r, e, silent
<1>7. CASE slot' = [slot EXCEPT ![d] = s] /\ UNCHANGED <<dvr, session>>
  <2>1. PlayGoes(d, s, dvr[d], "out", "none")
    BY <1>2, <1>3, <1>7, SlotTypes DEF PlayGoes, Sound, Secure, AtRest, SlotPlays
  <2> QED
    BY <2>1 DEF PlayMoves
<1>8. CASE /\ session' = (session \/ s.is_smp)
           /\ slot' = [slot EXCEPT ![d] = r] /\ dvr' = [dvr EXCEPT ![d] = e]
  <2>1. Sound(r, e, "out", "none")
    BY <1>2, <1>3, <1>4, <1>5 DEF Sound
  <2>2. Secure(s0, session, "out") => Secure(r, session', "out")
    BY <1>2, <1>3, <1>4, <1>5, <1>8 DEF Secure
  <2>3. PlayGoes(d, r, e, "out", "none")
    BY <1>2, <1>5, <1>8, <2>1, <2>2, SlotTypes DEF PlayGoes
  <2> QED
    BY <2>3 DEF PlayMoves
<1>11. CASE /\ session' = (session \/ s.is_smp) /\ "streams" \in PlayFails
            /\ slot' = [slot EXCEPT ![d] = r] /\ dvr' = [dvr EXCEPT ![d] = silent]
  <2>1. Sound(r, silent, "out", "none")
    BY <1>2, <1>3, <1>4, <1>5, <1>10 DEF Sound
  <2>2. Secure(s0, session, "out") => Secure(r, session', "out")
    BY <1>2, <1>3, <1>4, <1>5, <1>11 DEF Secure
  <2>3. PlayGoes(d, r, silent, "out", "none")
    BY <1>2, <1>5, <1>10, <1>11, <2>1, <2>2, SlotTypes DEF PlayGoes
  <2> QED
    BY <2>3 DEF PlayMoves
<1>9. CASE /\ session' = (session \/ s.is_smp)
           /\ "create smp" \notin PlayFails => ~s.is_smp
           /\ slot' = [slot EXCEPT ![d] = t] /\ UNCHANGED dvr
  <2>1. PlayGoes(d, t, dvr[d], "out", "none")
    BY <1>2, <1>3, <1>4, <1>9, SlotTypes DEF PlayGoes, Sound, Secure, AtRest, SlotPlays
  <2> QED
    BY <2>1 DEF PlayMoves
<1> QED
  BY <1>6, <1>7, <1>8, <1>9, <1>11

LEMMA EventMoves ==
    ASSUME BaseInv, NEW d \in Decoders, PvrEvent(d) PROVE PlayMoves(d)
<1>1. CASE PlayTransition(d)
  <2>1. PlayGoes(d, slot[d], dvr[d], play_at[d], "started")
    BY <1>1, SlotTypes DEF PlayGoes, Sound, PlayTransition
  <2> QED
    BY <2>1 DEF PlayMoves
<1>2. CASE PlayStarted(d)
  <2> DEFINE s0 == slot[d]
             s == [s0 EXCEPT !.play_state = "STARTED"]
  <2>1. slot' = [slot EXCEPT ![d] = s]
    BY <1>2 DEF PlayStarted
  <2>2. s0 \in SlotRec
    BY SlotTypes
  <2>3. /\ s \in SlotRec /\ s.known = s0.known /\ s.play_state = "STARTED"
        /\ s.has_video = s0.has_video /\ s.has_audio = s0.has_audio
        /\ s.video_pid = s0.video_pid /\ s.audio_pid = s0.audio_pid
        /\ s.ad_pid = s0.ad_pid /\ s.play_speed = s0.play_speed
        /\ s.secmem = s0.secmem /\ s.is_smp = s0.is_smp
    BY <2>2 DEF SlotRec
  <2> HIDE DEF s
  <2>4. SlotPlays(s0, dvr[d]) => SlotPlays(s, dvr[d])
    BY <2>3, SlotTypes, PlaysFields DEF SlotPlays, VideoOf, AudioOf
  <2>5. s0.play_state # "STOPPED"
    BY <1>2, SlotTypes DEF PlayStarted, Sound
  <2>6. PlayGoes(d, s, dvr[d], play_at[d], "none")
    BY <1>2, <2>1, <2>3, <2>4, <2>5, SlotTypes DEF PlayGoes, Sound, Secure, AtRest, PlayStarted
  <2> QED
    BY <2>6 DEF PlayMoves
<1> QED
  BY <1>1, <1>2 DEF PvrEvent

LEMMA CallMoves ==
    ASSUME BaseInv, NEW d \in Decoders, PvrCall(d) PROVE PlayMoves(d) /\ UNCHANGED avVars
BY StartModeMoves, SpeedMoves, StopMoves, StartMoves, EventMoves DEF PvrCall, PvrStep

------------------------------------------------------------------------------
(* The state of slots and players, which all the rest is built on.         *)

LEMMA Init_Base == Init => BaseInv
<1> SUFFICES ASSUME Init PROVE BaseInv
  OBVIOUS
<1>1. FreshSlot \in SlotRec /\ FreshSlot.play_state = "STOPPED" /\ ~FreshSlot.secmem
  BY DEF FreshSlot, SlotRec, Pids
<1>2. Types
  <2>1. av \in [Paths -> PathRec]
    BY DEF Init, AvInit, PathRec, Pids
  <2>2. wanted \in [Paths -> WantedRec]
    BY DEF Init, AvInit, WantedRec
  <2> QED
    BY <1>1, <2>1, <2>2, NoPlayerType, NoDvrType DEF Init, AvInit, PlayInit, Types
<1>3. StateInv
  BY <1>1, NoDvrType DEF Init, PlayInit, StateInv
<1>4. LiveInv
  BY NoPlayerType DEF Init, AvInit, LiveInv, NoPlayer
<1> QED
  BY <1>2, <1>3, <1>4 DEF BaseInv

LEMMA PathKeepsBase ==
    ASSUME BaseInv, NEW p \in Paths, PathMoves(p) PROVE BaseInv'
<1>1. PICK a2, l2 : /\ av' = [av EXCEPT ![p] = a2]
                    /\ live' = [live EXCEPT ![p] = l2]
                    /\ Goes(av[p], a2, live[p], l2, Blanked(p))
  BY DEF PathMoves, Does
<1>2. /\ a2 \in PathRec /\ l2 \in LiveRec /\ (~l2.exists => l2 = NoPlayer)
      /\ l2.exists => a2.owner = av[p].owner
  BY <1>1 DEF Goes
<1>3. /\ slot' \in [Decoders -> SlotRec] /\ dvr' \in [Decoders -> DvrRec]
      /\ play_at' = play_at /\ play_event' = play_event
      /\ \A d \in Decoders : /\ slot'[d].known = slot[d].known
                             /\ slot'[d].play_state = slot[d].play_state
                             /\ dvr'[d].exists = dvr[d].exists
  <2>1. CASE UNCHANGED playVars
    BY <2>1 DEF playVars, BaseInv, Types
  <2>2. CASE IsPvr(p) /\ SlotMoves(Pair(p)) /\ UNCHANGED <<play_at, play_event, session>>
    <3>1. PICK s \in SlotRec, e \in DvrRec :
             /\ slot' = [slot EXCEPT ![Pair(p)] = s] /\ dvr' = [dvr EXCEPT ![Pair(p)] = e]
             /\ SameSlot(slot[Pair(p)], s) /\ e.exists = dvr[Pair(p)].exists
      BY <2>2 DEF SlotMoves
    <3> QED
      BY <2>2, <3>1 DEF SameSlot, BaseInv, Types
  <2> QED
    BY <2>1, <2>2 DEF PathMoves
<1>4. Types'
  BY <1>1, <1>2, <1>3 DEF PathMoves, BaseInv, Types
<1>5. StateInv'
  BY <1>3 DEF StateInv, BaseInv
<1>6. LiveInv'
  <2> SUFFICES ASSUME NEW q \in Paths
               PROVE  /\ ~live'[q].exists => live'[q] = NoPlayer
                      /\ live'[q].exists => /\ av'[q].owner \in Decoders
                                            /\ play_at'[av'[q].owner] = "out"
                                            /\ slot'[av'[q].owner].play_state = "STOPPED"
    BY DEF LiveInv
  <2>1. ASSUME IsLive(p)
        PROVE  /\ av[p].owner \in Decoders /\ play_at[av[p].owner] = "out"
               /\ slot[av[p].owner].play_state = "STOPPED"
    BY <2>1 DEF IsLive, Ready, Pair, IsPlayStopped, BaseInv, StateInv
  <2>2. CASE q # p
    <3>1. av'[q] = av[q] /\ live'[q] = live[q]
      BY <1>1, <2>2 DEF BaseInv, Types
    <3> QED
      BY <1>3, <3>1 DEF BaseInv, LiveInv
  <2>3. CASE q = p
    <3>1. av'[p] = a2 /\ live'[p] = l2
      BY <1>1 DEF BaseInv, Types
    <3>2. ASSUME l2.exists
          PROVE  /\ av[p].owner \in Decoders /\ play_at[av[p].owner] = "out"
                 /\ slot[av[p].owner].play_state = "STOPPED"
      <4>1. IsLive(p) \/ live[p].exists
        BY <3>1, <3>2 DEF PathMoves
      <4> QED
        BY <2>1, <4>1 DEF BaseInv, LiveInv
    <3> QED
      BY <1>2, <1>3, <2>3, <3>1, <3>2
  <2> QED
    BY <2>2, <2>3
<1> QED
  BY <1>4, <1>5, <1>6 DEF BaseInv

(* The blanking reaches the players of a pair, whatever path they are of.  *)
LEMMA BlankGoes ==
    ASSUME BaseInv, NEW d \in Paths, BlankVideo(d)
    PROVE  \E blank \in BOOLEAN :
              /\ av' \in [Paths -> PathRec] /\ live' \in [Paths -> LiveRec]
              /\ UNCHANGED <<playVars, wanted>>
              /\ \A p \in Paths :
                    /\ SameSettings(av[p], av'[p]) \/ p = d
                    /\ av'[p].owner = av[p].owner
                    /\ av'[p].video_out_control = IF p = d THEN blank
                                                  ELSE av[p].video_out_control
                    /\ av'[p].audio_out_control = av[p].audio_out_control
                    /\ av'[p].surface = av[p].surface
                    /\ av'[p].decoding_mode = av[p].decoding_mode
                    /\ av'[p].video_pid = av[p].video_pid
                    /\ av'[p].audio_pid = av[p].audio_pid /\ av'[p].ad_pid = av[p].ad_pid
                    /\ ~live[p].exists => live'[p] = live[p]
                    /\ live'[p].exists = live[p].exists /\ live'[p].video = live[p].video
                    /\ live'[p].audio = live[p].audio /\ live'[p].ad = live[p].ad
                    /\ live'[p].muted = live[p].muted /\ live'[p].surface = live[p].surface
                    /\ live'[p].cached = live[p].cached
                    /\ live'[p].source = live[p].source
                    /\ live'[p].hidden = IF Pair(p) = d /\ live[p].exists THEN blank
                                         ELSE live[p].hidden
<1>1. PICK blank \in BOOLEAN :
         /\ av' = [av EXCEPT ![d].video_out_control = blank]
         /\ live' = [p \in Paths |-> IF IsLive(p) /\ Pair(p) = d /\ live[p].exists
                                     THEN [live[p] EXCEPT !.hidden = blank] ELSE live[p]]
  BY DEF BlankVideo
<1>2. UNCHANGED <<playVars, wanted>>
  BY DEF BlankVideo, AvOnly
<1> DEFINE a2 == [av[d] EXCEPT !.video_out_control = blank]
<1>3. av' = [av EXCEPT ![d] = a2]
  BY <1>1
<1>4. /\ a2 \in PathRec /\ a2.video_out_control = blank /\ a2.owner = av[d].owner
      /\ a2.audio_out_control = av[d].audio_out_control /\ a2.surface = av[d].surface
      /\ a2.decoding_mode = av[d].decoding_mode /\ a2.video_pid = av[d].video_pid
      /\ a2.audio_pid = av[d].audio_pid /\ a2.ad_pid = av[d].ad_pid
  <2>1. av[d] \in PathRec
    BY DEF BaseInv, Types
  <2> QED
    BY <2>1 DEF PathRec
<1>5. ASSUME NEW p \in Paths
      PROVE  /\ live'[p] \in LiveRec
             /\ ~live[p].exists => live'[p] = live[p]
             /\ live'[p].exists = live[p].exists /\ live'[p].video = live[p].video
             /\ live'[p].audio = live[p].audio /\ live'[p].ad = live[p].ad
             /\ live'[p].muted = live[p].muted /\ live'[p].surface = live[p].surface
             /\ live'[p].cached = live[p].cached
             /\ live'[p].source = live[p].source
             /\ live'[p].hidden = IF Pair(p) = d /\ live[p].exists THEN blank
                                  ELSE live[p].hidden
  <2> DEFINE l == live[p]
             m == [l EXCEPT !.hidden = blank]
  <2>1. l \in LiveRec
    BY DEF BaseInv, Types
  <2>2. /\ m \in LiveRec /\ m.exists = l.exists /\ m.video = l.video /\ m.audio = l.audio
        /\ m.ad = l.ad /\ m.muted = l.muted /\ m.surface = l.surface
        /\ m.cached = l.cached /\ m.source = l.source /\ m.hidden = blank
    BY <2>1 DEF LiveRec
  <2>3. l.exists => IsLive(p)
    BY DEF BaseInv, LiveInv, IsLive, Ready, Pair, IsPlayStopped
  <2>4. live'[p] = IF Pair(p) = d /\ l.exists THEN m ELSE l
    BY <1>1, <2>3
  <2> HIDE DEF m, l
  <2>5. CASE Pair(p) = d /\ l.exists
    BY <2>2, <2>4, <2>5 DEF l
  <2>6. CASE ~(Pair(p) = d /\ l.exists)
    BY <2>1, <2>4, <2>6 DEF l
  <2> QED
    BY <2>5, <2>6
<1> HIDE DEF a2
<1>6. av' \in [Paths -> PathRec] /\ av'[d] = a2 /\ \A p \in Paths : p # d => av'[p] = av[p]
  BY <1>3, <1>4 DEF BaseInv, Types
<1>7. live' \in [Paths -> LiveRec]
  BY <1>1, <1>5
<1>8. ASSUME NEW p \in Paths
      PROVE  /\ SameSettings(av[p], av'[p]) \/ p = d
             /\ av'[p].owner = av[p].owner
             /\ av'[p].video_out_control = IF p = d THEN blank ELSE av[p].video_out_control
             /\ av'[p].audio_out_control = av[p].audio_out_control
             /\ av'[p].surface = av[p].surface
             /\ av'[p].decoding_mode = av[p].decoding_mode
             /\ av'[p].video_pid = av[p].video_pid
             /\ av'[p].audio_pid = av[p].audio_pid /\ av'[p].ad_pid = av[p].ad_pid
  <2>1. CASE p = d
    BY <1>4, <1>6, <2>1
  <2>2. CASE p # d
    BY <1>6, <2>2 DEF SameSettings
  <2> QED
    BY <2>1, <2>2
<1> QED
  BY <1>2, <1>5, <1>6, <1>7, <1>8

LEMMA BlankKeepsBase ==
    ASSUME BaseInv, NEW d \in Paths, BlankVideo(d) PROVE BaseInv'
<1>1. PICK blank \in BOOLEAN :
              /\ av' \in [Paths -> PathRec] /\ live' \in [Paths -> LiveRec]
              /\ UNCHANGED <<playVars, wanted>>
              /\ \A p \in Paths : /\ av'[p].owner = av[p].owner
                                  /\ ~live[p].exists => live'[p] = live[p]
                                  /\ live'[p].exists = live[p].exists
  BY BlankGoes
<1> QED
  BY <1>1 DEF BaseInv, Types, StateInv, LiveInv, playVars

LEMMA PlayKeepsBase ==
    ASSUME BaseInv, NEW d \in Decoders, PlayMoves(d), UNCHANGED avVars PROVE BaseInv'
<1>1. PICK s, e, at, ev : PlayGoes(d, s, e, at, ev)
  BY DEF PlayMoves
<1>2. Types'
  BY <1>1 DEF PlayGoes, BaseInv, Types, avVars
<1>3. /\ slot'[d] = s /\ dvr'[d] = e /\ play_at'[d] = at /\ play_event'[d] = ev
      /\ \A c \in Decoders : c # d =>
            /\ slot'[c] = slot[c] /\ dvr'[c] = dvr[c]
            /\ play_at'[c] = play_at[c] /\ play_event'[c] = play_event[c]
  BY <1>1 DEF PlayGoes, BaseInv, Types
<1>4. StateInv'
  <2>1. Sound(s, e, at, ev)
    BY <1>1 DEF PlayGoes
  <2>2. \A c \in Decoders : Sound(slot[c], dvr[c], play_at[c], play_event[c])
    BY SlotTypes
  <2>3. \A c \in Decoders : Sound(slot'[c], dvr'[c], play_at'[c], play_event'[c])
    BY <1>3, <2>1, <2>2
  <2> QED
    BY <2>3 DEF Sound, StateInv
<1>5. LiveInv'
  <2> SUFFICES ASSUME NEW q \in Paths
               PROVE  /\ ~live[q].exists => live[q] = NoPlayer
                      /\ live[q].exists => /\ av[q].owner \in Decoders
                                           /\ play_at'[av[q].owner] = "out"
                                           /\ slot'[av[q].owner].play_state = "STOPPED"
    BY DEF LiveInv, avVars
  <2>1. CASE av[q].owner = d
    <3>1. AtRest(slot[d], play_at[d]) => \/ AtRest(s, at)
                                         \/ \A p \in Paths : Pair(p) = d => ~live[p].exists
      BY <1>1 DEF PlayGoes
    <3> QED
      BY <1>3, <2>1, <3>1 DEF AtRest, Pair, BaseInv, LiveInv
  <2>2. CASE av[q].owner # d
    BY <1>3, <2>2 DEF BaseInv, LiveInv
  <2> QED
    BY <2>1, <2>2
<1> QED
  BY <1>2, <1>4, <1>5 DEF BaseInv

LEMMA Steps ==
    ASSUME BaseInv, [Next]_vars
    PROVE  \/ \E p \in Paths : PathMoves(p)
           \/ \E d \in Paths : BlankVideo(d)
           \/ \E d \in Decoders : PlayMoves(d) /\ UNCHANGED avVars
           \/ UNCHANGED vars
BY AvMoves, CallMoves DEF Next

LEMMA BaseStep == BaseInv /\ [Next]_vars => BaseInv'
<1> SUFFICES ASSUME BaseInv, [Next]_vars PROVE BaseInv'
  OBVIOUS
<1>1. CASE UNCHANGED vars
  BY <1>1 DEF BaseInv, Types, StateInv, LiveInv, vars, playVars, avVars
<1> QED
  BY <1>1, Steps, PathKeepsBase, BlankKeepsBase, PlayKeepsBase

LEMMA BaseTheorem == Spec => []BaseInv
BY Init_Base, BaseStep, PTL DEF Spec

------------------------------------------------------------------------------
(* What a playback owns.                                                   *)

(* A slot that is not stopped has a player and one that is stopped has     *)
(* none, whatever STB_PVRPlayStart, STB_PVRPlayStop and PlayEventHandler   *)
(* make of it: for any number of players.                                  *)
THEOREM StateHasPlayerTheorem == Spec => []StateHasPlayer
<1>1. BaseInv => StateHasPlayer
  BY DEF BaseInv, StateInv, StateHasPlayer
<1> QED
  BY <1>1, BaseTheorem, PTL

(* A secure buffer is there from a start to the first step of the stop.    *)
SecureInv == \A d \in Decoders : Secure(slot[d], session, play_at[d])

LEMMA SecureStep ==
    ASSUME \A c, d \in Decoders : c = d, "create smp" \notin PlayFails,
           BaseInv, SecureInv, [Next]_vars
    PROVE  SecureInv'
<1>1. CASE \E p \in Paths : PathMoves(p)
  <2>1. PICK p \in Paths : PathMoves(p)
    BY <1>1
  <2>2. CASE UNCHANGED playVars
    BY <2>2 DEF playVars, SecureInv
  <2>3. CASE IsPvr(p) /\ SlotMoves(Pair(p)) /\ UNCHANGED <<play_at, play_event, session>>
    <3>1. PICK s \in SlotRec : /\ slot' = [slot EXCEPT ![Pair(p)] = s]
                               /\ SameSlot(slot[Pair(p)], s)
      BY <2>3 DEF SlotMoves
    <3>2. \A d \in Decoders : /\ slot'[d].secmem = slot[d].secmem
                              /\ slot'[d].is_smp = slot[d].is_smp
                              /\ slot'[d].play_state = slot[d].play_state
      BY <3>1 DEF SameSlot, BaseInv, Types
    <3> QED
      BY <2>3, <3>2 DEF SecureInv, Secure
  <2> QED
    BY <2>1, <2>2, <2>3 DEF PathMoves
<1>2. CASE \E d \in Paths : BlankVideo(d)
  BY <1>2 DEF BlankVideo, AvOnly, playVars, SecureInv
<1>3. CASE \E d \in Decoders : PlayMoves(d) /\ UNCHANGED avVars
  <2>1. PICK d \in Decoders : PlayMoves(d)
    BY <1>3
  <2>2. PICK s, e, at, ev : PlayGoes(d, s, e, at, ev)
    BY <2>1 DEF PlayMoves
  <2>3. slot'[d] = s /\ play_at'[d] = at
    BY <2>2 DEF PlayGoes, BaseInv, Types
  <2>4. Secure(slot[d], session, play_at[d]) => Secure(s, session', at)
    BY <2>2 DEF PlayGoes
  <2>5. Secure(slot'[d], session', play_at'[d])
    BY <2>3, <2>4 DEF SecureInv
  <2> QED
    BY <2>5 DEF SecureInv
<1>4. CASE UNCHANGED vars
  BY <1>4 DEF vars, playVars, SecureInv
<1> QED
  BY <1>1, <1>2, <1>3, <1>4, Steps

(* With one pair of decoders a secure buffer is never left behind, and     *)
(* never used after STB_CAPVRPlayStop has closed the session it is from:   *)
(* if the library makes the player of a protected playback.  The stop of a *)
(* second player would close the session of the first.                     *)
THEOREM PlaybackOwnsTheorem ==
    ASSUME \A c, d \in Decoders : c = d, "create smp" \notin PlayFails
    PROVE  Spec => []PlaybackOwns
<1>1. Init => SecureInv
  <2>1. ~FreshSlot.secmem
    BY DEF FreshSlot
  <2>2. Init => \A d \in Decoders : slot[d] = FreshSlot
    BY DEF Init, PlayInit
  <2> QED
    BY <2>1, <2>2 DEF SecureInv, Secure
<1>2. BaseInv /\ SecureInv /\ [Next]_vars => SecureInv'
  BY SecureStep
<1>3. BaseInv /\ SecureInv => PlaybackOwns
  BY DEF BaseInv, StateInv, SecureInv, Secure, PlaybackOwns, StateHasPlayer, SecmemHasSession
<1> QED
  BY <1>1, <1>2, <1>3, BaseTheorem, PTL DEF Spec

------------------------------------------------------------------------------
(* What is remembered of what is decoded.                                  *)

LEMMA PlaysStep ==
    ASSUME "streams" \notin PlayFails, BaseInv, PlaysTheSlot, [Next]_vars
    PROVE  PlaysTheSlot'
<1>1. \A d \in Decoders : SlotPlays(slot[d], dvr[d])
  BY DEF PlaysTheSlot, SlotPlays, Plays
<1>2. SUFFICES ASSUME NEW d \in Decoders PROVE SlotPlays(slot'[d], dvr'[d])
  BY DEF PlaysTheSlot, SlotPlays, Plays
<1>3. CASE UNCHANGED <<slot, dvr>>
  BY <1>1, <1>3
<1>4. CASE \E c \in Decoders : SlotMoves(c)
  <2>1. PICK c \in Decoders, s \in SlotRec, e \in DvrRec :
           /\ slot' = [slot EXCEPT ![c] = s] /\ dvr' = [dvr EXCEPT ![c] = e]
           /\ SameSlot(slot[c], s)
           /\ e.exists = dvr[c].exists /\ e.speed = dvr[c].speed
           /\ Plays(slot[c], dvr[c]) => Plays(s, e)
    BY <1>4 DEF SlotMoves
  <2>2. SlotPlays(s, e)
    BY <1>1, <2>1 DEF SlotPlays, SameSlot
  <2> QED
    BY <1>1, <2>1, <2>2 DEF BaseInv, Types
<1>5. CASE \E c \in Decoders : PlayMoves(c)
  <2>1. PICK c \in Decoders : PlayMoves(c)
    BY <1>5
  <2>2. PICK s, e, at, ev : PlayGoes(c, s, e, at, ev)
    BY <2>1 DEF PlayMoves
  <2>3. /\ slot' = [slot EXCEPT ![c] = s] /\ dvr' = [dvr EXCEPT ![c] = e]
        /\ SlotPlays(slot[c], dvr[c]) => SlotPlays(s, e)
    BY <2>2 DEF PlayGoes
  <2> QED
    BY <1>1, <2>3 DEF BaseInv, Types
<1>6. \/ UNCHANGED <<slot, dvr>>
      \/ \E c \in Decoders : SlotMoves(c)
      \/ \E c \in Decoders : PlayMoves(c)
  <2>1. ASSUME NEW p \in Paths, PathMoves(p)
        PROVE  UNCHANGED <<slot, dvr>> \/ \E c \in Decoders : SlotMoves(c)
    BY <2>1 DEF PathMoves, playVars, IsPvr, Ready, Pair
  <2>2. ASSUME NEW p \in Paths, BlankVideo(p) PROVE UNCHANGED <<slot, dvr>>
    BY <2>2 DEF BlankVideo, AvOnly, playVars
  <2> QED
    BY <2>1, <2>2, Steps DEF vars, playVars
<1> QED
  BY <1>3, <1>4, <1>5, <1>6

(* A step of a path, seen from any path.                                   *)
LEMMA PathGoes ==
    ASSUME BaseInv, NEW p \in Paths, PathMoves(p), NEW q \in Paths
    PROVE  \/ q # p /\ av'[q] = av[q] /\ live'[q] = live[q]
           \/ q = p /\ Goes(av[q], av'[q], live[q], live'[q], Blanked(q))
<1>1. PICK a2, l2 : /\ av' = [av EXCEPT ![p] = a2]
                    /\ live' = [live EXCEPT ![p] = l2]
                    /\ Goes(av[p], a2, live[p], l2, Blanked(p))
  BY DEF PathMoves, Does
<1> QED
  BY <1>1 DEF BaseInv, Types

LEMMA RememberedStep ==
    ASSUME "stop" \notin AvFails, BaseInv, LiveRemembered, [Next]_vars
    PROVE  LiveRemembered'
<1>1. \A p \in Paths : Remembered(av[p], live[p])
  BY DEF LiveRemembered, Remembered
<1>2. SUFFICES ASSUME NEW q \in Paths PROVE Remembered(av'[q], live'[q])
  BY DEF LiveRemembered, Remembered
<1>3. CASE \E p \in Paths : PathMoves(p)
  <2>1. PICK p \in Paths : PathMoves(p)
    BY <1>3
  <2>2. Goes(av[q], av'[q], live[q], live'[q], Blanked(q)) => Remembered(av'[q], live'[q])
    BY <1>1 DEF Goes
  <2> QED
    BY <1>1, <2>1, <2>2, PathGoes
<1>4. CASE \E d \in Paths : BlankVideo(d)
  <2>1. /\ av'[q].video_pid = av[q].video_pid /\ av'[q].audio_pid = av[q].audio_pid
        /\ av'[q].ad_pid = av[q].ad_pid /\ live'[q].video = live[q].video
        /\ live'[q].audio = live[q].audio /\ live'[q].ad = live[q].ad
    BY <1>4, BlankGoes
  <2> QED
    BY <1>1, <2>1 DEF Remembered
<1>5. CASE UNCHANGED avVars
  BY <1>1, <1>5 DEF avVars
<1> QED
  BY <1>3, <1>4, <1>5, Steps DEF vars

(* The PIDs that the next start of a decoder compares with are those that  *)
(* are decoded, of a live player and of a playback, so that a change is    *)
(* never taken for none: if the library stops what it is told to stop and  *)
(* takes the streams it is told.                                           *)
THEOREM DecodesRememberedTheorem ==
    ASSUME "stop" \notin AvFails, "streams" \notin PlayFails
    PROVE  Spec => []DecodesRemembered
<1>1. Init => DecodesRemembered
  BY NoDvrType DEF Init, PlayInit, AvInit, NoPlayer, DecodesRemembered, PlaysTheSlot, LiveRemembered
<1>2. BaseInv /\ DecodesRemembered /\ [Next]_vars => DecodesRemembered'
  BY PlaysStep, RememberedStep DEF DecodesRemembered
<1> QED
  BY <1>1, <1>2, BaseTheorem, PTL DEF Spec

------------------------------------------------------------------------------
(* How a live player is set.                                               *)

LEMMA SetStep == ASSUME BaseInv, SetInv, [Next]_vars PROVE SetInv'
<1>1. BaseInv'
  BY BaseStep
<1>2. SUFFICES ASSUME NEW q \in Paths PROVE AsSet(av'[q], live'[q], av'[av'[q].owner].video_out_control)
  BY DEF SetInv, Blanked
<1>3. AsSet(av[q], live[q], Blanked(q))
  BY DEF SetInv
<1>4. CASE ~live'[q].exists
  BY <1>1, <1>4, NothingIsAsSet DEF BaseInv, LiveInv
<1>5. ASSUME live'[q].exists, \E p \in Paths : PathMoves(p)
      PROVE  AsSet(av'[q], live'[q], av'[av'[q].owner].video_out_control)
  <2>1. PICK p \in Paths : PathMoves(p)
    BY <1>5
  <2>2. av'[q].owner \in Paths
    BY <1>1, <1>5, AvPathAssumption DEF BaseInv, LiveInv
  <2>3. \A r \in Paths : av'[r].video_out_control = av[r].video_out_control
    BY <2>1, PathGoes DEF Goes
  <2>4. av'[q].owner = av[q].owner /\ AsSet(av'[q], live'[q], Blanked(q))
    <3>1. CASE q # p
      BY <1>3, <2>1, <3>1, PathGoes
    <3>2. CASE q = p
      <4>1. Goes(av[q], av'[q], live[q], live'[q], Blanked(q))
        BY <2>1, <3>2, PathGoes
      <4> QED
        BY <1>3, <1>5, <4>1 DEF Goes
    <3> QED
      BY <3>1, <3>2
  <2>5. av'[av'[q].owner].video_out_control = Blanked(q)
    BY <2>2, <2>3, <2>4 DEF Blanked
  <2> QED
    BY <2>4, <2>5
<1>6. ASSUME live'[q].exists, \E d \in Paths : BlankVideo(d)
      PROVE  AsSet(av'[q], live'[q], av'[av'[q].owner].video_out_control)
  <2>1. PICK d \in Paths : BlankVideo(d)
    BY <1>6
  <2>2. PICK blank \in BOOLEAN :
          \A p \in Paths :
             /\ av'[p].owner = av[p].owner
             /\ av'[p].video_out_control = IF p = d THEN blank ELSE av[p].video_out_control
             /\ av'[p].audio_out_control = av[p].audio_out_control
             /\ av'[p].surface = av[p].surface /\ av'[p].decoding_mode = av[p].decoding_mode
             /\ live'[p].exists = live[p].exists /\ live'[p].video = live[p].video
             /\ live'[p].audio = live[p].audio
             /\ live'[p].muted = live[p].muted /\ live'[p].surface = live[p].surface
             /\ live'[p].cached = live[p].cached /\ live'[p].source = live[p].source
             /\ live'[p].hidden = IF Pair(p) = d /\ live[p].exists THEN blank
                                  ELSE live[p].hidden
    BY <2>1, BlankGoes
  <2>3. live[q].exists /\ av[q].owner \in Paths /\ Pair(q) = av[q].owner
    BY <1>6, <2>2, AvPathAssumption DEF BaseInv, LiveInv, Pair
  <2>4. av'[av'[q].owner].video_out_control = IF Pair(q) = d THEN blank ELSE Blanked(q)
    BY <2>2, <2>3 DEF Blanked
  <2>5. live'[q].hidden = IF Pair(q) = d THEN blank ELSE live[q].hidden
    BY <2>2, <2>3
  <2> QED
    BY <1>3, <2>2, <2>4, <2>5 DEF AsSet
<1>7. ASSUME UNCHANGED avVars
      PROVE  AsSet(av'[q], live'[q], av'[av'[q].owner].video_out_control)
  BY <1>3, <1>7 DEF avVars, Blanked
<1> QED
  BY <1>4, <1>5, <1>6, <1>7, Steps DEF vars

(* A live player is muted, hidden, shown and fed as the calls for its path *)
(* say, those before it was there and those since, whatever the library    *)
(* fails to do.                                                            *)
THEOREM PlayerAsSetTheorem == Spec => []PlayerAsSet
<1>1. Init => SetInv
  BY NothingIsAsSet DEF Init, AvInit, SetInv
<1>2. BaseInv /\ SetInv /\ [Next]_vars => SetInv'
  BY SetStep
<1>3. SetInv => PlayerAsSet
  BY DEF SetInv, AsSet, Blanked, Pair, PlayerAsSet
<1> QED
  BY <1>1, <1>2, <1>3, BaseTheorem, PTL DEF Spec

(* The call that stops the last decoder of a live player releases it, in   *)
(* whatever order they stop.  A start that fails turns a decoder off, too, *)
(* but it does not make the path forget: what it had is remembered.        *)
THEOREM LastTakesPlayerTheorem ==
    ASSUME "stop" \notin AvFails
    PROVE  Spec => LastTakesPlayer
<1> DEFINE Last ==
      \A p \in Paths :
          /\ live[p].exists
          /\ \/ live[p].audio # Off /\ live'[p].audio = Off /\ av'[p].audio_pid = Off
             \/ live[p].video # Off /\ live'[p].video = Off /\ av'[p].video_pid = Off
             \/ live[p].ad # Off /\ live'[p].ad = Off /\ av'[p].ad_pid = Off
          /\ live'[p].audio = Off /\ live'[p].video = Off /\ live'[p].ad = Off
          => ~live'[p].exists \/ live'[p].kept
<1>1. Init => LiveRemembered
  BY DEF Init, AvInit, NoPlayer, LiveRemembered
<1>2. BaseInv /\ LiveRemembered /\ [Next]_vars => LiveRemembered'
  BY RememberedStep
<1>3. BaseInv /\ LiveRemembered /\ [Next]_vars => [Last]_vars
  <2> SUFFICES ASSUME BaseInv, LiveRemembered, [Next]_vars, NEW q \in Paths
               PROVE  LastTakes(live[q], av'[q], live'[q])
    BY DEF LastTakes
  <2>1. Remembered(av[q], live[q])
    BY DEF LiveRemembered, Remembered
  <2>2. CASE \E p \in Paths : PathMoves(p)
    <3>1. PICK p \in Paths : PathMoves(p)
      BY <2>2
    <3>2. CASE q = p
      <4>1. Goes(av[q], av'[q], live[q], live'[q], Blanked(q))
        BY <3>1, <3>2, PathGoes
      <4> QED
        BY <2>1, <4>1 DEF Goes
    <3>3. CASE q # p
      BY <3>1, <3>3, PathGoes DEF LastTakes
    <3> QED
      BY <3>2, <3>3
  <2>3. CASE \E d \in Paths : BlankVideo(d)
    <3>1. /\ live'[q].video = live[q].video
          /\ live'[q].audio = live[q].audio /\ live'[q].ad = live[q].ad
      BY <2>3, BlankGoes
    <3> QED
      BY <3>1 DEF LastTakes
  <2>4. CASE UNCHANGED avVars
    BY <2>4 DEF avVars, LastTakes
  <2> QED
    BY <2>2, <2>3, <2>4, Steps DEF vars
<1>4. Spec => [][Last]_vars
  BY <1>1, <1>2, <1>3, BaseTheorem, PTL DEF Spec
<1> QED
  BY <1>4 DEF LastTakesPlayer
=============================================================================
