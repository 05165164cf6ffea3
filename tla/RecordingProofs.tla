--------------------------- MODULE RecordingProofs ---------------------------
(***************************************************************************)
(* What a recording needs: a session of the CA glue, a recorder and a disk *)
(* to write to.                                                            *)
(*                                                                         *)
(* CaSessions: every session is owned by one handle or by playback, what   *)
(* counts as running runs, and the PIN event that is kept is of this       *)
(* playback, for any number of handles and sessions, any PMTs and any      *)
(* refusals of the library.  Ownership by itself is not inductive: a start *)
(* must know that the number it gets was never given out, that the handle  *)
(* it is stored in has no session, and that a handle with CA has an entry  *)
(* to store it in.  The other two rest on it.                              *)
(*                                                                         *)
(* PvrRecorder: a recorder that does not run was stopped and said to be,   *)
(* and its secure buffer is neither lost nor freed twice, for any number   *)
(* of recorders.  The invariant says for each place of a caller what there *)
(* is in the library.  And a channel counts the entries that hold it: a    *)
(* slot that forgets its demux has no encryption left to give back, which  *)
(* is so because its recorder went before it.                              *)
(*                                                                         *)
(* DiskList: the loops of the task only stand on entries of the list.  The *)
(* invariant is that no two entries have one address or one path, and that *)
(* the pointers are only used while the loops are on their way.  And the   *)
(* events agree with the list between two refreshes: an entry whose ID was *)
(* said to be removed is still to be met by one of the loops.              *)
(***************************************************************************)
EXTENDS CaSessions, PvrRecorder, DiskList, SequenceTheorems, FiniteSetTheorems,
        WellFoundedInduction, TLAPS


(* The handles and the sessions are records of their fields.               *)
HandleRecords ==
    /\ glue = [h \in Handles |-> glue[h]]
    /\ \A h \in Handles :
          glue[h] = [held |-> glue[h].held, session_info |-> glue[h].session_info,
                     cas_session |-> glue[h].cas_session, has_ca |-> glue[h].has_ca,
                     pids |-> glue[h].pids, is_descrambling |-> glue[h].is_descrambling,
                     is_timeshift |-> glue[h].is_timeshift]

SessionRecords ==
    /\ session = [s \in Sessions |-> session[s]]
    /\ \A s \in Sessions :
          session[s] = [use |-> session[s].use, on |-> session[s].on,
                        pids |-> session[s].pids]

Numbers ==
    /\ opened \in 0 .. MaxSessions
    /\ \A h \in Handles : glue[h].cas_session \in 0 .. opened
    /\ g_pvrplay_session \in 0 .. opened

Uses(h) == IF h \in LiveHandles THEN {"live", "halted"} ELSE {"record", "timeshift"}

(* What a handle says of itself: a free one has no session, one with CA    *)
(* has an entry to store a session in, and a service without a session is  *)
(* not being descrambled.                                                  *)
HandleAgrees(h) ==
    /\ ~glue[h].held => glue[h].cas_session = None
    /\ glue[h].held /\ glue[h].has_ca => glue[h].session_info # None
    /\ h \in LiveHandles /\ glue[h].cas_session # None => glue[h].is_descrambling

(* A number that was not given out yet is closed.                          *)
LaterClosed == \A s \in Sessions : s > opened => session[s].use = "closed"

HandlesOpen ==
    \A h \in Handles : glue[h].cas_session # None =>
        session[glue[h].cas_session].use \in Uses(h)

NotShared ==
    \A h, k \in Handles :
        glue[h].cas_session = glue[k].cas_session /\ glue[h].cas_session # None => h = k

PlaybackOpen ==
    g_pvrplay_session # None => session[g_pvrplay_session].use \in {"play", "closed"}

OpenHasOwner ==
    \A s \in Sessions : session[s].use # "closed" =>
        IF session[s].use = "play" THEN s = g_pvrplay_session
        ELSE \E h \in Handles : glue[h].cas_session = s

OwnedInv ==
    /\ HandleRecords /\ SessionRecords /\ Numbers
    /\ \A h \in Handles : HandleAgrees(h)
    /\ LaterClosed /\ HandlesOpen /\ NotShared /\ PlaybackOpen /\ OpenHasOwner

------------------------------------------------------------------------------
LEMMA OwnedInvSuffices == OwnedInv => SessionsOwned
<1> SUFFICES ASSUME OwnedInv PROVE SessionsOwned
  OBVIOUS
<1>1. \A h \in Handles : Held(h) /\ glue[h].cas_session # None =>
          session[glue[h].cas_session].use \in Uses(h)
  BY DEF OwnedInv, HandlesOpen
<1>2. ASSUME NEW s \in Sessions, session[s].use # "closed"
      PROVE  LET owners == {h \in Handles : Held(h) /\ glue[h].cas_session = s}
             IN  IF session[s].use = "play" THEN s = g_pvrplay_session /\ owners = {}
                 ELSE \E h \in Handles : owners = {h}
  <2> DEFINE owners == {h \in Handles : Held(h) /\ glue[h].cas_session = s}
  <2>0. s # None
    BY DEF Sessions, None
  <2>1. CASE session[s].use = "play"
    <3>1. s = g_pvrplay_session
      BY <1>2, <2>1 DEF OwnedInv, OpenHasOwner
    <3>2. \A h \in Handles : glue[h].cas_session # s
      BY <2>0, <2>1 DEF OwnedInv, HandlesOpen, Uses
    <3> QED
      BY <2>1, <3>1, <3>2
  <2>2. CASE session[s].use # "play"
    <3>1. PICK h \in Handles : glue[h].cas_session = s
      BY <1>2, <2>2 DEF OwnedInv, OpenHasOwner
    <3>2. Held(h)
      BY <2>0, <3>1 DEF OwnedInv, HandleAgrees, Held
    <3>3. \A k \in Handles : glue[k].cas_session = s => k = h
      BY <2>0, <3>1 DEF OwnedInv, NotShared
    <3>4. owners = {h}
      BY <3>1, <3>2, <3>3
    <3> QED
      BY <2>2, <3>4
  <2> QED
    BY <2>1, <2>2
<1> QED
  BY <1>1, <1>2 DEF SessionsOwned, Uses

(* Of some places in a list one is the first.                              *)
LEMMA Least ==
    ASSUME NEW S, S \subseteq Nat, S # {}
    PROVE  \E i \in S : \A j \in S : i <= j
<1>1. PICK i \in S : \A j \in S : ~(<<j, i>> \in OpToRel(<, Nat))
  BY NatLessThanWellFounded, WFMin
<1>2. \A j \in S : ~(j < i)
  <2> SUFFICES ASSUME NEW j \in S, j < i PROVE FALSE
    OBVIOUS
  <2>1. <<j, i>> \in Nat \X Nat
    OBVIOUS
  <2>2. <<j, i>> \in OpToRel(<, Nat)
    BY <2>1 DEF OpToRel
  <2> QED
    BY <1>1, <2>2
<1> QED
  BY <1>2

(* The first of the streams with an ECM PID exists when there is one.      *)
LEMMA FirstEcmFound ==
    ASSUME NEW pmt \in Pmts,
           CaList(pmt).global # None \/ Scrambled(CaList(pmt)) # {}
    PROVE  FirstEcm(CaList(pmt)) # None
<1> DEFINE list == CaList(pmt)
           S == Scrambled(list)
<1>1. CASE list.global # None
  BY <1>1 DEF FirstEcm
<1>2. CASE list.global = None
  <2>1. S # {} /\ S \subseteq Nat
    BY <1>2, PmtsAssumption DEF Scrambled, CaList
  <2>2. \E i \in S : \A j \in S : i <= j
    BY <2>1, Least
  <2> DEFINE first == CHOOSE i \in S : \A j \in S : i <= j
  <2>3. first \in S
    BY <2>2
  <2>4. list.streams[first].ecm # None
    BY <2>3 DEF Scrambled
  <2>5. FirstEcm(list) = list.streams[first].ecm
    BY <1>2, <2>1 DEF FirstEcm
  <2> QED
    BY <2>4, <2>5
<1> QED
  BY <1>1, <1>2

------------------------------------------------------------------------------
(* Where neither the handles' sessions nor the library's change, only the  *)
(* fields of the handles have to agree.                                    *)
LEMMA OthersKeepOwned ==
    ASSUME OwnedInv, HandleRecords', \A h \in Handles : HandleAgrees(h)',
           \A h \in Handles : glue'[h].cas_session = glue[h].cas_session,
           session' = session, opened' = opened, g_pvrplay_session' = g_pvrplay_session
    PROVE  OwnedInv'
<1>1. SessionRecords' /\ Numbers'
  BY DEF OwnedInv, SessionRecords, Numbers
<1>2. LaterClosed' /\ PlaybackOpen'
  BY DEF OwnedInv, LaterClosed, PlaybackOpen
<1>3. HandlesOpen' /\ NotShared' /\ OpenHasOwner'
  BY DEF OwnedInv, HandlesOpen, NotShared, OpenHasOwner, Uses
<1> QED
  BY <1>1, <1>2, <1>3 DEF OwnedInv

LEMMA HandlesKeepOwned ==
    ASSUME OwnedInv, NEW h \in Handles,
           \/ AcquireDescrambler(h)
           \/ \E pmt \in Pmts : ReportPMT(h, pmt)
           \/ \E on \in BOOLEAN : SetTimeShiftOn(h, on)
    PROVE  OwnedInv'
<1>1. CASE AcquireDescrambler(h)
  <2>1. /\ glue' = [glue EXCEPT ![h] = ClearHandle] /\ ~glue[h].held
        /\ session' = session /\ opened' = opened /\ g_pvrplay_session' = g_pvrplay_session
    BY <1>1 DEF AcquireDescrambler, Held, playVars
  <2>2. HandleRecords'
    BY <2>1 DEF OwnedInv, HandleRecords, ClearHandle
  <2>3. \A k \in Handles : glue'[k].cas_session = glue[k].cas_session /\ HandleAgrees(k)'
    BY <2>1 DEF OwnedInv, HandleRecords, HandleAgrees, ClearHandle
  <2> QED
    BY <2>1, <2>2, <2>3, OthersKeepOwned
<1>2. ASSUME NEW pmt \in Pmts, ReportPMT(h, pmt) PROVE OwnedInv'
  <2> DEFINE list == CaList(pmt)
             ca == list.global # None \/ Scrambled(list) # {}
             first == FirstEcm(list)
  <2>1. /\ glue' = [glue EXCEPT
             ![h].session_info = IF @ = None THEN first ELSE @,
             ![h].has_ca = ca,
             ![h].pids = CaPids(list)]
        /\ session' = session /\ opened' = opened /\ g_pvrplay_session' = g_pvrplay_session
    BY <1>2 DEF ReportPMT, playVars
  <2>2. ca => first # None
    BY FirstEcmFound
  <2> HIDE DEF list, ca, first
  <2>3. HandleRecords'
    BY <2>1 DEF OwnedInv, HandleRecords
  <2>4. \A k \in Handles : glue'[k].cas_session = glue[k].cas_session /\ HandleAgrees(k)'
    <3>1. \A k \in Handles \ {h} : glue'[k] = glue[k]
      BY <2>1 DEF OwnedInv, HandleRecords
    <3>2. /\ glue'[h].cas_session = glue[h].cas_session
          /\ glue'[h].held = glue[h].held
          /\ glue'[h].is_descrambling = glue[h].is_descrambling
          /\ glue'[h].has_ca = ca
          /\ glue'[h].session_info = IF glue[h].session_info = None THEN first
                                     ELSE glue[h].session_info
      BY <2>1 DEF OwnedInv, HandleRecords
    <3>3. glue'[h].has_ca => glue'[h].session_info # None
      BY <2>2, <3>2
    <3>4. HandleAgrees(h)'
      BY <3>2, <3>3 DEF OwnedInv, HandleAgrees
    <3> QED
      BY <3>1, <3>2, <3>4 DEF OwnedInv, HandleAgrees
  <2> QED
    BY <2>1, <2>3, <2>4, OthersKeepOwned
<1>3. ASSUME NEW on \in BOOLEAN, SetTimeShiftOn(h, on) PROVE OwnedInv'
  <2>1. /\ glue' = [glue EXCEPT ![h].is_timeshift = on]
        /\ session' = session /\ opened' = opened /\ g_pvrplay_session' = g_pvrplay_session
    BY <1>3 DEF SetTimeShiftOn, playVars
  <2>2. HandleRecords'
    BY <2>1 DEF OwnedInv, HandleRecords
  <2>3. \A k \in Handles : glue'[k].cas_session = glue[k].cas_session /\ HandleAgrees(k)'
    BY <2>1 DEF OwnedInv, HandleRecords, HandleAgrees
  <2> QED
    BY <2>1, <2>2, <2>3, OthersKeepOwned
<1> QED
  BY <1>1, <1>2, <1>3

(* A handle lets its session go, which is closed, and no other changes.    *)
LEMMA ClosingKeepsOwned ==
    ASSUME OwnedInv, NEW h \in Handles, HandleRecords',
           \A k \in Handles : HandleAgrees(k)',
           glue[h].cas_session # None, glue'[h].cas_session = None,
           \A k \in Handles \ {h} : glue'[k].cas_session = glue[k].cas_session,
           session' = Closed(session, glue[h].cas_session),
           opened' = opened, g_pvrplay_session' = g_pvrplay_session
    PROVE  OwnedInv'
<1> DEFINE s == glue[h].cas_session
<1>1. s \in Sessions /\ session[s].use \in Uses(h)
  BY SessionsAssumption DEF OwnedInv, Numbers, HandlesOpen, Sessions, None
<1>2. SessionRecords' /\ session'[s].use = "closed"
      /\ \A r \in Sessions \ {s} : session'[r] = session[r]
  BY <1>1 DEF OwnedInv, SessionRecords, Closed
<1>3. Numbers' /\ LaterClosed'
  BY <1>1, <1>2 DEF OwnedInv, Numbers, LaterClosed, None
<1>4. HandlesOpen' /\ NotShared'
  <2>1. \A k \in Handles : glue'[k].cas_session # None =>
            k # h /\ glue[k].cas_session # s /\ glue'[k].cas_session = glue[k].cas_session
    BY DEF OwnedInv, NotShared
  <2>2. \A k \in Handles : glue[k].cas_session # None => glue[k].cas_session \in Sessions
    BY SessionsAssumption DEF OwnedInv, Numbers, Sessions, None
  <2> QED
    BY <1>2, <2>1, <2>2 DEF OwnedInv, HandlesOpen, NotShared, Uses
<1>5. PlaybackOpen'
  <2>1. g_pvrplay_session # None => g_pvrplay_session \in Sessions
    BY SessionsAssumption DEF OwnedInv, Numbers, Sessions, None
  <2> QED
    BY <1>2, <2>1 DEF OwnedInv, PlaybackOpen
<1>6. OpenHasOwner'
  BY <1>2 DEF OwnedInv, OpenHasOwner
<1> QED
  BY <1>2, <1>3, <1>4, <1>5, <1>6 DEF OwnedInv

(* A handle without a session gets the next one.                           *)
LEMMA OpeningKeepsOwned ==
    ASSUME OwnedInv, NEW h \in Handles, HandleRecords',
           \A k \in Handles : HandleAgrees(k)',
           opened < MaxSessions, opened' = opened + 1,
           SessionRecords', session'[opened + 1].use \in Uses(h),
           \A r \in Sessions \ {opened + 1} : session'[r] = session[r],
           glue[h].cas_session = None, glue'[h].cas_session = opened + 1,
           \A k \in Handles \ {h} : glue'[k].cas_session = glue[k].cas_session,
           g_pvrplay_session' = g_pvrplay_session
    PROVE  OwnedInv'
<1> DEFINE s == opened + 1
<1>1. s \in Sessions /\ s # None
  BY SessionsAssumption DEF OwnedInv, Numbers, Sessions, None
<1>2. SessionRecords' /\ session'[s].use \in Uses(h)
      /\ \A r \in Sessions \ {s} : session'[r] = session[r]
  OBVIOUS
<1>3. \A k \in Handles : glue[k].cas_session # s
  BY DEF OwnedInv, Numbers
<1>4. g_pvrplay_session # s
  BY DEF OwnedInv, Numbers
<1>5. Numbers' /\ LaterClosed'
  <2>1. opened \in 0 .. MaxSessions /\ opened' \in 0 .. MaxSessions
    BY SessionsAssumption DEF OwnedInv, Numbers
  <2>2. \A k \in Handles : glue'[k].cas_session \in 0 .. opened'
    <3>1. \A k \in Handles \ {h} : glue'[k].cas_session \in 0 .. opened
      BY DEF OwnedInv, Numbers
    <3> QED
      BY <2>1, <3>1
  <2>3. g_pvrplay_session' \in 0 .. opened'
    BY <2>1 DEF OwnedInv, Numbers
  <2>4. \A r \in Sessions : r > opened' => r # s /\ r > opened
    BY <2>1 DEF Sessions
  <2> QED
    BY <1>2, <2>1, <2>2, <2>3, <2>4 DEF OwnedInv, Numbers, LaterClosed
<1>6. HandlesOpen' /\ NotShared'
  <2>1. \A k \in Handles : glue[k].cas_session # None => glue[k].cas_session \in Sessions
    BY SessionsAssumption DEF OwnedInv, Numbers, Sessions, None
  <2> QED
    BY <1>2, <1>3, <2>1 DEF OwnedInv, HandlesOpen, NotShared, Uses
<1>7. PlaybackOpen'
  <2>1. g_pvrplay_session # None => g_pvrplay_session \in Sessions
    BY SessionsAssumption DEF OwnedInv, Numbers, Sessions, None
  <2> QED
    BY <1>2, <1>4, <2>1 DEF OwnedInv, PlaybackOpen
<1>8. OpenHasOwner'
  <2>1. session[s].use = "closed"
    BY <1>1 DEF OwnedInv, LaterClosed, Numbers
  <2>2. session'[s].use # "play"
    BY DEF Uses
  <2>3. \A r \in Sessions \ {s}, k \in Handles :
            glue[k].cas_session = r => glue'[k].cas_session = r
    BY DEF Sessions, None
  <2> QED
    BY <1>2, <2>2, <2>3 DEF OwnedInv, OpenHasOwner
<1> QED
  BY <1>2, <1>5, <1>6, <1>7, <1>8 DEF OwnedInv

(* A session that was opened is closed in the same call.                   *)
LEMMA PassingKeepsOwned ==
    ASSUME OwnedInv, opened < MaxSessions, opened' = opened + 1,
           session' = [session EXCEPT
               ![opened + 1] = [use |-> "closed", on |-> FALSE, pids |-> {}]],
           glue' = glue, g_pvrplay_session' = g_pvrplay_session
    PROVE  OwnedInv'
<1>1. opened + 1 \in Sessions /\ session[opened + 1].use = "closed"
  BY SessionsAssumption DEF OwnedInv, Numbers, LaterClosed, Sessions
<1>2. SessionRecords' /\ \A s \in Sessions : session'[s].use = session[s].use
  BY <1>1 DEF OwnedInv, SessionRecords
<1>3. \A h \in Handles : glue[h].cas_session # None => glue[h].cas_session \in Sessions
  BY SessionsAssumption DEF OwnedInv, Numbers, Sessions, None
<1>4. g_pvrplay_session # None => g_pvrplay_session \in Sessions
  BY SessionsAssumption DEF OwnedInv, Numbers, Sessions, None
<1>5. HandleRecords' /\ (\A h \in Handles : HandleAgrees(h)') /\ NotShared'
  BY DEF OwnedInv, HandleRecords, HandleAgrees, NotShared
<1>6. Numbers'
  BY SessionsAssumption DEF OwnedInv, Numbers
<1>7. LaterClosed' /\ HandlesOpen' /\ PlaybackOpen' /\ OpenHasOwner'
  BY <1>2, <1>3, <1>4 DEF OwnedInv, Numbers, LaterClosed, HandlesOpen, PlaybackOpen,
     OpenHasOwner, Uses, Sessions
<1> QED
  BY <1>2, <1>5, <1>6, <1>7 DEF OwnedInv

(* There is no session with the number of none.                            *)
LEMMA ClosedNone == OwnedInv => Closed(session, None) = session
<1> SUFFICES ASSUME OwnedInv PROVE Closed(session, None) = session
  OBVIOUS
<1>1. None \notin Sessions
  BY DEF None, Sessions
<1>2. session = [s \in Sessions |-> session[s]]
  BY DEF OwnedInv, SessionRecords
<1>3. DOMAIN session = Sessions
  BY <1>2
<1> QED
  BY <1>1, <1>2, <1>3 DEF Closed

(* What a session says of its streams does not change what it is for.      *)
LEMMA EntryKeepsUse ==
    ASSUME SessionRecords, NEW c, NEW on, NEW pids,
           session' = [session EXCEPT ![c] =
                         [use |-> session[c].use, on |-> on, pids |-> pids]]
    PROVE  SessionRecords' /\ \A s \in Sessions : session'[s].use = session[s].use
<1>1. \A s \in Sessions \ {c} : session'[s] = session[s]
  BY DEF SessionRecords
<1>2. c \in Sessions =>
          session'[c] = [use |-> session[c].use, on |-> on, pids |-> pids]
  BY DEF SessionRecords
<1>3. session' = [s \in Sessions |-> session'[s]]
  BY DEF SessionRecords
<1>4. \A s \in Sessions : session'[s].use = session[s].use
  <2>1. c \in Sessions => session'[c].use = session[c].use
    BY <1>2
  <2> QED
    BY <1>1, <2>1
<1>5. \A s \in Sessions : session'[s] =
          [use |-> session'[s].use, on |-> session'[s].on, pids |-> session'[s].pids]
  <2>1. c \in Sessions => session'[c] =
          [use |-> session'[c].use, on |-> session'[c].on, pids |-> session'[c].pids]
    BY <1>2
  <2> QED
    BY <1>1, <2>1 DEF SessionRecords
<1> QED
  BY <1>3, <1>4, <1>5 DEF SessionRecords

(* A session goes on as what it is.                                        *)
LEMMA UsesKeepOwned ==
    ASSUME OwnedInv, glue' = glue, opened' = opened, g_pvrplay_session' = g_pvrplay_session,
           SessionRecords', \A s \in Sessions : session'[s].use = session[s].use
    PROVE  OwnedInv'
<1>1. /\ g_pvrplay_session # None => g_pvrplay_session \in Sessions
      /\ \A h \in Handles : glue[h].cas_session # None => glue[h].cas_session \in Sessions
  BY SessionsAssumption DEF OwnedInv, Numbers, Sessions, None
<1>2. HandleRecords' /\ Numbers' /\ (\A h \in Handles : HandleAgrees(h)') /\ NotShared'
  BY DEF OwnedInv, HandleRecords, Numbers, HandleAgrees, NotShared
<1>3. LaterClosed' /\ HandlesOpen' /\ PlaybackOpen' /\ OpenHasOwner'
  BY <1>1 DEF OwnedInv, LaterClosed, HandlesOpen, PlaybackOpen, OpenHasOwner, Uses
<1> QED
  BY <1>2, <1>3 DEF OwnedInv

(* Nothing that the sessions' owners depend on changes.                    *)
LEMMA SameKeepsOwned ==
    ASSUME OwnedInv, glue' = glue, session' = session, opened' = opened,
           g_pvrplay_session' = g_pvrplay_session
    PROVE  OwnedInv'
BY OthersKeepOwned DEF OwnedInv, HandleRecords, HandleAgrees

------------------------------------------------------------------------------
(* What the two calls for a live service write to their handle.            *)
LEMMA LiveEntry ==
    ASSUME HandleRecords, NEW h \in Handles, NEW new, NEW on,
           glue' = [glue EXCEPT ![h].cas_session = new, ![h].is_descrambling = on]
    PROVE  /\ HandleRecords'
           /\ glue'[h].cas_session = new /\ glue'[h].is_descrambling = on
           /\ glue'[h].held = glue[h].held /\ glue'[h].has_ca = glue[h].has_ca
           /\ glue'[h].session_info = glue[h].session_info
           /\ \A k \in Handles \ {h} : glue'[k] = glue[k]
<1>1. glue'[h] = [glue[h] EXCEPT !.cas_session = new, !.is_descrambling = on]
  BY DEF HandleRecords
<1>2. "is_descrambling" \in DOMAIN glue[h]
  BY DEF HandleRecords
<1>3. glue'[h].is_descrambling = on
  BY <1>1, <1>2
<1>4. HandleRecords'
  BY DEF HandleRecords
<1>5. /\ glue'[h].cas_session = new
      /\ glue'[h].held = glue[h].held /\ glue'[h].has_ca = glue[h].has_ca
      /\ glue'[h].session_info = glue[h].session_info
      /\ \A k \in Handles \ {h} : glue'[k] = glue[k]
  BY DEF HandleRecords
<1> QED
  BY <1>3, <1>4, <1>5

(* A session that is stopped but not closed stays with its handle.         *)
LEMMA HaltKeepsOwned ==
    ASSUME OwnedInv, NEW h \in LiveHandles, session' = Halted(session, glue[h].cas_session),
           glue' = glue, opened' = opened, g_pvrplay_session' = g_pvrplay_session
    PROVE  OwnedInv'
<1> DEFINE s == glue[h].cas_session
<1>0. h \in Handles /\ s \in 0 .. opened /\ opened \in 0 .. MaxSessions
  BY DEF Handles, OwnedInv, Numbers
<1>1. CASE s = None
  <2>1. s \notin Sessions
    BY <1>1 DEF None, Sessions
  <2>2. session' = session
    BY <2>1 DEF OwnedInv, SessionRecords, Halted
  <2> QED
    BY <2>2, SameKeepsOwned
<1>2. CASE s # None
  <2>1. s \in Sessions /\ session[s].use \in Uses(h) /\ Uses(h) = {"live", "halted"}
    BY <1>0, <1>2, SessionsAssumption DEF OwnedInv, HandlesOpen, Sessions, None, Uses
  <2>2. /\ session' = [session EXCEPT ![s] =
                          [use |-> "halted", on |-> FALSE, pids |-> session[s].pids]]
        /\ session'[s] = [use |-> "halted", on |-> FALSE, pids |-> session[s].pids]
        /\ \A t \in Sessions \ {s} : session'[t] = session[t]
    BY <2>1 DEF OwnedInv, SessionRecords, Halted
  <2>3. SessionRecords'
    BY <2>1, <2>2 DEF OwnedInv, SessionRecords
  <2>4. HandleRecords' /\ Numbers' /\ (\A k \in Handles : HandleAgrees(k)') /\ NotShared'
    BY DEF OwnedInv, HandleRecords, Numbers, HandleAgrees, NotShared
  <2>5. session'[s].use = "halted"
    BY <2>2
  <2>6. \A k \in Handles : glue[k].cas_session # None =>
            glue[k].cas_session \in Sessions /\ (glue[k].cas_session = s => k = h)
    BY <1>0, SessionsAssumption DEF OwnedInv, Numbers, NotShared, Sessions, None
  <2>7. HandlesOpen'
    BY <2>1, <2>2, <2>5, <2>6 DEF OwnedInv, HandlesOpen, Uses
  <2>8. LaterClosed'
    BY <1>0, <2>2 DEF OwnedInv, LaterClosed
  <2>9. PlaybackOpen'
    <3>1. g_pvrplay_session # None => g_pvrplay_session \in Sessions
      BY SessionsAssumption DEF OwnedInv, Numbers, Sessions, None
    <3>2. g_pvrplay_session # s
      BY <1>2, <2>1 DEF OwnedInv, PlaybackOpen
    <3> QED
      BY <2>2, <3>1, <3>2 DEF OwnedInv, PlaybackOpen
  <2>10. OpenHasOwner'
    BY <1>0, <2>2, <2>5 DEF OwnedInv, OpenHasOwner
  <2> QED
    BY <2>3, <2>4, <2>7, <2>8, <2>9, <2>10 DEF OwnedInv
<1> QED
  BY <1>1, <1>2

LEMMA LiveKeepsOwned ==
    ASSUME OwnedInv, NEW h \in LiveHandles,
           DescrambleServiceStart(h) \/ DescrambleServiceStop(h)
    PROVE  OwnedInv'
<1>0. h \in Handles /\ Uses(h) = {"live", "halted"}
  BY DEF Handles, Uses
<1>1. CASE DescrambleServiceStart(h)
  <2>1. CASE UNCHANGED <<glue, session, opened>>
    BY <1>1, <2>1, SameKeepsOwned DEF DescrambleServiceStart, playVars
  <2>2. ASSUME NEW unreg \in BOOLEAN, NEW bad \in BOOLEAN,
               opened' = opened + 1,
               session' = [session EXCEPT ![opened + 1] = StartAttempt(h, ~unreg, ~bad)],
               IF ~unreg /\ glue[h].pids # {} /\ ~bad
               THEN glue' = [glue EXCEPT
                      ![h].cas_session = IF glue[h].session_info # None THEN opened + 1 ELSE @,
                      ![h].is_descrambling = TRUE]
               ELSE UNCHANGED glue
        PROVE  OwnedInv'
    <3>1. /\ glue[h].held /\ glue[h].session_info # None /\ opened < MaxSessions
          /\ g_pvrplay_session' = g_pvrplay_session
      BY <1>0, <1>1 DEF DescrambleServiceStart, playVars, Held, OwnedInv, HandleAgrees
    <3>2. glue[h].cas_session = None
      BY <1>0, <1>1 DEF DescrambleServiceStart, OwnedInv, HandleAgrees
    <3>3. CASE ~unreg /\ glue[h].pids # {} /\ ~bad
      <4>1. session' = [session EXCEPT ![opened + 1] =
                [use |-> "live", on |-> TRUE, pids |-> EsPidsOf(glue[h].pids)]]
        BY <2>2, <3>3 DEF StartAttempt
      <4>2. glue' = [glue EXCEPT ![h].cas_session = opened + 1, ![h].is_descrambling = TRUE]
        BY <2>2, <3>1, <3>3
      <4>3. /\ HandleRecords' /\ glue'[h].cas_session = opened + 1
            /\ glue'[h].is_descrambling = TRUE /\ glue'[h].held = glue[h].held
            /\ glue'[h].session_info = glue[h].session_info
            /\ \A k \in Handles \ {h} : glue'[k] = glue[k]
        <5> DEFINE new == opened + 1
                   yes == TRUE
        <5>1. glue' = [glue EXCEPT ![h].cas_session = new, ![h].is_descrambling = yes]
          BY <4>2
        <5> HIDE DEF new, yes
        <5>2. /\ HandleRecords' /\ glue'[h].cas_session = new /\ glue'[h].held = glue[h].held
              /\ glue'[h].session_info = glue[h].session_info
              /\ \A k \in Handles \ {h} : glue'[k] = glue[k]
          BY <1>0, <5>1, LiveEntry DEF OwnedInv
        <5>3. glue'[h].is_descrambling = yes
          <6>1. glue'[h] = [glue[h] EXCEPT !.cas_session = new, !.is_descrambling = yes]
            BY <1>0, <5>1 DEF OwnedInv, HandleRecords
          <6>2. "is_descrambling" \in DOMAIN glue[h]
            BY <1>0 DEF OwnedInv, HandleRecords
          <6> QED
            BY <6>1, <6>2
        <5> QED
          BY <5>2, <5>3 DEF new, yes
      <4>4. HandleAgrees(h)'
        BY <3>1, <4>3 DEF HandleAgrees
      <4>5. \A k \in Handles : HandleAgrees(k)'
        BY <4>3, <4>4 DEF OwnedInv, HandleAgrees
      <4>6. opened + 1 \in Sessions
        BY <3>1, SessionsAssumption DEF OwnedInv, Numbers, Sessions
      <4>7. SessionRecords' /\ session'[opened + 1].use \in Uses(h)
            /\ \A r \in Sessions \ {opened + 1} : session'[r] = session[r]
        BY <1>0, <4>1, <4>6 DEF OwnedInv, SessionRecords
      <4> QED
        BY <1>0, <2>2, <3>1, <3>2, <4>3, <4>4, <4>5, <4>6, <4>7, OpeningKeepsOwned
    <3>4. CASE ~(~unreg /\ glue[h].pids # {} /\ ~bad)
      <4>1. session' = [session EXCEPT ![opened + 1] =
                [use |-> "closed", on |-> FALSE, pids |-> {}]]
        BY <2>2, <3>4 DEF StartAttempt
      <4> QED
        BY <2>2, <3>1, <3>4, <4>1, PassingKeepsOwned
    <3> QED
      BY <3>3, <3>4
  <2> QED
    BY ZenonT(60), <1>1, <2>1, <2>2 DEF DescrambleServiceStart, CanFail
<1>2. CASE DescrambleServiceStop(h)
  <2>1. g_pvrplay_session' = g_pvrplay_session /\ opened' = opened /\ glue[h].held
    BY <1>2 DEF DescrambleServiceStop, playVars, Held
  <2>2. CASE UNCHANGED <<session, glue>>
    BY <2>1, <2>2, SameKeepsOwned
  <2>3. CASE /\ session' = Closed(session, glue[h].cas_session)
             /\ glue' = [glue EXCEPT ![h].cas_session = None, ![h].is_descrambling = FALSE]
    <3>1. /\ HandleRecords' /\ glue'[h].cas_session = None
          /\ glue'[h].held = glue[h].held /\ glue'[h].has_ca = glue[h].has_ca
          /\ glue'[h].session_info = glue[h].session_info
          /\ \A k \in Handles \ {h} : glue'[k] = glue[k]
      BY <1>0, <2>3, LiveEntry DEF OwnedInv
    <3>2. HandleAgrees(h)'
      BY <1>0, <3>1 DEF OwnedInv, HandleAgrees
    <3>3. \A k \in Handles : HandleAgrees(k)'
      BY <3>1, <3>2 DEF OwnedInv, HandleAgrees
    <3>4. CASE glue[h].cas_session # None
      BY <1>0, <2>1, <2>3, <3>1, <3>2, <3>3, <3>4, ClosingKeepsOwned
    <3>5. CASE glue[h].cas_session = None
      <4>1. session' = session
        BY <2>3, <3>5, ClosedNone
      <4> QED
        BY <2>1, <3>1, <3>2, <3>3, <3>5, <4>1, OthersKeepOwned
    <3> QED
      BY <3>4, <3>5
  <2>4. CASE session' = Halted(session, glue[h].cas_session) /\ UNCHANGED glue
    BY <2>1, <2>4, HaltKeepsOwned
  <2> QED
    BY <1>2, <2>2, <2>3, <2>4 DEF DescrambleServiceStop
<1> QED
  BY <1>1, <1>2

(* A handle that is given back takes its session with it.                  *)
LEMMA ReleaseKeepsOwned ==
    ASSUME OwnedInv, NEW h \in Handles, ReleaseDescrambler(h)
    PROVE  OwnedInv'
<1>1. /\ glue' = [glue EXCEPT ![h] = FreeHandle] /\ session' = ReleasedSession(glue[h])
      /\ opened' = opened /\ g_pvrplay_session' = g_pvrplay_session
  BY DEF ReleaseDescrambler, playVars
<1>2. HandleRecords'
  BY <1>1 DEF OwnedInv, HandleRecords, FreeHandle, ClearHandle
<1>3. /\ glue'[h].cas_session = None /\ HandleAgrees(h)'
      /\ \A k \in Handles \ {h} : glue'[k] = glue[k]
  BY <1>1 DEF OwnedInv, HandleRecords, HandleAgrees, FreeHandle, ClearHandle
<1>4. \A k \in Handles : HandleAgrees(k)'
  BY <1>3 DEF OwnedInv, HandleAgrees
<1>5. CASE glue[h].cas_session # None
  <2>1. session' = Closed(session, glue[h].cas_session)
    BY <1>1, <1>5 DEF ReleasedSession
  <2> QED
    BY <1>1, <1>2, <1>3, <1>4, <1>5, <2>1, ClosingKeepsOwned
<1>6. CASE glue[h].cas_session = None
  <2>1. session' = session
    BY <1>1, <1>6 DEF ReleasedSession
  <2> QED
    BY <1>1, <1>2, <1>3, <1>4, <1>6, <2>1, OthersKeepOwned
<1> QED
  BY <1>5, <1>6

LEMMA RecordKeepsOwned ==
    ASSUME OwnedInv, NEW h \in RecHandles,
           PVRRecordStart(h) \/ StartDVRRecord(h) \/ PVRRecordStop(h)
    PROVE  OwnedInv'
<1>0. h \in Handles /\ h \notin LiveHandles /\ Uses(h) = {"record", "timeshift"}
  BY HandlesAssumption DEF Handles, Uses
<1>1. CASE PVRRecordStart(h)
  <2>1. CASE UNCHANGED <<glue, session, opened>>
    BY <1>1, <2>1, SameKeepsOwned DEF PVRRecordStart, playVars
  <2>2. CASE /\ glue[h].session_info # None /\ glue[h].cas_session = None
             /\ opened < MaxSessions /\ opened' = opened + 1
             /\ session' = [session EXCEPT ![opened + 1] =
                  OpenedFor(IF glue[h].is_timeshift THEN "timeshift" ELSE "record")]
             /\ glue' = [glue EXCEPT ![h].cas_session = opened + 1]
    <3>1. g_pvrplay_session' = g_pvrplay_session /\ glue[h].held
      BY <1>1 DEF PVRRecordStart, playVars, Held
    <3>2. HandleRecords'
      BY <1>0, <2>2 DEF OwnedInv, HandleRecords
    <3>3. /\ glue'[h].cas_session = opened + 1
          /\ glue'[h].held = glue[h].held /\ glue'[h].session_info = glue[h].session_info
          /\ \A k \in Handles \ {h} : glue'[k] = glue[k]
      BY <1>0, <2>2 DEF OwnedInv, HandleRecords
    <3>4. \A k \in Handles : HandleAgrees(k)'
      BY <1>0, <2>2, <3>1, <3>3 DEF OwnedInv, HandleAgrees
    <3>5. opened + 1 \in Sessions
      BY <2>2, SessionsAssumption DEF OwnedInv, Numbers, Sessions
    <3>6. SessionRecords' /\ session'[opened + 1].use \in Uses(h)
          /\ \A r \in Sessions \ {opened + 1} : session'[r] = session[r]
      BY <1>0, <2>2, <3>5 DEF OwnedInv, SessionRecords, OpenedFor
    <3> QED
      BY <1>0, <2>2, <3>1, <3>2, <3>3, <3>4, <3>6, OpeningKeepsOwned
  <2> QED
    BY <1>1, <2>1, <2>2 DEF PVRRecordStart
<1>2. CASE StartDVRRecord(h)
  <2>1. PICK on \in BOOLEAN :
            session' = [session EXCEPT ![glue[h].cas_session] =
                          [use |-> session[glue[h].cas_session].use, on |-> on,
                           pids |-> EsPidsOf(glue[h].pids)]]
    BY <1>2 DEF StartDVRRecord, CanFail
  <2>2. glue' = glue /\ opened' = opened /\ g_pvrplay_session' = g_pvrplay_session
    BY <1>2 DEF StartDVRRecord, playVars
  <2>3. SessionRecords' /\ \A s \in Sessions : session'[s].use = session[s].use
    BY <2>1, EntryKeepsUse DEF OwnedInv
  <2> QED
    BY <2>2, <2>3, UsesKeepOwned
<1>3. CASE PVRRecordStop(h)
  <2>1. /\ glue[h].cas_session # None
        /\ session' = Closed(session, glue[h].cas_session)
        /\ glue' = [glue EXCEPT ![h].cas_session = None]
        /\ opened' = opened /\ g_pvrplay_session' = g_pvrplay_session
    BY <1>3 DEF PVRRecordStop, playVars
  <2>2. HandleRecords'
    BY <1>0, <2>1 DEF OwnedInv, HandleRecords
  <2>3. /\ glue'[h].cas_session = None /\ glue'[h].held = glue[h].held
        /\ glue'[h].session_info = glue[h].session_info /\ glue'[h].has_ca = glue[h].has_ca
        /\ \A k \in Handles \ {h} : glue'[k] = glue[k]
    BY <1>0, <2>1 DEF OwnedInv, HandleRecords
  <2>4. \A k \in Handles : HandleAgrees(k)'
    BY <1>0, <2>3 DEF OwnedInv, HandleAgrees
  <2> QED
    BY <1>0, <2>1, <2>2, <2>3, <2>4, ClosingKeepsOwned
<1> QED
  BY <1>1, <1>2, <1>3

(* The end of a playback: its session is closed before it is forgotten, so *)
(* that no other becomes the playback's in between.                        *)
LEMMA PlaybackKeepsOwned ==
    ASSUME OwnedInv, PVRPlayStart \/ PVRPlayStop \/ ForgetPlayback
    PROVE  OwnedInv'
<1>0. /\ g_pvrplay_session # None => g_pvrplay_session \in Sessions
      /\ \A h \in Handles : glue[h].cas_session # None => glue[h].cas_session \in Sessions
  BY SessionsAssumption DEF OwnedInv, Numbers, Sessions, None
<1>1. CASE PVRPlayStart
  <2>1. CASE UNCHANGED <<session, opened, g_pvrplay_session>>
    BY <1>1, <2>1, SameKeepsOwned DEF PVRPlayStart
  <2>2. ASSUME NEW on \in BOOLEAN,
               session' = [session EXCEPT ![opened + 1] = [OpenedFor("play") EXCEPT !.on = on]],
               opened' = opened + 1, g_pvrplay_session' = opened + 1
        PROVE  OwnedInv'
    <3>1. g_pvrplay_session = None /\ opened < MaxSessions /\ glue' = glue
      BY <1>1 DEF PVRPlayStart
    <3>2. /\ opened + 1 \in Sessions /\ opened' \in 0 .. MaxSessions
          /\ session[opened + 1].use = "closed"
      BY <2>2, <3>1, SessionsAssumption DEF OwnedInv, Numbers, LaterClosed, Sessions
    <3>3. SessionRecords' /\ session'[opened + 1].use = "play"
          /\ \A s \in Sessions \ {opened + 1} : session'[s] = session[s]
      BY <2>2, <3>2 DEF OwnedInv, SessionRecords, OpenedFor
    <3>4. \A h \in Handles : glue[h].cas_session # opened + 1
      BY DEF OwnedInv, Numbers
    <3>5. Numbers' /\ LaterClosed'
      BY <2>2, <3>1, <3>2, <3>3 DEF OwnedInv, Numbers, LaterClosed, Sessions
    <3>6. HandleRecords' /\ (\A h \in Handles : HandleAgrees(h)') /\ NotShared'
      BY <3>1 DEF OwnedInv, HandleRecords, HandleAgrees, NotShared
    <3>7. HandlesOpen' /\ PlaybackOpen'
      BY <1>0, <2>2, <3>1, <3>3, <3>4 DEF OwnedInv, HandlesOpen, PlaybackOpen, Uses
    <3>8. OpenHasOwner'
      BY <2>2, <3>1, <3>2, <3>3 DEF OwnedInv, OpenHasOwner, Sessions, None
    <3> QED
      BY <3>3, <3>5, <3>6, <3>7, <3>8 DEF OwnedInv
  <2> QED
    BY <1>1, <2>1, <2>2 DEF PVRPlayStart, CanFail
<1>2. CASE PVRPlayStop
  <2> DEFINE s == g_pvrplay_session
  <2>1. /\ s \in Sessions /\ session' = Closed(session, s) /\ glue' = glue
        /\ opened' = opened /\ g_pvrplay_session' = s /\ session[s].use # "closed"
    BY <1>0, <1>2 DEF PVRPlayStop, playVars
  <2>2. SessionRecords' /\ session'[s].use = "closed"
        /\ \A r \in Sessions \ {s} : session'[r] = session[r]
    BY <2>1 DEF OwnedInv, SessionRecords, Closed
  <2>3. \A h \in Handles : glue[h].cas_session # s
    BY <2>1 DEF OwnedInv, HandlesOpen, PlaybackOpen, Uses, Sessions, None
  <2>4. Numbers' /\ LaterClosed' /\ PlaybackOpen'
    BY <2>1, <2>2 DEF OwnedInv, Numbers, LaterClosed, PlaybackOpen
  <2>5. HandleRecords' /\ (\A h \in Handles : HandleAgrees(h)') /\ NotShared'
    BY <2>1 DEF OwnedInv, HandleRecords, HandleAgrees, NotShared
  <2>6. HandlesOpen' /\ OpenHasOwner'
    BY <1>0, <2>1, <2>2, <2>3 DEF OwnedInv, HandlesOpen, OpenHasOwner, Uses
  <2> QED
    BY <2>2, <2>4, <2>5, <2>6 DEF OwnedInv
<1>3. CASE ForgetPlayback
  <2>1. /\ session' = session /\ glue' = glue /\ opened' = opened
        /\ g_pvrplay_session' = None /\ session[g_pvrplay_session].use = "closed"
    BY <1>3 DEF ForgetPlayback
  <2>2. Numbers' /\ PlaybackOpen'
    BY <2>1, SessionsAssumption DEF OwnedInv, Numbers, PlaybackOpen, None
  <2>3. HandleRecords' /\ (\A h \in Handles : HandleAgrees(h)') /\ NotShared'
    BY <2>1 DEF OwnedInv, HandleRecords, HandleAgrees, NotShared
  <2>4. SessionRecords' /\ LaterClosed' /\ HandlesOpen' /\ OpenHasOwner'
    BY <2>1 DEF OwnedInv, SessionRecords, LaterClosed, HandlesOpen, OpenHasOwner, Uses
  <2> QED
    BY <2>2, <2>3, <2>4 DEF OwnedInv
<1> QED
  BY <1>1, <1>2, <1>3

LEMMA CaStepKeepsOwned == OwnedInv /\ [CaNext]_caVars => OwnedInv'
<1> SUFFICES ASSUME OwnedInv, [CaNext]_caVars PROVE OwnedInv'
  OBVIOUS
<1>1. ASSUME NEW h \in Handles, AcquireDescrambler(h) PROVE OwnedInv'
  BY <1>1, HandlesKeepOwned
<1>2. ASSUME NEW h \in Handles, ReleaseDescrambler(h) PROVE OwnedInv'
  BY <1>2, ReleaseKeepsOwned
<1>3. ASSUME NEW h \in Handles, NEW pmt \in Pmts, ReportPMT(h, pmt) PROVE OwnedInv'
  BY <1>3, HandlesKeepOwned
<1>4. ASSUME NEW h \in LiveHandles, DescrambleServiceStart(h) \/ DescrambleServiceStop(h)
      PROVE  OwnedInv'
  BY <1>4, LiveKeepsOwned
<1>5. ASSUME NEW h \in RecHandles, NEW on \in BOOLEAN, SetTimeShiftOn(h, on) PROVE OwnedInv'
  BY <1>5, HandlesKeepOwned DEF Handles
<1>6. ASSUME NEW h \in RecHandles, PVRRecordStart(h) \/ StartDVRRecord(h) \/ PVRRecordStop(h)
      PROVE  OwnedInv'
  BY <1>6, RecordKeepsOwned
<1>7. CASE PVRPlayStart \/ PVRPlayStop \/ ForgetPlayback
  BY <1>7, PlaybackKeepsOwned
<1>8. CASE \/ PVRPlayDecrypt \/ PinSettled \/ StorePin \/ UNCHANGED caVars
           \/ \E s \in Sessions, says \in {"need", "success", "failed"} : PinEvent(s, says)
  BY <1>8, SameKeepsOwned
     DEF PVRPlayDecrypt, PinSettled, StorePin, PinEvent, caVars, playVars
<1> QED
  BY <1>1, <1>2, <1>3, <1>4, <1>5, <1>6, <1>7, <1>8 DEF CaNext

LEMMA OwnedAlways == CaSpec => []OwnedInv
<1>1. CaInit => OwnedInv
  BY SessionsAssumption
     DEF CaInit, OwnedInv, HandleRecords, SessionRecords, Numbers, HandleAgrees, LaterClosed,
         HandlesOpen, NotShared, PlaybackOpen, OpenHasOwner, FreeHandle, ClearHandle, None, Uses
<1> QED
  BY <1>1, CaStepKeepsOwned, PTL DEF CaSpec

(* Every open session of the library has one owner, a handle or playback,  *)
(* that can close it, and what an owner remembers is open: no way out of a *)
(* start, a stop or a release in ca_glue_amlmp.c loses one, whatever calls *)
(* of the library fail.                                                    *)
THEOREM SessionsOwnedTheorem == CaSpec => []SessionsOwned
<1> QED
  BY OwnedAlways, OwnedInvSuffices, PTL

------------------------------------------------------------------------------
(* What a step of a handle leaves alone: the playback, the other handles,  *)
(* and every session but its own or the next.                              *)
HandleStep(k) ==
    \/ AcquireDescrambler(k)
    \/ ReleaseDescrambler(k)
    \/ \E pmt \in Pmts : ReportPMT(k, pmt)
    \/ k \in LiveHandles /\ (DescrambleServiceStart(k) \/ DescrambleServiceStop(k))
    \/ k \in RecHandles /\ \/ \E on \in BOOLEAN : SetTimeShiftOn(k, on)
                           \/ PVRRecordStart(k) \/ StartDVRRecord(k) \/ PVRRecordStop(k)

RecRecords ==
    /\ rec_call = [h \in RecHandles |-> rec_call[h]]
    /\ rec_result = [h \in RecHandles |-> rec_result[h]]

Mine(k, c) == c = glue[k].cas_session \/ c = opened + 1

OthersUntouched(k) ==
    /\ \A h \in Handles \ {k} : glue'[h] = glue[h]
    /\ \A h \in RecHandles \ {k} : rec_call'[h] = rec_call[h] /\ rec_result'[h] = rec_result[h]
    /\ RecRecords'
    /\ \E c : Mine(k, c) /\ \A r \in Sessions \ {c} : session'[r] = session[r]

LEMMA HandleStepTouches ==
    ASSUME OwnedInv, RecRecords, NEW k \in Handles, HandleStep(k)
    PROVE  OthersUntouched(k) /\ UNCHANGED playVars
<1> USE DEF OwnedInv, RecRecords, HandleRecords, SessionRecords, OthersUntouched, Mine
<1>1. CASE AcquireDescrambler(k)
  BY <1>1 DEF AcquireDescrambler
<1>2. CASE ReleaseDescrambler(k)
  BY <1>2 DEF ReleaseDescrambler, ReleasedSession, Closed
<1>3. ASSUME NEW pmt \in Pmts, ReportPMT(k, pmt) PROVE OthersUntouched(k) /\ UNCHANGED playVars
  <2> DEFINE list == CaList(pmt)
             first == FirstEcm(list)
             ca == list.global # None \/ Scrambled(list) # {}
             pids == CaPids(list)
  <2>1. /\ glue' = [glue EXCEPT
             ![k].session_info = IF @ = None THEN first ELSE @, ![k].has_ca = ca,
             ![k].pids = pids]
        /\ UNCHANGED <<rec_call, rec_result, session, opened, playVars>>
    BY <1>3 DEF ReportPMT
  <2> HIDE DEF first, ca, pids
  <2> QED
    BY <2>1
<1>4. CASE k \in LiveHandles /\ DescrambleServiceStart(k)
  <2>1. \/ glue' = glue
        \/ \E new : glue' = [glue EXCEPT ![k].cas_session = new, ![k].is_descrambling = TRUE]
    BY <1>4 DEF DescrambleServiceStart
  <2>2. \A h \in Handles \ {k} : glue'[h] = glue[h]
    BY <2>1, LiveEntry
  <2>3. /\ \A r \in Sessions \ {opened + 1} : session'[r] = session[r]
        /\ UNCHANGED <<rec_call, rec_result, playVars>>
    BY <1>4 DEF DescrambleServiceStart
  <2> QED
    BY <2>2, <2>3
<1>5. CASE k \in LiveHandles /\ DescrambleServiceStop(k)
  <2>1. \/ glue' = glue
        \/ glue' = [glue EXCEPT ![k].cas_session = None, ![k].is_descrambling = FALSE]
    BY <1>5 DEF DescrambleServiceStop
  <2>2. \A h \in Handles \ {k} : glue'[h] = glue[h]
    BY <2>1, LiveEntry
  <2>3. /\ \A r \in Sessions \ {glue[k].cas_session} : session'[r] = session[r]
        /\ UNCHANGED <<rec_call, rec_result, playVars>>
    BY <1>5 DEF DescrambleServiceStop, Closed, Halted
  <2> QED
    BY <2>2, <2>3
<1>6. ASSUME NEW on \in BOOLEAN, SetTimeShiftOn(k, on)
      PROVE  OthersUntouched(k) /\ UNCHANGED playVars
  BY <1>6 DEF SetTimeShiftOn
<1>7. CASE PVRRecordStart(k)
  BY ZenonT(60), <1>7 DEF PVRRecordStart
<1>8. CASE StartDVRRecord(k)
  BY ZenonT(60), <1>8 DEF StartDVRRecord
<1>9. CASE PVRRecordStop(k)
  BY <1>9 DEF PVRRecordStop, Closed
<1> QED
  BY <1>1, <1>2, <1>3, <1>4, <1>5, <1>6, <1>7, <1>8, <1>9 DEF HandleStep

(* While the recording's call is half done its session is there and has    *)
(* not been reported; after it, a session means that it was started or is  *)
(* known to have failed.                                                   *)
Runs(s) == session[s].on /\ session[s].pids # {}

LiveSays(h) ==
    glue[h].is_descrambling =>
        /\ glue[h].held /\ glue[h].cas_session # None
        /\ Runs(glue[h].cas_session) \/ session[glue[h].cas_session].use = "halted"

RecSays(h) ==
    /\ rec_result[h] = "done" =>
          glue[h].held /\ glue[h].cas_session # None /\ Runs(glue[h].cas_session)
    /\ rec_call[h] = "starting" =>
          glue[h].held /\ glue[h].cas_session # None /\ rec_result[h] # "done"
    /\ rec_call[h] = "out" /\ glue[h].cas_session # None =>
          rec_result[h] \in {"done", "failed"}
    /\ rec_call[h] \in {"out", "starting"}

SaysInv ==
    /\ RecRecords
    /\ \A h \in LiveHandles : LiveSays(h)
    /\ \A h \in RecHandles : RecSays(h)

(* Sessions that are not touched go on running.                            *)
LEMMA UntouchedSays ==
    ASSUME OwnedInv, SaysInv, NEW k,
           \A h \in Handles \ {k} : glue'[h] = glue[h],
           \A h \in RecHandles \ {k} :
               rec_call'[h] = rec_call[h] /\ rec_result'[h] = rec_result[h],
           NEW c, \A h \in Handles \ {k} : glue[h].cas_session # None => glue[h].cas_session # c,
           \A r \in Sessions \ {c} : session'[r] = session[r]
    PROVE  /\ \A h \in LiveHandles \ {k} : LiveSays(h)'
           /\ \A h \in RecHandles \ {k} : RecSays(h)'
<1>1. \A h \in Handles \ {k} : glue[h].cas_session # None =>
          session'[glue[h].cas_session] = session[glue[h].cas_session]
  BY SessionsAssumption DEF OwnedInv, Numbers, Sessions, None
<1> QED
  BY <1>1 DEF SaysInv, LiveSays, RecSays, Runs, Handles

(* No other handle has the session that a handle's step may touch.         *)
LEMMA MineIsNotYours ==
    ASSUME OwnedInv, NEW k \in Handles, NEW c, Mine(k, c)
    PROVE  \A h \in Handles \ {k} : glue[h].cas_session # None => glue[h].cas_session # c
BY SessionsAssumption DEF OwnedInv, Numbers, NotShared, Mine, None

LEMMA HandleKeepsOthersSays ==
    ASSUME OwnedInv, SaysInv, NEW k \in Handles, HandleStep(k)
    PROVE  /\ \A h \in LiveHandles \ {k} : LiveSays(h)'
           /\ \A h \in RecHandles \ {k} : RecSays(h)'
           /\ RecRecords'
<1>1. OthersUntouched(k)
  BY HandleStepTouches DEF SaysInv
<1>2. PICK c : Mine(k, c) /\ \A r \in Sessions \ {c} : session'[r] = session[r]
  BY <1>1 DEF OthersUntouched
<1>3. \A h \in Handles \ {k} : glue[h].cas_session # None => glue[h].cas_session # c
  BY <1>2, MineIsNotYours
<1> QED
  BY <1>1, <1>2, <1>3, UntouchedSays DEF OthersUntouched

(* What the handle itself says after each of its steps.                    *)
LEMMA CommonKeepsSays ==
    ASSUME OwnedInv, SaysInv, NEW k \in Handles,
           \/ AcquireDescrambler(k) \/ ReleaseDescrambler(k)
           \/ \E pmt \in Pmts : ReportPMT(k, pmt)
           \/ k \in RecHandles /\ \E on \in BOOLEAN : SetTimeShiftOn(k, on)
    PROVE  /\ k \in LiveHandles => LiveSays(k)'
           /\ k \in RecHandles => RecSays(k)'
<1>1. CASE AcquireDescrambler(k) \/ ReleaseDescrambler(k)
  <2>1. /\ glue'[k] = ClearHandle \/ glue'[k] = FreeHandle
        /\ k \in RecHandles => rec_result'[k] = "none" /\ rec_call'[k] = rec_call[k]
        /\ k \in RecHandles => rec_call[k] = "out"
    BY <1>1 DEF AcquireDescrambler, ReleaseDescrambler, Held, OwnedInv, HandleRecords,
       SaysInv, RecRecords, RecSays
  <2>2. glue'[k].cas_session = None /\ ~glue'[k].is_descrambling
    BY <2>1 DEF ClearHandle, FreeHandle
  <2> QED
    BY <2>1, <2>2 DEF LiveSays, RecSays
<1>2. ASSUME /\ glue'[k].held = glue[k].held /\ glue'[k].cas_session = glue[k].cas_session
             /\ glue'[k].is_descrambling = glue[k].is_descrambling
             /\ UNCHANGED <<rec_call, rec_result, session>>
      PROVE  /\ k \in LiveHandles => LiveSays(k)'
             /\ k \in RecHandles => RecSays(k)'
  BY <1>2 DEF SaysInv, LiveSays, RecSays, Runs
<1>3. ASSUME NEW pmt \in Pmts, ReportPMT(k, pmt)
      PROVE  /\ glue'[k].held = glue[k].held /\ glue'[k].cas_session = glue[k].cas_session
             /\ glue'[k].is_descrambling = glue[k].is_descrambling
             /\ UNCHANGED <<rec_call, rec_result, session>>
  <2> DEFINE list == CaList(pmt)
             first == FirstEcm(list)
             ca == list.global # None \/ Scrambled(list) # {}
             pids == CaPids(list)
  <2>1. /\ glue' = [glue EXCEPT
             ![k].session_info = IF @ = None THEN first ELSE @, ![k].has_ca = ca,
             ![k].pids = pids]
        /\ UNCHANGED <<rec_call, rec_result, session>>
    BY <1>3 DEF ReportPMT
  <2> HIDE DEF first, ca, pids
  <2> QED
    BY <2>1 DEF OwnedInv, HandleRecords
<1>4. ASSUME NEW on \in BOOLEAN, SetTimeShiftOn(k, on)
      PROVE  /\ glue'[k].held = glue[k].held /\ glue'[k].cas_session = glue[k].cas_session
             /\ glue'[k].is_descrambling = glue[k].is_descrambling
             /\ UNCHANGED <<rec_call, rec_result, session>>
  BY <1>4 DEF SetTimeShiftOn, OwnedInv, HandleRecords
<1> QED
  BY <1>1, <1>2, <1>3, <1>4

LEMMA LiveKeepsSays ==
    ASSUME OwnedInv, SaysInv, NEW k \in LiveHandles,
           DescrambleServiceStart(k) \/ DescrambleServiceStop(k)
    PROVE  LiveSays(k)'
<1>0. k \in Handles /\ LiveSays(k) /\ HandleRecords /\ SessionRecords
  BY DEF Handles, SaysInv, OwnedInv
<1>1. CASE UNCHANGED <<glue, session>>
  BY <1>0, <1>1 DEF LiveSays, Runs
<1>2. ASSUME DescrambleServiceStart(k), opened < MaxSessions, glue[k].pids # {},
             session' = [session EXCEPT ![opened + 1] = StartAttempt(k, TRUE, TRUE)],
             glue' = [glue EXCEPT
                ![k].cas_session = IF glue[k].session_info # None THEN opened + 1 ELSE @,
                ![k].is_descrambling = TRUE]
      PROVE  LiveSays(k)'
  <2>1. glue[k].held /\ glue[k].session_info # None
    BY <1>0, <1>2 DEF DescrambleServiceStart, Held, OwnedInv, HandleAgrees
  <2>2. glue'[k].held /\ glue'[k].cas_session = opened + 1
    BY <1>0, <1>2, <2>1 DEF HandleRecords
  <2>3. opened + 1 \in Sessions /\ opened + 1 # None
    BY <1>2, SessionsAssumption DEF OwnedInv, Numbers, Sessions, None
  <2>4. EsPidsOf(glue[k].pids) # {}
    BY <1>2 DEF EsPidsOf
  <2>5. session'[opened + 1] = [use |-> "live", on |-> TRUE, pids |-> EsPidsOf(glue[k].pids)]
    BY <1>0, <1>2, <2>3 DEF StartAttempt, SessionRecords
  <2>6. session'[opened + 1].on /\ session'[opened + 1].pids # {}
    BY <2>4, <2>5
  <2> QED
    BY <2>2, <2>3, <2>6 DEF LiveSays, Runs
<1>3. ASSUME DescrambleServiceStart(k), ~UNCHANGED glue PROVE LiveSays(k)'
  <2>1. PICK unreg \in BOOLEAN, bad \in BOOLEAN :
            /\ session' = [session EXCEPT ![opened + 1] = StartAttempt(k, ~unreg, ~bad)]
            /\ ~unreg /\ glue[k].pids # {} /\ ~bad
            /\ glue' = [glue EXCEPT
                 ![k].cas_session = IF glue[k].session_info # None THEN opened + 1 ELSE @,
                 ![k].is_descrambling = TRUE]
    BY <1>3 DEF DescrambleServiceStart, CanFail
  <2>2. (~unreg) = TRUE /\ (~bad) = TRUE
    BY <2>1
  <2>3. session' = [session EXCEPT ![opened + 1] = StartAttempt(k, TRUE, TRUE)]
    BY <2>1, <2>2
  <2>4. opened < MaxSessions
    BY <1>3 DEF DescrambleServiceStart
  <2> QED
    BY <1>2, <1>3, <2>1, <2>3, <2>4
<1>4. ASSUME DescrambleServiceStart(k), UNCHANGED glue PROVE LiveSays(k)'
  BY <1>4 DEF DescrambleServiceStart, LiveSays
<1>5. ASSUME glue' = [glue EXCEPT ![k].cas_session = None, ![k].is_descrambling = FALSE]
      PROVE  LiveSays(k)'
  <2> DEFINE no == FALSE
  <2>1. glue' = [glue EXCEPT ![k].cas_session = None, ![k].is_descrambling = no]
    BY <1>5
  <2> HIDE DEF no
  <2>2. glue'[k] = [glue[k] EXCEPT !.cas_session = None, !.is_descrambling = no]
    BY <1>0, <2>1 DEF HandleRecords
  <2>3. "is_descrambling" \in DOMAIN glue[k]
    BY <1>0 DEF HandleRecords
  <2>4. glue'[k].is_descrambling = no
    BY <2>2, <2>3
  <2> QED
    BY <2>4 DEF LiveSays, no
<1>6. ASSUME session' = Halted(session, glue[k].cas_session), UNCHANGED glue
      PROVE  LiveSays(k)'
  <2>1. glue[k].cas_session # None => glue[k].cas_session \in Sessions
    BY <1>0, SessionsAssumption DEF OwnedInv, Numbers, Sessions, None
  <2>2. glue[k].cas_session # None => session'[glue[k].cas_session].use = "halted"
    BY <1>0, <1>6, <2>1 DEF SessionRecords, Halted
  <2> QED
    BY <1>0, <1>6, <2>2 DEF LiveSays
<1> QED
  BY <1>1, <1>3, <1>4, <1>5, <1>6 DEF DescrambleServiceStop

(* A recording's start is not tried again after it failed, which is where  *)
(* Retries comes in: a session that is there was started.                  *)
LEMMA RecordKeepsSays ==
    ASSUME OwnedInv, SaysInv, ~Retries, NEW k \in RecHandles,
           PVRRecordStart(k) \/ StartDVRRecord(k) \/ PVRRecordStop(k)
    PROVE  RecSays(k)'
<1>0. k \in Handles /\ RecSays(k) /\ HandleRecords /\ SessionRecords /\ RecRecords
  BY DEF Handles, SaysInv, OwnedInv
<1>1. CASE PVRRecordStart(k)
  <2>1. rec_call[k] = "out" /\ rec_result[k] # "failed" /\ glue[k].held
    BY <1>1 DEF PVRRecordStart, Held
  <2>2. CASE /\ rec_result' = [rec_result EXCEPT ![k] = "failed"]
             /\ UNCHANGED <<glue, rec_call, session>>
    BY <1>0, <2>1, <2>2 DEF RecRecords, RecSays, Runs
  <2>3. CASE /\ glue[k].cas_session # None
             /\ rec_result' = [rec_result EXCEPT ![k] = "done"]
             /\ UNCHANGED <<glue, rec_call, session>>
    <3>1. rec_result[k] = "done"
      BY <1>0, <2>1, <2>3 DEF RecSays
    <3>2. rec_result'[k] = "done" /\ rec_call'[k] = "out"
      BY <1>0, <2>1, <2>3 DEF RecRecords
    <3> QED
      BY <1>0, <2>3, <3>1, <3>2 DEF RecSays, Runs
  <2>4. CASE /\ glue[k].cas_session = None
             /\ glue' = [glue EXCEPT ![k].cas_session = opened + 1]
             /\ rec_call' = [rec_call EXCEPT ![k] = "starting"]
             /\ UNCHANGED rec_result
    <3>1. /\ rec_result'[k] = rec_result[k] /\ rec_call'[k] = "starting"
          /\ glue'[k].held = glue[k].held /\ glue'[k].cas_session = opened + 1
      BY <1>0, <2>4 DEF RecRecords, HandleRecords
    <3>2. rec_result[k] # "done" /\ opened + 1 # None
      BY <1>0, <2>4, SessionsAssumption DEF RecSays, OwnedInv, Numbers, None
    <3> QED
      BY <2>1, <3>1, <3>2 DEF RecSays
  <2> QED
    BY <1>1, <2>2, <2>3, <2>4 DEF PVRRecordStart
<1>2. CASE StartDVRRecord(k)
  <2> DEFINE s == glue[k].cas_session
  <2>1. /\ rec_call[k] = "starting" /\ glue[k].pids # {} /\ glue' = glue
        /\ rec_call' = [rec_call EXCEPT ![k] = "out"]
    BY <1>2 DEF StartDVRRecord
  <2>2. glue[k].held /\ s # None /\ s \in Sessions
    BY <1>0, <2>1, SessionsAssumption DEF RecSays, OwnedInv, Numbers, Sessions, None
  <2>3. EsPidsOf(glue[k].pids) # {}
    BY <2>1 DEF EsPidsOf
  <2>4. CASE /\ session' = [session EXCEPT ![s] =
                  [use |-> session[s].use, on |-> TRUE, pids |-> EsPidsOf(glue[k].pids)]]
             /\ rec_result' = [rec_result EXCEPT ![k] = "done"]
    <3>1. rec_result'[k] = "done" /\ rec_call'[k] = "out"
      BY <1>0, <2>1, <2>4 DEF RecRecords
    <3>2. session'[s] =
              [use |-> session[s].use, on |-> TRUE, pids |-> EsPidsOf(glue[k].pids)]
      BY <1>0, <2>2, <2>4 DEF SessionRecords
    <3> QED
      BY <2>1, <2>2, <2>3, <3>1, <3>2 DEF RecSays, Runs
  <2>5. CASE rec_result' = [rec_result EXCEPT ![k] = "failed"]
    <3>1. rec_result'[k] = "failed" /\ rec_call'[k] = "out"
      BY <1>0, <2>1, <2>5 DEF RecRecords
    <3> QED
      BY <3>1 DEF RecSays
  <2>6. \/ /\ session' = [session EXCEPT ![s] =
                  [use |-> session[s].use, on |-> TRUE, pids |-> EsPidsOf(glue[k].pids)]]
           /\ rec_result' = [rec_result EXCEPT ![k] = "done"]
        \/ rec_result' = [rec_result EXCEPT ![k] = "failed"]
    <3>1. PICK fails \in BOOLEAN :
            /\ session' = [session EXCEPT ![s] =
                 [use |-> session[s].use, on |-> ~fails, pids |-> EsPidsOf(glue[k].pids)]]
            /\ rec_result' = [rec_result EXCEPT ![k] = RecordResult(~fails)]
      BY <1>2 DEF StartDVRRecord, CanFail
    <3>2. CASE fails
      BY <3>1, <3>2 DEF RecordResult
    <3>3. CASE ~fails
      <4>1. (~fails) = TRUE
        BY <3>3
      <4> QED
        BY <3>1, <4>1 DEF RecordResult
    <3> QED
      BY <3>2, <3>3
  <2> QED
    BY <2>4, <2>5, <2>6
<1>3. CASE PVRRecordStop(k)
  <2>1. /\ rec_result'[k] = "none" /\ rec_call'[k] = "out" /\ glue'[k].cas_session = None
    BY <1>0, <1>3 DEF PVRRecordStop, RecRecords, HandleRecords
  <2> QED
    BY <2>1 DEF RecSays
<1> QED
  BY <1>1, <1>2, <1>3

(* Playback has a session of its own, and the rest touches none.           *)
LEMMA PlaybackKeepsSays ==
    ASSUME OwnedInv, SaysInv,
           \/ PVRPlayStart \/ PVRPlayStop \/ ForgetPlayback
           \/ PVRPlayDecrypt \/ PinSettled \/ StorePin \/ UNCHANGED caVars
           \/ \E s \in Sessions, says \in {"need", "success", "failed"} : PinEvent(s, says)
    PROVE  SaysInv'
<1>0. \A h \in Handles : glue[h].cas_session \in 0 .. opened
  BY DEF OwnedInv, Numbers
<1>1. UNCHANGED <<glue, rec_call, rec_result>>
  BY DEF PVRPlayStart, PVRPlayStop, ForgetPlayback, PVRPlayDecrypt, PinSettled, StorePin,
     PinEvent, caVars, playVars
<1>2. \E c : /\ \A h \in Handles : glue[h].cas_session # None => glue[h].cas_session # c
             /\ \A r \in Sessions \ {c} : session'[r] = session[r]
  <2>1. CASE PVRPlayStart
    <3>1. \A r \in Sessions \ {opened + 1} : session'[r] = session[r]
      BY <2>1 DEF PVRPlayStart, OwnedInv, SessionRecords
    <3>2. \A h \in Handles : glue[h].cas_session # opened + 1
      BY <1>0, SessionsAssumption DEF OwnedInv, Numbers
    <3> QED
      BY <3>1, <3>2
  <2>2. CASE PVRPlayStop
    <3>1. \A r \in Sessions \ {g_pvrplay_session} : session'[r] = session[r]
      BY <2>2 DEF PVRPlayStop, OwnedInv, SessionRecords, Closed
    <3>2. \A h \in Handles :
              glue[h].cas_session # None => glue[h].cas_session # g_pvrplay_session
      BY <2>2 DEF PVRPlayStop, OwnedInv, HandlesOpen, PlaybackOpen, Uses
    <3> QED
      BY <3>1, <3>2
  <2>3. CASE session' = session
    <3>1. \A h \in Handles : glue[h].cas_session # opened + 1
      BY <1>0, SessionsAssumption DEF OwnedInv, Numbers
    <3> QED
      BY <2>3, <3>1
  <2> QED
    BY <2>1, <2>2, <2>3
       DEF ForgetPlayback, PVRPlayDecrypt, PinSettled, StorePin, PinEvent, caVars
<1>3. PICK k : k \notin Handles
  BY NoSetContainsEverything
<1>4. \A h \in LiveHandles \ {k} : LiveSays(h)'
  BY <1>1, <1>2, UntouchedSays
<1>5. \A h \in RecHandles \ {k} : RecSays(h)'
  BY <1>1, <1>2, UntouchedSays
<1> QED
  BY <1>1, <1>3, <1>4, <1>5 DEF SaysInv, Handles, RecRecords

LEMMA CaStepKeepsSays ==
    ASSUME ~Retries, OwnedInv, SaysInv, [CaNext]_caVars PROVE SaysInv'
<1>1. ASSUME NEW k \in Handles, HandleStep(k) PROVE SaysInv'
  <2>1. /\ \A h \in LiveHandles \ {k} : LiveSays(h)'
        /\ \A h \in RecHandles \ {k} : RecSays(h)'
        /\ RecRecords'
    BY <1>1, HandleKeepsOthersSays
  <2>2. (k \in LiveHandles => LiveSays(k)') /\ (k \in RecHandles => RecSays(k)')
    BY <1>1, CommonKeepsSays, LiveKeepsSays, RecordKeepsSays, HandlesAssumption DEF HandleStep
  <2> QED
    BY <2>1, <2>2 DEF SaysInv
<1>2. CASE \E k \in Handles : HandleStep(k)
  BY <1>1, <1>2
<1>3. CASE \/ PVRPlayStart \/ PVRPlayStop \/ ForgetPlayback
           \/ PVRPlayDecrypt \/ PinSettled \/ StorePin \/ UNCHANGED caVars
           \/ \E s \in Sessions, says \in {"need", "success", "failed"} : PinEvent(s, says)
  BY <1>3, PlaybackKeepsSays
<1> QED
  BY <1>2, <1>3 DEF CaNext, HandleStep, Handles

(* What a handle says is true of the library, for any number of handles    *)
(* and whatever the library refuses, as long as nobody starts a recording  *)
(* again whose start has failed: a service that counts as being            *)
(* descrambled has a session that runs, or one whose close was refused     *)
(* after it had been stopped; and a recording whose start returned 0 has   *)
(* one that runs (ca_glue_amlmp.c).                                        *)
THEOREM SaysWhatRunsTheorem == ~Retries => (CaSpec => []SaysWhatRuns)
<1> SUFFICES ASSUME ~Retries PROVE CaSpec => []SaysWhatRuns
  OBVIOUS
<1>1. CaInit => SaysInv
  BY DEF CaInit, SaysInv, RecRecords, LiveSays, RecSays, FreeHandle, ClearHandle, Handles, None
<1>2. OwnedInv /\ SaysInv => SaysWhatRuns
  <2> SUFFICES ASSUME OwnedInv, SaysInv PROVE SaysWhatRuns
    OBVIOUS
  <2>1. \A h \in LiveHandles : Held(h) =>
            (glue[h].is_descrambling <=> glue[h].cas_session # None)
    BY DEF OwnedInv, SaysInv, HandleAgrees, LiveSays, Handles
  <2>2. \A h \in LiveHandles : Held(h) /\ glue[h].is_descrambling =>
            /\ Held(h) /\ glue[h].cas_session # None
            /\ Runs(glue[h].cas_session) \/ session[glue[h].cas_session].use = "halted"
    BY DEF SaysInv, LiveSays, Held
  <2>3. \A h \in RecHandles : rec_result[h] = "done" =>
            Held(h) /\ glue[h].cas_session # None /\ Runs(glue[h].cas_session)
    BY DEF SaysInv, RecSays, Held
  <2> QED
    BY <2>1, <2>2, <2>3 DEF SaysWhatRuns, Runs, Handles
<1>3. OwnedInv /\ SaysInv /\ [CaNext]_caVars => SaysInv'
  BY CaStepKeepsSays
<1> QED
  BY <1>1, <1>2, <1>3, OwnedAlways, PTL DEF CaSpec

------------------------------------------------------------------------------
(* An event that is about to be stored is of the playback that goes on,    *)
(* which the library does not close before the callback has returned.      *)
PinInv ==
    /\ PinOfThisPlayback
    /\ event # NoEvent =>
          /\ event.of = g_pvrplay_session
          /\ g_pvrplay_session # None /\ session[g_pvrplay_session].use # "closed"

LEMMA CaStepKeepsPin == OwnedInv /\ RecRecords /\ PinInv /\ [CaNext]_caVars => PinInv' /\ RecRecords'
<1> SUFFICES ASSUME OwnedInv, RecRecords, PinInv, [CaNext]_caVars PROVE PinInv' /\ RecRecords'
  OBVIOUS
<1> USE DEF PinInv, PinOfThisPlayback
<1>0. g_pvrplay_session # None => g_pvrplay_session \in Sessions /\ g_pvrplay_session # opened + 1
  BY SessionsAssumption DEF OwnedInv, Numbers, Sessions, None
<1>1. ASSUME NEW k \in Handles, HandleStep(k) PROVE PinInv' /\ RecRecords'
  <2>1. OthersUntouched(k) /\ UNCHANGED playVars
    BY <1>1, HandleStepTouches
  <2>2. PICK c : Mine(k, c) /\ \A r \in Sessions \ {c} : session'[r] = session[r]
    BY <2>1 DEF OthersUntouched
  <2>3. g_pvrplay_session # None /\ session[g_pvrplay_session].use # "closed" =>
            g_pvrplay_session # c
    BY <1>0, <2>2 DEF Mine, OwnedInv, HandlesOpen, PlaybackOpen, Uses
  <2>4. g_pvrplay_session # None /\ session[g_pvrplay_session].use # "closed" =>
            session'[g_pvrplay_session] = session[g_pvrplay_session]
    BY <1>0, <2>2, <2>3
  <2> QED
    BY <2>1, <2>4 DEF playVars, OthersUntouched
<1>2. CASE \E k \in Handles : HandleStep(k)
  BY <1>1, <1>2
<1>3. CASE PVRPlayStart
  BY <1>3 DEF PVRPlayStart, RecRecords
<1>4. CASE PVRPlayStop
  BY <1>4 DEF PVRPlayStop, playVars, RecRecords
<1>5. CASE ForgetPlayback
  BY <1>5 DEF ForgetPlayback, RecRecords
<1>6. CASE PVRPlayDecrypt \/ PinSettled \/ StorePin \/ UNCHANGED caVars
  BY <1>6 DEF PVRPlayDecrypt, PinSettled, StorePin, caVars, playVars, RecRecords
<1>7. ASSUME NEW s \in Sessions, NEW says \in {"need", "success", "failed"}, PinEvent(s, says)
      PROVE  PinInv' /\ RecRecords'
  <2>1. s # None
    BY DEF Sessions, None
  <2> QED
    BY <1>7, <2>1 DEF PinEvent, RecRecords
<1> QED
  BY <1>2, <1>3, <1>4, <1>5, <1>6, <1>7 DEF CaNext, HandleStep, Handles

(* The answer to a PIN is of the playback that goes on, for any number of  *)
(* playbacks, recordings and events: no event of one playback is left to   *)
(* the next (cas_event_cb, STB_CAPVRPlayStop).                             *)
THEOREM PinOfThisPlaybackTheorem == CaSpec => []PinOfThisPlayback
<1>1. CaInit => PinInv /\ RecRecords
  BY DEF CaInit, PinInv, PinOfThisPlayback, RecRecords
<1>2. PinInv => PinOfThisPlayback
  BY DEF PinInv
<1> QED
  BY <1>1, <1>2, CaStepKeepsPin, OwnedAlways, PTL DEF CaSpec

------------------------------------------------------------------------------
(* The recorders.                                                          *)

(* Of a slot only the fields count that the recording itself depends on.   *)
IsSlot(s) ==
    /\ {"rec_state", "recorder", "secmem", "is_smp"} \subseteq DOMAIN s
    /\ s.recorder \in BOOLEAN /\ s.secmem \in BOOLEAN /\ s.is_smp \in BOOLEAN

SameRecording(s, t) ==
    /\ s.rec_state = t.rec_state /\ s.recorder = t.recorder
    /\ s.secmem = t.secmem /\ s.is_smp = t.is_smp

(* Where a caller is that neither starts a recorder nor stops it.          *)
Calling == {"out", "keying", "keying found", "encrypting"}

(* What there is in the library where the caller of a recorder is, that    *)
(* there is no event without it, and that a recorder that does not run was *)
(* stopped and was said to be.                                             *)
RecAgrees(s, at, lib, ev, said) ==
    /\ at \in {"creating", "reporting"} => ~s.recorder
    /\ at \notin Calling \cup {"creating", "reporting"} => s.recorder
    /\ lib = "created" <=> at = "starting"
    /\ lib = "stopped" <=> at \in {"giving back", "destroying"}
    /\ lib = "none" <=> ~s.recorder
    /\ lib \in {"none", "created"} => ev = "none"
    /\ \/ at \in {"creating", "starting"}
       \/ at \in Calling /\ ~s.recorder
       => s.rec_state = "STOPPED" /\ said \in {"none", "STOP"}

(* There is a buffer where the recorder says so; one that is stopped or    *)
(* was never made has none, and one that has is the recorder of a          *)
(* protected recording.                                                    *)
SecmemAgrees(s, at, n) ==
    /\ n = IF s.secmem THEN 1 ELSE 0
    /\ s.secmem => /\ s.is_smp
                   /\ \/ at = "creating"
                      \/ s.recorder /\ at \notin {"giving back", "destroying"}

Places == {"out", "keying", "keying found", "encrypting", "creating", "starting",
           "started", "flagging", "giving back", "destroying", "reporting"}

RecorderTypes ==
    /\ rec = [r \in Recorders |-> rec[r]] /\ \A r \in Recorders : IsSlot(rec[r])
    /\ rec_at \in [Recorders -> Places]
    /\ rec_lib = [r \in Recorders |-> rec_lib[r]]
    /\ rec_event = [r \in Recorders |-> rec_event[r]]
    /\ rec_said = [r \in Recorders |-> rec_said[r]]
    /\ rec_secmems = [r \in Recorders |-> rec_secmems[r]]

RecorderInv ==
    /\ RecorderTypes
    /\ \A r \in Recorders : RecAgrees(rec[r], rec_at[r], rec_lib[r], rec_event[r], rec_said[r])

SecmemInv == \A r \in Recorders : SecmemAgrees(rec[r], rec_at[r], rec_secmems[r])

LEMMA RecorderInit == RecInit => RecorderInv /\ SecmemInv
<1> SUFFICES ASSUME RecInit PROVE RecorderInv /\ SecmemInv
  OBVIOUS
<1>1. IsSlot(FreshRecorder)
  BY DEF IsSlot, FreshRecorder
<1>2. RecorderTypes
  BY <1>1 DEF RecInit, RecorderTypes, Places
<1>3. \A r \in Recorders : RecAgrees(rec[r], rec_at[r], rec_lib[r], rec_event[r], rec_said[r])
  BY DEF RecInit, FreshRecorder, RecAgrees, Calling
<1>4. SecmemInv
  BY DEF RecInit, FreshRecorder, SecmemInv, SecmemAgrees
<1> QED
  BY <1>2, <1>3, <1>4 DEF RecorderInv

(* A step of one recorder is its new slot, place, recorder in the library, *)
(* ev, last word and buffers.                                           *)
Becomes(r, s, at, lib, ev, said, n) ==
    /\ rec' = [rec EXCEPT ![r] = s]
    /\ rec_at' = [rec_at EXCEPT ![r] = at]
    /\ rec_lib' = [rec_lib EXCEPT ![r] = lib]
    /\ rec_event' = [rec_event EXCEPT ![r] = ev]
    /\ rec_said' = [rec_said EXCEPT ![r] = said]
    /\ rec_secmems' = [rec_secmems EXCEPT ![r] = n]

LEMMA RecorderGoes ==
    ASSUME RecorderInv, NEW r \in Recorders,
           NEW s, NEW at \in Places, NEW lib, NEW ev, NEW said, NEW n,
           IsSlot(s), RecAgrees(s, at, lib, ev, said), Becomes(r, s, at, lib, ev, said, n)
    PROVE  RecorderInv' /\ (SecmemInv /\ SecmemAgrees(s, at, n) => SecmemInv')
<1> USE DEF RecorderInv, RecorderTypes, Becomes
<1>1. /\ rec'[r] = s /\ rec_at'[r] = at /\ rec_lib'[r] = lib /\ rec_event'[r] = ev
      /\ rec_said'[r] = said /\ rec_secmems'[r] = n
  OBVIOUS
<1>2. \A q \in Recorders : q # r =>
         /\ rec'[q] = rec[q] /\ rec_at'[q] = rec_at[q] /\ rec_lib'[q] = rec_lib[q]
         /\ rec_event'[q] = rec_event[q] /\ rec_said'[q] = rec_said[q]
         /\ rec_secmems'[q] = rec_secmems[q]
  OBVIOUS
<1>3. RecorderTypes'
  <2>1. \A q \in Recorders : IsSlot(rec'[q])
    BY <1>1, <1>2
  <2> QED
    BY <2>1 DEF IsSlot
<1>4. \A q \in Recorders : RecAgrees(rec'[q], rec_at'[q], rec_lib'[q], rec_event'[q], rec_said'[q])
  BY <1>1, <1>2
<1>5. SecmemInv /\ SecmemAgrees(s, at, n) =>
         \A q \in Recorders : SecmemAgrees(rec'[q], rec_at'[q], rec_secmems'[q])
  BY <1>1, <1>2 DEF SecmemInv
<1> QED
  BY <1>3, <1>4, <1>5 DEF SecmemInv, RecAgrees, Calling, SecmemAgrees

(* Nothing of a recorder changes that a step does not name.                *)
LEMMA RecorderStays ==
    ASSUME RecorderInv, NEW r \in Recorders
    PROVE  /\ rec = [rec EXCEPT ![r] = rec[r]]
           /\ rec_at = [rec_at EXCEPT ![r] = rec_at[r]]
           /\ rec_lib = [rec_lib EXCEPT ![r] = rec_lib[r]]
           /\ rec_event = [rec_event EXCEPT ![r] = rec_event[r]]
           /\ rec_said = [rec_said EXCEPT ![r] = rec_said[r]]
           /\ rec_secmems = [rec_secmems EXCEPT ![r] = rec_secmems[r]]
           /\ IsSlot(rec[r]) /\ rec_at[r] \in Places
           /\ RecAgrees(rec[r], rec_at[r], rec_lib[r], rec_event[r], rec_said[r])
           /\ SecmemInv => SecmemAgrees(rec[r], rec_at[r], rec_secmems[r])
BY DEF RecorderInv, RecorderTypes, SecmemInv

(* The calls that only change what is not part of the recording, and the   *)
(* place of the caller among those.                                        *)
LEMMA OnlyTheSlot ==
    ASSUME RecorderInv, NEW r \in Recorders, NEW s, IsSlot(s), SameRecording(rec[r], s),
           NEW to \in Calling, rec_at[r] \in Calling,
           rec' = [rec EXCEPT ![r] = s], RecGoto(r, to),
           UNCHANGED <<rec_lib, rec_event, rec_said, rec_secmems>>
    PROVE  RecorderInv' /\ (SecmemInv => SecmemInv')
<1>1. PICK lib, ev, said, n :
         /\ lib = rec_lib[r] /\ ev = rec_event[r] /\ said = rec_said[r]
         /\ n = rec_secmems[r]
  OBVIOUS
<1>2. Becomes(r, s, to, lib, ev, said, n)
  BY <1>1, RecorderStays DEF Becomes, RecGoto
<1>3. RecAgrees(s, to, lib, ev, said) /\ to \in Places
  BY <1>1, RecorderStays DEF RecAgrees, Calling, SameRecording, Places
<1>4. SecmemInv => SecmemAgrees(s, to, n)
  BY <1>1, RecorderStays DEF SecmemAgrees, SameRecording, Calling
<1> QED
  BY <1>2, <1>3, <1>4, RecorderGoes

LEMMA OnlySlotOut ==
    ASSUME RecorderInv, NEW r \in Recorders, NEW s, IsSlot(s), SameRecording(rec[r], s),
           rec' = [rec EXCEPT ![r] = s], rec_at[r] = "out",
           UNCHANGED <<rec_at, rec_lib, rec_event, rec_said, rec_secmems>>
    PROVE  RecorderInv' /\ (SecmemInv => SecmemInv')
BY RecorderStays, OnlyTheSlot DEF Calling, RecGoto

LEMMA AcquireKeeps ==
    ASSUME RecorderInv, NEW r \in Recorders, Acquire(r)
    PROVE  RecorderInv' /\ (SecmemInv => SecmemInv')
<1>1. PICK s : s = [rec[r] EXCEPT !.tuner = TRUE, !.rec_demux = TRUE]
  OBVIOUS
<1>2. rec' = [rec EXCEPT ![r] = s]
  BY <1>1, RecorderStays DEF Acquire, RecorderInv, RecorderTypes
<1>3. IsSlot(s) /\ SameRecording(rec[r], s)
  BY <1>1, RecorderStays DEF IsSlot, SameRecording
<1> QED
  BY <1>2, <1>3, OnlySlotOut DEF Acquire, Begins, SlotOnly

LEMMA PrepareKeeps ==
    ASSUME RecorderInv, NEW r \in Recorders, Prepare(r)
    PROVE  RecorderInv' /\ (SecmemInv => SecmemInv')
<1>1. PICK at, lib, ev, said, n :
         /\ at = rec_at[r] /\ lib = rec_lib[r] /\ ev = rec_event[r] /\ said = rec_said[r]
         /\ n = rec_secmems[r]
  OBVIOUS
<1>2. ASSUME NEW s, rec' = [rec EXCEPT ![r] = s], IsSlot(s), s.recorder = rec[r].recorder,
             s.secmem = rec[r].secmem, s.rec_state = "STOPPED"
      PROVE  RecorderInv' /\ (SecmemInv => SecmemInv')
  <2>1. Becomes(r, s, at, lib, ev, said, n)
    BY <1>1, <1>2, RecorderStays DEF Becomes, Prepare, SlotOnly
  <2>2. RecAgrees(s, at, lib, ev, said) /\ at \in Places
    BY <1>1, <1>2, RecorderStays DEF RecAgrees, Calling, Prepare, Begins
  <2>3. SecmemInv => SecmemAgrees(s, at, n)
    BY <1>1, <1>2, RecorderStays DEF SecmemAgrees, Prepare, Begins
  <2> QED
    BY <1>2, <2>1, <2>2, <2>3, RecorderGoes
<1>3. CASE rec' = [rec EXCEPT ![r].rec_state = "STOPPED"]
  <2>1. PICK s : s = [rec[r] EXCEPT !.rec_state = "STOPPED"]
    OBVIOUS
  <2>2. rec' = [rec EXCEPT ![r] = s]
    BY <1>3, <2>1, RecorderStays DEF RecorderInv, RecorderTypes
  <2>3. IsSlot(s) /\ s.recorder = rec[r].recorder /\ s.secmem = rec[r].secmem
        /\ s.rec_state = "STOPPED"
    BY <2>1, RecorderStays DEF IsSlot
  <2> QED
    BY <1>2, <2>2, <2>3
<1>4. CASE \E smp \in BOOLEAN : rec' = [rec EXCEPT ![r].is_smp = smp]
  <2>1. PICK smp \in BOOLEAN : rec' = [rec EXCEPT ![r].is_smp = smp]
    BY <1>4
  <2>2. PICK s : s = [rec[r] EXCEPT !.is_smp = smp]
    OBVIOUS
  <2>3. rec' = [rec EXCEPT ![r] = s]
    BY <2>1, <2>2, RecorderStays DEF RecorderInv, RecorderTypes
  <2>4. IsSlot(s) /\ s.recorder = rec[r].recorder /\ s.secmem = rec[r].secmem
        /\ s.rec_state = rec[r].rec_state
    BY <2>2, RecorderStays DEF IsSlot
  <2>5. rec[r].rec_state = "STOPPED"
    BY RecorderStays DEF RecAgrees, Calling, Prepare, Begins
  <2> QED
    BY <1>2, <2>3, <2>4, <2>5
<1> QED
  BY <1>3, <1>4 DEF Prepare

LEMMA KeyCallsKeep ==
    ASSUME RecorderInv, NEW r \in Recorders, ApplyDescramblerKey(r) \/ ApplyEncryptionKey(r)
    PROVE  RecorderInv' /\ (SecmemInv => SecmemInv')
<1>1. PICK to \in Calling : RecGoto(r, to)
  BY DEF ApplyDescramblerKey, ApplyEncryptionKey, Calling
<1>2. rec' = [rec EXCEPT ![r] = rec[r]]
  BY RecorderStays DEF ApplyDescramblerKey, ApplyEncryptionKey
<1>3. IsSlot(rec[r]) /\ SameRecording(rec[r], rec[r]) /\ rec_at[r] \in Calling
  BY RecorderStays DEF SameRecording, Calling, ApplyDescramblerKey, ApplyEncryptionKey, Begins
<1> QED
  BY <1>1, <1>2, <1>3, OnlyTheSlot DEF ApplyDescramblerKey, ApplyEncryptionKey

(* The slot after one channel for descrambling was taken, and after one    *)
(* for encryption.                                                         *)
LEMMA KeyAudioKeeps ==
    ASSUME RecorderInv, NEW r \in Recorders, KeyAudio(r)
    PROVE  RecorderInv' /\ (SecmemInv => SecmemInv')
<1>0. PICK pid \in AudioPids :
         LET s == rec[r]
             found == \/ rec_at[r] = "keying found"
                      \/ \E i \in 1 .. s.des_aids : s.a_chanpids[i] = pid
             n == s.des_aids + 1
             c == IF found THEN s.a_chanids[n] ELSE ChannelFor(channel, pid, "descramble")
             p == IF c = NoChan THEN 255 ELSE IF found THEN s.a_chanpids[n] ELSE pid % 256
         IN  /\ rec' = [rec EXCEPT ![r] = [s EXCEPT !.des_aids = n, !.a_chanids[n] = c,
                                                    !.a_chanpids[n] = p]]
             /\ RecGoto(r, IF found THEN "keying found" ELSE "keying")
  BY DEF KeyAudio
<1> DEFINE same == \/ rec_at[r] = "keying found"
                   \/ \E i \in 1 .. rec[r].des_aids : rec[r].a_chanpids[i] = pid
           after == rec[r].des_aids + 1
           chan == IF same THEN rec[r].a_chanids[after]
                   ELSE ChannelFor(channel, pid, "descramble")
<1>1. PICK to, n, c, kept :
         /\ to = IF same THEN "keying found" ELSE "keying"
         /\ n = after /\ c = chan
         /\ kept = IF chan = NoChan THEN 255
                   ELSE IF same THEN rec[r].a_chanpids[after] ELSE pid % 256
  OBVIOUS
<1>2. PICK s : s = [rec[r] EXCEPT !.des_aids = n, !.a_chanids[n] = c, !.a_chanpids[n] = kept]
  OBVIOUS
<1>3. rec' = [rec EXCEPT ![r] = s]
  BY <1>0, <1>1, <1>2
<1>4. IsSlot(s) /\ SameRecording(rec[r], s)
  BY <1>2, RecorderStays DEF IsSlot, SameRecording
<1>5. rec_at[r] \in Calling /\ to \in Calling /\ RecGoto(r, to)
  BY <1>0, <1>1 DEF KeyAudio, Keying, Calling
<1> QED
  BY <1>3, <1>4, <1>5, OnlyTheSlot DEF KeyAudio

LEMMA EncryptAudioKeeps ==
    ASSUME RecorderInv, NEW r \in Recorders, EncryptAudio(r)
    PROVE  RecorderInv' /\ (SecmemInv => SecmemInv')
<1>0. PICK pid \in AudioPids :
         LET n == rec[r].rec_aids + 1
             c == ChannelFor(channel, pid, "encrypt")
         IN  rec' = [rec EXCEPT ![r].rec_a_chanids[n] = c,
                                ![r].rec_aids = IF c = NoChan THEN @ ELSE n]
  BY DEF EncryptAudio
<1>1. PICK n, c, aids :
         /\ n = rec[r].rec_aids + 1 /\ c = ChannelFor(channel, pid, "encrypt")
         /\ aids = IF c = NoChan THEN rec[r].rec_aids ELSE n
  OBVIOUS
<1>2. PICK s : s = [rec[r] EXCEPT !.rec_a_chanids[n] = c, !.rec_aids = aids]
  OBVIOUS
<1>3. rec' = [rec EXCEPT ![r] = s]
  BY <1>0, <1>1, <1>2, RecorderStays DEF RecorderInv, RecorderTypes
<1>4. IsSlot(s) /\ SameRecording(rec[r], s)
  BY <1>2, RecorderStays DEF IsSlot, SameRecording
<1>5. PICK to : to = "encrypting"
  OBVIOUS
<1>6. to \in Calling /\ rec_at[r] \in Calling /\ RecGoto(r, to)
  BY <1>5, RecorderStays DEF EncryptAudio, Calling, RecGoto
<1> QED
  BY <1>3, <1>4, <1>6, OnlyTheSlot DEF EncryptAudio

LEMMA VideosKeep ==
    ASSUME RecorderInv, NEW r \in Recorders, KeyVideo(r) \/ EncryptVideo(r)
    PROVE  RecorderInv' /\ (SecmemInv => SecmemInv')
<1>1. PICK s : /\ rec' = [rec EXCEPT ![r] = s]
               /\ \/ \E c : s = [rec[r] EXCEPT !.v_chanid = c]
                  \/ \E c : s = [rec[r] EXCEPT !.rec_v_chanid = c]
                  \/ s = rec[r]
  <2> SUFFICES \E s : /\ rec' = [rec EXCEPT ![r] = s]
                      /\ \/ \E c : s = [rec[r] EXCEPT !.v_chanid = c]
                         \/ \E c : s = [rec[r] EXCEPT !.rec_v_chanid = c]
                         \/ s = rec[r]
    OBVIOUS
  <2>1. CASE rec' = rec
    BY <2>1, RecorderStays
  <2>2. CASE \E c : rec' = [rec EXCEPT ![r].v_chanid = c]
    BY <2>2
  <2>3. CASE \E c : rec' = [rec EXCEPT ![r].rec_v_chanid = c]
    BY <2>3
  <2> QED
    BY <2>1, <2>2, <2>3 DEF KeyVideo, EncryptVideo
<1>2. IsSlot(s) /\ SameRecording(rec[r], s)
  BY <1>1, RecorderStays DEF IsSlot, SameRecording
<1>3. PICK to : to = "out"
  OBVIOUS
<1>4. to \in Calling /\ rec_at[r] \in Calling /\ RecGoto(r, to)
  BY <1>3 DEF KeyVideo, EncryptVideo, Keying, Calling
<1> QED
  BY <1>1, <1>2, <1>4, OnlyTheSlot DEF KeyVideo, EncryptVideo

(* What is given back of the channels leaves the recording alone.          *)
LEMMA GivesBackDescramblers ==
    ASSUME NEW s, IsSlot(s), NEW dsc
    PROVE  IsSlot(GiveBackDescramblers(s, dsc).slot)
           /\ SameRecording(s, GiveBackDescramblers(s, dsc).slot)
BY DEF IsSlot, SameRecording, GiveBackDescramblers

LEMMA GivesBackEncryption ==
    ASSUME NEW s, IsSlot(s), NEW dsc
    PROVE  IsSlot(GiveBackEncryption(s, dsc).slot)
           /\ SameRecording(s, GiveBackEncryption(s, dsc).slot)
BY DEF IsSlot, SameRecording, GiveBackEncryption

LEMMA ReleaseKeeps ==
    ASSUME RecorderInv, NEW r \in Recorders, Release(r)
    PROVE  RecorderInv' /\ (SecmemInv => SecmemInv')
<1>1. PICK left : left = [rec[r] EXCEPT !.tuner = FALSE, !.rec_demux = FALSE]
  OBVIOUS
<1>2. PICK des : des = GiveBackDescramblers(left, channel)
  OBVIOUS
<1>3. PICK enc : enc = GiveBackEncryption(des.slot, des.dsc).slot
  OBVIOUS
<1>4. PICK s : s = [enc EXCEPT !.rec_aids = 0]
  OBVIOUS
<1>5. rec' = [rec EXCEPT ![r] = s]
  BY <1>1, <1>2, <1>3, <1>4 DEF Release
<1>6. IsSlot(left) /\ SameRecording(rec[r], left)
  BY <1>1, RecorderStays DEF IsSlot, SameRecording
<1>7. IsSlot(des.slot) /\ SameRecording(rec[r], des.slot)
  BY <1>2, <1>6, GivesBackDescramblers DEF SameRecording
<1>8. IsSlot(enc) /\ SameRecording(rec[r], enc)
  BY <1>3, <1>7, GivesBackEncryption DEF SameRecording
<1>9. IsSlot(s) /\ SameRecording(rec[r], s)
  BY <1>4, <1>8 DEF IsSlot, SameRecording
<1> QED
  BY <1>5, <1>9, OnlySlotOut DEF Release, Begins

LEMMA RecordStartKeeps ==
    ASSUME RecorderInv, NEW r \in Recorders, RecordStart(r)
    PROVE  RecorderInv' /\ (SecmemInv => SecmemInv')
<1>1. PICK secmem \in IF rec[r].is_smp /\ IsM2M THEN BOOLEAN ELSE {FALSE} :
         /\ rec' = [rec EXCEPT ![r].secmem = @ \/ secmem]
         /\ rec_secmems' = [rec_secmems EXCEPT ![r] = IF secmem THEN @ + 1 ELSE @]
  BY DEF RecordStart
<1>2. secmem \in BOOLEAN /\ (secmem => rec[r].is_smp)
  OBVIOUS
<1>3. PICK s, at, lib, ev, said, n :
         /\ s = [rec[r] EXCEPT !.secmem = rec[r].secmem \/ secmem]
         /\ at = "creating" /\ lib = rec_lib[r] /\ ev = rec_event[r] /\ said = rec_said[r]
         /\ n = IF secmem THEN rec_secmems[r] + 1 ELSE rec_secmems[r]
  OBVIOUS
<1>4. Becomes(r, s, at, lib, ev, said, n)
  BY <1>1, <1>3, RecorderStays DEF Becomes, RecorderInv, RecorderTypes, RecordStart, RecGoto
<1>5. IsSlot(s)
  BY <1>2, <1>3, RecorderStays DEF IsSlot
<1>6. RecAgrees(s, at, lib, ev, said) /\ at \in Places
  BY <1>3, RecorderStays DEF RecAgrees, Calling, IsSlot, Places, RecordStart, Begins
<1>7. ASSUME SecmemInv PROVE SecmemAgrees(s, at, n)
  <2>1. rec[r].secmem = FALSE /\ rec_secmems[r] = 0
    BY <1>7, RecorderStays DEF SecmemAgrees, RecAgrees, Calling, IsSlot, RecordStart, Begins
  <2>2. s.is_smp = rec[r].is_smp /\ s.secmem = secmem
    BY <1>2, <1>3, <2>1, RecorderStays DEF IsSlot
  <2> QED
    BY <1>2, <1>3, <2>1, <2>2 DEF SecmemAgrees
<1> QED
  BY <1>4, <1>5, <1>6, <1>7, RecorderGoes

LEMMA CreateKeeps ==
    ASSUME RecorderInv, NEW r \in Recorders, Create(r)
    PROVE  RecorderInv' /\ (SecmemInv /\ "create smp" \notin StartFails => SecmemInv')
<1>1. CASE /\ rec_lib' = [rec_lib EXCEPT ![r] = "created"]
           /\ rec' = [rec EXCEPT ![r].recorder = TRUE]
           /\ RecGoto(r, "starting")
  <2>1. PICK s, at, lib, ev, said, n :
           /\ s = [rec[r] EXCEPT !.recorder = TRUE]
           /\ at = "starting" /\ lib = "created"
           /\ ev = rec_event[r] /\ said = rec_said[r] /\ n = rec_secmems[r]
    OBVIOUS
  <2>2. Becomes(r, s, at, lib, ev, said, n)
    BY <1>1, <2>1, RecorderStays DEF Becomes, RecorderInv, RecorderTypes, Create, RecGoto
  <2>3. IsSlot(s)
    BY <2>1, RecorderStays DEF IsSlot
  <2>4. RecAgrees(s, at, lib, ev, said) /\ at \in Places
    BY <2>1, RecorderStays DEF RecAgrees, Calling, IsSlot, Places, Create
  <2>5. SecmemInv => SecmemAgrees(s, at, n)
    BY <2>1, RecorderStays DEF SecmemAgrees, IsSlot
  <2> QED
    BY <2>2, <2>3, <2>4, <2>5, RecorderGoes
<1>2. CASE /\ (IF rec[r].is_smp THEN "create smp" ELSE "create") \in StartFails
           /\ RecGoto(r, "out") /\ UNCHANGED <<rec, rec_lib>>
  <2>1. PICK s, at, lib, ev, said, n :
           /\ s = rec[r] /\ at = "out" /\ lib = rec_lib[r]
           /\ ev = rec_event[r] /\ said = rec_said[r] /\ n = rec_secmems[r]
    OBVIOUS
  <2>2. Becomes(r, s, at, lib, ev, said, n)
    BY <1>2, <2>1, RecorderStays DEF Becomes, RecorderInv, RecorderTypes, Create, RecGoto
  <2>3. RecAgrees(s, at, lib, ev, said) /\ at \in Places
    BY <2>1, RecorderStays DEF RecAgrees, Calling, IsSlot, Places, Create
  <2>4. SecmemInv /\ "create smp" \notin StartFails => SecmemAgrees(s, at, n)
    BY <1>2, <2>1, RecorderStays DEF SecmemAgrees, IsSlot
  <2> QED
    BY <2>1, <2>2, <2>3, <2>4, RecorderStays, RecorderGoes
<1> QED
  BY <1>1, <1>2 DEF Create

LEMMA StartLibKeeps ==
    ASSUME RecorderInv, NEW r \in Recorders, StartLib(r)
    PROVE  RecorderInv' /\ (SecmemInv => SecmemInv')
<1>1. CASE /\ rec_lib' = [rec_lib EXCEPT ![r] = "running"]
           /\ RecGoto(r, "started") /\ UNCHANGED <<rec, rec_secmems>>
  <2>1. PICK s, at, lib, ev, said, n :
           /\ s = rec[r] /\ at = "started" /\ lib = "running"
           /\ ev = rec_event[r] /\ said = rec_said[r] /\ n = rec_secmems[r]
    OBVIOUS
  <2>2. Becomes(r, s, at, lib, ev, said, n)
    BY <1>1, <2>1, RecorderStays DEF Becomes, RecorderInv, RecorderTypes, StartLib, RecGoto
  <2>3. RecAgrees(s, at, lib, ev, said) /\ at \in Places
    BY <2>1, RecorderStays DEF RecAgrees, Calling, IsSlot, Places, StartLib
  <2>4. SecmemInv => SecmemAgrees(s, at, n)
    BY <2>1, RecorderStays DEF SecmemAgrees, RecAgrees, Calling, IsSlot, StartLib
  <2> QED
    BY <2>1, <2>2, <2>3, <2>4, RecorderStays, RecorderGoes
<1>2. CASE /\ rec_secmems' = SecmemGone(r)
           /\ rec_lib' = [rec_lib EXCEPT ![r] = "none"]
           /\ rec' = [rec EXCEPT ![r].recorder = FALSE, ![r].secmem = @ /\ ~rec[r].is_smp]
           /\ RecGoto(r, "out")
  <2>1. PICK s, at, lib, ev, said, n :
           /\ s = [rec[r] EXCEPT !.recorder = FALSE, !.secmem = rec[r].secmem /\ ~rec[r].is_smp]
           /\ at = "out" /\ lib = "none" /\ ev = rec_event[r] /\ said = rec_said[r]
           /\ n = IF rec[r].is_smp /\ rec[r].secmem THEN rec_secmems[r] - 1 ELSE rec_secmems[r]
    OBVIOUS
  <2>2. Becomes(r, s, at, lib, ev, said, n)
    BY <1>2, <2>1, RecorderStays
       DEF Becomes, RecorderInv, RecorderTypes, StartLib, RecGoto, SecmemGone
  <2>3. IsSlot(s)
    BY <2>1, RecorderStays DEF IsSlot
  <2>4. RecAgrees(s, at, lib, ev, said) /\ at \in Places
    BY <2>1, RecorderStays DEF RecAgrees, Calling, IsSlot, Places, StartLib
  <2>5. ASSUME SecmemInv PROVE SecmemAgrees(s, at, n)
    <3>1. rec[r].secmem => rec[r].is_smp /\ rec_secmems[r] = 1
      BY <2>5, RecorderStays DEF SecmemAgrees
    <3>2. ~rec[r].secmem => rec_secmems[r] = 0
      BY <2>5, RecorderStays DEF SecmemAgrees
    <3>3. s.secmem = FALSE
      BY <2>1, <3>1, RecorderStays DEF IsSlot
    <3>4. n = 0
      BY <2>1, <3>1, <3>2
    <3> QED
      BY <3>3, <3>4 DEF SecmemAgrees
  <2> QED
    BY <2>2, <2>3, <2>4, <2>5, RecorderGoes
<1> QED
  BY <1>1, <1>2 DEF StartLib

LEMMA SetStartingKeeps ==
    ASSUME RecorderInv, NEW r \in Recorders, SetStarting(r)
    PROVE  RecorderInv' /\ (SecmemInv => SecmemInv')
<1>1. PICK s, at, lib, ev, said, n :
         /\ s = [rec[r] EXCEPT !.rec_state = "STARTING"]
         /\ at = "flagging" /\ lib = rec_lib[r]
         /\ ev = rec_event[r] /\ said = rec_said[r]
         /\ n = rec_secmems[r]
  OBVIOUS
<1>2. Becomes(r, s, at, lib, ev, said, n)
  BY <1>1, RecorderStays DEF Becomes, RecorderInv, RecorderTypes, SetStarting, RecGoto
<1>3. IsSlot(s)
  BY <1>1, RecorderStays DEF IsSlot
<1>4. RecAgrees(s, at, lib, ev, said) /\ at \in Places
  BY <1>1, RecorderStays DEF RecAgrees, Calling, IsSlot, Places, SetStarting, RecGoto
<1>5. SecmemInv => SecmemAgrees(s, at, n)
  BY <1>1, RecorderStays DEF SecmemAgrees, RecAgrees, Calling, IsSlot, SetStarting, RecGoto
<1> QED
  BY <1>2, <1>3, <1>4, <1>5, RecorderGoes

LEMMA ClearStartFlagKeeps ==
    ASSUME RecorderInv, NEW r \in Recorders, ClearStartFlag(r)
    PROVE  RecorderInv' /\ (SecmemInv => SecmemInv')
<1>1. PICK s, at, lib, ev, said, n :
         /\ s = [rec[r] EXCEPT !.rec_start_flag = FALSE]
         /\ at = "out" /\ lib = rec_lib[r]
         /\ ev = rec_event[r] /\ said = rec_said[r]
         /\ n = rec_secmems[r]
  OBVIOUS
<1>2. Becomes(r, s, at, lib, ev, said, n)
  BY <1>1, RecorderStays DEF Becomes, RecorderInv, RecorderTypes, ClearStartFlag, RecGoto
<1>3. IsSlot(s)
  BY <1>1, RecorderStays DEF IsSlot
<1>4. RecAgrees(s, at, lib, ev, said) /\ at \in Places
  BY <1>1, RecorderStays DEF RecAgrees, Calling, IsSlot, Places, ClearStartFlag, RecGoto
<1>5. SecmemInv => SecmemAgrees(s, at, n)
  BY <1>1, RecorderStays DEF SecmemAgrees, RecAgrees, Calling, IsSlot, ClearStartFlag, RecGoto
<1> QED
  BY <1>2, <1>3, <1>4, <1>5, RecorderGoes

(* Pause and resume are alike.                                             *)
LEMMA PauseKeeps ==
    ASSUME RecorderInv, NEW r \in Recorders, RecordPause(r) \/ RecordResume(r)
    PROVE  RecorderInv' /\ (SecmemInv => SecmemInv')
<1>1. PICK to, lib :
         /\ rec' = [rec EXCEPT ![r].rec_state = to] /\ lib \in {rec_lib[r], "paused", "running"}
         /\ rec_lib' = [rec_lib EXCEPT ![r] = lib]
  BY RecorderStays DEF RecordPause, RecordResume
<1>2. PICK s, at, ev, said, n :
         /\ s = [rec[r] EXCEPT !.rec_state = to]
         /\ at = rec_at[r] /\ ev = rec_event[r] /\ said = rec_said[r] /\ n = rec_secmems[r]
  OBVIOUS
<1>3. Becomes(r, s, at, lib, ev, said, n)
  BY <1>1, <1>2, RecorderStays
     DEF Becomes, RecorderInv, RecorderTypes, RecordPause, RecordResume
<1>4. IsSlot(s)
  BY <1>2, RecorderStays DEF IsSlot
<1>5. RecAgrees(s, at, lib, ev, said) /\ at \in Places
  BY <1>1, <1>2, RecorderStays DEF RecAgrees, Calling, IsSlot, RecordPause, RecordResume, Begins
<1>6. SecmemInv => SecmemAgrees(s, at, n)
  BY <1>2, RecorderStays DEF SecmemAgrees, IsSlot
<1> QED
  BY <1>3, <1>4, <1>5, <1>6, RecorderGoes

LEMMA RecordStopKeeps ==
    ASSUME RecorderInv, NEW r \in Recorders, RecordStop(r)
    PROVE  RecorderInv' /\ (SecmemInv => SecmemInv')
<1>1. PICK s, at, lib, ev, said, n :
         /\ s = [rec[r] EXCEPT !.rec_state = "STOPPED",
                                     !.secmem = rec[r].secmem /\ ~rec[r].is_smp]
         /\ at = "giving back" /\ lib = "stopped"
         /\ ev = rec_event[r] /\ said = rec_said[r]
         /\ n = IF rec[r].is_smp /\ rec[r].secmem THEN rec_secmems[r] - 1 ELSE rec_secmems[r]
  OBVIOUS
<1>2. Becomes(r, s, at, lib, ev, said, n)
  BY <1>1, RecorderStays
     DEF Becomes, RecorderInv, RecorderTypes, RecordStop, RecGoto, SecmemGone, Begins
<1>3. IsSlot(s)
  BY <1>1, RecorderStays DEF IsSlot
<1>4. RecAgrees(s, at, lib, ev, said) /\ at \in Places
  BY <1>1, RecorderStays DEF RecAgrees, Calling, IsSlot, Places, RecordStop, RecGoto, SecmemGone, Begins
<1>5. ASSUME SecmemInv PROVE SecmemAgrees(s, at, n)
  <2>1. rec[r].secmem => rec[r].is_smp /\ rec_secmems[r] = 1
    BY <1>5, RecorderStays DEF SecmemAgrees
  <2>2. ~rec[r].secmem => rec_secmems[r] = 0
    BY <1>5, RecorderStays DEF SecmemAgrees
  <2>3. s.secmem = FALSE
    BY <1>1, <2>1, RecorderStays DEF IsSlot
  <2>4. CASE rec[r].secmem
    <3>1. n = rec_secmems[r] - 1
      BY <1>1, <2>1, <2>4
    <3>2. n = 0
      BY <2>1, <2>4, <3>1
    <3> QED
      BY <2>3, <3>2 DEF SecmemAgrees
  <2>5. CASE ~rec[r].secmem
    BY <1>1, <2>2, <2>3, <2>5 DEF SecmemAgrees
  <2> QED
    BY <2>4, <2>5
<1> QED
  BY <1>2, <1>3, <1>4, <1>5, RecorderGoes

LEMMA GiveBackKeeps ==
    ASSUME RecorderInv, NEW r \in Recorders, GiveBack(r)
    PROVE  RecorderInv' /\ (SecmemInv => SecmemInv')
<1>1. PICK des : des = GiveBackDescramblers(rec[r], channel)
  OBVIOUS
<1>2. PICK s, at, lib, ev, said, n :
         /\ s = GiveBackEncryption(des.slot, des.dsc).slot
         /\ at = "destroying" /\ lib = rec_lib[r]
         /\ ev = rec_event[r] /\ said = rec_said[r] /\ n = rec_secmems[r]
  OBVIOUS
<1>3. rec' = [rec EXCEPT ![r] = s]
  BY <1>1, <1>2 DEF GiveBack
<1>4. Becomes(r, s, at, lib, ev, said, n)
  BY <1>2, <1>3, RecorderStays DEF Becomes, RecorderInv, RecorderTypes, GiveBack, RecGoto
<1>5. IsSlot(des.slot) /\ SameRecording(rec[r], des.slot)
  BY <1>1, RecorderStays, GivesBackDescramblers
<1>6. IsSlot(s) /\ SameRecording(rec[r], s)
  BY <1>2, <1>5, GivesBackEncryption DEF SameRecording
<1>7. RecAgrees(s, at, lib, ev, said) /\ at \in Places
  BY <1>2, <1>6, RecorderStays DEF RecAgrees, Calling, SameRecording, Places, GiveBack
<1>8. SecmemInv => SecmemAgrees(s, at, n)
  BY <1>2, <1>6, RecorderStays DEF SecmemAgrees, SameRecording, RecAgrees, Calling, GiveBack
<1> QED
  BY <1>4, <1>6, <1>7, <1>8, RecorderGoes

LEMMA DestroyKeeps ==
    ASSUME RecorderInv, NEW r \in Recorders, Destroy(r)
    PROVE  RecorderInv' /\ (SecmemInv => SecmemInv')
<1>1. PICK s, at, lib, ev, said, n :
         /\ s = [rec[r] EXCEPT !.recorder = FALSE]
         /\ at = "reporting" /\ lib = "none"
         /\ ev = rec_event[r] /\ said = rec_said[r]
         /\ n = rec_secmems[r]
  OBVIOUS
<1>2. Becomes(r, s, at, lib, ev, said, n)
  BY <1>1, RecorderStays DEF Becomes, RecorderInv, RecorderTypes, Destroy, RecGoto
<1>3. IsSlot(s)
  BY <1>1, RecorderStays DEF IsSlot
<1>4. RecAgrees(s, at, lib, ev, said) /\ at \in Places
  BY <1>1, RecorderStays DEF RecAgrees, Calling, IsSlot, Places, Destroy, RecGoto
<1>5. SecmemInv => SecmemAgrees(s, at, n)
  BY <1>1, RecorderStays DEF SecmemAgrees, RecAgrees, Calling, IsSlot, Destroy, RecGoto
<1> QED
  BY <1>2, <1>3, <1>4, <1>5, RecorderGoes

LEMMA ReportStopKeeps ==
    ASSUME RecorderInv, NEW r \in Recorders, ReportStop(r)
    PROVE  RecorderInv' /\ (SecmemInv => SecmemInv')
<1>1. PICK s, at, lib, ev, said, n :
         /\ s = [rec[r] EXCEPT !.rec_state = "STOPPED", !.is_smp = FALSE]
         /\ at = "out" /\ lib = rec_lib[r]
         /\ ev = rec_event[r] /\ said = "STOP"
         /\ n = rec_secmems[r]
  OBVIOUS
<1>2. Becomes(r, s, at, lib, ev, said, n)
  BY <1>1, RecorderStays DEF Becomes, RecorderInv, RecorderTypes, ReportStop, RecGoto
<1>3. IsSlot(s)
  BY <1>1, RecorderStays DEF IsSlot
<1>4. RecAgrees(s, at, lib, ev, said) /\ at \in Places
  BY <1>1, RecorderStays DEF RecAgrees, Calling, IsSlot, Places, ReportStop, RecGoto
<1>5. SecmemInv => SecmemAgrees(s, at, n)
  BY <1>1, RecorderStays DEF SecmemAgrees, RecAgrees, Calling, IsSlot, ReportStop, RecGoto
<1> QED
  BY <1>2, <1>3, <1>4, <1>5, RecorderGoes

LEMMA ReadStatusKeeps ==
    ASSUME RecorderInv, NEW r \in Recorders, ReadStatus(r)
    PROVE  RecorderInv' /\ (SecmemInv => SecmemInv')
<1>1. PICK s, at, lib, ev, said, n :
         /\ s = rec[r] /\ at = rec_at[r] /\ lib = rec_lib[r] /\ said = rec_said[r]
         /\ ev = IF \/ rec[r].rec_state = "STARTING"
                    \/ ~rec[r].rec_start_flag /\ rec[r].rec_state = "STARTED"
                 THEN "start" ELSE "store"
         /\ n = rec_secmems[r]
  OBVIOUS
<1>2. Becomes(r, s, at, lib, ev, said, n)
  BY <1>1, RecorderStays DEF Becomes, ReadStatus
<1>3. RecAgrees(s, at, lib, ev, said)
  BY <1>1, RecorderStays DEF RecAgrees, Calling, ReadStatus, Events
<1> QED
  BY <1>1, <1>2, <1>3, RecorderStays, RecorderGoes

LEMMA TakeStatusKeeps ==
    ASSUME RecorderInv, NEW r \in Recorders, TakeStatus(r)
    PROVE  RecorderInv' /\ (SecmemInv => SecmemInv')
<1>1. CASE rec_event[r] = "start"
  <2>1. PICK s, at, lib, ev, said, n :
           /\ s = [rec[r] EXCEPT !.rec_state = "STARTED", !.rec_start_flag = TRUE]
           /\ at = rec_at[r] /\ lib = rec_lib[r]
           /\ ev = "none" /\ said = "START" /\ n = rec_secmems[r]
    OBVIOUS
  <2>2. Becomes(r, s, at, lib, ev, said, n)
    BY <1>1, <2>1, RecorderStays DEF Becomes, RecorderInv, RecorderTypes, TakeStatus
  <2>3. IsSlot(s)
    BY <2>1, RecorderStays DEF IsSlot
  <2>4. RecAgrees(s, at, lib, ev, said) /\ at \in Places
    BY <1>1, <2>1, RecorderStays DEF RecAgrees, Calling, IsSlot
  <2>5. SecmemInv => SecmemAgrees(s, at, n)
    BY <2>1, RecorderStays DEF SecmemAgrees, IsSlot
  <2> QED
    BY <2>2, <2>3, <2>4, <2>5, RecorderGoes
<1>2. CASE rec_event[r] # "start"
  <2>1. PICK s, at, lib, ev, said, n :
           /\ s = rec[r] /\ at = rec_at[r] /\ lib = rec_lib[r]
           /\ ev = "none" /\ said = "STORE" /\ n = rec_secmems[r]
    OBVIOUS
  <2>2. Becomes(r, s, at, lib, ev, said, n)
    BY <1>2, <2>1, RecorderStays DEF Becomes, TakeStatus
  <2>3. RecAgrees(s, at, lib, ev, said)
    BY <1>2, <2>1, RecorderStays DEF RecAgrees, Calling, TakeStatus
  <2> QED
    BY <2>1, <2>2, <2>3, RecorderStays, RecorderGoes
<1> QED
  BY <1>1, <1>2

LEMMA WriteErrorKeeps ==
    ASSUME RecorderInv, NEW r \in Recorders, WriteError(r)
    PROVE  RecorderInv' /\ (SecmemInv => SecmemInv')
<1>1. PICK s, at, lib, ev, said, n :
         /\ s = rec[r] /\ at = rec_at[r] /\ lib = rec_lib[r] /\ ev = rec_event[r]
         /\ said = "STOP" /\ n = rec_secmems[r]
  OBVIOUS
<1>2. Becomes(r, s, at, lib, ev, said, n)
  BY <1>1, RecorderStays DEF Becomes, WriteError
<1>3. RecAgrees(s, at, lib, ev, said)
  BY <1>1, RecorderStays DEF RecAgrees, Calling
<1> QED
  BY <1>1, <1>2, <1>3, RecorderStays, RecorderGoes

LEMMA RecorderNext ==
    RecorderInv /\ [RecNext]_recVars
        => RecorderInv' /\ (SecmemInv /\ "create smp" \notin StartFails => SecmemInv')
<1> SUFFICES ASSUME RecorderInv, [RecNext]_recVars
             PROVE  RecorderInv' /\ (SecmemInv /\ "create smp" \notin StartFails => SecmemInv')
  OBVIOUS
<1>1. CASE UNCHANGED <<rec, rec_at, rec_lib, rec_event, rec_said, rec_secmems>>
  BY <1>1 DEF RecorderInv, RecorderTypes, SecmemInv
<1>2. ASSUME NEW r \in Recorders, RecCaller(r)
      PROVE  RecorderInv' /\ (SecmemInv /\ "create smp" \notin StartFails => SecmemInv')
  BY <1>2, AcquireKeeps, PrepareKeeps, KeyCallsKeep, KeyAudioKeeps, EncryptAudioKeeps,
     VideosKeep, ReleaseKeeps, RecordStartKeeps, CreateKeeps, StartLibKeeps,
     SetStartingKeeps, ClearStartFlagKeeps, PauseKeeps, RecordStopKeeps, GiveBackKeeps, DestroyKeeps, ReportStopKeeps DEF RecCaller
<1>3. ASSUME NEW r \in Recorders, ReadStatus(r) \/ TakeStatus(r) \/ WriteError(r)
      PROVE  RecorderInv' /\ (SecmemInv => SecmemInv')
  BY <1>3, ReadStatusKeeps, TakeStatusKeeps, WriteErrorKeeps
<1>4. ASSUME LiveTakes \/ LiveFrees
      PROVE  UNCHANGED <<rec, rec_at, rec_lib, rec_event, rec_said, rec_secmems>>
  BY <1>4 DEF LiveTakes, LiveFrees
<1> QED
  BY <1>1, <1>2, <1>3, <1>4 DEF RecNext, recVars

(***************************************************************************)
(* RestIsStopped holds for any number of recorders, whatever the library   *)
(* may fail to do and whenever its thread reports: the state of an         *)
(* S_REC_STATUS is STOPPED, and nothing but the stop was reported last,    *)
(* when no recorder is there any more.                                     *)
(***************************************************************************)
THEOREM RestIsStoppedTheorem == RecSpec => []RestIsStopped
<1>1. RecorderInv => RestIsStopped
  <2> SUFFICES ASSUME RecorderInv, NEW r \in Recorders, rec_at[r] = "out", ~rec[r].recorder
               PROVE  rec[r].rec_state = "STOPPED" /\ rec_lib[r] = "none"
                      /\ rec_said[r] \in {"none", "STOP"}
    BY DEF RestIsStopped
  <2> QED
    BY RecorderStays DEF RecAgrees, Calling
<1> QED
  BY <1>1, RecorderInit, RecorderNext, PTL DEF RecSpec

(***************************************************************************)
(* No secure buffer of a recording is lost and none is freed twice, when   *)
(* the library can make the recorder of a protected recording.             *)
(***************************************************************************)
THEOREM SecmemsTheorem ==
    ASSUME "create smp" \notin StartFails
    PROVE  RecSpec => []SecmemsOwned
<1>1. RecorderInv /\ SecmemInv => SecmemsOwned
  BY DEF SecmemInv, SecmemAgrees, SecmemsOwned
<1>2. RecorderInv /\ SecmemInv /\ [RecNext]_recVars => (RecorderInv /\ SecmemInv)'
  BY RecorderNext
<1> QED
  BY <1>1, <1>2, RecorderInit, PTL DEF RecSpec

------------------------------------------------------------------------------
(* The channels that recorders hold.                                       *)

(* The entries that hold a channel, of all slots; the count of a channel   *)
(* is that of its entries, and one more when the live service holds it.    *)
HoldersIn(f, c) ==
    {h \in Recorders \X ChannelUses \X EntryNos : ChanOf(f[h[1]], h[2], h[3]) = c}

Balanced(f, dsc, l) ==
    /\ dsc = [c \in Chans |-> [pid |-> dsc[c].pid, use |-> dsc[c].use, ref |-> dsc[c].ref]]
    /\ \A c \in Chans : /\ dsc[c].ref \in Nat
                        /\ dsc[c].ref = Cardinality(HoldersIn(f, c)) + (IF l = c THEN 1 ELSE 0)

LEMMA LeastIn ==
    ASSUME NEW S, S \subseteq Chans, S # {}
    PROVE  (CHOOSE c \in S : \A d \in S : c <= d) \in S
<1>1. \E c \in S : \A d \in S : c <= d
  BY Least, RecorderAssumption
<1> QED
  BY <1>1

LEMMA ChannelForIs ==
    ASSUME NEW dsc, NEW pid, NEW use
    PROVE  ChannelFor(dsc, pid, use) \in Chans \cup {NoChan}
<1> DEFINE Same == {c \in Chans : dsc[c].ref > 0 /\ dsc[c].pid = pid /\ dsc[c].use = use}
           Free == {c \in Chans : dsc[c].ref = 0}
<1>1. Same \subseteq Chans /\ Free \subseteq Chans
  OBVIOUS
<1>2. Same # {} => (CHOOSE c \in Same : \A d \in Same : c <= d) \in Chans
  <2> HIDE DEF Same
  <2> QED
    BY <1>1, LeastIn
<1>3. Free # {} => (CHOOSE c \in Free : \A d \in Free : c <= d) \in Chans
  <2> HIDE DEF Free
  <2> QED
    BY <1>1, LeastIn
<1> QED
  BY <1>2, <1>3 DEF ChannelFor

LEMMA NoSuchChan == NoChan \notin Chans
BY RecorderAssumption DEF NoChan

LEMMA HoldersFinite ==
    ASSUME NEW f, NEW c
    PROVE  IsFiniteSet(HoldersIn(f, c)) /\ Cardinality(HoldersIn(f, c)) \in Nat
<1>1. IsFiniteSet(EntryNos)
  BY RecorderAssumption, FS_Interval DEF EntryNos
<1>2. IsFiniteSet(ChannelUses)
  <2>1. ChannelUses = ({} \cup {"descramble"}) \cup {"encrypt"}
    BY DEF ChannelUses
  <2>2. IsFiniteSet({} \cup {"descramble"})
    BY FS_EmptySet, FS_AddElement
  <2> QED
    BY <2>1, <2>2, FS_AddElement
<1>3. PICK S : S = {h \in Recorders \X ChannelUses \X EntryNos : TRUE}
  OBVIOUS
<1>4. IsFiniteSet(S)
  <2>1. IsFiniteSet(ChannelUses \X EntryNos) /\ IsFiniteSet(Recorders \X ChannelUses)
    BY <1>1, <1>2, RecorderAssumption, FS_Product
  <2>2. IsFiniteSet((Recorders \X ChannelUses) \X EntryNos)
    BY <1>1, <2>1, FS_Product
  <2>3. PICK g : g = [h \in S |-> <<<<h[1], h[2]>>, h[3]>>]
    OBVIOUS
  <2>4. g \in Injection(S, (Recorders \X ChannelUses) \X EntryNos)
    <3>1. g \in [S -> (Recorders \X ChannelUses) \X EntryNos]
      BY <1>3, <2>3
    <3>2. ASSUME NEW a \in S, NEW b \in S, g[a] = g[b] PROVE a = b
      BY <1>3, <2>3, <3>2
    <3> QED
      BY <3>1, <3>2 DEF Injection, IsInjective
  <2> QED
    BY <2>2, <2>4, FS_Injection
<1>5. HoldersIn(f, c) \in SUBSET S
  BY <1>3 DEF HoldersIn
<1> QED
  BY <1>4, <1>5, FS_Subset, FS_CardinalityType

(* The entries of one slot and use are as many as the holders they are.    *)
LEMMA HeldIsHolders ==
    ASSUME NEW f, NEW r \in Recorders, NEW use \in ChannelUses, NEW c
    PROVE  LET H == {h \in HoldersIn(f, c) : h[1] = r /\ h[2] = use}
           IN  IsFiniteSet(H) /\ HeldBy(f[r], use, c) = Cardinality(H)
<1> DEFINE H == {h \in HoldersIn(f, c) : h[1] = r /\ h[2] = use}
           I == {i \in EntryNos : ChanOf(f[r], use, i) = c}
<1>1. IsFiniteSet(H)
  <2>1. H \in SUBSET HoldersIn(f, c)
    OBVIOUS
  <2> QED
    BY <2>1, HoldersFinite, FS_Subset
<1>2. PICK g : g = [i \in I |-> <<r, use, i>>]
  OBVIOUS
<1>3. \A i \in I : <<r, use, i>> \in H
  BY DEF HoldersIn
<1>4. \A h \in H : h[3] \in I /\ h = <<r, use, h[3]>>
  BY DEF HoldersIn
<1>5. g \in Bijection(I, H)
  <2>1. g \in [I -> H]
    BY <1>2, <1>3
  <2>2. \A i, j \in I : g[i] = g[j] => i = j
    BY <1>2
  <2>3. \A h \in H : \E i \in I : g[i] = h
    BY <1>2, <1>4
  <2> HIDE DEF I, H
  <2> QED
    BY <2>1, <2>2, <2>3 DEF Bijection, Injection, IsInjective, Surjection
<1>6. IsFiniteSet(I)
  <2>1. I \in SUBSET EntryNos /\ IsFiniteSet(EntryNos)
    BY RecorderAssumption, FS_Interval DEF EntryNos
  <2> QED
    BY <2>1, FS_Subset
<1>7. Cardinality(H) = Cardinality(I)
  <2> HIDE DEF I, H
  <2>1. ExistsBijection(I, H)
    BY <1>5 DEF ExistsBijection
  <2> QED
    BY <1>6, <2>1, FS_Bijection
<1> QED
  BY <1>1, <1>7 DEF HeldBy

(* A slot whose entries are the same holds the same.                       *)
SameEntriesOf(s, t) ==
    \A use \in ChannelUses, i \in EntryNos : ChanOf(s, use, i) = ChanOf(t, use, i)

LEMMA BalancedSame ==
    ASSUME NEW f, f = [r \in Recorders |-> f[r]], NEW dsc, NEW l, Balanced(f, dsc, l),
           NEW r \in Recorders, NEW t, SameEntriesOf(f[r], t)
    PROVE  Balanced([f EXCEPT ![r] = t], dsc, l)
<1>1. PICK g : g = [f EXCEPT ![r] = t]
  OBVIOUS
<1>2. \A q \in Recorders : SameEntriesOf(f[q], g[q])
  BY <1>1 DEF SameEntriesOf
<1>3. \A c : HoldersIn(g, c) = HoldersIn(f, c)
  BY <1>2 DEF HoldersIn, SameEntriesOf
<1>4. Balanced(g, dsc, l)
  BY <1>3 DEF Balanced
<1> QED
  BY <1>1, <1>4

(* A channel that was taken is held by the one entry that it is put in.    *)
LEMMA BalancedTakes ==
    ASSUME NEW f, f = [r \in Recorders |-> f[r]], NEW dsc, NEW l, Balanced(f, dsc, l),
           NEW r \in Recorders, NEW t, NEW use \in ChannelUses, NEW e \in EntryNos,
           \A u \in ChannelUses, i \in EntryNos :
              ~(u = use /\ i = e) => ChanOf(t, u, i) = ChanOf(f[r], u, i),
           ChanOf(f[r], use, e) = NoChan,
           NEW k \in Chans \cup {NoChan}, ChanOf(t, use, e) = k, NEW pid
    PROVE  Balanced([f EXCEPT ![r] = t], Taken(dsc, k, pid, use), l)
<1>1. PICK g : g = [f EXCEPT ![r] = t]
  OBVIOUS
<1>2. PICK got : got = Taken(dsc, k, pid, use)
  OBVIOUS
<1>3. g[r] = t /\ \A q \in Recorders : q # r => g[q] = f[q]
  BY <1>1
<1>4. ASSUME NEW c \in Chans, c # k
      PROVE  HoldersIn(g, c) = HoldersIn(f, c)
  <2>1. ASSUME NEW h \in Recorders \X ChannelUses \X EntryNos
        PROVE  ChanOf(g[h[1]], h[2], h[3]) = c <=> ChanOf(f[h[1]], h[2], h[3]) = c
    <3>1. h[1] \in Recorders /\ h[2] \in ChannelUses /\ h[3] \in EntryNos
      OBVIOUS
    <3>2. CASE h[1] = r /\ h[2] = use /\ h[3] = e
      BY <1>3, <1>4, <3>2, NoSuchChan
    <3>3. CASE h[1] = r /\ ~(h[2] = use /\ h[3] = e)
      BY <1>3, <3>1, <3>3
    <3>4. CASE h[1] # r
      BY <1>3, <3>1, <3>4
    <3> QED
      BY <3>2, <3>3, <3>4
  <2> QED
    BY <2>1 DEF HoldersIn
<1>5. ASSUME k \in Chans
      PROVE  /\ HoldersIn(g, k) = HoldersIn(f, k) \cup {<<r, use, e>>}
             /\ <<r, use, e>> \notin HoldersIn(f, k)
  <2>1. ASSUME NEW h \in Recorders \X ChannelUses \X EntryNos
        PROVE  ChanOf(g[h[1]], h[2], h[3]) = k
                  <=> ChanOf(f[h[1]], h[2], h[3]) = k \/ h = <<r, use, e>>
    <3>1. h = <<h[1], h[2], h[3]>>
          /\ h[1] \in Recorders /\ h[2] \in ChannelUses /\ h[3] \in EntryNos
      OBVIOUS
    <3>2. CASE h[1] = r /\ h[2] = use /\ h[3] = e
      BY <1>3, <3>1, <3>2
    <3>3. CASE h[1] = r /\ ~(h[2] = use /\ h[3] = e)
      BY <1>3, <3>1, <3>3
    <3>4. CASE h[1] # r
      BY <1>3, <3>1, <3>4
    <3> QED
      BY <3>2, <3>3, <3>4
  <2>2. <<r, use, e>> \in Recorders \X ChannelUses \X EntryNos
    OBVIOUS
  <2>3. <<r, use, e>> \notin HoldersIn(f, k)
    BY <1>5, NoSuchChan DEF HoldersIn
  <2> QED
    BY <2>1, <2>2, <2>3 DEF HoldersIn
<1>6. CASE k = NoChan
  <2>1. got = dsc
    BY <1>2, <1>6 DEF Taken
  <2>2. \A c \in Chans : HoldersIn(g, c) = HoldersIn(f, c)
    BY <1>4, <1>6, NoSuchChan
  <2>3. Balanced(g, got, l)
    BY <2>1, <2>2 DEF Balanced
  <2> QED
    BY <1>1, <1>2, <2>3
<1>7. CASE k \in Chans
  <2>1. got = [dsc EXCEPT ![k] = [pid |-> pid, use |-> use, ref |-> dsc[k].ref + 1]]
    BY <1>2, <1>7, NoSuchChan DEF Taken
  <2>2. /\ dsc = [c \in Chans |-> [pid |-> dsc[c].pid, use |-> dsc[c].use, ref |-> dsc[c].ref]]
        /\ dsc[k].ref \in Nat
    BY <1>7 DEF Balanced
  <2>3. got[k].ref = dsc[k].ref + 1 /\ \A c \in Chans : c # k => got[c] = dsc[c]
    BY <1>7, <2>1, <2>2
  <2>4. got = [c \in Chans |-> [pid |-> got[c].pid, use |-> got[c].use, ref |-> got[c].ref]]
    BY <1>7, <2>1, <2>2
  <2>5. Cardinality(HoldersIn(g, k)) = Cardinality(HoldersIn(f, k)) + 1
    BY <1>5, <1>7, HoldersFinite, FS_AddElement
  <2>6. ASSUME NEW c \in Chans
        PROVE  /\ got[c].ref \in Nat
               /\ got[c].ref = Cardinality(HoldersIn(g, c)) + (IF l = c THEN 1 ELSE 0)
    <3>1. dsc[c].ref \in Nat /\ dsc[c].ref = Cardinality(HoldersIn(f, c)) + (IF l = c THEN 1 ELSE 0)
      BY DEF Balanced
    <3>2. CASE c = k
      BY <2>3, <2>5, <3>1, <3>2, HoldersFinite
    <3>3. CASE c # k
      BY <1>4, <2>3, <3>1, <3>3
    <3> QED
      BY <3>2, <3>3
  <2>7. Balanced(g, got, l)
    BY <2>4, <2>6 DEF Balanced
  <2> QED
    BY <1>1, <1>2, <2>7
<1> QED
  BY <1>6, <1>7

(* Each entry of one use that goes gives back the count it had.            *)
LEMMA BalancedGivesBack ==
    ASSUME NEW f, f = [r \in Recorders |-> f[r]], NEW dsc, NEW l, Balanced(f, dsc, l),
           NEW r \in Recorders, NEW t, NEW use \in ChannelUses,
           \A u \in ChannelUses, i \in EntryNos :
              ChanOf(t, u, i) = IF u = use THEN NoChan ELSE ChanOf(f[r], u, i)
    PROVE  Balanced([f EXCEPT ![r] = t], Freed(dsc, f[r], use), l)
<1>1. PICK g : g = [f EXCEPT ![r] = t]
  OBVIOUS
<1>2. PICK left : left = Freed(dsc, f[r], use)
  OBVIOUS
<1>3. g[r] = t /\ \A q \in Recorders : q # r => g[q] = f[q]
  BY <1>1
<1>4. ASSUME NEW c \in Chans
      PROVE  /\ left[c] = [pid |-> dsc[c].pid, use |-> dsc[c].use, ref |-> left[c].ref]
             /\ left[c].ref \in Nat
             /\ left[c].ref = Cardinality(HoldersIn(g, c)) + (IF l = c THEN 1 ELSE 0)
  <2>1. PICK H : H = {h \in HoldersIn(f, c) : h[1] = r /\ h[2] = use}
    OBVIOUS
  <2>2. IsFiniteSet(H) /\ HeldBy(f[r], use, c) = Cardinality(H)
    BY <2>1, HeldIsHolders
  <2>3. HoldersIn(g, c) = HoldersIn(f, c) \ H
    <3>1. ASSUME NEW h \in Recorders \X ChannelUses \X EntryNos
          PROVE  ChanOf(g[h[1]], h[2], h[3]) = c
                    <=> ChanOf(f[h[1]], h[2], h[3]) = c /\ ~(h[1] = r /\ h[2] = use)
      <4>1. h[1] \in Recorders /\ h[2] \in ChannelUses /\ h[3] \in EntryNos
        OBVIOUS
      <4>2. CASE h[1] = r /\ h[2] = use
        BY <1>3, <4>1, <4>2, NoSuchChan
      <4>3. CASE h[1] = r /\ h[2] # use
        BY <1>3, <4>1, <4>3
      <4>4. CASE h[1] # r
        BY <1>3, <4>1, <4>4
      <4> QED
        BY <4>2, <4>3, <4>4
    <3> QED
      BY <2>1, <3>1 DEF HoldersIn
  <2>4. HoldersIn(f, c) \cap H = H
    BY <2>1
  <2>5. Cardinality(HoldersIn(g, c)) = Cardinality(HoldersIn(f, c)) - Cardinality(H)
    BY <2>3, <2>4, HoldersFinite, FS_Difference
  <2>6. /\ dsc[c] = [pid |-> dsc[c].pid, use |-> dsc[c].use, ref |-> dsc[c].ref]
        /\ dsc[c].ref \in Nat
        /\ dsc[c].ref = Cardinality(HoldersIn(f, c)) + (IF l = c THEN 1 ELSE 0)
    BY DEF Balanced
  <2>7. PICK n \in Nat : n = HeldBy(f[r], use, c)
    BY <2>2, FS_CardinalityType
  <2>8. left[c] = [dsc[c] EXCEPT !.ref = IF dsc[c].ref > n THEN dsc[c].ref - n ELSE 0]
    BY <1>2, <2>7 DEF Freed
  <2>9. /\ left[c] = [pid |-> dsc[c].pid, use |-> dsc[c].use, ref |-> left[c].ref]
        /\ left[c].ref = IF dsc[c].ref > n THEN dsc[c].ref - n ELSE 0
    BY <2>6, <2>8
  <2>10. Cardinality(HoldersIn(g, c)) \in Nat /\ Cardinality(HoldersIn(f, c)) \in Nat
    BY HoldersFinite
  <2> QED
    BY <2>2, <2>5, <2>6, <2>7, <2>9, <2>10
<1>5. left = [c \in Chans |-> left[c]]
  BY <1>2 DEF Freed
<1>6. left = [c \in Chans |-> [pid |-> left[c].pid, use |-> left[c].use, ref |-> left[c].ref]]
  BY <1>4, <1>5
<1>7. Balanced(g, left, l)
  BY <1>4, <1>6 DEF Balanced
<1> QED
  BY <1>1, <1>2, <1>7

(* Of a slot, what the channels depend on.                                 *)
IsKeySlot(s) ==
    /\ {"tuner", "rec_demux", "recorder", "a_chanids", "a_chanpids", "des_aids", "v_chanid",
        "rec_a_chanids", "rec_aids", "rec_v_chanid"} \subseteq DOMAIN s
    /\ s.tuner \in BOOLEAN /\ s.rec_demux \in BOOLEAN /\ s.recorder \in BOOLEAN
    /\ s.des_aids \in 0 .. MaxTracks /\ s.rec_aids \in 0 .. MaxTracks
    /\ s.a_chanids = [i \in Tracks |-> s.a_chanids[i]]
    /\ s.rec_a_chanids = [i \in Tracks |-> s.rec_a_chanids[i]]
    /\ s.a_chanpids = [i \in Tracks |-> s.a_chanpids[i]]
    /\ \A i \in Tracks : s.a_chanpids[i] \in 0 .. 255

NoEncryption(s) == \A i \in EntryNos : ChanOf(s, "encrypt", i) = NoChan

(* A slot that is used has a demux.  Encryption is for a recorder that is  *)
(* there and not given back, so that a release has none to give back.      *)
KeySlotAgrees(s, at) ==
    /\ s.tuner = s.rec_demux
    /\ s.recorder \/ at # "out" => s.tuner
    /\ at = "encrypting" => s.recorder
    /\ ~s.recorder \/ at \in {"creating", "starting", "destroying", "reporting"}
          => NoEncryption(s)
    /\ at # "keying found"

KeySlotOk(s, at) == IsKeySlot(s) /\ KeySlotAgrees(s, at)

ChannelInv ==
    /\ rec = [r \in Recorders |-> rec[r]] /\ rec_at = [r \in Recorders |-> rec_at[r]]
    /\ \A r \in Recorders : KeySlotOk(rec[r], rec_at[r])
    /\ live \in Chans \cup {NoChan}
    /\ Balanced(rec, channel, live)

LEMMA ChannelInvSuffices == ChannelInv => ChannelsBalanced
<1>1. \A c : Holders(c) = HoldersIn(rec, c)
  BY DEF Holders, HoldersIn
<1> QED
  BY <1>1 DEF ChannelInv, Balanced, ChannelsBalanced

LEMMA ChannelInit == RecInit => ChannelInv
<1> SUFFICES ASSUME RecInit PROVE ChannelInv
  OBVIOUS
<1>1. /\ rec = [r \in Recorders |-> rec[r]] /\ rec_at = [r \in Recorders |-> rec_at[r]]
      /\ live \in Chans \cup {NoChan}
  BY DEF RecInit
<1>2. \A use \in ChannelUses, i \in EntryNos : ChanOf(FreshRecorder, use, i) = NoChan
  BY RecorderAssumption DEF FreshRecorder, ChanOf, EntryNos
<1>3. KeySlotOk(FreshRecorder, "out")
  <2>1. IsKeySlot(FreshRecorder)
    BY RecorderAssumption DEF IsKeySlot, FreshRecorder
  <2>2. KeySlotAgrees(FreshRecorder, "out")
    BY <1>2 DEF KeySlotAgrees, NoEncryption, FreshRecorder, ChannelUses
  <2> QED
    BY <2>1, <2>2 DEF KeySlotOk
<1>4. \A c \in Chans : HoldersIn(rec, c) = {}
  BY <1>2, NoSuchChan DEF RecInit, HoldersIn
<1>5. Balanced(rec, channel, live)
  BY <1>4, NoSuchChan, FS_EmptySet DEF RecInit, Balanced
<1> QED
  BY <1>1, <1>3, <1>5 DEF ChannelInv, RecInit

(* A step of one recorder.                                                 *)
LEMMA ChannelGoes ==
    ASSUME ChannelInv, NEW r \in Recorders, NEW s, NEW at, KeySlotOk(s, at),
           rec' = [rec EXCEPT ![r] = s], rec_at' = [rec_at EXCEPT ![r] = at],
           UNCHANGED live, Balanced([rec EXCEPT ![r] = s], channel', live)
    PROVE  ChannelInv'
<1>1. rec'[r] = s /\ rec_at'[r] = at
  BY DEF ChannelInv
<1>2. \A q \in Recorders : q # r => rec'[q] = rec[q] /\ rec_at'[q] = rec_at[q]
  BY DEF ChannelInv
<1>3. /\ rec' = [q \in Recorders |-> rec'[q]] /\ rec_at' = [q \in Recorders |-> rec_at'[q]]
  BY DEF ChannelInv
<1>4. \A q \in Recorders : KeySlotOk(rec'[q], rec_at'[q])
  BY <1>1, <1>2 DEF ChannelInv
<1>5. Balanced(rec', channel', live')
  OBVIOUS
<1>6. live' \in Chans \cup {NoChan}
  BY DEF ChannelInv
<1> QED
  BY <1>3, <1>4, <1>5, <1>6
     DEF ChannelInv, KeySlotOk, IsKeySlot, KeySlotAgrees, NoEncryption, Balanced, HoldersIn

LEMMA ChannelStays ==
    ASSUME ChannelInv, NEW r \in Recorders
    PROVE  /\ rec = [rec EXCEPT ![r] = rec[r]]
           /\ rec_at = [rec_at EXCEPT ![r] = rec_at[r]]
           /\ rec = [q \in Recorders |-> rec[q]]
           /\ IsKeySlot(rec[r]) /\ KeySlotAgrees(rec[r], rec_at[r])
           /\ Balanced(rec, channel, live)
BY DEF ChannelInv, KeySlotOk

(* One entry of an array is set.                                           *)
LEMMA EntrySet ==
    ASSUME NEW S, NEW f, f = [i \in S |-> f[i]], NEW n \in S, NEW c, NEW g,
           g = [f EXCEPT ![n] = c]
    PROVE  /\ g[n] = c /\ \A i \in S : i # n => g[i] = f[i]
           /\ g = [i \in S |-> g[i]]
OBVIOUS

(* A step that leaves the channels alone.                                  *)
SameKeys(s, t) ==
    /\ s.des_aids = t.des_aids /\ s.a_chanids = t.a_chanids /\ s.a_chanpids = t.a_chanpids
    /\ s.v_chanid = t.v_chanid /\ s.rec_aids = t.rec_aids
    /\ s.rec_a_chanids = t.rec_a_chanids /\ s.rec_v_chanid = t.rec_v_chanid

LEMMA SameKeysSame ==
    ASSUME NEW s, NEW t, SameKeys(s, t)
    PROVE  SameEntriesOf(s, t) /\ (NoEncryption(s) => NoEncryption(t))
BY DEF SameKeys, SameEntriesOf, NoEncryption, ChanOf

LEMMA LeavesChannels ==
    ASSUME ChannelInv, NEW r \in Recorders, NEW s, NEW at,
           IsKeySlot(s), SameKeys(rec[r], s), KeySlotAgrees(s, at),
           rec' = [rec EXCEPT ![r] = s], rec_at' = [rec_at EXCEPT ![r] = at],
           UNCHANGED <<channel, live>>
    PROVE  ChannelInv'
<1>1. Balanced([rec EXCEPT ![r] = s], channel, live)
  BY SameKeysSame, ChannelStays, BalancedSame
<1> QED
  BY <1>1, ChannelGoes DEF KeySlotOk

(* The fields that the channels do not depend on.                          *)
OnlyOther(s, t) ==
    /\ IsKeySlot(t) /\ SameKeys(s, t)
    /\ t.tuner = s.tuner /\ t.rec_demux = s.rec_demux /\ t.recorder = s.recorder

LEMMA OtherIsSame == ASSUME NEW s, IsKeySlot(s) PROVE OnlyOther(s, s)
BY DEF OnlyOther, SameKeys

LEMMA OtherKeeps ==
    ASSUME NEW s, NEW at, KeySlotAgrees(s, at), NEW t, OnlyOther(s, t)
    PROVE  KeySlotAgrees(t, at)
<1>1. NoEncryption(s) => NoEncryption(t)
  BY SameKeysSame DEF OnlyOther
<1> QED
  BY <1>1 DEF OnlyOther, KeySlotAgrees

(* The places between which the caller goes with the slot as it is.        *)
LEMMA OtherGoes ==
    ASSUME ChannelInv, NEW r \in Recorders, NEW s, OnlyOther(rec[r], s), NEW at,
           rec' = [rec EXCEPT ![r] = s], rec_at' = [rec_at EXCEPT ![r] = at],
           UNCHANGED <<channel, live>>,
           \/ at = rec_at[r]
           \/ /\ rec[r].tuner /\ at # "keying found" /\ (at = "encrypting" => rec[r].recorder)
              /\ at \in {"creating", "starting", "destroying", "reporting"}
                    => NoEncryption(rec[r])
    PROVE  ChannelInv'
<1>1. NoEncryption(rec[r]) => NoEncryption(s)
  BY SameKeysSame DEF OnlyOther
<1>2. KeySlotAgrees(s, at)
  BY <1>1, ChannelStays, OtherKeeps DEF KeySlotAgrees, OnlyOther
<1> QED
  BY <1>2, LeavesChannels DEF OnlyOther

LEMMA ChannelAcquire ==
    ASSUME ChannelInv, NEW r \in Recorders, Acquire(r)
    PROVE  ChannelInv'
<1>1. PICK s : s = [rec[r] EXCEPT !.tuner = TRUE, !.rec_demux = TRUE]
  OBVIOUS
<1>2. rec' = [rec EXCEPT ![r] = s]
  BY <1>1, ChannelStays DEF Acquire
<1>3. IsKeySlot(s) /\ SameKeys(rec[r], s) /\ s.tuner /\ s.rec_demux
      /\ s.recorder = rec[r].recorder
  BY <1>1, ChannelStays DEF IsKeySlot, SameKeys
<1>4. KeySlotAgrees(s, rec_at[r])
  <2>1. NoEncryption(rec[r]) => NoEncryption(s)
    BY <1>3, SameKeysSame
  <2>2. s.tuner = s.rec_demux
    BY <1>3 DEF IsKeySlot
  <2> QED
    BY <1>3, <2>1, <2>2, ChannelStays DEF KeySlotAgrees
<1> QED
  BY <1>2, <1>3, <1>4, ChannelStays, LeavesChannels DEF Acquire, SlotOnly

LEMMA ChannelPrepare ==
    ASSUME ChannelInv, NEW r \in Recorders, Prepare(r)
    PROVE  ChannelInv'
<1>1. PICK s : rec' = [rec EXCEPT ![r] = s] /\ OnlyOther(rec[r], s)
  <2>1. CASE rec' = [rec EXCEPT ![r].rec_state = "STOPPED"]
    <3>1. PICK s : s = [rec[r] EXCEPT !.rec_state = "STOPPED"]
      OBVIOUS
    <3>2. rec' = [rec EXCEPT ![r] = s]
      BY <2>1, <3>1
    <3>3. OnlyOther(rec[r], s)
      BY <3>1, ChannelStays DEF OnlyOther, SameKeys, IsKeySlot
    <3> QED
      BY <3>2, <3>3
  <2>2. CASE \E smp \in BOOLEAN : rec' = [rec EXCEPT ![r].is_smp = smp]
    <3>1. PICK smp : rec' = [rec EXCEPT ![r].is_smp = smp]
      BY <2>2
    <3>2. PICK s : s = [rec[r] EXCEPT !.is_smp = smp]
      OBVIOUS
    <3>3. rec' = [rec EXCEPT ![r] = s]
      BY <3>1, <3>2
    <3>4. OnlyOther(rec[r], s)
      BY <3>2, ChannelStays DEF OnlyOther, SameKeys, IsKeySlot
    <3> QED
      BY <3>3, <3>4
  <2> QED
    BY <2>1, <2>2 DEF Prepare
<1> QED
  BY <1>1, ChannelStays, OtherGoes DEF Prepare, SlotOnly

LEMMA ChannelKeyCalls ==
    ASSUME ~EncryptsFirst, ChannelInv, NEW r \in Recorders,
           ApplyDescramblerKey(r) \/ ApplyEncryptionKey(r)
    PROVE  ChannelInv'
<1>1. PICK at : /\ rec_at' = [rec_at EXCEPT ![r] = at]
                /\ at = "keying" \/ (at = "encrypting" /\ rec[r].recorder)
  BY DEF ApplyDescramblerKey, ApplyEncryptionKey, RecGoto
<1>2. OnlyOther(rec[r], rec[r]) /\ rec' = [rec EXCEPT ![r] = rec[r]]
  BY ChannelStays, OtherIsSame DEF ApplyDescramblerKey, ApplyEncryptionKey
<1> QED
  BY <1>1, <1>2, OtherGoes DEF ApplyDescramblerKey, ApplyEncryptionKey

LEMMA ChannelRecordStart ==
    ASSUME ChannelInv, NEW r \in Recorders, RecordStart(r)
    PROVE  ChannelInv'
<1>1. PICK secmem : rec' = [rec EXCEPT ![r].secmem = @ \/ secmem]
  BY DEF RecordStart
<1>2. PICK s : s = [rec[r] EXCEPT !.secmem = rec[r].secmem \/ secmem]
  OBVIOUS
<1>3. rec' = [rec EXCEPT ![r] = s]
  BY <1>1, <1>2, ChannelStays
<1>4. OnlyOther(rec[r], s)
  BY <1>2, ChannelStays DEF OnlyOther, SameKeys, IsKeySlot
<1>5. NoEncryption(rec[r]) /\ rec[r].tuner
  BY ChannelStays DEF RecordStart, KeySlotAgrees
<1> QED
  BY <1>3, <1>4, <1>5, OtherGoes DEF RecordStart, RecGoto

(* The recorder comes and goes while there is no encryption.               *)
LEMMA ChannelRecorder ==
    ASSUME ChannelInv, NEW r \in Recorders, NEW there \in BOOLEAN, NEW t, OnlyOther(rec[r], t),
           NEW s, s = [t EXCEPT !.recorder = there], NEW at \in {"out", "starting", "reporting"},
           rec' = [rec EXCEPT ![r] = s], rec_at' = [rec_at EXCEPT ![r] = at],
           rec_at[r] \in {"creating", "starting", "destroying"},
           UNCHANGED <<channel, live>>
    PROVE  ChannelInv'
<1>1. IsKeySlot(s) /\ SameKeys(rec[r], s) /\ s.tuner = rec[r].tuner
      /\ s.rec_demux = rec[r].rec_demux
  BY DEF OnlyOther, IsKeySlot, SameKeys
<1>2. NoEncryption(s)
  BY <1>1, ChannelStays, SameKeysSame DEF KeySlotAgrees
<1>3. KeySlotAgrees(s, at)
  BY <1>1, <1>2, ChannelStays DEF KeySlotAgrees
<1> QED
  BY <1>1, <1>3, LeavesChannels

LEMMA ChannelCreate ==
    ASSUME ChannelInv, NEW r \in Recorders, Create(r)
    PROVE  ChannelInv'
<1>1. CASE rec' = [rec EXCEPT ![r].recorder = TRUE] /\ RecGoto(r, "starting")
  <2>1. PICK s, at : s = [rec[r] EXCEPT !.recorder = TRUE] /\ at = "starting"
    OBVIOUS
  <2>2. rec' = [rec EXCEPT ![r] = s]
    BY <1>1, <2>1
  <2> QED
    BY <1>1, <2>1, <2>2, ChannelStays, OtherIsSame, ChannelRecorder DEF Create, RecGoto
<1>2. CASE UNCHANGED rec /\ RecGoto(r, "out")
  <2>1. rec' = [rec EXCEPT ![r] = rec[r]] /\ OnlyOther(rec[r], rec[r]) /\ rec[r].tuner
    BY <1>2, ChannelStays, OtherIsSame DEF Create, KeySlotAgrees
  <2>2. PICK at : at = "out"
    OBVIOUS
  <2> QED
    BY <1>2, <2>1, <2>2, OtherGoes DEF Create, RecGoto
<1> QED
  BY <1>1, <1>2 DEF Create

LEMMA ChannelStartLib ==
    ASSUME ChannelInv, NEW r \in Recorders, StartLib(r)
    PROVE  ChannelInv'
<1>1. CASE UNCHANGED rec /\ RecGoto(r, "started")
  <2>1. rec' = [rec EXCEPT ![r] = rec[r]] /\ OnlyOther(rec[r], rec[r]) /\ rec[r].tuner
    BY <1>1, ChannelStays, OtherIsSame DEF StartLib, KeySlotAgrees
  <2>2. PICK at : at = "started"
    OBVIOUS
  <2> QED
    BY <1>1, <2>1, <2>2, OtherGoes DEF StartLib, RecGoto
<1>2. CASE /\ rec' = [rec EXCEPT ![r].recorder = FALSE, ![r].secmem = @ /\ ~rec[r].is_smp]
           /\ RecGoto(r, "out")
  <2>1. PICK v : v = (rec[r].secmem /\ ~rec[r].is_smp)
    OBVIOUS
  <2>2. PICK t : t = [rec[r] EXCEPT !.secmem = v]
    OBVIOUS
  <2>3. PICK s, at : s = [t EXCEPT !.recorder = FALSE] /\ at = "out"
    OBVIOUS
  <2>4. rec' = [rec EXCEPT ![r] = s]
    BY <1>2, <2>1, <2>2, <2>3, ChannelStays DEF IsKeySlot
  <2>5. OnlyOther(rec[r], t)
    BY <2>2, ChannelStays DEF OnlyOther, SameKeys, IsKeySlot
  <2> QED
    BY <1>2, <2>3, <2>4, <2>5, ChannelRecorder DEF StartLib, RecGoto
<1> QED
  BY <1>1, <1>2 DEF StartLib

(* The rest of a start, pauses, and the beginning and the end of a stop.   *)
LEMMA ChannelStates ==
    ASSUME ChannelInv, NEW r \in Recorders,
           \/ SetStarting(r) \/ ClearStartFlag(r) \/ RecordPause(r) \/ RecordResume(r)
           \/ RecordStop(r) \/ ReportStop(r)
    PROVE  ChannelInv'
<1>1. rec[r].recorder \/ rec_at[r] # "out" => rec[r].tuner
  BY ChannelStays DEF KeySlotAgrees
<1>2. ASSUME NEW s, rec' = [rec EXCEPT ![r] = s], OnlyOther(rec[r], s),
             NEW at, rec_at' = [rec_at EXCEPT ![r] = at], at \in {"out", "flagging", "giving back"},
             rec[r].tuner, UNCHANGED <<channel, live>>
      PROVE  ChannelInv'
  BY <1>2, OtherGoes
<1>3. CASE SetStarting(r) \/ RecordPause(r) \/ RecordResume(r)
  <2>1. PICK v \in {"STARTING", "PAUSED", "STARTED"} : rec' = [rec EXCEPT ![r].rec_state = v]
    BY <1>3 DEF SetStarting, RecordPause, RecordResume
  <2>2. PICK s : s = [rec[r] EXCEPT !.rec_state = v]
    OBVIOUS
  <2>3. rec' = [rec EXCEPT ![r] = s]
    BY <2>1, <2>2
  <2>4. OnlyOther(rec[r], s)
    BY <2>2, ChannelStays DEF OnlyOther, SameKeys, IsKeySlot
  <2>5. PICK at : rec_at' = [rec_at EXCEPT ![r] = at] /\ at \in {"out", "flagging"}
    BY <1>3, ChannelStays DEF SetStarting, RecordPause, RecordResume, Begins, RecGoto
  <2> QED
    BY <1>1, <1>2, <1>3, <2>3, <2>4, <2>5 DEF SetStarting, RecordPause, RecordResume
<1>4. CASE ClearStartFlag(r)
  <2>1. PICK s, at : s = [rec[r] EXCEPT !.rec_start_flag = FALSE] /\ at = "out"
    OBVIOUS
  <2>2. rec' = [rec EXCEPT ![r] = s] /\ rec_at' = [rec_at EXCEPT ![r] = at]
    BY <1>4, <2>1 DEF ClearStartFlag, RecGoto
  <2>3. OnlyOther(rec[r], s)
    BY <2>1, ChannelStays DEF OnlyOther, SameKeys, IsKeySlot
  <2> QED
    BY <1>1, <1>2, <1>4, <2>1, <2>2, <2>3 DEF ClearStartFlag
<1>5. CASE RecordStop(r)
  <2>0. PICK w : w = (rec[r].secmem /\ ~rec[r].is_smp)
    OBVIOUS
  <2>1. PICK s, at : s = [rec[r] EXCEPT !.rec_state = "STOPPED", !.secmem = w] /\ at = "giving back"
    OBVIOUS
  <2>2. rec' = [rec EXCEPT ![r] = s] /\ rec_at' = [rec_at EXCEPT ![r] = at]
    BY <1>5, <2>0, <2>1, ChannelStays DEF RecordStop, RecGoto
  <2>3. OnlyOther(rec[r], s)
    BY <2>1, ChannelStays DEF OnlyOther, SameKeys, IsKeySlot
  <2> QED
    BY <1>1, <1>2, <1>5, <2>1, <2>2, <2>3 DEF RecordStop
<1>6. CASE ReportStop(r)
  <2>1. PICK s, at : s = [rec[r] EXCEPT !.rec_state = "STOPPED", !.is_smp = FALSE] /\ at = "out"
    OBVIOUS
  <2>2. rec' = [rec EXCEPT ![r] = s] /\ rec_at' = [rec_at EXCEPT ![r] = at]
    BY <1>6, <2>1, ChannelStays DEF ReportStop, RecGoto
  <2>3. OnlyOther(rec[r], s)
    BY <2>1, ChannelStays DEF OnlyOther, SameKeys, IsKeySlot
  <2> QED
    BY <1>1, <1>2, <1>6, <2>1, <2>2, <2>3 DEF ReportStop
<1> QED
  BY <1>3, <1>4, <1>5, <1>6

LEMMA ChannelDestroy ==
    ASSUME ChannelInv, NEW r \in Recorders, Destroy(r)
    PROVE  ChannelInv'
<1>1. PICK s, at : s = [rec[r] EXCEPT !.recorder = FALSE] /\ at = "reporting"
  OBVIOUS
<1>2. rec' = [rec EXCEPT ![r] = s]
  BY <1>1 DEF Destroy
<1> QED
  BY <1>1, <1>2, ChannelStays, OtherIsSame, ChannelRecorder DEF Destroy, RecGoto

LEMMA ChannelEvents ==
    ASSUME ChannelInv, NEW r \in Recorders, ReadStatus(r) \/ TakeStatus(r) \/ WriteError(r)
    PROVE  ChannelInv'
<1>0. PICK at : at = rec_at[r] /\ rec_at' = [rec_at EXCEPT ![r] = at]
  BY ChannelStays DEF ReadStatus, TakeStatus, WriteError
<1>1. CASE UNCHANGED rec
  <2>1. rec' = [rec EXCEPT ![r] = rec[r]] /\ OnlyOther(rec[r], rec[r])
    BY <1>1, ChannelStays, OtherIsSame
  <2> QED
    BY <1>0, <2>1, OtherGoes DEF ReadStatus, TakeStatus, WriteError
<1>2. CASE rec' = [rec EXCEPT ![r].rec_state = "STARTED", ![r].rec_start_flag = TRUE]
           /\ TakeStatus(r)
  <2>1. PICK s : s = [rec[r] EXCEPT !.rec_state = "STARTED", !.rec_start_flag = TRUE]
    OBVIOUS
  <2>2. rec' = [rec EXCEPT ![r] = s]
    BY <1>2, <2>1, ChannelStays
  <2>3. OnlyOther(rec[r], s)
    BY <2>1, ChannelStays DEF OnlyOther, SameKeys, IsKeySlot
  <2> QED
    BY <1>0, <1>2, <2>2, <2>3, OtherGoes DEF TakeStatus
<1> QED
  BY <1>1, <1>2 DEF ReadStatus, TakeStatus, WriteError

(* Taking a channel for the video, of either use.                          *)
LEMMA ChannelVideos ==
    ASSUME ChannelInv, NEW r \in Recorders, KeyVideo(r) \/ EncryptVideo(r)
    PROVE  ChannelInv'
<1>0. PICK at : at = "out" /\ rec_at' = [rec_at EXCEPT ![r] = at] /\ UNCHANGED live
  BY DEF KeyVideo, EncryptVideo, RecGoto
<1>1. rec[r].tuner /\ (rec_at[r] = "encrypting" => rec[r].recorder)
  BY ChannelStays DEF KeyVideo, EncryptVideo, Keying, KeySlotAgrees
<1>2. CASE UNCHANGED <<rec, channel>>
  <2>1. rec' = [rec EXCEPT ![r] = rec[r]] /\ OnlyOther(rec[r], rec[r])
    BY <1>2, ChannelStays, OtherIsSame
  <2> QED
    BY <1>0, <1>1, <1>2, <2>1, OtherGoes
<1>3. CASE KeyVideo(r) /\ ~UNCHANGED <<rec, channel>>
  <2>1. PICK c \in Chans \cup {NoChan} : c = ChannelFor(channel, VideoPid, "descramble")
    BY ChannelForIs
  <2>2. PICK s : s = [rec[r] EXCEPT !.v_chanid = c]
    OBVIOUS
  <2>3. /\ rec[r].v_chanid = NoChan /\ rec' = [rec EXCEPT ![r] = s]
        /\ channel' = Taken(channel, c, VideoPid, "descramble")
    BY <1>3, <2>1, <2>2 DEF KeyVideo
  <2>4. /\ IsKeySlot(s) /\ s.v_chanid = c
        /\ s.a_chanids = rec[r].a_chanids /\ s.des_aids = rec[r].des_aids
        /\ s.rec_a_chanids = rec[r].rec_a_chanids /\ s.rec_aids = rec[r].rec_aids
        /\ s.rec_v_chanid = rec[r].rec_v_chanid /\ s.tuner = rec[r].tuner
        /\ s.rec_demux = rec[r].rec_demux /\ s.recorder = rec[r].recorder
    BY <2>2, ChannelStays DEF IsKeySlot
  <2>5. \A u \in ChannelUses, i \in EntryNos :
           ~(u = "descramble" /\ i = 0) => ChanOf(s, u, i) = ChanOf(rec[r], u, i)
    BY <2>4 DEF ChanOf
  <2>6. ChanOf(s, "descramble", 0) = c /\ ChanOf(rec[r], "descramble", 0) = NoChan
    BY <2>3, <2>4 DEF ChanOf
  <2>7. "descramble" \in ChannelUses /\ 0 \in EntryNos
    BY RecorderAssumption DEF ChannelUses, EntryNos
  <2>8. Balanced([rec EXCEPT ![r] = s], channel', live)
    BY <2>3, <2>5, <2>6, <2>7, ChannelStays, BalancedTakes
  <2>9. KeySlotAgrees(s, at)
    <3>1. NoEncryption(rec[r]) => NoEncryption(s)
      BY <2>5, <2>7 DEF NoEncryption, ChannelUses
    <3>2. rec[r].recorder = FALSE => NoEncryption(rec[r])
      BY ChannelStays DEF KeySlotAgrees
    <3> QED
      BY <1>0, <1>1, <2>4, <3>1, <3>2, ChannelStays DEF KeySlotAgrees, IsKeySlot
  <2> QED
    BY <1>0, <2>3, <2>4, <2>8, <2>9, ChannelGoes DEF KeySlotOk
<1>4. CASE EncryptVideo(r) /\ ~UNCHANGED <<rec, channel>>
  <2>1. PICK c \in Chans \cup {NoChan} : c = ChannelFor(channel, VideoPid, "encrypt")
    BY ChannelForIs
  <2>2. PICK s : s = [rec[r] EXCEPT !.rec_v_chanid = c]
    OBVIOUS
  <2>3. /\ rec[r].rec_v_chanid = NoChan /\ rec' = [rec EXCEPT ![r] = s]
        /\ channel' = Taken(channel, c, VideoPid, "encrypt")
    BY <1>4, <2>1, <2>2 DEF EncryptVideo
  <2>4. /\ IsKeySlot(s) /\ s.rec_v_chanid = c
        /\ s.a_chanids = rec[r].a_chanids /\ s.des_aids = rec[r].des_aids
        /\ s.rec_a_chanids = rec[r].rec_a_chanids /\ s.rec_aids = rec[r].rec_aids
        /\ s.v_chanid = rec[r].v_chanid /\ s.tuner = rec[r].tuner
        /\ s.rec_demux = rec[r].rec_demux /\ s.recorder = rec[r].recorder
    BY <2>2, ChannelStays DEF IsKeySlot
  <2>5. \A u \in ChannelUses, i \in EntryNos :
           ~(u = "encrypt" /\ i = 0) => ChanOf(s, u, i) = ChanOf(rec[r], u, i)
    BY <2>4 DEF ChanOf, ChannelUses
  <2>6. ChanOf(s, "encrypt", 0) = c /\ ChanOf(rec[r], "encrypt", 0) = NoChan
    BY <2>3, <2>4 DEF ChanOf
  <2>7. "encrypt" \in ChannelUses /\ 0 \in EntryNos
    BY RecorderAssumption DEF ChannelUses, EntryNos
  <2>8. Balanced([rec EXCEPT ![r] = s], channel', live)
    BY <2>3, <2>5, <2>6, <2>7, ChannelStays, BalancedTakes
  <2>9. KeySlotAgrees(s, at)
    BY <1>0, <1>1, <1>4, <2>4, ChannelStays DEF KeySlotAgrees, EncryptVideo
  <2> QED
    BY <1>0, <2>3, <2>4, <2>8, <2>9, ChannelGoes DEF KeySlotOk
<1> QED
  BY <1>2, <1>3, <1>4 DEF KeyVideo, EncryptVideo

LEMMA EightBits == ASSUME NEW n \in Nat PROVE n % 256 \in 0 .. 255
OBVIOUS

LEMMA AboveEightBits == ASSUME NEW n \in Nat, n > 255 PROVE \A k \in 0 .. 255 : k # n
OBVIOUS

(* The PIDs are above what eight bits hold, so none is ever found, and a   *)
(* channel is taken for each.                                              *)
LEMMA ChannelKeyAudio ==
    ASSUME \A pid \in AudioPids : pid > 255, ChannelInv, NEW r \in Recorders, KeyAudio(r)
    PROVE  ChannelInv'
<1>0. PICK pid \in AudioPids :
         LET s == rec[r]
             found == \/ rec_at[r] = "keying found"
                      \/ \E i \in 1 .. s.des_aids : s.a_chanpids[i] = pid
             n == s.des_aids + 1
             c == IF found THEN s.a_chanids[n] ELSE ChannelFor(channel, pid, "descramble")
             p == IF c = NoChan THEN 255 ELSE IF found THEN s.a_chanpids[n] ELSE pid % 256
         IN  /\ rec' = [rec EXCEPT ![r] = [s EXCEPT !.des_aids = n, !.a_chanids[n] = c,
                                                    !.a_chanpids[n] = p]]
             /\ channel' = IF found THEN channel ELSE Taken(channel, c, pid, "descramble")
             /\ RecGoto(r, IF found THEN "keying found" ELSE "keying")
  BY DEF KeyAudio
<1> DEFINE same == \/ rec_at[r] = "keying found"
                   \/ \E i \in 1 .. rec[r].des_aids : rec[r].a_chanpids[i] = pid
<1>1. ~same
  <2>1. pid > 255 /\ rec_at[r] # "keying found"
    BY ChannelStays DEF KeySlotAgrees
  <2>2. PICK m \in 0 .. MaxTracks : m = rec[r].des_aids
    BY ChannelStays DEF IsKeySlot
  <2>3. \A i \in 1 .. m : i \in Tracks
    BY RecorderAssumption DEF Tracks
  <2>0. pid \in Nat
    BY RecorderAssumption
  <2>4. \A k \in 0 .. 255 : k # pid
    BY <2>0, <2>1, AboveEightBits
  <2>5. \A i \in Tracks : rec[r].a_chanpids[i] # pid
    BY <2>4, ChannelStays, Zenon DEF IsKeySlot
  <2> QED
    BY <2>1, <2>2, <2>3, <2>5
<1>2. PICK c \in Chans \cup {NoChan} : c = ChannelFor(channel, pid, "descramble")
  BY ChannelForIs
<1>m. PICK m \in 0 .. MaxTracks : m = rec[r].des_aids /\ m < MaxTracks
  BY ChannelStays DEF IsKeySlot, KeyAudio
<1>3. PICK n, p, at : /\ n = m + 1 /\ at = "keying"
                      /\ p = IF c = NoChan THEN 255 ELSE pid % 256
  OBVIOUS
<1>4. n \in Tracks /\ n \in 1 .. MaxTracks /\ n \in EntryNos /\ p \in 0 .. 255
  <2>1. n \in 1 .. MaxTracks
    BY <1>m, <1>3, RecorderAssumption
  <2>2. p \in 0 .. 255
    BY <1>3, EightBits, RecorderAssumption
  <2> QED
    BY <2>1, <2>2, RecorderAssumption DEF Tracks, EntryNos
<1>5. PICK s : s = [rec[r] EXCEPT !.des_aids = n, !.a_chanids[n] = c, !.a_chanpids[n] = p]
  OBVIOUS
<1>6. /\ rec' = [rec EXCEPT ![r] = s] /\ rec_at' = [rec_at EXCEPT ![r] = at]
      /\ channel' = Taken(channel, c, pid, "descramble")
  BY <1>0, <1>1, <1>2, <1>m, <1>3, <1>5 DEF RecGoto
<1>7. /\ s.des_aids = n /\ s.a_chanids = [rec[r].a_chanids EXCEPT ![n] = c]
      /\ s.a_chanpids = [rec[r].a_chanpids EXCEPT ![n] = p]
      /\ s.v_chanid = rec[r].v_chanid
      /\ s.rec_a_chanids = rec[r].rec_a_chanids /\ s.rec_aids = rec[r].rec_aids
      /\ s.rec_v_chanid = rec[r].rec_v_chanid /\ s.tuner = rec[r].tuner
      /\ s.rec_demux = rec[r].rec_demux /\ s.recorder = rec[r].recorder
      /\ DOMAIN s = DOMAIN rec[r]
  BY <1>5, ChannelStays DEF IsKeySlot
<1>8. /\ s.a_chanids[n] = c /\ \A i \in Tracks : i # n => s.a_chanids[i] = rec[r].a_chanids[i]
      /\ s.a_chanids = [i \in Tracks |-> s.a_chanids[i]]
      /\ s.a_chanpids = [i \in Tracks |-> s.a_chanpids[i]]
      /\ \A i \in Tracks : s.a_chanpids[i] \in 0 .. 255
  <2>0. IsKeySlot(rec[r]) /\ n \in Tracks /\ p \in 0 .. 255
    BY <1>4, ChannelStays
  <2>1. /\ rec[r].a_chanids = [i \in Tracks |-> rec[r].a_chanids[i]]
        /\ rec[r].a_chanpids = [i \in Tracks |-> rec[r].a_chanpids[i]]
        /\ \A i \in Tracks : rec[r].a_chanpids[i] \in 0 .. 255
    BY <2>0, Zenon DEF IsKeySlot
  <2>2. /\ s.a_chanids = [rec[r].a_chanids EXCEPT ![n] = c]
        /\ s.a_chanpids = [rec[r].a_chanpids EXCEPT ![n] = p]
    BY <1>7
  <2>3. /\ s.a_chanids[n] = c /\ \A i \in Tracks : i # n => s.a_chanids[i] = rec[r].a_chanids[i]
        /\ s.a_chanids = [i \in Tracks |-> s.a_chanids[i]]
    BY <2>0, <2>1, <2>2, EntrySet
  <2>4. /\ s.a_chanpids[n] = p
        /\ \A i \in Tracks : i # n => s.a_chanpids[i] = rec[r].a_chanpids[i]
        /\ s.a_chanpids = [i \in Tracks |-> s.a_chanpids[i]]
    BY <2>0, <2>1, <2>2, EntrySet
  <2>5. \A i \in Tracks : s.a_chanpids[i] \in 0 .. 255
    BY <2>0, <2>1, <2>4, Zenon
  <2> QED
    BY <2>3, <2>4, <2>5, Zenon
<1>9. IsKeySlot(s)
  <2>1. n \in 0 .. MaxTracks
    BY <1>4
  <2>2. IsKeySlot(rec[r])
    BY ChannelStays
  <2>3. /\ {"tuner", "rec_demux", "recorder", "a_chanids", "a_chanpids", "des_aids", "v_chanid",
              "rec_a_chanids", "rec_aids", "rec_v_chanid"} \subseteq DOMAIN s
        /\ s.tuner \in BOOLEAN /\ s.rec_demux \in BOOLEAN /\ s.recorder \in BOOLEAN
        /\ s.rec_aids \in 0 .. MaxTracks
        /\ s.rec_a_chanids = [i \in Tracks |-> s.rec_a_chanids[i]]
    BY <1>7, <2>2, Zenon DEF IsKeySlot
  <2> QED
    BY <1>7, <1>8, <2>1, <2>3, Zenon DEF IsKeySlot
<1>10. \A u \in ChannelUses, i \in EntryNos :
          ~(u = "descramble" /\ i = n) => ChanOf(s, u, i) = ChanOf(rec[r], u, i)
  <2> SUFFICES ASSUME NEW u \in ChannelUses, NEW i \in EntryNos, ~(u = "descramble" /\ i = n)
               PROVE  ChanOf(s, u, i) = ChanOf(rec[r], u, i)
    OBVIOUS
  <2>1. CASE u # "descramble"
    BY <1>7, <2>1 DEF ChanOf
  <2>2. CASE u = "descramble" /\ i = 0
    BY <1>7, <2>2 DEF ChanOf
  <2>3. CASE u = "descramble" /\ i # 0
    <3>1. i \in Tracks /\ i # n /\ (i <= n <=> i <= rec[r].des_aids)
      BY <1>m, <1>3, <2>3, RecorderAssumption DEF Tracks, EntryNos
    <3> QED
      BY <1>7, <1>8, <2>3, <3>1 DEF ChanOf
  <2> QED
    BY <2>1, <2>2, <2>3
<1>11. ChanOf(s, "descramble", n) = c /\ ChanOf(rec[r], "descramble", n) = NoChan
  <2>1. n # 0 /\ n <= s.des_aids /\ ~(n <= rec[r].des_aids)
    BY <1>m, <1>3, <1>7, RecorderAssumption
  <2> QED
    BY <1>8, <2>1 DEF ChanOf
<1>12. Balanced([rec EXCEPT ![r] = s], channel', live)
  <2>1. "descramble" \in ChannelUses
    BY DEF ChannelUses
  <2> QED
    BY <1>4, <1>6, <1>10, <1>11, <2>1, ChannelStays, BalancedTakes
<1>13. KeySlotAgrees(s, at)
  <2>1. NoEncryption(rec[r]) => NoEncryption(s)
    BY <1>7 DEF NoEncryption, ChanOf
  <2>2. rec[r].tuner /\ rec_at[r] \in {"keying", "keying found"}
    BY ChannelStays DEF KeySlotAgrees, KeyAudio, Keying
  <2>3. rec[r].recorder = FALSE => NoEncryption(rec[r])
    BY ChannelStays DEF KeySlotAgrees
  <2> QED
    BY <1>3, <1>7, <2>1, <2>2, <2>3, ChannelStays DEF KeySlotAgrees, IsKeySlot
<1> QED
  BY <1>6, <1>9, <1>12, <1>13, ChannelGoes DEF KeySlotOk, KeyAudio

LEMMA ChannelEncryptAudio ==
    ASSUME ChannelInv, NEW r \in Recorders, EncryptAudio(r)
    PROVE  ChannelInv'
<1>0. PICK pid \in AudioPids :
         LET n == rec[r].rec_aids + 1
             c == ChannelFor(channel, pid, "encrypt")
         IN  /\ rec' = [rec EXCEPT ![r].rec_a_chanids[n] = c,
                                   ![r].rec_aids = IF c = NoChan THEN @ ELSE n]
             /\ channel' = Taken(channel, c, pid, "encrypt")
  BY DEF EncryptAudio
<1>1. PICK at : at = "encrypting" /\ rec_at' = [rec_at EXCEPT ![r] = at]
  BY ChannelStays DEF EncryptAudio
<1>2. PICK c \in Chans \cup {NoChan} : c = ChannelFor(channel, pid, "encrypt")
  BY ChannelForIs
<1>m. PICK m \in 0 .. MaxTracks : m = rec[r].rec_aids /\ m < MaxTracks
  BY ChannelStays DEF IsKeySlot, EncryptAudio
<1>3. PICK n, aids : n = m + 1 /\ aids = IF c = NoChan THEN m ELSE n
  OBVIOUS
<1>4. n \in Tracks /\ n \in 1 .. MaxTracks /\ n \in EntryNos
  <2>1. n \in 1 .. MaxTracks
    BY <1>m, <1>3, RecorderAssumption
  <2> QED
    BY <2>1, RecorderAssumption DEF Tracks, EntryNos
<1>5. PICK s : s = [rec[r] EXCEPT !.rec_a_chanids[n] = c, !.rec_aids = aids]
  OBVIOUS
<1>6. /\ rec' = [rec EXCEPT ![r] = s]
      /\ channel' = Taken(channel, c, pid, "encrypt")
  BY <1>0, <1>2, <1>m, <1>3, <1>5, ChannelStays
<1>7. /\ s.rec_aids = aids /\ s.rec_a_chanids = [rec[r].rec_a_chanids EXCEPT ![n] = c]
      /\ s.v_chanid = rec[r].v_chanid
      /\ s.a_chanids = rec[r].a_chanids /\ s.des_aids = rec[r].des_aids
      /\ s.a_chanpids = rec[r].a_chanpids
      /\ s.rec_v_chanid = rec[r].rec_v_chanid /\ s.tuner = rec[r].tuner
      /\ s.rec_demux = rec[r].rec_demux /\ s.recorder = rec[r].recorder
      /\ DOMAIN s = DOMAIN rec[r]
  BY <1>5, ChannelStays DEF IsKeySlot
<1>8. /\ s.rec_a_chanids[n] = c
      /\ \A i \in Tracks : i # n => s.rec_a_chanids[i] = rec[r].rec_a_chanids[i]
      /\ s.rec_a_chanids = [i \in Tracks |-> s.rec_a_chanids[i]]
  BY <1>4, <1>7, ChannelStays DEF IsKeySlot
<1>9. IsKeySlot(s)
  <2>1. aids \in 0 .. MaxTracks
    BY <1>m, <1>3, RecorderAssumption
  <2> QED
    BY <1>7, <1>8, <2>1, ChannelStays DEF IsKeySlot
<1>10. \A u \in ChannelUses, i \in EntryNos :
          ~(u = "encrypt" /\ i = n) => ChanOf(s, u, i) = ChanOf(rec[r], u, i)
  <2> SUFFICES ASSUME NEW u \in ChannelUses, NEW i \in EntryNos, ~(u = "encrypt" /\ i = n)
               PROVE  ChanOf(s, u, i) = ChanOf(rec[r], u, i)
    OBVIOUS
  <2>1. CASE u = "descramble"
    BY <1>7, <2>1 DEF ChanOf
  <2>2. CASE u # "descramble" /\ i = 0
    BY <1>7, <2>2 DEF ChanOf
  <2>3. CASE u # "descramble" /\ i # 0
    <3>1. i \in Tracks /\ i # n /\ (i <= aids <=> i <= rec[r].rec_aids)
      BY <1>m, <1>3, <2>3, RecorderAssumption DEF Tracks, EntryNos, ChannelUses
    <3> QED
      BY <1>7, <1>8, <2>3, <3>1 DEF ChanOf
  <2> QED
    BY <2>1, <2>2, <2>3
<1>11. ChanOf(s, "encrypt", n) = c /\ ChanOf(rec[r], "encrypt", n) = NoChan
  <2>1. n # 0 /\ ~(n <= rec[r].rec_aids) /\ (n <= s.rec_aids <=> c # NoChan)
    BY <1>m, <1>3, <1>7, RecorderAssumption
  <2> QED
    BY <1>8, <2>1 DEF ChanOf
<1>12. Balanced([rec EXCEPT ![r] = s], channel', live)
  <2>1. "encrypt" \in ChannelUses
    BY DEF ChannelUses
  <2> QED
    BY <1>4, <1>6, <1>10, <1>11, <2>1, ChannelStays, BalancedTakes
<1>13. KeySlotAgrees(s, at)
  BY <1>1, <1>7, ChannelStays DEF KeySlotAgrees, EncryptAudio, IsKeySlot
<1> QED
  BY <1>1, <1>6, <1>9, <1>12, <1>13, ChannelGoes DEF KeySlotOk, EncryptAudio

(* What is given back of each use leaves the other as it is.               *)
LEMMA GivesDescramblers ==
    ASSUME NEW s, IsKeySlot(s), NEW dsc, NEW t, t = GiveBackDescramblers(s, dsc).slot
    PROVE  /\ IsKeySlot(t) /\ t.tuner = s.tuner /\ t.rec_demux = s.rec_demux
           /\ t.recorder = s.recorder
           /\ \A u \in ChannelUses, i \in EntryNos :
                 ChanOf(t, u, i) = IF u = "descramble" THEN NoChan ELSE ChanOf(s, u, i)
           /\ GiveBackDescramblers(s, dsc).dsc = Freed(dsc, s, "descramble")
<1>1. /\ t.des_aids = 0 /\ t.v_chanid = NoChan
      /\ t.rec_a_chanids = s.rec_a_chanids /\ t.rec_aids = s.rec_aids
      /\ t.rec_v_chanid = s.rec_v_chanid /\ t.tuner = s.tuner /\ t.rec_demux = s.rec_demux
      /\ t.recorder = s.recorder /\ DOMAIN t = DOMAIN s
      /\ t.a_chanids = [i \in Tracks |-> t.a_chanids[i]]
      /\ t.a_chanpids = [i \in Tracks |-> IF i <= s.des_aids THEN 255 ELSE s.a_chanpids[i]]
  BY DEF GiveBackDescramblers, IsKeySlot
<1>2. \A i \in Tracks : t.a_chanpids[i] = 255 \/ t.a_chanpids[i] = s.a_chanpids[i]
  BY <1>1
<1>3. /\ t.a_chanpids = [i \in Tracks |-> t.a_chanpids[i]]
      /\ \A i \in Tracks : t.a_chanpids[i] \in 0 .. 255
  BY <1>1, <1>2 DEF IsKeySlot
<1>4. IsKeySlot(t)
  BY <1>1, <1>3, RecorderAssumption DEF IsKeySlot
<1>5. \A u \in ChannelUses, i \in EntryNos :
         ChanOf(t, u, i) = IF u = "descramble" THEN NoChan ELSE ChanOf(s, u, i)
  <2>1. \A i \in EntryNos : i # 0 => ~(i <= 0)
    BY RecorderAssumption DEF EntryNos
  <2> QED
    BY <1>1, <2>1 DEF ChanOf
<1> QED
  BY <1>1, <1>4, <1>5 DEF GiveBackDescramblers

LEMMA GivesEncryption ==
    ASSUME NEW s, IsKeySlot(s), NEW dsc, NEW t, t = GiveBackEncryption(s, dsc).slot
    PROVE  /\ IsKeySlot(t) /\ t.tuner = s.tuner /\ t.rec_demux = s.rec_demux
           /\ t.recorder = s.recorder
           /\ \A u \in ChannelUses, i \in EntryNos :
                 ChanOf(t, u, i) = IF u = "encrypt" THEN NoChan ELSE ChanOf(s, u, i)
           /\ GiveBackEncryption(s, dsc).dsc
                 = IF s.rec_demux THEN Freed(dsc, s, "encrypt") ELSE dsc
<1>1. /\ t.des_aids = s.des_aids /\ t.v_chanid = s.v_chanid /\ t.a_chanids = s.a_chanids
      /\ t.a_chanpids = s.a_chanpids /\ t.rec_aids = s.rec_aids /\ t.rec_v_chanid = NoChan
      /\ t.tuner = s.tuner /\ t.rec_demux = s.rec_demux
      /\ t.recorder = s.recorder /\ DOMAIN t = DOMAIN s
      /\ t.rec_a_chanids
            = [i \in Tracks |-> IF i <= s.rec_aids THEN NoChan ELSE s.rec_a_chanids[i]]
  BY DEF GiveBackEncryption, IsKeySlot
<1>2. t.rec_a_chanids = [i \in Tracks |-> t.rec_a_chanids[i]]
  BY <1>1
<1>3. IsKeySlot(t)
  BY <1>1, <1>2 DEF IsKeySlot
<1>4. \A u \in ChannelUses, i \in EntryNos :
         ChanOf(t, u, i) = IF u = "encrypt" THEN NoChan ELSE ChanOf(s, u, i)
  <2> SUFFICES ASSUME NEW u \in ChannelUses, NEW i \in EntryNos
               PROVE  ChanOf(t, u, i) = IF u = "encrypt" THEN NoChan ELSE ChanOf(s, u, i)
    OBVIOUS
  <2>1. CASE u = "descramble"
    BY <1>1, <2>1 DEF ChanOf
  <2>2. CASE u = "encrypt" /\ i = 0
    BY <1>1, <2>2 DEF ChanOf
  <2>3. CASE u = "encrypt" /\ i # 0
    <3>1. i \in Tracks
      BY <2>3, RecorderAssumption DEF Tracks, EntryNos
    <3> QED
      BY <1>1, <2>3, <3>1 DEF ChanOf
  <2> QED
    BY <2>1, <2>2, <2>3 DEF ChannelUses
<1> QED
  BY <1>1, <1>3, <1>4 DEF GiveBackEncryption

LEMMA ChannelGiveBack ==
    ASSUME ChannelInv, NEW r \in Recorders, GiveBack(r)
    PROVE  ChannelInv'
<1>1. PICK des, d : des = GiveBackDescramblers(rec[r], channel) /\ d = des.slot
  OBVIOUS
<1>2. PICK s, at : s = GiveBackEncryption(d, des.dsc).slot /\ at = "destroying"
  OBVIOUS
<1>3. /\ rec' = [rec EXCEPT ![r] = s] /\ rec_at' = [rec_at EXCEPT ![r] = at]
      /\ channel' = GiveBackEncryption(d, des.dsc).dsc /\ UNCHANGED live
      /\ rec_at[r] = "giving back"
  BY <1>1, <1>2 DEF GiveBack, RecGoto
<1>4. /\ IsKeySlot(d) /\ d.tuner = rec[r].tuner /\ d.rec_demux = rec[r].rec_demux
      /\ \A u \in ChannelUses, i \in EntryNos :
            ChanOf(d, u, i) = IF u = "descramble" THEN NoChan ELSE ChanOf(rec[r], u, i)
      /\ des.dsc = Freed(channel, rec[r], "descramble")
  BY <1>1, ChannelStays, GivesDescramblers
<1>5. /\ IsKeySlot(s) /\ s.tuner = rec[r].tuner /\ s.rec_demux = rec[r].rec_demux
      /\ \A u \in ChannelUses, i \in EntryNos :
            ChanOf(s, u, i) = IF u = "encrypt" THEN NoChan ELSE ChanOf(d, u, i)
      /\ channel' = IF d.rec_demux THEN Freed(des.dsc, d, "encrypt") ELSE des.dsc
  <2>1. /\ IsKeySlot(s) /\ s.tuner = d.tuner /\ s.rec_demux = d.rec_demux
        /\ \A u \in ChannelUses, i \in EntryNos :
              ChanOf(s, u, i) = IF u = "encrypt" THEN NoChan ELSE ChanOf(d, u, i)
        /\ GiveBackEncryption(d, des.dsc).dsc
              = IF d.rec_demux THEN Freed(des.dsc, d, "encrypt") ELSE des.dsc
    BY <1>2, <1>4, GivesEncryption
  <2> QED
    BY <1>3, <1>4, <2>1
<1>6. rec[r].tuner /\ d.rec_demux
  BY <1>3, <1>4, ChannelStays DEF KeySlotAgrees
<1>7. "descramble" \in ChannelUses /\ "encrypt" \in ChannelUses
  BY DEF ChannelUses
<1>8. PICK f : f = [rec EXCEPT ![r] = d]
  OBVIOUS
<1>9. f = [q \in Recorders |-> f[q]] /\ f[r] = d /\ [f EXCEPT ![r] = s] = [rec EXCEPT ![r] = s]
  BY <1>8, ChannelStays
<1>10. Balanced(f, des.dsc, live)
  <2>1. Balanced([rec EXCEPT ![r] = d], Freed(channel, rec[r], "descramble"), live)
    BY <1>4, <1>7, ChannelStays, BalancedGivesBack
  <2> QED
    BY <1>4, <1>8, <2>1
<1>11. Balanced([f EXCEPT ![r] = s], Freed(des.dsc, f[r], "encrypt"), live)
  BY <1>5, <1>7, <1>9, <1>10, BalancedGivesBack
<1>12. Balanced([rec EXCEPT ![r] = s], channel', live)
  BY <1>5, <1>6, <1>9, <1>11
<1>13. KeySlotAgrees(s, at)
  <2>1. NoEncryption(s)
    BY <1>5, <1>7 DEF NoEncryption
  <2> QED
    BY <1>2, <1>5, <1>6, <2>1, ChannelStays DEF KeySlotAgrees
<1> QED
  BY <1>3, <1>5, <1>12, <1>13, ChannelGoes DEF KeySlotOk

(* A recorder that does not run has no encryption, so that it does not     *)
(* matter that its demux is forgotten first.                               *)
LEMMA ChannelRelease ==
    ASSUME ChannelInv, NEW r \in Recorders, Release(r)
    PROVE  ChannelInv'
<1>1. PICK bare : bare = [rec[r] EXCEPT !.tuner = FALSE, !.rec_demux = FALSE]
  OBVIOUS
<1>2. PICK des, d : des = GiveBackDescramblers(bare, channel) /\ d = des.slot
  OBVIOUS
<1>3. PICK e : e = GiveBackEncryption(d, des.dsc).slot
  OBVIOUS
<1>4. PICK s, at : s = [e EXCEPT !.rec_aids = 0] /\ at = "out"
  OBVIOUS
<1>5. /\ rec' = [rec EXCEPT ![r] = s] /\ rec_at' = [rec_at EXCEPT ![r] = at]
      /\ channel' = GiveBackEncryption(d, des.dsc).dsc /\ UNCHANGED live
  BY <1>1, <1>2, <1>3, <1>4, ChannelStays DEF Release, Begins
<1>6. /\ IsKeySlot(bare) /\ SameKeys(rec[r], bare)
      /\ bare.tuner = FALSE /\ bare.rec_demux = FALSE /\ bare.recorder = FALSE
  BY <1>1, ChannelStays DEF IsKeySlot, SameKeys, Release
<1>7. /\ IsKeySlot(d) /\ d.tuner = FALSE /\ d.rec_demux = FALSE /\ d.recorder = FALSE
      /\ \A u \in ChannelUses, i \in EntryNos :
            ChanOf(d, u, i) = IF u = "descramble" THEN NoChan ELSE ChanOf(bare, u, i)
      /\ des.dsc = Freed(channel, bare, "descramble")
  BY <1>2, <1>6, GivesDescramblers
<1>8. /\ IsKeySlot(e) /\ e.tuner = FALSE /\ e.rec_demux = FALSE /\ e.recorder = FALSE
      /\ \A u \in ChannelUses, i \in EntryNos :
            ChanOf(e, u, i) = IF u = "encrypt" THEN NoChan ELSE ChanOf(d, u, i)
      /\ channel' = des.dsc
  BY <1>3, <1>5, <1>7, GivesEncryption
<1>9. NoEncryption(rec[r]) /\ SameEntriesOf(rec[r], bare) /\ NoEncryption(bare)
  BY <1>6, ChannelStays, SameKeysSame DEF KeySlotAgrees, Release
<1>10. /\ IsKeySlot(s) /\ s.tuner = FALSE /\ s.rec_demux = FALSE /\ s.recorder = FALSE
       /\ s.v_chanid = e.v_chanid /\ s.des_aids = e.des_aids /\ s.a_chanids = e.a_chanids
       /\ s.rec_v_chanid = e.rec_v_chanid /\ s.rec_aids = 0
  <2>1. 0 \in 0 .. MaxTracks
    BY RecorderAssumption
  <2> QED
    BY <1>4, <1>8, <2>1 DEF IsKeySlot
<1>11. "descramble" \in ChannelUses /\ "encrypt" \in ChannelUses
  BY DEF ChannelUses
<1>12. \A u \in ChannelUses, i \in EntryNos : ChanOf(s, u, i) = NoChan
  <2> SUFFICES ASSUME NEW u \in ChannelUses, NEW i \in EntryNos
               PROVE  ChanOf(s, u, i) = NoChan
    OBVIOUS
  <2>1. ChanOf(e, "descramble", i) = NoChan /\ ChanOf(e, "encrypt", i) = NoChan
    BY <1>7, <1>8, <1>11
  <2>2. CASE u = "descramble"
    BY <1>10, <2>1, <2>2 DEF ChanOf
  <2>3. CASE u = "encrypt"
    <3>1. i # 0 => ~(i <= 0)
      BY RecorderAssumption DEF EntryNos
    <3> QED
      BY <1>10, <2>1, <2>3, <3>1 DEF ChanOf
  <2> QED
    BY <2>2, <2>3 DEF ChannelUses
<1>13. \A u \in ChannelUses, i \in EntryNos :
          ChanOf(s, u, i) = IF u = "descramble" THEN NoChan ELSE ChanOf(bare, u, i)
  BY <1>9, <1>12 DEF NoEncryption, ChannelUses
<1>14. PICK f : f = [rec EXCEPT ![r] = bare]
  OBVIOUS
<1>15. f = [q \in Recorders |-> f[q]] /\ f[r] = bare
       /\ [f EXCEPT ![r] = s] = [rec EXCEPT ![r] = s]
  BY <1>14, ChannelStays
<1>16. Balanced(f, channel, live)
  BY <1>9, <1>14, ChannelStays, BalancedSame
<1>17. Balanced([f EXCEPT ![r] = s], Freed(channel, f[r], "descramble"), live)
  BY <1>11, <1>13, <1>15, <1>16, BalancedGivesBack
<1>18. Balanced([rec EXCEPT ![r] = s], channel', live)
  BY <1>7, <1>8, <1>15, <1>17
<1>19. KeySlotAgrees(s, at)
  BY <1>4, <1>10, <1>11, <1>12 DEF KeySlotAgrees, NoEncryption
<1> QED
  BY <1>5, <1>10, <1>18, <1>19, ChannelGoes DEF KeySlotOk

(* The live service and a channel.                                         *)
LEMMA ChannelKept ==
    ASSUME ChannelInv, UNCHANGED <<rec, rec_at>>, live' \in Chans \cup {NoChan},
           Balanced(rec, channel', live')
    PROVE  ChannelInv'
<1>1. /\ rec' = [r \in Recorders |-> rec'[r]] /\ rec_at' = [r \in Recorders |-> rec_at'[r]]
      /\ \A r \in Recorders : KeySlotOk(rec'[r], rec_at'[r])
  BY DEF ChannelInv
<1>2. Balanced(rec', channel', live')
  OBVIOUS
<1> QED
  BY <1>1, <1>2
     DEF ChannelInv, KeySlotOk, IsKeySlot, KeySlotAgrees, NoEncryption, Balanced, HoldersIn

LEMMA CountIs ==
    ASSUME NEW f, NEW dsc, NEW l, Balanced(f, dsc, l), NEW c \in Chans
    PROVE  /\ dsc[c] = [pid |-> dsc[c].pid, use |-> dsc[c].use, ref |-> dsc[c].ref]
           /\ dsc[c].ref \in Nat /\ Cardinality(HoldersIn(f, c)) \in Nat
           /\ l = c => dsc[c].ref = Cardinality(HoldersIn(f, c)) + 1
           /\ l # c => dsc[c].ref = Cardinality(HoldersIn(f, c))
<1>1. Cardinality(HoldersIn(f, c)) \in Nat
  BY HoldersFinite
<1> QED
  BY <1>1 DEF Balanced

LEMMA ChannelLive ==
    ASSUME ChannelInv, LiveTakes \/ LiveFrees
    PROVE  ChannelInv'
<1>1. UNCHANGED <<rec, rec_at>> /\ live \in Chans \cup {NoChan}
  BY DEF LiveTakes, LiveFrees, ChannelInv
<1>2. \A c \in Chans : /\ channel[c] = [pid |-> channel[c].pid, use |-> channel[c].use,
                                        ref |-> channel[c].ref]
                       /\ channel[c].ref \in Nat /\ Cardinality(HoldersIn(rec, c)) \in Nat
                       /\ live = c => channel[c].ref = Cardinality(HoldersIn(rec, c)) + 1
                       /\ live # c => channel[c].ref = Cardinality(HoldersIn(rec, c))
  BY CountIs DEF ChannelInv
<1>3. channel = [c \in Chans |-> channel[c]]
  BY DEF ChannelInv, Balanced
<1>4. CASE LiveTakes
  <2>1. PICK k \in Chans : live = NoChan /\ live' = k
                           /\ channel' = Taken(channel, k, VideoPid, "descramble")
    <3>1. ChannelFor(channel, VideoPid, "descramble") \in Chans \cup {NoChan}
      BY ChannelForIs
    <3> QED
      BY <1>4, <3>1 DEF LiveTakes
  <2>2. channel' = [channel EXCEPT ![k] = [pid |-> VideoPid, use |-> "descramble",
                                           ref |-> channel[k].ref + 1]]
    BY <2>1, NoSuchChan DEF Taken
  <2>3. channel'[k].ref = channel[k].ref + 1
        /\ \A c \in Chans : c # k => channel'[c] = channel[c]
    BY <1>3, <2>2
  <2>4. channel' = [c \in Chans |-> [pid |-> channel'[c].pid, use |-> channel'[c].use,
                                     ref |-> channel'[c].ref]]
    BY <1>2, <1>3, <2>2
  <2>5. ASSUME NEW c \in Chans
        PROVE  /\ channel'[c].ref \in Nat
               /\ channel'[c].ref = Cardinality(HoldersIn(rec, c)) + (IF k = c THEN 1 ELSE 0)
    <3>0. PICK n \in Nat : n = Cardinality(HoldersIn(rec, c)) /\ channel[c].ref = n
      BY <1>2, <2>1, NoSuchChan
    <3>1. CASE c = k
      BY <2>3, <3>0, <3>1
    <3>2. CASE c # k
      BY <2>3, <3>0, <3>2
    <3> QED
      BY <3>1, <3>2
  <2>6. Balanced(rec, channel', k)
    BY <2>4, <2>5 DEF Balanced
  <2> QED
    BY <1>1, <2>1, <2>6, ChannelKept
<1>5. CASE LiveFrees
  <2>1. live \in Chans /\ live' = NoChan
    BY <1>1, <1>5 DEF LiveFrees
  <2>2. channel[live].ref > 0
    <3>1. PICK n \in Nat : channel[live].ref = n + 1
      BY <1>2, <2>1
    <3> QED
      BY <3>1
  <2>3. channel' = [channel EXCEPT ![live].ref = channel[live].ref - 1]
    BY <1>5, <2>2 DEF LiveFrees
  <2>4. channel'[live].ref = channel[live].ref - 1
        /\ \A c \in Chans : c # live => channel'[c] = channel[c]
    BY <1>2, <1>3, <2>1, <2>3
  <2>5. channel' = [c \in Chans |-> [pid |-> channel'[c].pid, use |-> channel'[c].use,
                                     ref |-> channel'[c].ref]]
    BY <1>2, <1>3, <2>1, <2>3
  <2>6. ASSUME NEW c \in Chans
        PROVE  /\ channel'[c].ref \in Nat
               /\ channel'[c].ref = Cardinality(HoldersIn(rec, c)) + (IF NoChan = c THEN 1 ELSE 0)
    <3>0. PICK n \in Nat : /\ n = Cardinality(HoldersIn(rec, c))
                           /\ live = c => channel[c].ref = n + 1
                           /\ live # c => channel[c].ref = n
      BY <1>2
    <3>1. CASE c = live
      BY <2>1, <2>4, <3>0, <3>1, NoSuchChan
    <3>2. CASE c # live
      BY <2>1, <2>4, <3>0, <3>2, NoSuchChan
    <3> QED
      BY <3>1, <3>2
  <2>7. Balanced(rec, channel', NoChan)
    BY <2>5, <2>6 DEF Balanced
  <2> QED
    BY <1>1, <2>1, <2>7, ChannelKept
<1> QED
  BY <1>4, <1>5

LEMMA ChannelNext ==
    ASSUME ~EncryptsFirst, \A pid \in AudioPids : pid > 255
    PROVE  ChannelInv /\ [RecNext]_recVars => ChannelInv'
<1> SUFFICES ASSUME ChannelInv, [RecNext]_recVars PROVE ChannelInv'
  OBVIOUS
<1>1. CASE UNCHANGED recVars
  <2>1. Balanced(rec, channel', live') /\ live' \in Chans \cup {NoChan}
    BY <1>1 DEF recVars, ChannelInv
  <2> QED
    BY <1>1, <2>1, ChannelKept DEF recVars
<1>2. ASSUME NEW r \in Recorders, RecCaller(r)
      PROVE  ChannelInv'
  BY <1>2, ChannelAcquire, ChannelPrepare, ChannelKeyCalls, ChannelKeyAudio, ChannelVideos,
     ChannelEncryptAudio, ChannelRelease, ChannelRecordStart, ChannelCreate, ChannelStartLib,
     ChannelStates, ChannelGiveBack, ChannelDestroy DEF RecCaller
<1> QED
  BY <1>1, <1>2, ChannelEvents, ChannelLive DEF RecNext

(***************************************************************************)
(* Every reference to a descrambler channel is one that a recorder or the  *)
(* live service gives back, on every way a recording starts, fails or      *)
(* ends, when encryption is asked of a recorder that is there and no audio *)
(* PID is one of the 256 that STB_PVRApplyDescramblerKey can find in its   *)
(* bytes.                                                                  *)
(***************************************************************************)
THEOREM ChannelsTheorem ==
    ASSUME ~EncryptsFirst, \A pid \in AudioPids : pid > 255
    PROVE  RecSpec => []ChannelsBalanced
<1>1. ChannelInv /\ [RecNext]_recVars => ChannelInv'
  BY ChannelNext
<1> QED
  BY <1>1, ChannelInit, ChannelInvSuffices, PTL DEF RecSpec

(***************************************************************************)
(* And with the secure buffers: whatever recorders took they know to give  *)
(* back, under what the two theorems assume together.                      *)
(***************************************************************************)
THEOREM TakenIsKnownTheorem ==
    ASSUME "create smp" \notin StartFails, ~EncryptsFirst, \A pid \in AudioPids : pid > 255
    PROVE  RecSpec => []TakenIsKnown
<1>1. ChannelsBalanced /\ SecmemsOwned => TakenIsKnown
  BY DEF TakenIsKnown
<1>2. RecSpec => []ChannelsBalanced
  BY ChannelsTheorem
<1>3. RecSpec => []SecmemsOwned
  BY SecmemsTheorem
<1> QED
  BY <1>1, <1>2, <1>3, PTL

------------------------------------------------------------------------------
(* The list of disks.                                                      *)

AddressesOf(list) == {list[i].at : i \in 1 .. Len(list)}
PathsOf(list) == {list[i].path : i \in 1 .. Len(list)}

(* No two entries have one address or one path.                            *)
ListOk(list) ==
    /\ \E S : list \in Seq(S)
    /\ \A i \in 1 .. Len(list) : /\ {"at", "path", "id"} \subseteq DOMAIN list[i]
                                 /\ list[i].at \in 1 .. MaxDisks /\ list[i].path \in DiskPaths
    /\ \A i, j \in 1 .. Len(list) :
          i # j => list[i].at # list[j].at /\ list[i].path # list[j].path

LEMMA ListIsSeq ==
    ASSUME NEW list, ListOk(list)
    PROVE  Len(list) \in Nat /\ DOMAIN list = 1 .. Len(list)
           /\ list \in Seq(Range(list)) /\ Range(list) = {list[i] : i \in 1 .. Len(list)}
<1>1. PICK S : list \in Seq(S)
  BY DEF ListOk
<1>2. Len(list) \in Nat /\ DOMAIN list = 1 .. Len(list) /\ list \in [1 .. Len(list) -> S]
  BY <1>1, LenProperties
<1>3. Range(list) = {list[i] : i \in 1 .. Len(list)}
  BY <1>2 DEF Range
<1>4. list \in [1 .. Len(list) -> Range(list)]
  BY <1>2, <1>3
<1> QED
  BY <1>2, <1>3, <1>4, SeqDef

(* An entry taken out: those behind it move up.                            *)
LEMMA WithoutOne ==
    ASSUME NEW list, ListOk(list), NEW i \in 1 .. Len(list)
    PROVE  LET r == RemoveAt(list, i)
               n == Len(list)
           IN  /\ n \in Nat /\ r \in Seq(Range(list)) /\ Len(r) = n - 1
               /\ \A j \in 1 .. n - 1 : r[j] = IF j < i THEN list[j] ELSE list[j + 1]
<1> DEFINE S == Range(list)
           n == Len(list)
           front == SubSeq(list, 1, i - 1)
           rest == SubSeq(list, i + 1, n)
<1>1. n \in Nat /\ list \in Seq(S)
  BY ListIsSeq
<1>2. /\ front \in Seq(S) /\ Len(front) = i - 1 /\ \A j \in 1 .. i - 1 : front[j] = list[j]
  BY <1>1, SubSeqProperties
<1>3. /\ rest \in Seq(S) /\ Len(rest) = n - i /\ \A j \in 1 .. n - i : rest[j] = list[i + j]
  BY <1>1, SubSeqProperties
<1> PICK r : r = RemoveAt(list, i)
  OBVIOUS
<1>4. r = front \o rest
  BY DEF RemoveAt
<1>5. /\ r \in Seq(S) /\ Len(r) = n - 1
      /\ \A j \in 1 .. n - 1 : r[j] = IF j < i THEN list[j] ELSE list[j + 1]
  <2> HIDE DEF S, n, front, rest
  <2>1. /\ front \o rest \in Seq(S) /\ Len(front \o rest) = Len(front) + Len(rest)
        /\ \A j \in 1 .. Len(front) + Len(rest) :
              (front \o rest)[j] = IF j <= Len(front) THEN front[j] ELSE rest[j - Len(front)]
    BY <1>2, <1>3, ConcatProperties
  <2>2. Len(front) + Len(rest) = n - 1 /\ i \in 1 .. n
    BY <1>1, <1>2, <1>3 DEF n
  <2>3. ASSUME NEW j \in 1 .. n - 1 PROVE r[j] = IF j < i THEN list[j] ELSE list[j + 1]
    <3>1. r[j] = IF j <= i - 1 THEN front[j] ELSE rest[j - (i - 1)]
      BY <1>2, <1>4, <2>1, <2>2
    <3>2. CASE j < i
      BY <1>1, <1>2, <2>2, <3>1, <3>2
    <3>3. CASE ~(j < i)
      <4>1. PICK k : k = j - (i - 1)
        OBVIOUS
      <4>2. k \in 1 .. n - i /\ i + k = j + 1 /\ ~(j <= i - 1)
        BY <1>1, <2>2, <3>3, <4>1
      <4>3. r[j] = rest[k]
        BY <3>1, <4>1, <4>2
      <4> QED
        BY <1>3, <3>3, <4>2, <4>3
    <3> QED
      BY <3>2, <3>3
  <2> QED
    BY <1>4, <2>1, <2>2, <2>3
<1> QED
  BY <1>1, <1>5

LEMMA TakenOut ==
    ASSUME NEW list, ListOk(list), NEW i \in 1 .. Len(list)
    PROVE  /\ ListOk(RemoveAt(list, i))
           /\ AddressesOf(RemoveAt(list, i)) = AddressesOf(list) \ {list[i].at}
           /\ PathsOf(RemoveAt(list, i)) = PathsOf(list) \ {list[i].path}
<1> DEFINE S == Range(list)
           n == Len(list)
<1> PICK r : r = RemoveAt(list, i)
  OBVIOUS
<1>1. n \in Nat
  BY ListIsSeq
<1>2. /\ r \in Seq(S) /\ Len(r) = n - 1
      /\ \A j \in 1 .. n - 1 : r[j] = IF j < i THEN list[j] ELSE list[j + 1]
  BY WithoutOne
<1> HIDE DEF S, n
<1>3. \A j \in 1 .. n - 1 : \E k \in 1 .. n : k # i /\ r[j] = list[k]
  <2> SUFFICES ASSUME NEW j \in 1 .. n - 1 PROVE \E k \in 1 .. n : k # i /\ r[j] = list[k]
    OBVIOUS
  <2>1. CASE j < i
    <3>1. j \in 1 .. n /\ j # i /\ r[j] = list[j]
      BY <1>1, <1>2, <2>1 DEF n
    <3> QED
      BY <3>1
  <2>2. CASE ~(j < i)
    <3>1. j + 1 \in 1 .. n /\ j + 1 # i
      BY <1>1, <2>2 DEF n
    <3>2. r[j] = list[j + 1]
      BY <1>2, <2>2
    <3> QED
      BY <3>1, <3>2
  <2> QED
    BY <2>1, <2>2
<1>4. \A k \in 1 .. n : k # i => \E j \in 1 .. n - 1 : r[j] = list[k]
  <2> SUFFICES ASSUME NEW k \in 1 .. n, k # i PROVE \E j \in 1 .. n - 1 : r[j] = list[k]
    OBVIOUS
  <2>1. CASE k < i
    <3>1. k \in 1 .. n - 1
      BY <1>1, <2>1 DEF n
    <3> QED
      BY <1>2, <2>1, <3>1
  <2>2. CASE k > i
    <3>1. k - 1 \in 1 .. n - 1 /\ ~(k - 1 < i) /\ (k - 1) + 1 = k
      BY <1>1, <2>2 DEF n
    <3> QED
      BY <1>2, <3>1
  <2> QED
    BY <1>1, <2>1, <2>2 DEF n
<1>5. ListOk(r)
  <2>1. \A j, k \in 1 .. n - 1 : j # k => r[j].at # r[k].at /\ r[j].path # r[k].path
    <3> SUFFICES ASSUME NEW j \in 1 .. n - 1, NEW k \in 1 .. n - 1, j # k
                 PROVE  r[j].at # r[k].at /\ r[j].path # r[k].path
      OBVIOUS
    <3>1. PICK a \in 1 .. n : a = IF j < i THEN j ELSE j + 1
      BY <1>1
    <3>2. PICK b \in 1 .. n : b = IF k < i THEN k ELSE k + 1
      BY <1>1
    <3>3. a # b
      BY <1>1, <3>1, <3>2 DEF n
    <3>4. r[j] = list[a] /\ r[k] = list[b]
      BY <1>2, <3>1, <3>2
    <3> QED
      BY <3>3, <3>4 DEF ListOk, n
  <2>2. \A j \in 1 .. n - 1 : /\ {"at", "path", "id"} \subseteq DOMAIN r[j]
                              /\ r[j].at \in 1 .. MaxDisks /\ r[j].path \in DiskPaths
    BY <1>3 DEF ListOk, n
  <2> QED
    BY <1>2, <2>1, <2>2 DEF ListOk
<1>6. AddressesOf(r) = AddressesOf(list) \ {list[i].at}
  <2>1. \A k \in 1 .. n : k # i => list[k].at # list[i].at
    BY DEF ListOk, n
  <2>2. ASSUME NEW x PROVE x \in AddressesOf(r) <=> (x \in AddressesOf(list) /\ x # list[i].at)
    <3>1. x \in AddressesOf(r) <=> \E j \in 1 .. n - 1 : x = r[j].at
      BY <1>2 DEF AddressesOf
    <3>2. x \in AddressesOf(list) <=> \E k \in 1 .. n : x = list[k].at
      BY DEF AddressesOf, n
    <3>3. ASSUME NEW j \in 1 .. n - 1, x = r[j].at
          PROVE  \E k \in 1 .. n : x = list[k].at /\ x # list[i].at
      <4>1. PICK k \in 1 .. n : k # i /\ r[j] = list[k]
        BY <1>3
      <4> QED
        BY <2>1, <3>3, <4>1
    <3>4. ASSUME NEW k \in 1 .. n, x = list[k].at, x # list[i].at
          PROVE  \E j \in 1 .. n - 1 : x = r[j].at
      <4>1. k # i
        BY <3>4
      <4>2. PICK j \in 1 .. n - 1 : r[j] = list[k]
        BY <1>4, <4>1
      <4> QED
        BY <3>4, <4>2
    <3> QED
      BY <3>1, <3>2, <3>3, <3>4
  <2> QED
    BY <2>2
<1>7. PathsOf(r) = PathsOf(list) \ {list[i].path}
  <2>1. \A k \in 1 .. n : k # i => list[k].path # list[i].path
    BY DEF ListOk, n
  <2>2. ASSUME NEW x PROVE x \in PathsOf(r) <=> (x \in PathsOf(list) /\ x # list[i].path)
    <3>1. x \in PathsOf(r) <=> \E j \in 1 .. n - 1 : x = r[j].path
      BY <1>2 DEF PathsOf
    <3>2. x \in PathsOf(list) <=> \E k \in 1 .. n : x = list[k].path
      BY DEF PathsOf, n
    <3>3. ASSUME NEW j \in 1 .. n - 1, x = r[j].path
          PROVE  \E k \in 1 .. n : x = list[k].path /\ x # list[i].path
      <4>1. PICK k \in 1 .. n : k # i /\ r[j] = list[k]
        BY <1>3
      <4> QED
        BY <2>1, <3>3, <4>1
    <3>4. ASSUME NEW k \in 1 .. n, x = list[k].path, x # list[i].path
          PROVE  \E j \in 1 .. n - 1 : x = r[j].path
      <4>1. k # i
        BY <3>4
      <4>2. PICK j \in 1 .. n - 1 : r[j] = list[k]
        BY <1>4, <4>1
      <4> QED
        BY <3>4, <4>2
    <3> QED
      BY <3>1, <3>2, <3>3, <3>4
  <2> QED
    BY <2>2
<1> QED
  BY <1>5, <1>6, <1>7

(* Entries that only change what they say of themselves.                   *)
SameEntries(list, r) ==
    /\ r \in Seq(Range(r)) /\ Len(r) = Len(list)
    /\ \A i \in 1 .. Len(list) : /\ {"at", "path", "id"} \subseteq DOMAIN r[i]
                                 /\ r[i].at = list[i].at /\ r[i].path = list[i].path
                                 /\ r[i].id = list[i].id

LEMMA SameIsOk ==
    ASSUME NEW list, ListOk(list), NEW r, SameEntries(list, r)
    PROVE  ListOk(r) /\ AddressesOf(r) = AddressesOf(list) /\ PathsOf(r) = PathsOf(list)
<1>1. ListOk(r)
  BY DEF ListOk, SameEntries
<1>2. AddressesOf(r) = AddressesOf(list)
  BY DEF SameEntries, AddressesOf
<1>3. PathsOf(r) = PathsOf(list)
  BY DEF SameEntries, PathsOf
<1> QED
  BY <1>1, <1>2, <1>3

(* A list made from another one entry by entry is a list.                  *)
LEMMA EntryByEntry ==
    ASSUME NEW list, ListOk(list), NEW r, DOMAIN r = DOMAIN list,
           r = [i \in DOMAIN r |-> r[i]],
           \A i \in DOMAIN list : /\ {"at", "path", "id"} \subseteq DOMAIN r[i]
                                  /\ r[i].at = list[i].at /\ r[i].path = list[i].path
                                  /\ r[i].id = list[i].id
    PROVE  SameEntries(list, r)
<1>1. Len(list) \in Nat /\ DOMAIN list = 1 .. Len(list)
  BY ListIsSeq
<1>2. r \in [1 .. Len(list) -> Range(r)]
  BY <1>1 DEF Range
<1>3. r \in Seq(Range(r))
  BY <1>1, <1>2, SeqDef
<1>4. Len(r) = Len(list)
  <2>1. Len(r) \in Nat /\ DOMAIN r = 1 .. Len(r)
    BY <1>3, LenProperties
  <2> QED
    BY <1>1, <2>1
<1> QED
  BY <1>1, <1>3, <1>4 DEF SameEntries

LEMMA SyncedIsSame ==
    ASSUME NEW list, ListOk(list), NEW m
    PROVE  SameEntries(list, SyncedWith(list, m))
<1> PICK r : r = SyncedWith(list, m)
  OBVIOUS
<1>1. DOMAIN r = DOMAIN list /\ r = [i \in DOMAIN r |-> r[i]]
  BY DEF SyncedWith
<1>2. \A i \in DOMAIN list : r[i] = list[i] \/ r[i] = [list[i] EXCEPT !.removeable = m.removeable]
  BY DEF SyncedWith
<1>3. \A i \in DOMAIN list : {"at", "path", "id"} \subseteq DOMAIN list[i]
  BY ListIsSeq DEF ListOk
<1>4. \A i \in DOMAIN list : /\ {"at", "path", "id"} \subseteq DOMAIN r[i]
                             /\ r[i].at = list[i].at /\ r[i].path = list[i].path
                             /\ r[i].id = list[i].id
  BY <1>2, <1>3
<1> QED
  BY <1>1, <1>4, EntryByEntry

LEMMA MarkedIsSame ==
    ASSUME NEW list, ListOk(list), NEW m
    PROVE  SameEntries(list, Marked(list, m))
<1> PICK r : r = Marked(list, m)
  OBVIOUS
<1>1. DOMAIN r = DOMAIN list /\ r = [i \in DOMAIN r |-> r[i]]
  BY DEF Marked
<1>2. \A i \in DOMAIN list : r[i] = list[i] \/ r[i] = [list[i] EXCEPT !.found = TRUE]
  BY DEF Marked
<1>3. \A i \in DOMAIN list : {"at", "path", "id"} \subseteq DOMAIN list[i]
  BY ListIsSeq DEF ListOk
<1>4. \A i \in DOMAIN list : /\ {"at", "path", "id"} \subseteq DOMAIN r[i]
                             /\ r[i].at = list[i].at /\ r[i].path = list[i].path
                             /\ r[i].id = list[i].id
  BY <1>2, <1>3
<1> QED
  BY <1>1, <1>4, EntryByEntry

LEMMA CountUpTo == ASSUME NEW n \in Nat PROVE Cardinality(1 .. n) = n
<1>1. Cardinality(1 .. n) = IF 1 > n THEN 0 ELSE n - 1 + 1
  BY FS_Interval
<1> QED
  BY <1>1

(* Paths that are not in the list leave room for an address.               *)
LEMMA RoomForOne ==
    ASSUME NEW list, ListOk(list), NEW p \in DiskPaths, p \notin PathsOf(list)
    PROVE  FreeAddress(list) \in 1 .. MaxDisks /\ FreeAddress(list) \notin AddressesOf(list)
<1> DEFINE n == Len(list)
<1>1. n \in Nat /\ DOMAIN list = 1 .. n /\ Range(list) = {list[i] : i \in 1 .. n}
  BY ListIsSeq
<1>2. n < Cardinality(DiskPaths)
  <2> DEFINE others == DiskPaths \ {p}
             f == [i \in 1 .. n |-> list[i].path]
  <2>1. f \in Injection(1 .. n, others)
    <3>1. f \in [1 .. n -> others]
      BY DEF ListOk, PathsOf
    <3>2. \A i, j \in 1 .. n : f[i] = f[j] => i = j
      BY DEF ListOk
    <3> QED
      BY <3>1, <3>2 DEF Injection, IsInjective
  <2>2. IsFiniteSet(others) /\ Cardinality(others) = Cardinality(DiskPaths) - 1
    BY AddressAssumption, FS_RemoveElement
  <2>3. Cardinality(1 .. n) <= Cardinality(others)
    BY <2>1, <2>2, FS_Injection
  <2>4. Cardinality(1 .. n) = n
    BY <1>1, CountUpTo
  <2>5. Cardinality(DiskPaths) \in Nat
    BY AddressAssumption, FS_CardinalityType
  <2> QED
    BY <1>1, <2>2, <2>3, <2>4, <2>5
<1>3. n < MaxDisks /\ MaxDisks \in Nat
  BY <1>1, <1>2, AddressAssumption, DiskAssumption, FS_CardinalityType
<1>4. \E a \in 1 .. MaxDisks : a \notin AddressesOf(list)
  <2> SUFFICES ASSUME 1 .. MaxDisks \subseteq AddressesOf(list) PROVE FALSE
    OBVIOUS
  <2> DEFINE f == [i \in 1 .. n |-> list[i].at]
  <2>1. f \in Surjection(1 .. n, 1 .. MaxDisks)
    <3>1. f \in [1 .. n -> 1 .. MaxDisks]
      BY DEF ListOk
    <3>2. \A a \in 1 .. MaxDisks : \E i \in 1 .. n : f[i] = a
      BY DEF AddressesOf
    <3> QED
      BY <3>1, <3>2 DEF Surjection
  <2>2. Cardinality(1 .. MaxDisks) <= Cardinality(1 .. n)
    BY <1>1, <2>1, FS_Surjection, FS_Interval
  <2>3. Cardinality(1 .. n) = n /\ Cardinality(1 .. MaxDisks) = MaxDisks
    BY <1>1, <1>3, CountUpTo
  <2> QED
    BY <1>1, <1>3, <2>2, <2>3
<1>5. \E a \in 1 .. MaxDisks : \A e \in Range(list) : e.at # a
  BY <1>1, <1>4 DEF AddressesOf
<1>6. /\ FreeAddress(list) \in 1 .. MaxDisks
      /\ \A e \in Range(list) : e.at # FreeAddress(list)
  BY <1>5 DEF FreeAddress
<1> QED
  BY <1>1, <1>6 DEF AddressesOf

(* A new entry, of a path that was not in the list.                        *)
OneMore(list, r, path, id) ==
    /\ Len(list) \in Nat /\ Len(r) = Len(list) + 1
    /\ \A i \in 1 .. Len(list) : /\ r[i].at = list[i].at /\ r[i].path = list[i].path
                                 /\ r[i].id = list[i].id
    /\ r[Len(r)].at \notin AddressesOf(list) \cup {NULL}
    /\ r[Len(r)].path = path /\ r[Len(r)].id = id

LEMMA PutIn ==
    ASSUME NEW list, ListOk(list), NEW m, m.path \in DiskPaths, m.path \notin PathsOf(list)
    PROVE  /\ ListOk(AddDisk(list, m)) /\ AddressesOf(list) \subseteq AddressesOf(AddDisk(list, m))
           /\ OneMore(list, AddDisk(list, m), m.path, IdFor(m))
<1> PICK old : old = SyncedWith(list, m)
  OBVIOUS
<1> PICK e : e = [at |-> FreeAddress(list), dev |-> m.dev, path |-> m.path, id |-> IdFor(m),
                  removeable |-> m.dev = "user" \/ m.removeable, found |-> TRUE]
  OBVIOUS
<1> PICK r : r = Append(old, e)
  OBVIOUS
<1>1. r = AddDisk(list, m)
  BY DEF AddDisk
<1>2. /\ ListOk(old) /\ AddressesOf(old) = AddressesOf(list) /\ PathsOf(old) = PathsOf(list)
  BY SyncedIsSame, SameIsOk
<1>3. /\ {"at", "path", "id"} \subseteq DOMAIN e /\ e.path = m.path
      /\ e.at \in 1 .. MaxDisks /\ e.at \notin AddressesOf(old)
  BY <1>2, RoomForOne
<1>4. old \in Seq(Range(old) \cup {e}) /\ Len(old) \in Nat
  BY <1>2, ListIsSeq, SeqMonotonic
<1>5. /\ r \in Seq(Range(old) \cup {e}) /\ Len(r) = Len(old) + 1
      /\ \A i \in 1 .. Len(old) : r[i] = old[i]
      /\ r[Len(old) + 1] = e
  BY <1>4, AppendProperties
<1>6. \A i \in 1 .. Len(r) : i \in 1 .. Len(old) \/ i = Len(old) + 1
  BY <1>4, <1>5
<1>7. \A i \in 1 .. Len(old) : old[i].at # e.at /\ old[i].path # e.path
  BY <1>2, <1>3 DEF AddressesOf, PathsOf
<1>8. \A i, j \in 1 .. Len(r) : i # j => r[i].at # r[j].at /\ r[i].path # r[j].path
  <2>1. \A i, j \in 1 .. Len(old) : i # j => old[i].at # old[j].at /\ old[i].path # old[j].path
    BY <1>2 DEF ListOk
  <2> QED
    BY <1>5, <1>6, <1>7, <2>1
<1>9. \A i \in 1 .. Len(r) : /\ {"at", "path", "id"} \subseteq DOMAIN r[i]
                             /\ r[i].at \in 1 .. MaxDisks /\ r[i].path \in DiskPaths
  BY <1>2, <1>3, <1>5, <1>6 DEF ListOk
<1>10. ListOk(r)
  BY <1>5, <1>8, <1>9 DEF ListOk
<1>11. AddressesOf(old) \subseteq AddressesOf(r)
  BY <1>4, <1>5 DEF AddressesOf
<1>12. OneMore(list, r, m.path, IdFor(m))
  <2>1. /\ Len(old) = Len(list)
        /\ \A i \in 1 .. Len(list) : /\ old[i].at = list[i].at /\ old[i].path = list[i].path
                                     /\ old[i].id = list[i].id
    BY SyncedIsSame DEF SameEntries
  <2>2. e.id = IdFor(m) /\ e.path = m.path /\ e.at \notin AddressesOf(list) \cup {NULL}
    BY <1>2, <1>3, DiskAssumption DEF NULL
  <2> QED
    BY <1>4, <1>5, <2>1, <2>2 DEF OneMore
<1> QED
  BY <1>1, <1>2, <1>10, <1>11, <1>12

------------------------------------------------------------------------------
(* The loops over the list.                                                *)

LEMMA PlaceIsThere ==
    ASSUME NEW list, ListOk(list), NEW at \in AddressesOf(list)
    PROVE  PlaceOf(list, at) \in 1 .. Len(list) /\ list[PlaceOf(list, at)].at = at
<1>1. DOMAIN list = 1 .. Len(list)
  BY ListIsSeq
<1>2. \E i \in DOMAIN list : list[i].at = at
  BY <1>1 DEF AddressesOf
<1> QED
  BY <1>1, <1>2 DEF PlaceOf

LEMMA RemovedIsOk ==
    ASSUME NEW list, ListOk(list), NEW at \in AddressesOf(list)
    PROVE  /\ ListOk(RemoveDisk(list, at))
           /\ AddressesOf(RemoveDisk(list, at)) = AddressesOf(list) \ {at}
           /\ PathsOf(RemoveDisk(list, at)) = PathsOf(list) \ {list[PlaceOf(list, at)].path}
BY PlaceIsThere, TakenOut DEF RemoveDisk

(* The next entry is another one.                                          *)
LEMMA NextIsAnother ==
    ASSUME ListOk(disk_list), NEW at \in AddressesOf(disk_list)
    PROVE  NextAt(at) \in (AddressesOf(disk_list) \ {at}) \cup {NULL}
<1> PICK i : i = PlaceOf(disk_list, at)
  OBVIOUS
<1>1. i \in 1 .. Len(disk_list) /\ disk_list[i].at = at /\ Len(disk_list) \in Nat
  BY PlaceIsThere, ListIsSeq
<1>2. CASE i = Len(disk_list)
  BY <1>2 DEF NextAt
<1>3. CASE i # Len(disk_list)
  <2>1. i + 1 \in 1 .. Len(disk_list) /\ i + 1 # i
    BY <1>1, <1>3
  <2>2. disk_list[i + 1].at # at
    BY <1>1, <2>1 DEF ListOk
  <2> QED
    BY <1>3, <2>1, <2>2 DEF NextAt, AddressesOf
<1> QED
  BY <1>2, <1>3

LEMMA FirstIsThere ==
    ASSUME ListOk(disk_list)
    PROVE  FirstAt(disk_list) \in AddressesOf(disk_list) \cup {NULL}
<1>1. CASE disk_list = <<>>
  BY <1>1 DEF FirstAt
<1>2. CASE disk_list # <<>>
  <2>1. 1 \in 1 .. Len(disk_list)
    BY <1>2, ListIsSeq, EmptySeq
  <2> QED
    BY <1>2, <2>1 DEF FirstAt, AddressesOf
<1> QED
  BY <1>1, <1>2

LEMMA AddressesAre == ListOk(disk_list) => Addresses = AddressesOf(disk_list)
BY ListIsSeq DEF Addresses, Entries, AddressesOf

(* The loop over the list holds a disk from the end of the file to the end *)
(* of the list, the inner one while it looks for related disks; all but    *)
(* the events are under the mutex.                                         *)
Sweeping == {"sweep", "say removed", "collect", "related", "say related"}
Relating == {"related", "say related"}

WalkInv ==
    /\ ListOk(disk_list)
    /\ disk \in AddressesOf(disk_list) \cup {NULL}
    /\ disk2 \in AddressesOf(disk_list) \cup {NULL}
    /\ monitor \notin Sweeping => disk = NULL
    /\ monitor \notin Relating => disk2 = NULL
    /\ lines \subseteq DOMAIN Mounts

(* What a call of the stack leaves of the list, and what it puts there.    *)
RestOf(path) ==
    IF Listed(path)
    THEN RemoveDisk(disk_list, (CHOOSE e \in Entries : e.path = path).at) ELSE disk_list

LEMMA RestIsOk ==
    ASSUME ListOk(disk_list), NEW path
    PROVE  /\ ListOk(RestOf(path)) /\ path \notin PathsOf(RestOf(path))
           /\ Listed(path) => \E p \in 1 .. Len(disk_list) :
                disk_list[p].path = path /\ RestOf(path) = RemoveAt(disk_list, p)
<1>1. Entries = {disk_list[i] : i \in 1 .. Len(disk_list)}
  BY ListIsSeq DEF Entries
<1>2. Listed(path) <=> path \in PathsOf(disk_list)
  BY <1>1 DEF Listed, PathsOf
<1>3. CASE ~Listed(path)
  BY <1>2, <1>3 DEF RestOf
<1>4. CASE Listed(path)
  <2> PICK e : e = CHOOSE d \in Entries : d.path = path
    OBVIOUS
  <2>1. e \in Entries /\ e.path = path /\ RestOf(path) = RemoveDisk(disk_list, e.at)
    BY <1>4 DEF Listed, RestOf
  <2>2. PICK i \in 1 .. Len(disk_list) : disk_list[i] = e
    BY <1>1, <2>1
  <2>3. e.at \in AddressesOf(disk_list)
    BY <2>2 DEF AddressesOf
  <2>4. PICK k \in 1 .. Len(disk_list) : k = PlaceOf(disk_list, e.at) /\ disk_list[k].at = e.at
    BY <2>3, PlaceIsThere
  <2>5. k = i
    BY <2>2, <2>4 DEF ListOk
  <2>6. disk_list[i].path = path /\ RestOf(path) = RemoveAt(disk_list, i)
    BY <2>1, <2>2, <2>4, <2>5 DEF RemoveDisk
  <2> QED
    BY <2>6, TakenOut
<1> QED
  BY <1>3, <1>4

LEMMA AddedIsOk ==
    ASSUME ListOk(disk_list), NEW path \in UserPaths \cup {DefaultPath},
           NEW opens \in BOOLEAN, NEW makes \in BOOLEAN
    PROVE  /\ ListOk(AddedPath(path, opens, makes))
           /\ (Listed(path) => opens) =>
                 AddressesOf(disk_list) \subseteq AddressesOf(AddedPath(path, opens, makes))
           /\ IF Listed(path) /\ opens THEN AddedPath(path, opens, makes) = disk_list
              ELSE \/ AddedPath(path, opens, makes) = RestOf(path)
                   \/ OneMore(RestOf(path), AddedPath(path, opens, makes), path,
                              NextId(User(path)))
<1>1. CASE Listed(path) /\ opens
  BY <1>1 DEF AddedPath
<1>2. CASE ~(Listed(path) /\ opens)
  <2>1. User(path).path = path /\ path \in DiskPaths /\ User(path).number = 0
    BY DEF User, DiskPaths
  <2>2. ListOk(RestOf(path)) /\ path \notin PathsOf(RestOf(path))
    BY RestIsOk
  <2>3. /\ ListOk(AddDisk(RestOf(path), User(path)))
        /\ AddressesOf(RestOf(path)) \subseteq AddressesOf(AddDisk(RestOf(path), User(path)))
        /\ OneMore(RestOf(path), AddDisk(RestOf(path), User(path)), User(path).path,
                   IdFor(User(path)))
    BY <2>1, <2>2, PutIn
  <2>4. IdFor(User(path)) = NextId(User(path))
    BY <2>1 DEF IdFor
  <2>5. AddedPath(path, opens, makes) \in {AddDisk(RestOf(path), User(path)), RestOf(path)}
    BY <1>2 DEF AddedPath, RestOf
  <2>6. (Listed(path) => opens) => RestOf(path) = disk_list
    BY <1>2 DEF RestOf
  <2> QED
    BY <1>2, <2>1, <2>2, <2>3, <2>4, <2>5, <2>6
<1> QED
  BY <1>1, <1>2


LEMMA AddKeepsWalk ==
    ASSUME CalmAdds, WalkInv, NEW path \in UserPaths \cup {DefaultPath}, AddDevicePath(path),
           UNCHANGED <<disk, disk2, lines>>,
           monitor' = monitor \/ (monitor = "begin" /\ monitor' = "mark")
    PROVE  WalkInv'
<1>1. PICK opens \in BOOLEAN, makes \in BOOLEAN :
          /\ disk_list' = AddedPath(path, opens, makes)
          /\ monitor # "wait" => (Listed(path) => opens)
  BY DEF AddDevicePath
<1>2. /\ ListOk(disk_list')
      /\ (Listed(path) => opens) => AddressesOf(disk_list) \subseteq AddressesOf(disk_list')
  BY <1>1, AddedIsOk DEF WalkInv
<1>3. {disk, disk2} \subseteq AddressesOf(disk_list') \cup {NULL}
  <2>1. CASE monitor = "wait"
    BY <2>1 DEF WalkInv, Sweeping, Relating
  <2>2. CASE monitor # "wait"
    BY <1>1, <1>2, <2>2 DEF WalkInv
  <2> QED
    BY <2>1, <2>2
<1> QED
  BY <1>2, <1>3 DEF WalkInv, Sweeping, Relating

LEMMA CallsKeepWalk ==
    ASSUME CalmAdds, WalkInv,
           \/ Begin
           \/ \E path \in UserPaths : DSKAddDevicePath(path)
           \/ \E e \in Entries : DSKLoadDevicePath(e)
           \/ \E refresh \in BOOLEAN : DSKSetRefresh(refresh)
           \/ \E m \in Range(Mounts) : Plug(m)
    PROVE  WalkInv'
<1>1. CASE Begin
  <2>1. AddDevicePath(DefaultPath) /\ monitor = "begin" /\ monitor' = "mark"
        /\ UNCHANGED <<disk, disk2, lines>>
    BY <1>1 DEF Begin
  <2> QED
    BY <2>1, AddKeepsWalk
<1>2. CASE \E path \in UserPaths : DSKAddDevicePath(path)
  <2>1. PICK path \in UserPaths :
            AddDevicePath(path) /\ UNCHANGED <<disk, disk2, lines>> /\ monitor' = monitor
    BY <1>2 DEF DSKAddDevicePath, taskVars
  <2>2. path \in UserPaths \cup {DefaultPath}
    OBVIOUS
  <2>3. monitor' = monitor \/ (monitor = "begin" /\ monitor' = "mark")
    BY <2>1
  <2> QED
    BY <2>1, <2>2, <2>3, AddKeepsWalk, Zenon
<1>3. CASE UNCHANGED <<disk_list, taskVars>>
  BY <1>3 DEF WalkInv, taskVars
<1> QED
  BY <1>1, <1>2, <1>3 DEF DSKLoadDevicePath, DSKSetRefresh, Plug, taskVars, listVars

LEMMA MarkIsSame ==
    ASSUME ListOk(disk_list), Mark
    PROVE  SameEntries(disk_list, disk_list')
<1> PICK r : r = disk_list'
  OBVIOUS
<1>1. r = [i \in DOMAIN disk_list |->
             [disk_list[i] EXCEPT !.found = @ /\ ~disk_list[i].removeable]]
  BY DEF Mark
<1>2. \A i \in DOMAIN disk_list : {"at", "path", "id"} \subseteq DOMAIN disk_list[i]
  BY ListIsSeq DEF ListOk
<1>3. \A i \in DOMAIN disk_list : /\ {"at", "path", "id"} \subseteq DOMAIN r[i]
                                  /\ r[i].at = disk_list[i].at /\ r[i].path = disk_list[i].path
                                  /\ r[i].id = disk_list[i].id
  BY <1>1, <1>2
<1>4. DOMAIN r = DOMAIN disk_list /\ r = [i \in DOMAIN r |-> r[i]]
  BY <1>1
<1> QED
  BY <1>3, <1>4, EntryByEntry

LEMMA MarkKeepsWalk ==
    ASSUME WalkInv, Mark
    PROVE  WalkInv'
<1>1. ListOk(disk_list') /\ AddressesOf(disk_list') = AddressesOf(disk_list)
  BY MarkIsSame, SameIsOk DEF WalkInv
<1> QED
  BY <1>1 DEF WalkInv, Mark, Sweeping, Relating

LEMMA LineKeepsWalk ==
    ASSUME WalkInv, Line
    PROVE  WalkInv'
<1> PICK n : n = FirstLine
  OBVIOUS
<1> PICK m : m = Mounts[n]
  OBVIOUS
<1>1. n \in lines /\ m.path \in DiskPaths
  <2>1. lines \subseteq Nat /\ lines # {} /\ lines \subseteq DOMAIN Mounts
    BY MountsAssumption DEF WalkInv, Line
  <2>2. n \in lines
    BY <2>1, Least DEF FirstLine
  <2> QED
    BY <2>1, <2>2 DEF DiskPaths, Range
<1>2. lines' = lines \ {n} /\ UNCHANGED <<disk, disk2>>
      /\ monitor = "lines" /\ monitor' \in {"lines", "say connected"}
  BY DEF Line
<1>3. Listed(m.path) <=> m.path \in PathsOf(disk_list)
  <2>1. Entries = {disk_list[i] : i \in 1 .. Len(disk_list)}
    BY ListIsSeq DEF Entries, WalkInv
  <2> QED
    BY <2>1 DEF Listed, PathsOf
<1> PICK list : list = Marked(disk_list, m)
  OBVIOUS
<1>4. disk_list' = list \/ (~Listed(m.path) /\ disk_list' = AddDisk(list, m))
  BY DEF Line
<1>5. ListOk(list) /\ AddressesOf(list) = AddressesOf(disk_list)
      /\ PathsOf(list) = PathsOf(disk_list)
  BY MarkedIsSame, SameIsOk DEF WalkInv
<1>6. ListOk(disk_list') /\ AddressesOf(disk_list) \subseteq AddressesOf(disk_list')
  BY <1>1, <1>3, <1>4, <1>5, PutIn
<1> QED
  BY <1>2, <1>6 DEF WalkInv, Sweeping, Relating

LEMMA RemoveLostKeepsWalk ==
    ASSUME WalkInv, RemoveLost
    PROVE  WalkInv'
<1>1. disk \in AddressesOf(disk_list) /\ disk2 = NULL
  BY DEF WalkInv, RemoveLost, Relating
<1>2. /\ ListOk(disk_list')
      /\ AddressesOf(disk_list') = AddressesOf(disk_list) \ {disk}
  BY <1>1, RemovedIsOk DEF WalkInv, RemoveLost
<1>3. disk' \in AddressesOf(disk_list') \cup {NULL}
  BY <1>1, <1>2, NextIsAnother DEF WalkInv, RemoveLost
<1> QED
  BY <1>1, <1>2, <1>3 DEF WalkInv, RemoveLost, Sweeping, Relating

LEMMA RemoveRelatedKeepsWalk ==
    ASSUME WalkInv, RemoveRelated
    PROVE  WalkInv'
<1>1. disk2 \in AddressesOf(disk_list)
  BY DEF WalkInv, RemoveRelated
<1>2. /\ ListOk(disk_list')
      /\ AddressesOf(disk_list') = AddressesOf(disk_list) \ {disk2}
  BY <1>1, RemovedIsOk DEF WalkInv, RemoveRelated
<1>3. NextAt(disk2) \in AddressesOf(disk_list') \cup {NULL}
  BY <1>1, <1>2, NextIsAnother DEF WalkInv
<1>4. disk' \in AddressesOf(disk_list') \cup {NULL}
  <2>1. CASE disk = disk2
    BY <1>3, <2>1 DEF RemoveRelated, FirstLoop
  <2>2. CASE disk # disk2
    BY <1>2, <2>2 DEF RemoveRelated, FirstLoop, WalkInv
  <2> QED
    BY <2>1, <2>2
<1> QED
  BY <1>2, <1>3, <1>4 DEF WalkInv, RemoveRelated, Sweeping, Relating

(* The steps that change no entry: what is under the mutex only moves a    *)
(* pointer to the first entry or to the next one.                          *)
LEMMA LooksKeepWalk ==
    ASSUME WalkInv,
           \/ StartRefresh \/ ReadMounts \/ SayConnected \/ EndOfFile \/ Stays \/ SayRemoved
           \/ Collect \/ NextPath \/ Unrelated \/ SayRelated \/ EndRefresh
    PROVE  WalkInv'
<1>1. UNCHANGED disk_list
  BY DEF StartRefresh, ReadMounts, SayConnected, EndOfFile, Stays, SayRemoved, Collect,
         NextPath, Unrelated, SayRelated, EndRefresh, listVars
<1>2. FirstAt(disk_list) \in AddressesOf(disk_list) \cup {NULL}
  BY FirstIsThere DEF WalkInv
<1>3. \A at \in AddressesOf(disk_list) : NextAt(at) \in AddressesOf(disk_list) \cup {NULL}
  BY NextIsAnother DEF WalkInv
<1>4. CASE StartRefresh
  BY <1>1, <1>4 DEF WalkInv, StartRefresh, Sweeping, Relating
<1>5. CASE ReadMounts
  BY <1>1, <1>5 DEF WalkInv, ReadMounts, Sweeping, Relating
<1>6. CASE SayConnected
  BY <1>1, <1>6 DEF WalkInv, SayConnected, Sweeping, Relating
<1>7. CASE EndOfFile
  BY <1>1, <1>2, <1>7 DEF WalkInv, EndOfFile, Sweeping, Relating
<1>8. CASE Stays
  BY <1>1, <1>3, <1>8 DEF WalkInv, Stays, Sweeping, Relating
<1>9. CASE SayRemoved
  BY <1>1, <1>9 DEF WalkInv, SayRemoved, Sweeping, Relating
<1>10. CASE Collect
  BY <1>1, <1>2, <1>10 DEF WalkInv, Collect, Sweeping, Relating
<1>11. CASE NextPath
  BY <1>1, <1>2, <1>11 DEF WalkInv, NextPath, Sweeping, Relating
<1>12. CASE Unrelated
  BY <1>1, <1>3, <1>12 DEF WalkInv, Unrelated, Sweeping, Relating
<1>13. CASE SayRelated
  BY <1>1, <1>13 DEF WalkInv, SayRelated, Sweeping, Relating
<1>14. CASE EndRefresh
  BY <1>1, <1>14 DEF WalkInv, EndRefresh, Sweeping, Relating
<1> QED
  BY <1>4, <1>5, <1>6, <1>7, <1>8, <1>9, <1>10, <1>11, <1>12, <1>13, <1>14

LEMMA WalkStep ==
    ASSUME CalmAdds, WalkInv, [DiskNext]_diskVars
    PROVE  WalkInv'
<1>1. CASE UNCHANGED diskVars
  BY <1>1 DEF WalkInv, diskVars, taskVars, listVars
<1>2. CASE Begin \/ (DiskNext /\ ~MonitorNext)
  BY <1>2, CallsKeepWalk DEF DiskNext
<1>3. CASE Mark
  BY <1>3, MarkKeepsWalk
<1>4. CASE Line
  BY <1>4, LineKeepsWalk
<1>5. CASE RemoveLost
  BY <1>5, RemoveLostKeepsWalk
<1>6. CASE RemoveRelated
  BY <1>6, RemoveRelatedKeepsWalk
<1>7. CASE \/ StartRefresh \/ ReadMounts \/ SayConnected \/ EndOfFile \/ Stays \/ SayRemoved
           \/ Collect \/ NextPath \/ Unrelated \/ SayRelated \/ EndRefresh
  BY <1>7, LooksKeepWalk
<1> QED
  BY <1>1, <1>2, <1>3, <1>4, <1>5, <1>6, <1>7 DEF DiskNext, MonitorNext

LEMMA WalkInit == DiskInit => WalkInv
<1> SUFFICES ASSUME DiskInit PROVE WalkInv
  OBVIOUS
<1>1. <<>> \in Seq({}) /\ Len(<<>>) = 0
  OBVIOUS
<1>2. ListOk(disk_list)
  BY <1>1 DEF DiskInit, ListOk
<1> QED
  BY <1>2 DEF DiskInit, WalkInv, Sweeping, Relating

(* The loops of the task stay on entries of the list, whatever is mounted  *)
(* and however many events let calls in between: as long as no call        *)
(* replaces an entry during a refresh.                                     *)
THEOREM WalksTheListTheorem ==
    ASSUME CalmAdds
    PROVE  DiskSpec => []WalksTheList
<1>1. WalkInv => WalksTheList
  BY AddressesAre DEF WalkInv, WalksTheList
<1>2. WalkInv /\ [DiskNext]_diskVars => WalkInv'
  BY WalkStep
<1> QED
  BY <1>1, <1>2, WalkInit, PTL DEF DiskSpec

------------------------------------------------------------------------------
(* What the stack is told.                                                 *)

(* The numbers of devices, (major << 8) + minor, do not meet those of the  *)
(* counter; and when a mount is below a path that goes, so is every other  *)
(* mount of its device.                                                    *)
NumbersApart ==
    \A m \in Range(Mounts) : m.number \in Nat /\ (m.number = 0 \/ m.number >= IdSpan)

NestedTogether ==
    \A m, n \in Range(Mounts), q \in DiskPaths :
        m.number # 0 /\ m.number = n.number /\ SubOf(m.path, q)
            => n.path = q \/ SubOf(n.path, q)

(* An ID is from the counter and of one entry, or from the device.         *)
IdsOk(list, next) ==
    /\ next \in 0 .. IdSpan - 1
    /\ \A i \in 1 .. Len(list) :
          \/ list[i].id \in 1 .. next
          \/ \E m \in Range(Mounts) :
                m.number # 0 /\ m.number = list[i].id /\ m.path = list[i].path
    /\ \A i, j \in 1 .. Len(list) :
          i # j /\ list[i].id = list[j].id => list[i].id >= IdSpan

Rows == 1 .. Len(disk_list)
Numbered(i) == disk_list[i].id >= IdSpan

(* The IDs that no entry may have: those whose removal is the last that    *)
(* was said, but for one that is about to be said to be connected, and the *)
(* one that is about to be said to be removed.                             *)
Saying == {"say removed", "say related"}
Pending == IF monitor \in Saying THEN {gone.id} ELSE {}
Coming == IF monitor = "say connected" THEN {gone.id} ELSE {}
Away == (removed \ Coming) \cup Pending

PathsIn(these) == {p.path : p \in these}

(* What goes with FirstPath, and what the inner loop is past.              *)
Goes(path) == path = FirstPath.path \/ SubOf(path, FirstPath.path)
Seen(i) == \A k \in 1 .. i : disk_list[k].at # disk2

(* An entry of a device that was removed is found by its ID, then by a     *)
(* path that is still to come, then by the loop over the list.             *)
Waits(i) ==
    \/ monitor \in {"say removed", "collect"} /\ disk_list[i].id = gone.id
    \/ /\ monitor \in Relating
       /\ \/ disk_list[i].path \in PathsIn(paths \ {FirstPath})
          \/ Goes(disk_list[i].path) /\ ~Seen(i)

AwayInv == \A i \in Rows : disk_list[i].id \in Away => Numbered(i) /\ Waits(i)

SeenInv ==
    monitor \in Relating =>
        \A i \in Rows : Seen(i) /\ Goes(disk_list[i].path) => ~Numbered(i)

(* The entry that was removed is no more, and the paths to look for are    *)
(* with each mount those of its device.                                    *)
TogetherInv ==
    /\ monitor \in {"say removed", "collect"} =>
          /\ gone.path \in DiskPaths
          /\ \A i \in Rows : disk_list[i].path = gone.path => ~Numbered(i)
    /\ monitor \in Relating =>
          /\ paths # {} /\ \A p \in paths : p.place \in Nat /\ p.path \in DiskPaths
          /\ \A i, j \in Rows :
                /\ Numbered(i) /\ disk_list[i].id = disk_list[j].id
                /\ disk_list[i].path \in PathsIn(paths)
                => disk_list[j].path \in PathsIn(paths)

(* An ID that was connected has an entry, or is about to be removed, or    *)
(* lost it to a call; what is said to be connected has one.                *)
ConnectedInv ==
    /\ \A id \in connected : (\E i \in Rows : disk_list[i].id = id) \/ id \in Pending \/ id \in replaced
    /\ monitor = "say connected" => \E i \in Rows : disk_list[i].id = gone.id

SilentInv ==
    /\ ~send_events => removed = {} /\ (monitor # "wait" => connected = {})
    /\ monitor \in Saying \cup {"say connected"} => send_events

(* What is removed was given out.                                          *)
GivenOut(id) == id \in Nat /\ (id <= next_disk_id \/ id >= IdSpan)

GoneInv ==
    /\ monitor \in Saying => GivenOut(gone.id)
    /\ \A id \in removed : GivenOut(id)

EventsInv ==
    /\ IdsOk(disk_list, next_disk_id)
    /\ AwayInv /\ SeenInv /\ TogetherInv /\ ConnectedInv /\ SilentInv /\ GoneInv

(* The entries of a list after one was taken out, and their IDs; and after *)
(* one was put in.                                                         *)
MovesUp(i, j, p) == (i = j /\ j < p) \/ (i = j + 1 /\ j >= p)

LessOne(list, p, r) ==
    /\ Len(list) \in Nat /\ Len(r) = Len(list) - 1
    /\ \A j \in 1 .. Len(r) :
          \E i \in 1 .. Len(list) : i # p /\ MovesUp(i, j, p) /\ r[j] = list[i]
    /\ \A i \in 1 .. Len(list) : i # p =>
          \E j \in 1 .. Len(r) : MovesUp(i, j, p) /\ r[j] = list[i]

LEMMA WithoutPlaces ==
    ASSUME NEW list, ListOk(list), NEW p \in 1 .. Len(list)
    PROVE  LessOne(list, p, RemoveAt(list, p))
<1> PICK r : r = RemoveAt(list, p)
  OBVIOUS
<1> DEFINE n == Len(list)
<1>1. /\ n \in Nat /\ Len(r) = n - 1
      /\ \A j \in 1 .. n - 1 : r[j] = IF j < p THEN list[j] ELSE list[j + 1]
  BY WithoutOne
<1>2. ASSUME NEW j \in 1 .. n - 1
      PROVE  \E i \in 1 .. n : i # p /\ MovesUp(i, j, p) /\ r[j] = list[i]
  <2>1. CASE j < p
    <3>1. j \in 1 .. n /\ r[j] = list[j]
      BY <1>1, <2>1
    <3> QED
      BY <2>1, <3>1 DEF MovesUp
  <2>2. CASE ~(j < p)
    <3>1. j + 1 \in 1 .. n /\ j + 1 # p /\ j + 1 # j /\ r[j] = list[j + 1]
      BY <1>1, <2>2
    <3> QED
      BY <1>1, <2>2, <3>1 DEF MovesUp
  <2> QED
    BY <2>1, <2>2
<1>3. ASSUME NEW i \in 1 .. n, i # p
      PROVE  \E j \in 1 .. n - 1 : MovesUp(i, j, p) /\ r[j] = list[i]
  <2>1. CASE i < p
    <3>1. i \in 1 .. n - 1
      BY <1>1, <2>1
    <3> QED
      BY <1>1, <2>1, <3>1 DEF MovesUp
  <2>2. CASE i > p
    <3>1. i - 1 \in 1 .. n - 1 /\ ~(i - 1 < p) /\ (i - 1) + 1 = i /\ i # i - 1
      BY <1>1, <2>2
    <3>2. r[i - 1] = list[i]
      BY <1>1, <3>1
    <3> QED
      BY <1>1, <3>1, <3>2 DEF MovesUp
  <2> QED
    BY <1>1, <1>3, <2>1, <2>2
<1> QED
  BY <1>1, <1>2, <1>3 DEF LessOne

LEMMA IdsWithout ==
    ASSUME NEW list, ListOk(list), NEW p \in 1 .. Len(list), NEW next, IdsOk(list, next)
    PROVE  IdsOk(RemoveAt(list, p), next)
<1> PICK r : r = RemoveAt(list, p)
  OBVIOUS
<1>1. LessOne(list, p, r)
  BY WithoutPlaces
<1> Len(list) \in Nat /\ Len(r) = Len(list) - 1
  BY <1>1 DEF LessOne
<1>2. ASSUME NEW j \in 1 .. Len(r), NEW k \in 1 .. Len(r), j # k, r[j].id = r[k].id
      PROVE  r[j].id >= IdSpan
  <2>1. PICK a \in 1 .. Len(list) : MovesUp(a, j, p) /\ r[j] = list[a]
    BY <1>1 DEF LessOne
  <2>2. PICK b \in 1 .. Len(list) : MovesUp(b, k, p) /\ r[k] = list[b]
    BY <1>1 DEF LessOne
  <2>3. a # b
    BY <1>2, <2>1, <2>2 DEF MovesUp
  <2> QED
    BY <1>2, <2>1, <2>2, <2>3 DEF IdsOk
<1>3. ASSUME NEW j \in 1 .. Len(r)
      PROVE  \/ r[j].id \in 1 .. next
             \/ \E m \in Range(Mounts) :
                   m.number # 0 /\ m.number = r[j].id /\ m.path = r[j].path
  <2>1. PICK a \in 1 .. Len(list) : r[j] = list[a]
    BY <1>1 DEF LessOne
  <2> QED
    BY <2>1 DEF IdsOk
<1> QED
  BY <1>2, <1>3 DEF IdsOk

LEMMA IdsWith ==
    ASSUME NumbersApart, NEW list, NEW next, IdsOk(list, next),
           NEW r, NEW path, NEW id, OneMore(list, r, path, id),
           NEW new \in 0 .. IdSpan - 1,
           \/ new = next + 1 /\ id = new
           \/ /\ new = next
              /\ \E m \in Range(Mounts) : m.number # 0 /\ m.number = id /\ m.path = path
    PROVE  IdsOk(r, new)
<1>1. next \in Nat /\ next <= new /\ Len(list) \in Nat /\ Len(r) = Len(list) + 1
      /\ IdSpan \in Nat
  BY DiskAssumption DEF IdsOk, OneMore
<1>2. \A i \in 1 .. Len(r) : i \in 1 .. Len(list) \/ i = Len(r)
  BY <1>1
<1>3. \A i \in 1 .. Len(list) : list[i].id = id => id >= IdSpan
  BY <1>1 DEF IdsOk, NumbersApart
<1>4. ASSUME NEW i \in 1 .. Len(r)
      PROVE  \/ r[i].id \in 1 .. new
             \/ \E m \in Range(Mounts) :
                   m.number # 0 /\ m.number = r[i].id /\ m.path = r[i].path
  <2>1. CASE i \in 1 .. Len(list)
    <3>1. r[i].id = list[i].id /\ r[i].path = list[i].path
      BY <2>1 DEF OneMore
    <3> QED
      BY <1>1, <2>1, <3>1 DEF IdsOk
  <2>2. CASE i = Len(r)
    BY <1>1, <2>2 DEF OneMore
  <2> QED
    BY <1>2, <2>1, <2>2
<1>5. ASSUME NEW i \in 1 .. Len(r), NEW j \in 1 .. Len(r), i # j, r[i].id = r[j].id
      PROVE  r[i].id >= IdSpan
  <2>1. CASE i \in 1 .. Len(list) /\ j \in 1 .. Len(list)
    <3>1. r[i].id = list[i].id /\ r[j].id = list[j].id
      BY <2>1 DEF OneMore
    <3> QED
      BY <1>5, <2>1, <3>1 DEF IdsOk
  <2>2. CASE i \in 1 .. Len(list) /\ j = Len(r)
    BY <1>3, <1>5, <2>2 DEF OneMore
  <2>3. CASE j \in 1 .. Len(list) /\ i = Len(r)
    BY <1>3, <1>5, <2>3 DEF OneMore
  <2> QED
    BY <1>2, <1>5, <2>1, <2>2, <2>3
<1> QED
  BY <1>4, <1>5 DEF IdsOk

(* The counter, as long as it does not wrap.                               *)
LEMMA CountsOn ==
    ASSUME IdSpan > 1, NEW n \in 0 .. IdSpan - 1, n <= (n + 1) % IdSpan
    PROVE  (n + 1) % IdSpan = n + 1 /\ n + 1 \in 0 .. IdSpan - 1
<1>1. IdSpan \in Nat \ {0}
  BY DiskAssumption
<1>2. CASE n + 1 < IdSpan
  BY <1>1, <1>2
<1>3. CASE n + 1 = IdSpan
  <2>1. IdSpan % IdSpan = 0
    BY <1>1
  <2> QED
    BY <1>1, <1>3, <2>1
<1> QED
  BY <1>1, <1>2, <1>3

(* What an ID can be.                                                      *)
LEMMA IdsAre ==
    ASSUME NumbersApart, NEW list, NEW next, IdsOk(list, next), NEW i \in 1 .. Len(list)
    PROVE  list[i].id \in Nat /\ (list[i].id <= next \/ list[i].id >= IdSpan)
<1>1. next \in Nat /\ IdSpan \in Nat
  BY DiskAssumption DEF IdsOk
<1> QED
  BY <1>1 DEF IdsOk, NumbersApart

LEMMA EntryIsThere ==
    ASSUME ListOk(disk_list), NEW at \in AddressesOf(disk_list)
    PROVE  /\ PlaceOf(disk_list, at) \in 1 .. Len(disk_list)
           /\ disk_list[PlaceOf(disk_list, at)].at = at
           /\ Entry(at) = disk_list[PlaceOf(disk_list, at)]
<1> PICK p : p = PlaceOf(disk_list, at)
  OBVIOUS
<1>1. p \in 1 .. Len(disk_list) /\ disk_list[p].at = at
  BY PlaceIsThere
<1>2. Entries = {disk_list[i] : i \in 1 .. Len(disk_list)}
  BY ListIsSeq DEF Entries
<1>3. PICK e : e = Entry(at)
  OBVIOUS
<1>4. e \in Entries /\ e.at = at
  BY <1>1, <1>2, <1>3 DEF Entry
<1>5. PICK i \in 1 .. Len(disk_list) : e = disk_list[i]
  BY <1>2, <1>4
<1>6. i = p
  BY <1>1, <1>4, <1>5 DEF ListOk
<1> QED
  BY <1>1, <1>3, <1>5, <1>6

LEMMA NullIsNoAddress ==
    ASSUME NEW list, ListOk(list)
    PROVE  \A i \in 1 .. Len(list) : \A k \in 1 .. i : list[k].at # NULL
<1>1. Len(list) \in Nat /\ MaxDisks \in Nat
  BY ListIsSeq, DiskAssumption
<1>2. \A i \in 1 .. Len(list) : \A k \in 1 .. i : k \in 1 .. Len(list)
  BY <1>1
<1>3. \A k \in 1 .. Len(list) : list[k].at \in 1 .. MaxDisks
  BY DEF ListOk
<1> QED
  BY <1>1, <1>2, <1>3 DEF NULL

(* What changes none of all this.                                          *)
LEMMA NothingSaid ==
    ASSUME EventsInv,
           UNCHANGED <<monitor, send_events, gone, paths, disk2, disk_list, next_disk_id, connected,
                       removed, replaced>>
    PROVE  EventsInv'
<1>1. FirstPath' = FirstPath
  BY DEF FirstPath
<1>2. AwayInv'
  BY <1>1 DEF EventsInv, AwayInv, Rows, Away, Coming, Pending, Numbered, Waits, Goes, Seen
<1>3. SeenInv'
  BY <1>1 DEF EventsInv, SeenInv, Rows, Numbered, Goes, Seen
<1>4. TogetherInv'
  BY DEF EventsInv, TogetherInv, Rows, Numbered
<1>5. ConnectedInv' /\ SilentInv' /\ GoneInv' /\ IdsOk(disk_list, next_disk_id)'
  BY DEF EventsInv, ConnectedInv, SilentInv, GoneInv, GivenOut, Rows, Pending
<1> QED
  BY <1>2, <1>3, <1>4, <1>5 DEF EventsInv

(* The places of the task at which nothing is on its way.                  *)
Plain == {"begin", "mark", "open", "lines", "sweep", "wait"}

LEMMA AtPlain ==
    ASSUME monitor \in Plain \cup {"say connected"}, EventsInv
    PROVE  /\ \A i \in Rows : disk_list[i].id \notin removed \ Coming
           /\ monitor \in Plain => \A i \in Rows : disk_list[i].id \notin removed
           /\ \A id \in connected : (\E i \in Rows : disk_list[i].id = id) \/ id \in replaced
<1>1. monitor \notin Saying \cup Relating \cup {"say removed", "collect"}
  BY DEF Plain, Saying, Relating
<1>2. monitor \in Plain => Coming = {}
  BY DEF Plain, Coming
<1>3. \A i \in Rows : disk_list[i].id \notin removed \ Coming
  BY <1>1 DEF EventsInv, AwayInv, Away, Pending, Waits
<1>4. \A id \in connected : (\E i \in Rows : disk_list[i].id = id) \/ id \in replaced
  BY <1>1 DEF EventsInv, ConnectedInv, Pending
<1> QED
  BY <1>2, <1>3, <1>4

LEMMA PlainKeeps ==
    ASSUME EventsInv, monitor \in Plain, monitor' \in Plain,
           Len(disk_list') = Len(disk_list),
           \A i \in Rows : disk_list'[i].id = disk_list[i].id
                             /\ disk_list'[i].path = disk_list[i].path,
           UNCHANGED <<next_disk_id, connected, removed, replaced>>,
           send_events => send_events',
           monitor = "wait" => monitor' = "wait" \/ send_events'
    PROVE  EventsInv'
<1>1. IdsOk(disk_list, next_disk_id)'
  BY DEF EventsInv, IdsOk, Rows
<1>2. \A i \in Rows' : disk_list'[i].id \notin removed'
  BY AtPlain DEF Rows
<1>3. \A id \in connected' : (\E i \in Rows' : disk_list'[i].id = id) \/ id \in replaced'
  BY AtPlain DEF Rows
<1>4. ~send_events' => removed' = {} /\ (monitor' # "wait" => connected' = {})
  BY DEF EventsInv, SilentInv
<1>5. monitor' \in (Plain \cup {"say connected"}) /\ monitor' # "say connected"
  BY DEF Plain
<1>6. \A id \in removed' : GivenOut(id)'
  BY DEF EventsInv, GoneInv, GivenOut
<1> QED
  BY <1>1, <1>2, <1>3, <1>4, <1>5, <1>6
  DEF EventsInv, AwayInv, SeenInv, TogetherInv, ConnectedInv, SilentInv, GoneInv, Away,
      Pending, Plain, Saying, Relating

LEMMA PlainSteps ==
    ASSUME WalkInv, EventsInv,
           StartRefresh \/ Mark \/ ReadMounts \/ EndOfFile \/ Stays \/ EndRefresh
    PROVE  EventsInv'
<1>1. UNCHANGED <<next_disk_id, connected, removed, replaced>> /\ monitor \in Plain /\ monitor' \in Plain
  BY DEF StartRefresh, Mark, ReadMounts, EndOfFile, Stays, EndRefresh, listVars, Plain
<1>2. /\ send_events => send_events'
      /\ monitor = "wait" => monitor' = "wait" \/ send_events'
  BY DEF StartRefresh, Mark, ReadMounts, EndOfFile, Stays, EndRefresh
<1>3. /\ Len(disk_list') = Len(disk_list)
      /\ \A i \in Rows : disk_list'[i].id = disk_list[i].id
                           /\ disk_list'[i].path = disk_list[i].path
  <2>1. CASE Mark
    BY <2>1, MarkIsSame DEF WalkInv, SameEntries, Rows
  <2>2. CASE UNCHANGED disk_list
    BY <2>2
  <2> QED
    BY <2>1, <2>2 DEF StartRefresh, ReadMounts, EndOfFile, Stays, EndRefresh, listVars
<1> QED
  BY <1>1, <1>2, <1>3, PlainKeeps

(* A line of /proc/mounts and the event for it.                            *)
LEMMA SayConnectedKeeps ==
    ASSUME EventsInv, SayConnected
    PROVE  EventsInv'
<1>1. /\ monitor' = "lines" /\ connected' = connected \cup {gone.id}
      /\ removed' = removed \ {gone.id} /\ replaced' = replaced \ {gone.id}
      /\ UNCHANGED <<disk_list, next_disk_id, send_events>> /\ monitor = "say connected"
  BY DEF SayConnected, Tell
<1>2. IdsOk(disk_list', next_disk_id') /\ monitor' \in Plain /\ send_events
      /\ \E i \in Rows : disk_list[i].id = gone.id
  BY <1>1 DEF EventsInv, Plain, SilentInv, ConnectedInv
<1>3. \A i \in Rows' : disk_list'[i].id \notin removed'
  BY <1>1, AtPlain DEF Rows, Coming
<1>4. \A id \in connected' : (\E i \in Rows' : disk_list'[i].id = id) \/ id \in replaced'
  BY <1>1, <1>2, AtPlain DEF Rows
<1>5. /\ ~send_events' => removed' = {} /\ (monitor' # "wait" => connected' = {})
      /\ monitor' \in (Plain \cup {"say connected"}) /\ monitor' # "say connected"
  BY <1>1, <1>2
<1>6. \A id \in removed' : GivenOut(id)'
  BY <1>1 DEF EventsInv, GoneInv, GivenOut
<1> QED
  BY <1>2, <1>3, <1>4, <1>5, <1>6
  DEF EventsInv, AwayInv, SeenInv, TogetherInv, ConnectedInv, SilentInv, GoneInv, Away,
      Pending, Plain, Saying, Relating

LEMMA LineKeeps ==
    ASSUME NumbersApart, IdSpan > 1, WalkInv, EventsInv, Line, next_disk_id <= next_disk_id'
    PROVE  EventsInv'
<1> PICK m : m = Mounts[FirstLine]
  OBVIOUS
<1> PICK list : list = Marked(disk_list, m)
  OBVIOUS
<1>1. m \in Range(Mounts) /\ m.path \in DiskPaths
  <2>1. lines \subseteq Nat /\ lines # {} /\ lines \subseteq DOMAIN Mounts
    BY MountsAssumption DEF WalkInv, Line
  <2>2. FirstLine \in lines
    BY <2>1, Least DEF FirstLine
  <2> QED
    BY <2>1, <2>2 DEF DiskPaths, Range
<1>2. /\ ListOk(list) /\ PathsOf(list) = PathsOf(disk_list) /\ Len(list) = Len(disk_list)
      /\ \A i \in Rows : list[i].id = disk_list[i].id /\ list[i].path = disk_list[i].path
  BY MarkedIsSame, SameIsOk DEF WalkInv, SameEntries, Rows
<1>3. monitor = "lines" /\ UNCHANGED send_events
  BY DEF Line
<1>4. CASE Listed(m.path)
  <2>1. disk_list' = list /\ UNCHANGED <<monitor, next_disk_id, connected, removed, replaced>>
          /\ UNCHANGED send_events
    BY <1>4 DEF Line
  <2> QED
    BY <1>2, <1>3, <2>1, PlainKeeps DEF Plain
<1>5. CASE ~Listed(m.path)
  <2> PICK id : id = IdFor(m)
    OBVIOUS
  <2>1. /\ disk_list' = AddDisk(list, m) /\ next_disk_id' = NextId(m)
        /\ UNCHANGED <<connected, removed, replaced>>
        /\ \/ monitor' = "lines" /\ ~send_events
           \/ monitor' = "say connected" /\ send_events /\ gone'.id = id
    <3>1. CASE send_events
      <4>1. /\ disk_list' = AddDisk(list, m) /\ next_disk_id' = NextId(m)
            /\ UNCHANGED <<connected, removed, replaced>>
            /\ monitor' = "say connected"
        BY <1>5, <3>1 DEF Line
      <4>2. gone' = [id |-> id, path |-> m.path]
        BY <1>5, <3>1 DEF Line
      <4> QED
        BY <3>1, <4>1, <4>2
    <3>2. CASE ~send_events
      BY <1>3, <1>5, <3>2 DEF Line
    <3> QED
      BY <3>1, <3>2
  <2>2. m.path \notin PathsOf(list)
    <3>1. Entries = {disk_list[i] : i \in 1 .. Len(disk_list)}
      BY ListIsSeq DEF Entries, WalkInv
    <3> QED
      BY <1>2, <1>5, <3>1 DEF Listed, PathsOf
  <2>3. OneMore(list, disk_list', m.path, id)
    BY <1>1, <1>2, <2>1, <2>2, PutIn
  <2>4. IdsOk(disk_list', next_disk_id')
    <3>1. IdsOk(list, next_disk_id)
      BY <1>2 DEF EventsInv, IdsOk, Rows
    <3>2. CASE m.number # 0
      <4>1. next_disk_id' = next_disk_id /\ id = m.number
        BY <2>1, <3>2 DEF NextId, IdFor
      <4>2. /\ next_disk_id' \in 0 .. IdSpan - 1
            /\ \E a \in Range(Mounts) : a.number # 0 /\ a.number = id /\ a.path = m.path
        BY <1>1, <3>1, <3>2, <4>1 DEF IdsOk
      <4> QED
        BY <2>3, <3>1, <4>1, <4>2, IdsWith
    <3>3. CASE m.number = 0
      <4>1. next_disk_id' = (next_disk_id + 1) % IdSpan /\ id = next_disk_id'
        BY <2>1, <3>3 DEF NextId, IdFor
      <4>2. next_disk_id' = next_disk_id + 1 /\ next_disk_id' \in 0 .. IdSpan - 1
        BY <3>1, <4>1, CountsOn DEF IdsOk
      <4> QED
        BY <2>3, <3>1, <4>1, <4>2, IdsWith
    <3> QED
      BY <3>2, <3>3
  <2>5. /\ Len(disk_list') = Len(disk_list) + 1 /\ Len(disk_list) \in Nat
        /\ \A i \in Rows : disk_list'[i].id = disk_list[i].id
        /\ disk_list'[Len(disk_list) + 1].id = id
    BY <1>2, <2>3 DEF OneMore, Rows
  <2>6. \A i \in Rows' : disk_list'[i].id \notin Away'
    <3>1. \A i \in Rows' : i \in Rows \/ i = Len(disk_list) + 1
      BY <2>5 DEF Rows
    <3>2. \A i \in Rows : disk_list[i].id \notin removed
      BY <1>3, AtPlain DEF Plain
    <3>3. id \notin removed \/ Coming' = {id}
      <4>1. CASE send_events
        BY <2>1, <4>1 DEF Coming
      <4>2. CASE ~send_events
        BY <4>2 DEF EventsInv, SilentInv
      <4> QED
        BY <4>1, <4>2
    <3>4. Away' = removed \ Coming'
      BY <2>1 DEF Away, Pending, Saying
    <3> QED
      BY <2>5, <3>1, <3>2, <3>3, <3>4
  <2>7. (\A c \in connected' : (\E i \in Rows' : disk_list'[i].id = c) \/ c \in replaced')
        /\ \E i \in Rows' : disk_list'[i].id = id
    <3>1. Rows \subseteq Rows' /\ Len(disk_list) + 1 \in Rows'
      BY <2>5 DEF Rows
    <3>2. \A c \in connected : (\E i \in Rows : disk_list[i].id = c) \/ c \in replaced
      BY <1>3, AtPlain DEF Plain
    <3> QED
      BY <2>1, <2>5, <3>1, <3>2
  <2>8. /\ ~send_events' => removed' = {} /\ (monitor' # "wait" => connected' = {})
        /\ monitor' \in (Plain \cup {"say connected"})
        /\ monitor' = "say connected" =>
              send_events' /\ \E i \in Rows' : disk_list'[i].id = gone'.id
    BY <1>3, <2>1, <2>7 DEF EventsInv, SilentInv, Plain
  <2>9. \A c \in removed' : GivenOut(c)'
    <3>1. next_disk_id \in Nat /\ next_disk_id' \in Nat
      BY <2>4 DEF EventsInv, IdsOk
    <3>2. \A c : GivenOut(c) => GivenOut(c)'
      BY <3>1, DiskAssumption DEF GivenOut
    <3> QED
      BY <2>1, <3>2 DEF EventsInv, GoneInv
  <2> QED
    BY <2>4, <2>6, <2>7, <2>8, <2>9
    DEF EventsInv, AwayInv, SeenInv, TogetherInv, ConnectedInv, SilentInv, GoneInv,
        Pending, Plain, Saying, Relating
<1> QED
  BY <1>4, <1>5

(* The calls of the stack, and the first one of the task.                  *)
LEMMA AddEffect ==
    ASSUME CalmAdds, NumbersApart, IdSpan > 1, WalkInv, EventsInv,
           NEW path \in UserPaths \cup {DefaultPath}, AddDevicePath(path),
           next_disk_id <= next_disk_id'
    PROVE  /\ IdsOk(disk_list, next_disk_id)'
           /\ \/ UNCHANGED listVars
              \/ /\ next_disk_id' = next_disk_id + 1
                 /\ \/ disk_list' = RestOf(path)
                    \/ OneMore(RestOf(path), disk_list', path, next_disk_id')
                 /\ \A i \in Rows : disk_list[i].path = path =>
                       disk_list[i].id \in replaced' \/ ~Listed(path)
           /\ UNCHANGED <<connected, removed>> /\ replaced \subseteq replaced'
           /\ next_disk_id' \notin removed \/ UNCHANGED listVars
           /\ monitor # "wait" /\ ~UNCHANGED listVars => ~Listed(path)
<1> PICK opens \in BOOLEAN, makes \in BOOLEAN :
        /\ monitor # "wait" => (Listed(path) => opens)
        /\ disk_list' = AddedPath(path, opens, makes)
        /\ next_disk_id' = IF Listed(path) /\ opens THEN next_disk_id ELSE NextId(User(path))
        /\ replaced' = replaced \cup {e.id : e \in {d \in Entries : d.path = path /\ ~opens}}
        /\ UNCHANGED <<connected, removed>>
  BY Zenon DEF AddDevicePath
<1>1. Entries = {disk_list[i] : i \in 1 .. Len(disk_list)}
  BY ListIsSeq DEF Entries, WalkInv
<1>2. CASE Listed(path) /\ opens
  <2>1. disk_list' = disk_list /\ next_disk_id' = next_disk_id
    BY <1>2, AddedIsOk DEF WalkInv
  <2>2. replaced' = replaced
    <3>1. {e.id : e \in {d \in Entries : d.path = path /\ ~opens}} = {}
      BY <1>2
    <3> QED
      BY <1>2, <3>1
  <2> QED
    BY <2>1, <2>2 DEF listVars, EventsInv
<1>3. CASE ~(Listed(path) /\ opens)
  <2>1. next_disk_id' = (next_disk_id + 1) % IdSpan /\ next_disk_id' = NextId(User(path))
    BY <1>3 DEF NextId, User
  <2>2. next_disk_id' = next_disk_id + 1 /\ next_disk_id' \in 0 .. IdSpan - 1
    BY <2>1, CountsOn DEF EventsInv, IdsOk
  <2>3. \/ disk_list' = RestOf(path)
        \/ OneMore(RestOf(path), disk_list', path, next_disk_id')
    BY <1>3, <2>1, AddedIsOk DEF WalkInv
  <2>4. next_disk_id' \notin removed
    <3>1. next_disk_id \in Nat /\ IdSpan \in Nat
      BY DiskAssumption DEF EventsInv, IdsOk
    <3> QED
      BY <2>2, <3>1 DEF EventsInv, GoneInv, GivenOut
  <2>5. \A i \in Rows : disk_list[i].path = path =>
           disk_list[i].id \in replaced' \/ ~Listed(path)
    <3> SUFFICES ASSUME NEW i \in Rows, disk_list[i].path = path, Listed(path)
                 PROVE  disk_list[i].id \in replaced'
      OBVIOUS
    <3>1. disk_list[i] \in {d \in Entries : d.path = path /\ ~opens}
      BY <1>1, <1>3 DEF Rows
    <3>2. disk_list[i].id \in {e.id : e \in {d \in Entries : d.path = path /\ ~opens}}
      BY <3>1
    <3> QED
      BY <3>2
  <2>6. IdsOk(RestOf(path), next_disk_id)
    <3>1. CASE Listed(path)
      BY <3>1, RestIsOk, IdsWithout DEF WalkInv, EventsInv
    <3>2. CASE ~Listed(path)
      BY <3>2 DEF RestOf, EventsInv
    <3> QED
      BY <3>1, <3>2
  <2>7. IdsOk(disk_list', next_disk_id')
    <3>1. CASE disk_list' = RestOf(path)
      BY <2>2, <2>6, <3>1 DEF IdsOk
    <3>2. CASE OneMore(RestOf(path), disk_list', path, next_disk_id')
      BY <2>2, <2>6, <3>2, IdsWith
    <3> QED
      BY <2>3, <3>1, <3>2
  <2>8. monitor # "wait" => ~Listed(path)
    BY <1>3
  <2> QED
    BY <2>2, <2>3, <2>4, <2>5, <2>7, <2>8
<1> QED
  BY <1>2, <1>3

(* While the task waits an entry can be replaced.                          *)
LEMMA AddKeepsAtWait ==
    ASSUME CalmAdds, NumbersApart, IdSpan > 1, WalkInv, EventsInv,
           NEW path \in UserPaths \cup {DefaultPath}, AddDevicePath(path),
           next_disk_id <= next_disk_id', monitor = "wait",
           UNCHANGED <<monitor, send_events, gone, paths, disk2>>
    PROVE  EventsInv'
<1>1. CASE UNCHANGED listVars
  BY <1>1, NothingSaid DEF listVars
<1>2. CASE ~UNCHANGED listVars
  <2> PICK rest : rest = RestOf(path)
    OBVIOUS
  <2>1. /\ IdsOk(disk_list, next_disk_id)'
        /\ next_disk_id' \notin removed /\ next_disk_id' = next_disk_id + 1
        /\ disk_list' = rest \/ OneMore(rest, disk_list', path, next_disk_id')
        /\ UNCHANGED <<connected, removed>> /\ replaced \subseteq replaced'
        /\ \A i \in Rows : disk_list[i].path = path =>
              disk_list[i].id \in replaced' \/ ~Listed(path)
    BY <1>2, AddEffect
  <2>2. /\ \A j \in 1 .. Len(rest) : \E i \in Rows : rest[j].id = disk_list[i].id
        /\ \A i \in Rows : disk_list[i].id \notin replaced' =>
              \E j \in 1 .. Len(rest) : rest[j].id = disk_list[i].id
    <3>1. CASE ~Listed(path)
      BY <3>1 DEF RestOf, Rows
    <3>2. CASE Listed(path)
      <4>1. PICK p \in 1 .. Len(disk_list) :
                disk_list[p].path = path /\ rest = RemoveAt(disk_list, p)
        BY <3>2, RestIsOk DEF WalkInv
      <4>2. /\ \A j \in 1 .. Len(rest) : \E i \in Rows : rest[j] = disk_list[i]
            /\ \A i \in Rows : i # p => \E j \in 1 .. Len(rest) : rest[j] = disk_list[i]
        <5>1. LessOne(disk_list, p, rest)
          BY <4>1, WithoutPlaces DEF WalkInv
        <5> QED
          BY <5>1 DEF LessOne, Rows
      <4> QED
        BY <2>1, <3>2, <4>1, <4>2 DEF Rows
    <3> QED
      BY <3>1, <3>2
  <2>3. /\ \A i \in Rows : disk_list[i].id \notin removed
        /\ \A id \in connected : (\E i \in Rows : disk_list[i].id = id) \/ id \in replaced
    BY AtPlain DEF Plain
  <2>4. \A id \in connected :
           (\E j \in 1 .. Len(rest) : rest[j].id = id) \/ id \in replaced'
    BY <2>1, <2>2, <2>3
  <2>5. /\ \A i \in Rows' : disk_list'[i].id \notin removed
        /\ \A id \in connected : (\E i \in Rows' : disk_list'[i].id = id) \/ id \in replaced'
    <3>1. CASE disk_list' = rest
      <4>1. Rows' = 1 .. Len(rest)
        BY <3>1 DEF Rows
      <4>2. \A i \in 1 .. Len(rest) : rest[i].id \notin removed
        BY <2>1, <2>2, <2>3
      <4> QED
        BY <2>4, <3>1, <4>1, <4>2
    <3>2. CASE OneMore(rest, disk_list', path, next_disk_id')
      <4>1. /\ 1 .. Len(rest) \subseteq Rows'
            /\ \A i \in Rows' : i \in 1 .. Len(rest) \/ i = Len(disk_list')
            /\ \A i \in 1 .. Len(rest) : disk_list'[i].id = rest[i].id
            /\ disk_list'[Len(disk_list')].id = next_disk_id'
        BY <3>2 DEF OneMore, Rows
      <4> QED
        BY <2>1, <2>2, <2>3, <2>4, <4>1
    <3> QED
      BY <2>1, <3>1, <3>2
  <2>6. /\ ~send_events' => removed' = {} /\ (monitor' # "wait" => connected' = {})
        /\ monitor' \in (Plain \cup {"say connected"}) /\ monitor' # "say connected"
    BY <2>1 DEF EventsInv, SilentInv, Plain
  <2>7. \A id \in removed : GivenOut(id)'
    <3>1. next_disk_id \in Nat
      BY DEF EventsInv, IdsOk
    <3> QED
      BY <2>1, <3>1 DEF EventsInv, GoneInv, GivenOut
  <2> QED
    BY <2>1, <2>5, <2>6, <2>7
    DEF EventsInv, AwayInv, SeenInv, TogetherInv, ConnectedInv, SilentInv, GoneInv, Away,
        Pending, Plain, Saying, Relating
<1> QED
  BY <1>1, <1>2

(* During a refresh one is put at the end, or none.                        *)
LEMMA AddKeepsInRefresh ==
    ASSUME CalmAdds, NumbersApart, IdSpan > 1, WalkInv, EventsInv,
           NEW path \in UserPaths \cup {DefaultPath}, AddDevicePath(path),
           next_disk_id <= next_disk_id', monitor # "wait",
           UNCHANGED <<send_events, gone, paths, disk2>>,
           monitor' = monitor \/ (monitor = "begin" /\ monitor' = "mark")
    PROVE  EventsInv'
<1>1. /\ IdsOk(disk_list, next_disk_id)'
      /\ UNCHANGED <<connected, removed>> /\ replaced \subseteq replaced'
      /\ next_disk_id' = next_disk_id \/ next_disk_id' = next_disk_id + 1
  BY AddEffect DEF listVars
<1>2. Len(disk_list) \in Nat /\ next_disk_id \in Nat /\ IdSpan \in Nat
      /\ \A i \in Rows : disk_list[i].at \in 1 .. MaxDisks
  BY ListIsSeq, DiskAssumption DEF WalkInv, EventsInv, IdsOk, ListOk, Rows
<1>3. /\ Rows \subseteq Rows'
      /\ \A i \in Rows : /\ disk_list'[i].at = disk_list[i].at
                         /\ disk_list'[i].path = disk_list[i].path
                         /\ disk_list'[i].id = disk_list[i].id
      /\ \A i \in Rows' : i \in Rows \/
            (i = Len(disk_list) + 1 /\ disk_list'[i].id = next_disk_id'
             /\ next_disk_id' = next_disk_id + 1 /\ next_disk_id' \notin removed')
  <2>1. CASE UNCHANGED listVars
    BY <2>1 DEF listVars, Rows
  <2>2. CASE ~UNCHANGED listVars
    <3>1. RestOf(path) = disk_list
      BY <2>2, AddEffect DEF RestOf
    <3>2. /\ next_disk_id' = next_disk_id + 1 /\ next_disk_id' \notin removed
          /\ disk_list' = disk_list \/ OneMore(disk_list, disk_list', path, next_disk_id')
      BY <2>2, <3>1, AddEffect
    <3>3. CASE disk_list' = disk_list
      BY <3>3 DEF Rows
    <3>4. CASE OneMore(disk_list, disk_list', path, next_disk_id')
      BY <1>1, <1>2, <3>2, <3>4 DEF OneMore, Rows
    <3> QED
      BY <3>2, <3>3, <3>4
  <2> QED
    BY <2>1, <2>2
<1>4. next_disk_id' < IdSpan
  BY <1>1, <1>2 DEF IdsOk
<1>5. FirstPath' = FirstPath
  BY DEF FirstPath
<1>6. \A i \in Rows : /\ Seen(i)' <=> Seen(i)
                      /\ Goes(disk_list[i].path)' <=> Goes(disk_list[i].path)
  <2> SUFFICES ASSUME NEW i \in Rows
               PROVE  /\ Seen(i)' <=> Seen(i)
                      /\ Goes(disk_list[i].path)' <=> Goes(disk_list[i].path)
    OBVIOUS
  <2>1. \A k \in 1 .. i : k \in Rows /\ disk_list'[k].at = disk_list[k].at
    BY <1>2, <1>3 DEF Rows
  <2>2. Seen(i)' <=> Seen(i)
    BY <2>1 DEF Seen
  <2>3. Goes(disk_list[i].path)' <=> Goes(disk_list[i].path)
    BY <1>3, <1>5 DEF Goes
  <2> QED
    BY <2>2, <2>3
<1>7. \A i \in Rows : (Waits(i) => Waits(i)') /\ (Numbered(i) <=> Numbered(i)')
  BY <1>3, <1>5, <1>6 DEF Waits, Numbered, Relating
<1>8. \A i \in Rows' : i \notin Rows => ~Numbered(i)' /\ disk_list'[i].id \notin Away'
  <2> SUFFICES ASSUME NEW i \in Rows', i \notin Rows
               PROVE  ~Numbered(i)' /\ disk_list'[i].id \notin Away'
    OBVIOUS
  <2>1. disk_list'[i].id = next_disk_id' /\ next_disk_id' = next_disk_id + 1
        /\ next_disk_id' \notin removed'
    BY <1>3
  <2>2. monitor' \in Saying => gone'.id # next_disk_id'
    <3> SUFFICES ASSUME monitor' \in Saying PROVE gone.id # next_disk_id'
      OBVIOUS
    <3>1. gone.id \in Nat /\ (gone.id <= next_disk_id \/ gone.id >= IdSpan)
      BY DEF EventsInv, GoneInv, GivenOut, Saying
    <3> QED
      BY <1>2, <1>4, <2>1, <3>1
  <2> QED
    BY <1>2, <1>4, <2>1, <2>2 DEF Numbered, Away, Pending
<1>9. AwayInv'
  <2> SUFFICES ASSUME NEW i \in Rows', disk_list'[i].id \in Away' PROVE Numbered(i)' /\ Waits(i)'
    BY DEF AwayInv
  <2>1. i \in Rows
    BY <1>8
  <2>2. disk_list[i].id \in Away
    BY <1>1, <1>3, <2>1 DEF Away, Coming, Pending, Saying
  <2> QED
    BY <1>7, <2>1, <2>2 DEF EventsInv, AwayInv
<1>10. SeenInv'
  <2> SUFFICES ASSUME monitor' \in Relating, NEW i \in Rows', Seen(i)', Goes(disk_list[i].path)'
               PROVE  ~Numbered(i)'
    BY DEF SeenInv
  <2>1. monitor \in Relating
    BY DEF Relating
  <2>2. CASE i \in Rows
    BY <1>6, <1>7, <2>1, <2>2 DEF EventsInv, SeenInv
  <2> QED
    BY <1>8, <2>2
<1>11. TogetherInv'
  <2>1. monitor' \in {"say removed", "collect"} =>
           gone'.path \in DiskPaths
           /\ \A i \in Rows' : disk_list'[i].path = gone'.path => ~Numbered(i)'
    BY <1>3, <1>7, <1>8 DEF EventsInv, TogetherInv
  <2>2. ASSUME monitor' \in Relating
        PROVE  /\ paths' # {} /\ \A p \in paths' : p.place \in Nat /\ p.path \in DiskPaths
               /\ \A i, j \in Rows' :
                     /\ Numbered(i)' /\ disk_list'[i].id = disk_list'[j].id
                     /\ disk_list'[i].path \in PathsIn(paths')
                     => disk_list'[j].path \in PathsIn(paths')
    <3>1. monitor \in Relating
      BY <2>2 DEF Relating
    <3>2. \A i, j \in Rows' :
             Numbered(i)' /\ disk_list'[i].id = disk_list'[j].id => i \in Rows /\ j \in Rows
      BY <1>8 DEF Numbered
    <3> QED
      BY <1>3, <1>7, <3>1, <3>2 DEF EventsInv, TogetherInv
  <2> QED
    BY <2>1, <2>2 DEF TogetherInv
<1>12. ConnectedInv'
  BY <1>1, <1>3 DEF EventsInv, ConnectedInv, Pending, Saying
<1>13. SilentInv'
  BY <1>1 DEF EventsInv, SilentInv, Saying
<1>14. GoneInv'
  <2>1. \A id : GivenOut(id) => GivenOut(id)'
    BY <1>1, <1>2 DEF GivenOut
  <2> QED
    BY <1>1, <2>1 DEF EventsInv, GoneInv, Saying
<1> QED
  BY <1>1, <1>9, <1>10, <1>11, <1>12, <1>13, <1>14 DEF EventsInv

LEMMA LoadKeeps ==
    ASSUME WalkInv, EventsInv, NEW e \in Entries, DSKLoadDevicePath(e)
    PROVE  EventsInv'
<1>1. /\ UNCHANGED <<monitor, send_events, gone, paths, disk2, disk_list, next_disk_id>>
      /\ connected' = connected \cup {e.id} /\ removed' = removed \ {e.id}
      /\ replaced' = replaced \ {e.id}
      /\ monitor = "wait" \/ send_events
  BY DEF DSKLoadDevicePath, Tell, taskVars
<1>2. \E i \in Rows : disk_list[i] = e
  BY ListIsSeq DEF Entries, WalkInv, Rows
<1>3. FirstPath' = FirstPath
  BY <1>1 DEF FirstPath
<1>4. AwayInv'
  BY <1>1, <1>3 DEF EventsInv, AwayInv, Rows, Away, Coming, Pending, Numbered, Waits, Goes, Seen
<1>5. SeenInv'
  BY <1>1, <1>3 DEF EventsInv, SeenInv, Rows, Numbered, Goes, Seen
<1>6. TogetherInv'
  BY <1>1 DEF EventsInv, TogetherInv, Rows, Numbered
<1>7. ConnectedInv'
  BY <1>1, <1>2 DEF EventsInv, ConnectedInv, Rows, Pending
<1>8. SilentInv' /\ GoneInv' /\ IdsOk(disk_list, next_disk_id)'
  BY <1>1 DEF EventsInv, SilentInv, GoneInv, GivenOut
<1> QED
  BY <1>4, <1>5, <1>6, <1>7, <1>8 DEF EventsInv

(* A disk that was not found goes, and what goes with it is collected.     *)
LEMMA RemoveLostKeeps ==
    ASSUME NumbersApart, WalkInv, EventsInv, RemoveLost
    PROVE  EventsInv'
<1> PICK p : p = PlaceOf(disk_list, disk)
  OBVIOUS
<1> PICK r : r = disk_list'
  OBVIOUS
<1> PICK id : id = disk_list[p].id
  OBVIOUS
<1>1. /\ monitor = "sweep" /\ disk # NULL
      /\ gone' = [id |-> Entry(disk).id, path |-> Entry(disk).path]
      /\ r = RemoveDisk(disk_list, disk)
      /\ UNCHANGED <<next_disk_id, connected, removed, replaced, send_events>>
  BY DEF RemoveLost
<1>2. \/ send_events /\ monitor' = "say removed"
      \/ ~send_events /\ monitor' = "collect"
  BY DEF RemoveLost
<1>3. p \in Rows /\ disk_list[p].at = disk /\ Entry(disk) = disk_list[p]
  BY <1>1, EntryIsThere DEF WalkInv, Rows
<1>4. LessOne(disk_list, p, r)
  BY <1>1, <1>3, WithoutPlaces DEF WalkInv, RemoveDisk, Rows
<1>5. gone'.id = id /\ gone'.path = disk_list[p].path
  BY <1>1, <1>3
<1>6. IdsOk(disk_list, next_disk_id) /\ IdsOk(disk_list', next_disk_id')
  BY <1>1, <1>3, IdsWithout DEF EventsInv, WalkInv, RemoveDisk, Rows
<1>7. /\ \A j \in Rows' : \E i \in Rows : i # p /\ r[j] = disk_list[i]
      /\ \A i \in Rows : i # p => \E j \in Rows' : r[j] = disk_list[i]
  BY <1>4 DEF LessOne, Rows
<1>8. /\ \A i \in Rows : disk_list[i].id \notin removed
      /\ \A c \in connected : (\E i \in Rows : disk_list[i].id = c) \/ c \in replaced
  BY <1>1, AtPlain DEF Plain
<1>9. AwayInv'
  <2> SUFFICES ASSUME NEW j \in Rows', r[j].id \in Away' PROVE r[j].id >= IdSpan /\ r[j].id = id
    BY <1>2, <1>5 DEF AwayInv, Numbered, Waits
  <2>1. PICK i \in Rows : i # p /\ r[j] = disk_list[i]
    BY <1>7
  <2>2. r[j].id = id
    BY <1>1, <1>5, <1>8, <2>1 DEF Away, Pending
  <2> QED
    BY <1>3, <1>6, <2>1, <2>2 DEF IdsOk, Rows
<1>10. SeenInv'
  BY <1>2 DEF SeenInv, Relating
<1>11. TogetherInv'
  <2>1. \A i \in Rows : i # p => disk_list[i].path # disk_list[p].path
    BY <1>3 DEF WalkInv, ListOk, Rows
  <2>2. disk_list[p].path \in DiskPaths
    BY <1>3 DEF WalkInv, ListOk, Rows
  <2>3. \A j \in Rows' : r[j].path # gone'.path
    BY <1>5, <1>7, <2>1
  <2> QED
    BY <1>2, <1>5, <2>2, <2>3 DEF TogetherInv, Relating
<1>12. ConnectedInv'
  <2> SUFFICES ASSUME NEW c \in connected'
               PROVE  (\E j \in Rows' : r[j].id = c) \/ c \in Pending' \/ c \in replaced'
    BY <1>2 DEF ConnectedInv
  <2>1. c \in connected /\ send_events /\ monitor' = "say removed"
    BY <1>1, <1>2 DEF EventsInv, SilentInv
  <2>2. ASSUME NEW i \in Rows, disk_list[i].id = c
        PROVE  (\E j \in Rows' : r[j].id = c) \/ c \in Pending'
    <3>1. CASE i = p
      BY <1>5, <2>1, <2>2, <3>1 DEF Pending, Saying
    <3>2. CASE i # p
      BY <1>7, <2>2, <3>2
    <3> QED
      BY <3>1, <3>2
  <2> QED
    BY <1>1, <1>8, <2>1, <2>2
<1>13. SilentInv'
  BY <1>1, <1>2 DEF EventsInv, SilentInv, Saying
<1>14. GoneInv'
  <2>1. id \in Nat /\ (id <= next_disk_id \/ id >= IdSpan)
    BY <1>3, <1>6, IdsAre DEF Rows
  <2> QED
    BY <1>1, <1>5, <2>1 DEF EventsInv, GoneInv, GivenOut
<1> QED
  BY <1>6, <1>9, <1>10, <1>11, <1>12, <1>13, <1>14 DEF EventsInv

LEMMA SayRemovedKeeps ==
    ASSUME EventsInv, SayRemoved
    PROVE  EventsInv'
<1>1. /\ monitor = "say removed" /\ monitor' = "collect"
      /\ removed' = removed \cup {gone.id} /\ connected' = connected \ {gone.id}
      /\ UNCHANGED <<disk_list, next_disk_id, send_events, gone, replaced>>
  BY DEF SayRemoved, TellGone
<1>2. AwayInv'
  BY <1>1 DEF EventsInv, AwayInv, Away, Coming, Pending, Saying, Numbered, Waits, Relating, Rows
<1>3. TogetherInv'
  BY <1>1 DEF EventsInv, TogetherInv, Numbered, Relating, Rows
<1>4. ConnectedInv'
  BY <1>1 DEF EventsInv, ConnectedInv, Pending, Saying, Rows
<1>5. SeenInv' /\ SilentInv' /\ GoneInv' /\ IdsOk(disk_list, next_disk_id)'
  BY <1>1 DEF EventsInv, SeenInv, SilentInv, GoneInv, GivenOut, Saying, Relating
<1> QED
  BY <1>2, <1>3, <1>4, <1>5 DEF EventsInv

(* The path of the disk itself is the first.                               *)
LEMMA CollectKeeps ==
    ASSUME NumbersApart, WalkInv, EventsInv, Collect
    PROVE  EventsInv'
<1>1. /\ monitor = "collect" /\ monitor' = "related"
      /\ paths' = RelatedPaths(disk_list, gone)
      /\ disk2' = FirstAt(disk_list)
      /\ UNCHANGED <<disk_list, next_disk_id, connected, removed, replaced, send_events, gone>>
  BY DEF Collect, listVars
<1>2. /\ DOMAIN disk_list = Rows /\ Len(disk_list) \in Nat
      /\ \A i \in Rows : disk_list[i].path \in DiskPaths
      /\ \A i, j \in Rows : i # j => disk_list[i].path # disk_list[j].path
  BY ListIsSeq DEF WalkInv, ListOk, Rows
<1> DEFINE same == {j \in Rows : disk_list[j].id = gone.id}
<1>3. paths' = {[place |-> 0, path |-> gone.path]}
               \cup {[place |-> i, path |-> disk_list[i].path] : i \in same}
  BY <1>1, <1>2 DEF RelatedPaths
<1>4. /\ gone.path \in DiskPaths
      /\ \A i \in Rows : disk_list[i].path = gone.path => ~Numbered(i)
      /\ \A i \in Rows : disk_list[i].id \in removed =>
            Numbered(i) /\ disk_list[i].id = gone.id
  BY <1>1 DEF EventsInv, TogetherInv, AwayInv, Away, Coming, Pending, Saying, Waits, Relating
<1>5. \A q \in paths' : q.place \in Nat /\ q.path \in DiskPaths
  BY <1>2, <1>3, <1>4 DEF Rows
<1>6. [place |-> 0, path |-> gone.path] \in paths'
  BY <1>3
<1>7. FirstPath'.place = 0
  <2>1. \E q \in paths' : \A s \in paths' : q.place <= s.place
    BY <1>5, <1>6
  <2>2. FirstPath' \in paths' /\ \A s \in paths' : FirstPath'.place <= s.place
    BY <2>1 DEF FirstPath
  <2>3. FirstPath'.place <= 0
    BY <1>6, <2>2
  <2> QED
    BY <1>5, <2>2, <2>3
<1>8. \A i \in same : disk_list[i].path \in PathsIn((paths \ {FirstPath})')
  <2> SUFFICES ASSUME NEW i \in same PROVE disk_list[i].path \in PathsIn((paths \ {FirstPath})')
    OBVIOUS
  <2> PICK q : q = [place |-> i, path |-> disk_list[i].path]
    OBVIOUS
  <2>1. q \in paths' /\ q.place = i /\ q.path = disk_list[i].path /\ i # 0
    BY <1>3 DEF Rows
  <2>2. q # FirstPath'
    BY <1>7, <2>1
  <2> QED
    BY <2>1, <2>2 DEF PathsIn
<1>9. AwayInv'
  BY <1>1, <1>4, <1>8 DEF AwayInv, Away, Coming, Pending, Saying, Waits, Relating, Numbered, Rows
<1>10. SeenInv'
  <2> SUFFICES ASSUME NEW i \in Rows, Seen(i)' PROVE FALSE
    BY <1>1 DEF SeenInv, Rows
  <2>1. 1 \in 1 .. i /\ disk_list # <<>>
    BY <1>2 DEF Rows
  <2>2. disk2' = disk_list[1].at
    BY <1>1, <2>1 DEF FirstAt
  <2> QED
    BY <1>1, <2>1, <2>2 DEF Seen
<1>11. TogetherInv'
  <2>1. ASSUME NEW i \in Rows, NEW j \in Rows, Numbered(i),
               disk_list[i].id = disk_list[j].id, disk_list[i].path \in PathsIn(paths')
        PROVE  disk_list[j].path \in PathsIn(paths')
    <3>1. PICK q \in paths' : q.path = disk_list[i].path
      BY <2>1 DEF PathsIn
    <3>2. disk_list[i].path # gone.path
      BY <1>4, <2>1
    <3>3. PICK k \in same : q = [place |-> k, path |-> disk_list[k].path]
      BY <1>3, <3>1, <3>2
    <3>4. k = i
      BY <1>2, <3>1, <3>3
    <3>5. j \in same
      BY <2>1, <3>4
    <3> QED
      BY <1>8, <3>5 DEF PathsIn
  <2>2. paths' # {}
    BY <1>6
  <2> QED
    BY <1>1, <1>5, <2>1, <2>2 DEF TogetherInv, Numbered, Rows
<1>12. ConnectedInv'
  BY <1>1 DEF EventsInv, ConnectedInv, Pending, Saying, Rows
<1>13. SilentInv' /\ GoneInv' /\ IdsOk(disk_list, next_disk_id)'
  BY <1>1 DEF EventsInv, SilentInv, GoneInv, GivenOut, Saying
<1> QED
  BY <1>9, <1>10, <1>11, <1>12, <1>13 DEF EventsInv

(* The two loops that remove what goes with it: over the paths, and over   *)
(* the list for each path.                                                 *)
LEMMA FirstPathIsThere ==
    ASSUME paths # {}, \A p \in paths : p.place \in Nat /\ p.path \in DiskPaths
    PROVE  FirstPath \in paths
<1> DEFINE S == {p.place : p \in paths}
<1>1. S \subseteq Nat /\ S # {}
  OBVIOUS
<1>2. PICK k \in S : \A j \in S : k <= j
  BY <1>1, Least
<1> QED
  BY <1>2 DEF FirstPath

LEMMA NextPathKeeps ==
    ASSUME WalkInv, EventsInv, NextPath
    PROVE  EventsInv'
<1>1. /\ monitor = "related" /\ disk2 = NULL /\ paths' = paths \ {FirstPath}
      /\ UNCHANGED <<disk_list, next_disk_id, connected, removed, replaced, send_events>>
      /\ \/ paths' = {} /\ monitor' = "sweep"
         \/ paths' # {} /\ monitor' = "related" /\ disk2' = FirstAt(disk_list)
            /\ UNCHANGED gone
  BY DEF NextPath, listVars
<1>2. \A i \in Rows : Seen(i)
  BY <1>1, NullIsNoAddress DEF Seen, Rows, WalkInv
<1>3. \A i \in Rows : disk_list[i].id \in removed =>
         Numbered(i) /\ disk_list[i].path \in PathsIn(paths')
  BY <1>1, <1>2 DEF EventsInv, AwayInv, Away, Coming, Pending, Saying, Waits, Relating
<1>4. IdsOk(disk_list, next_disk_id)' /\ GoneInv'
      /\ \A c \in connected : (\E i \in Rows : disk_list[i].id = c) \/ c \in replaced
  BY <1>1 DEF EventsInv, GoneInv, GivenOut, Saying, ConnectedInv, Pending
<1>5. CASE paths' = {}
  <2>1. \A i \in Rows' : disk_list'[i].id \notin removed'
    BY <1>1, <1>3, <1>5 DEF PathsIn, Rows
  <2>2. \A c \in connected' : (\E i \in Rows' : disk_list'[i].id = c) \/ c \in replaced'
    BY <1>1, <1>4 DEF Rows
  <2>3. monitor' = "sweep"
        /\ (~send_events' => removed' = {} /\ (monitor' # "wait" => connected' = {}))
    BY <1>1, <1>5 DEF EventsInv, SilentInv
  <2> QED
    BY <1>4, <2>1, <2>2, <2>3
    DEF EventsInv, AwayInv, SeenInv, TogetherInv, ConnectedInv, SilentInv, Away,
        Pending, Saying, Relating
<1>6. CASE paths' # {}
  <2>1. monitor' = "related" /\ disk2' = FirstAt(disk_list)
    BY <1>1, <1>6
  <2>2. \A i \in Rows : ~Seen(i)'
    <3> SUFFICES ASSUME NEW i \in Rows, Seen(i)' PROVE FALSE
      OBVIOUS
    <3>1. 1 \in 1 .. i /\ disk_list # <<>>
      BY ListIsSeq DEF Rows, WalkInv
    <3>2. disk2' = disk_list[1].at
      BY <2>1, <3>1 DEF FirstAt
    <3> QED
      BY <1>1, <3>1, <3>2 DEF Seen
  <2>3. \A q \in paths' : q.place \in Nat /\ q.path \in DiskPaths
    BY <1>1 DEF EventsInv, TogetherInv, Relating
  <2>4. FirstPath' \in paths'
    <3>1. \E q \in paths' : \A s \in paths' : q.place <= s.place
      <4> DEFINE S == {q.place : q \in paths'}
      <4>1. S \subseteq Nat /\ S # {}
        BY <1>6, <2>3
      <4>2. PICK k \in S : \A j \in S : k <= j
        BY <4>1, Least
      <4> QED
        BY <4>2
    <3> QED
      BY <3>1 DEF FirstPath
  <2>5. AwayInv'
    <3> SUFFICES ASSUME NEW i \in Rows, disk_list[i].id \in removed
                 PROVE  Numbered(i) /\ (\/ disk_list[i].path \in PathsIn((paths \ {FirstPath})')
                                        \/ Goes(disk_list[i].path)' /\ ~Seen(i)')
      BY <1>1, <2>1 DEF AwayInv, Away, Coming, Pending, Saying, Waits, Relating, Numbered, Rows
    <3>1. PICK q \in paths' : q.path = disk_list[i].path
      BY <1>3 DEF PathsIn
    <3>2. CASE q = FirstPath'
      BY <1>1, <1>3, <2>2, <3>1, <3>2 DEF Goes
    <3>3. CASE q # FirstPath'
      BY <1>3, <3>1, <3>3 DEF PathsIn
    <3> QED
      BY <3>2, <3>3
  <2>6. SeenInv'
    BY <1>1, <2>2 DEF SeenInv, Rows
  <2>7. TogetherInv'
    <3>1. ASSUME NEW i \in Rows, NEW j \in Rows, Numbered(i),
                 disk_list[i].id = disk_list[j].id, disk_list[i].path \in PathsIn(paths')
          PROVE  disk_list[j].path \in PathsIn(paths')
      <4>1. disk_list[j].path \in PathsIn(paths)
        BY <1>1, <3>1 DEF EventsInv, TogetherInv, Relating, PathsIn
      <4>2. disk_list[j].path # FirstPath.path
        BY <1>1, <1>2, <3>1 DEF EventsInv, SeenInv, Goes, Numbered, Relating
      <4> QED
        BY <1>1, <4>1, <4>2 DEF PathsIn
    <3> QED
      BY <1>1, <1>6, <2>1, <2>3, <3>1 DEF TogetherInv, Numbered, Rows
  <2>8. ConnectedInv' /\ SilentInv'
    BY <1>1, <1>4, <2>1 DEF EventsInv, ConnectedInv, SilentInv, Pending, Saying, Rows
  <2> QED
    BY <1>4, <2>5, <2>6, <2>7, <2>8 DEF EventsInv
<1> QED
  BY <1>5, <1>6

(* The inner loop moves on to the next entry.                              *)
LEMMA SeenNext ==
    ASSUME ListOk(disk_list), NEW p \in Rows, disk_list[p].at = disk2,
           NEW i \in Rows
    PROVE  /\ Seen(i) <=> i < p
           /\ (\A k \in 1 .. i : disk_list[k].at # NextAt(disk2)) <=> i <= p
<1>1. Len(disk_list) \in Nat /\ disk2 \in AddressesOf(disk_list) /\ disk2 # NULL
  <2>1. Len(disk_list) \in Nat
    BY ListIsSeq
  <2>2. p \in 1 .. Len(disk_list) /\ p \in 1 .. p
    BY <2>1 DEF Rows
  <2>3. disk2 # NULL
    BY <2>2, NullIsNoAddress
  <2> QED
    BY <2>1, <2>2, <2>3 DEF AddressesOf
<1>2. PlaceOf(disk_list, disk2) = p
  <2>1. PICK k \in Rows : k = PlaceOf(disk_list, disk2) /\ disk_list[k].at = disk2
    BY <1>1, PlaceIsThere DEF Rows
  <2> QED
    BY <2>1 DEF ListOk, Rows
<1>3. \A k \in Rows : disk_list[k].at = disk2 <=> k = p
  BY DEF ListOk, Rows
<1>4. Seen(i) <=> i < p
  <2>1. \A k \in 1 .. i : k \in Rows
    BY <1>1 DEF Rows
  <2> QED
    BY <1>1, <1>3, <2>1 DEF Seen, Rows
<1>5. (\A k \in 1 .. i : disk_list[k].at # NextAt(disk2)) <=> i <= p
  <2>1. \A k \in 1 .. i : k \in Rows
    BY <1>1 DEF Rows
  <2>2. CASE p = Len(disk_list)
    <3>1. NextAt(disk2) = NULL /\ i <= p
      BY <1>1, <1>2, <2>2 DEF NextAt, Rows
    <3> QED
      BY <2>1, <3>1, NullIsNoAddress DEF Rows
  <2>3. CASE p # Len(disk_list)
    <3>1. NextAt(disk2) = disk_list[p + 1].at /\ p + 1 \in Rows
      BY <1>1, <1>2, <2>3 DEF NextAt, Rows
    <3>2. \A k \in Rows : disk_list[k].at = NextAt(disk2) <=> k = p + 1
      BY <3>1 DEF ListOk, Rows
    <3> QED
      BY <1>1, <2>1, <3>1, <3>2 DEF Rows
  <2> QED
    BY <2>2, <2>3
<1> QED
  BY <1>4, <1>5

LEMMA UnrelatedKeeps ==
    ASSUME WalkInv, EventsInv, Unrelated
    PROVE  EventsInv'
<1>1. /\ monitor = "related" /\ disk2 # NULL /\ ~Related(disk2) /\ disk2' = NextAt(disk2)
      /\ UNCHANGED <<monitor, send_events, gone, paths, disk_list, next_disk_id, connected,
                     removed, replaced>>
  BY DEF Unrelated, listVars
<1> PICK p : p = PlaceOf(disk_list, disk2)
  OBVIOUS
<1>2. p \in Rows /\ disk_list[p].at = disk2 /\ Entry(disk2) = disk_list[p]
  BY <1>1, EntryIsThere DEF WalkInv, Rows
<1>3. ~Goes(disk_list[p].path)
  BY <1>1, <1>2 DEF Related, Goes
<1>4. FirstPath' = FirstPath
  BY <1>1 DEF FirstPath
<1>5. \A i \in Rows : (Seen(i) <=> i < p) /\ (Seen(i)' <=> i <= p)
  <2> SUFFICES ASSUME NEW i \in Rows PROVE (Seen(i) <=> i < p) /\ (Seen(i)' <=> i <= p)
    OBVIOUS
  <2>1. /\ Seen(i) <=> i < p
        /\ (\A k \in 1 .. i : disk_list[k].at # NextAt(disk2)) <=> i <= p
    BY <1>2, SeenNext DEF WalkInv
  <2>2. Seen(i)' <=> \A k \in 1 .. i : disk_list[k].at # NextAt(disk2)
    BY <1>1 DEF Seen
  <2> QED
    BY <2>1, <2>2
<1>6. \A i \in Rows : /\ Goes(disk_list[i].path)' <=> Goes(disk_list[i].path)
                      /\ Goes(disk_list[i].path) => (Seen(i)' <=> Seen(i))
  <2>1. \A i \in Rows : i \in Int /\ p \in Int
    BY <1>2 DEF Rows
  <2>2. \A i \in Rows : Goes(disk_list[i].path) => i # p
    BY <1>3
  <2>3. \A i \in Rows : Goes(disk_list[i].path)' <=> Goes(disk_list[i].path)
    BY <1>1, <1>4 DEF Goes
  <2> QED
    BY <1>5, <2>1, <2>2, <2>3
<1>7. AwayInv'
  BY <1>1, <1>4, <1>6
  DEF EventsInv, AwayInv, Away, Coming, Pending, Saying, Waits, Relating, Numbered, Rows
<1>8. SeenInv'
  BY <1>1, <1>6 DEF EventsInv, SeenInv, Numbered, Rows
<1>9. TogetherInv'
  BY <1>1 DEF EventsInv, TogetherInv, Numbered, Rows
<1>10. ConnectedInv' /\ SilentInv' /\ GoneInv' /\ IdsOk(disk_list, next_disk_id)'
  BY <1>1 DEF EventsInv, ConnectedInv, SilentInv, GoneInv, GivenOut, Pending, Saying, Rows
<1> QED
  BY <1>7, <1>8, <1>9, <1>10 DEF EventsInv

(* A disk that goes takes those of its device with it: if the path is its  *)
(* own theirs are still to come, and else they are below it too.           *)
LEMMA RemoveRelatedKeeps ==
    ASSUME NumbersApart, NestedTogether, WalkInv, EventsInv, RemoveRelated
    PROVE  EventsInv'
<1> PICK p : p = PlaceOf(disk_list, disk2)
  OBVIOUS
<1> PICK r : r = disk_list'
  OBVIOUS
<1> PICK id : id = disk_list[p].id
  OBVIOUS
<1>1. /\ monitor = "related" /\ disk2 # NULL /\ Related(disk2)
      /\ disk2' = NextAt(disk2)
      /\ gone' = [id |-> Entry(disk2).id, path |-> gone.path]
      /\ r = RemoveDisk(disk_list, disk2)
      /\ UNCHANGED <<next_disk_id, connected, removed, replaced, send_events, paths>>
      /\ \/ send_events /\ monitor' = "say related"
         \/ ~send_events /\ monitor' = "related"
  BY DEF RemoveRelated
<1>2. p \in Rows /\ disk_list[p].at = disk2 /\ Entry(disk2) = disk_list[p]
  BY <1>1, EntryIsThere DEF WalkInv, Rows
<1>3. LessOne(disk_list, p, r)
  BY <1>1, <1>2, WithoutPlaces DEF WalkInv, RemoveDisk, Rows
<1>4. Goes(disk_list[p].path)
  BY <1>1, <1>2 DEF Related, Goes
<1>5. IdsOk(disk_list, next_disk_id) /\ IdsOk(disk_list', next_disk_id')
  BY <1>1, <1>2, IdsWithout DEF EventsInv, WalkInv, RemoveDisk, Rows
<1>6. /\ \A j \in Rows' : \E i \in Rows : i # p /\ MovesUp(i, j, p) /\ r[j] = disk_list[i]
      /\ \A i \in Rows : i # p => \E j \in Rows' : r[j] = disk_list[i]
  BY <1>3 DEF LessOne, Rows
<1>7. FirstPath' = FirstPath /\ FirstPath \in paths
      /\ FirstPath.path \in DiskPaths
  BY <1>1, FirstPathIsThere DEF FirstPath, EventsInv, TogetherInv, Relating
<1>8. \A j \in Rows' : Seen(j)' => j < p
  <2> SUFFICES ASSUME NEW j \in Rows', Seen(j)', ~(j < p) PROVE FALSE
    OBVIOUS
  <2>1. PICK i \in Rows : i # p /\ MovesUp(i, p, p) /\ r[p] = disk_list[i]
    <3>1. p \in Rows'
      BY <1>2, <1>3 DEF Rows, LessOne
    <3> QED
      BY <1>6, <3>1
  <2>2. i = p + 1 /\ Len(disk_list) \in Nat
    BY <1>2, <1>3, <2>1 DEF MovesUp, Rows, LessOne
  <2>3. disk2' = disk_list[i].at
    <3>1. p # Len(disk_list)
      BY <2>2 DEF Rows
    <3> QED
      BY <1>1, <2>2, <3>1 DEF NextAt
  <2>4. r[p].at # disk2' /\ p \in 1 .. j
    BY <1>2, <1>3 DEF Seen, Rows
  <2> QED
    BY <2>1, <2>3, <2>4
<1>9. ASSUME NEW i \in Rows, i # p, disk_list[i].id \in removed \/ disk_list[i].id = id
      PROVE  /\ Numbered(i)
             /\ \/ disk_list[i].path \in PathsIn(paths \ {FirstPath})
                \/ Goes(disk_list[i].path) /\ ~(i < p)
  <2>0. Seen(i) <=> i < p
    BY <1>2, SeenNext DEF WalkInv
  <2>1. CASE disk_list[i].id \in removed
    BY <1>1, <2>0, <2>1 DEF EventsInv, AwayInv, Away, Coming, Waits, Saying, Relating
  <2>2. CASE disk_list[i].id = id
    <3>1. Numbered(i) /\ Numbered(p)
      BY <1>2, <1>5, <1>9, <2>2 DEF IdsOk, Numbered, Rows
    <3>2. Goes(disk_list[i].path) => ~(i < p)
      BY <1>1, <2>0, <3>1 DEF EventsInv, SeenInv, Relating
    <3>3. CASE disk_list[p].path = FirstPath.path
      <4>1. disk_list[p].path \in PathsIn(paths)
        BY <1>7, <3>3 DEF PathsIn
      <4>2. disk_list[i].path \in PathsIn(paths)
        BY <1>1, <1>2, <2>2, <3>1, <4>1 DEF EventsInv, TogetherInv, Relating
      <4>3. disk_list[i].path # FirstPath.path
        BY <1>2, <1>9, <3>3 DEF WalkInv, ListOk, Rows
      <4> QED
        BY <3>1, <4>2, <4>3 DEF PathsIn
    <3>4. CASE SubOf(disk_list[p].path, FirstPath.path)
      <4>1. PICK m \in Range(Mounts) :
                m.number # 0 /\ m.number = id /\ m.path = disk_list[p].path
        BY <1>2, <1>5, <3>1, DiskAssumption DEF IdsOk, Numbered, Rows
      <4>2. PICK n \in Range(Mounts) :
                n.number # 0 /\ n.number = id /\ n.path = disk_list[i].path
        BY <1>5, <2>2, <3>1, DiskAssumption DEF IdsOk, Numbered, Rows
      <4>3. Goes(disk_list[i].path)
        BY <1>7, <3>4, <4>1, <4>2 DEF NestedTogether, Goes
      <4> QED
        BY <3>1, <3>2, <4>3
    <3> QED
      BY <1>4, <3>3, <3>4 DEF Goes
  <2> QED
    BY <1>9, <2>1, <2>2
<1>10. gone'.id = id
  BY <1>1, <1>2
<1>11. AwayInv'
  <2> SUFFICES ASSUME NEW j \in Rows', r[j].id \in Away' PROVE Numbered(j)' /\ Waits(j)'
    BY DEF AwayInv
  <2>1. PICK i \in Rows : i # p /\ MovesUp(i, j, p) /\ r[j] = disk_list[i]
    BY <1>6
  <2>2. disk_list[i].id \in removed \/ disk_list[i].id = id
    BY <1>1, <1>10, <2>1 DEF Away, Pending, Saying
  <2>3. Seen(j)' => i < p
    BY <1>2, <1>8, <2>1 DEF MovesUp, Rows
  <2>4. Numbered(i) /\ (\/ disk_list[i].path \in PathsIn(paths \ {FirstPath})
                        \/ Goes(disk_list[i].path) /\ ~(i < p))
    BY <1>9, <2>1, <2>2
  <2> QED
    BY <1>1, <1>7, <2>1, <2>3, <2>4 DEF Waits, Numbered, Goes, Relating
<1>12. SeenInv'
  <2> SUFFICES ASSUME NEW j \in Rows', Seen(j)', Goes(r[j].path)' PROVE ~Numbered(j)'
    BY DEF SeenInv
  <2>1. PICK i \in Rows : i # p /\ MovesUp(i, j, p) /\ r[j] = disk_list[i]
    BY <1>6
  <2>2. i < p
    BY <1>2, <1>8, <2>1 DEF MovesUp, Rows
  <2>3. Seen(i) <=> i < p
    BY <1>2, SeenNext DEF WalkInv
  <2> QED
    BY <1>1, <1>7, <2>1, <2>2, <2>3 DEF EventsInv, SeenInv, Numbered, Goes, Relating
<1>13. TogetherInv'
  <2>1. /\ monitor \in Relating /\ monitor' \in Relating
        /\ monitor' \notin {"say removed", "collect"}
    BY <1>1 DEF Relating
  <2>2. paths' # {} /\ \A q \in paths' : q.place \in Nat /\ q.path \in DiskPaths
    BY <1>1, <2>1 DEF EventsInv, TogetherInv
  <2>3. ASSUME NEW j \in Rows', NEW k \in Rows', r[j].id >= IdSpan, r[j].id = r[k].id,
               r[j].path \in PathsIn(paths)
        PROVE  r[k].path \in PathsIn(paths)
    <3>1. PICK a \in Rows : r[j] = disk_list[a]
      BY <1>6
    <3>2. PICK b \in Rows : r[k] = disk_list[b]
      BY <1>6
    <3> QED
      BY <2>1, <2>3, <3>1, <3>2 DEF EventsInv, TogetherInv, Numbered
  <2> QED
    BY <1>1, <2>1, <2>2, <2>3 DEF TogetherInv, Numbered
<1>14. ConnectedInv'
  <2> SUFFICES ASSUME NEW c \in connected'
               PROVE  (\E j \in Rows' : r[j].id = c) \/ c \in Pending' \/ c \in replaced'
    BY <1>1 DEF ConnectedInv
  <2>1. c \in connected /\ send_events /\ monitor' = "say related"
    BY <1>1 DEF EventsInv, SilentInv
  <2>2. ASSUME NEW i \in Rows, disk_list[i].id = c
        PROVE  (\E j \in Rows' : r[j].id = c) \/ c \in Pending'
    <3>1. CASE i = p
      BY <1>10, <2>1, <2>2, <3>1 DEF Pending, Saying
    <3>2. CASE i # p
      BY <1>6, <2>2, <3>2
    <3> QED
      BY <3>1, <3>2
  <2>3. (\E i \in Rows : disk_list[i].id = c) \/ c \in replaced
    BY <1>1, <2>1 DEF EventsInv, ConnectedInv, Pending, Saying
  <2> QED
    BY <1>1, <2>2, <2>3
<1>15. SilentInv'
  BY <1>1 DEF EventsInv, SilentInv, Saying
<1>16. GoneInv'
  <2>1. id \in Nat /\ (id <= next_disk_id \/ id >= IdSpan)
    BY <1>2, <1>5, IdsAre DEF Rows
  <2> QED
    BY <1>1, <1>10, <2>1 DEF EventsInv, GoneInv, GivenOut
<1> QED
  BY <1>5, <1>11, <1>12, <1>13, <1>14, <1>15, <1>16 DEF EventsInv

LEMMA SayRelatedKeeps ==
    ASSUME EventsInv, SayRelated
    PROVE  EventsInv'
<1>1. /\ monitor = "say related" /\ monitor' = "related"
      /\ removed' = removed \cup {gone.id} /\ connected' = connected \ {gone.id}
      /\ UNCHANGED <<disk_list, next_disk_id, send_events, gone, paths, disk2, replaced>>
  BY DEF SayRelated, TellGone
<1>2. FirstPath' = FirstPath
  BY <1>1 DEF FirstPath
<1>3. AwayInv'
  BY <1>1, <1>2
  DEF EventsInv, AwayInv, Away, Coming, Pending, Saying, Numbered, Waits, Goes, Seen, Relating,
      Rows
<1>4. SeenInv'
  BY <1>1, <1>2 DEF EventsInv, SeenInv, Goes, Seen, Numbered, Relating, Rows
<1>5. TogetherInv'
  BY <1>1 DEF EventsInv, TogetherInv, Numbered, Relating, Rows
<1>6. ConnectedInv'
  BY <1>1 DEF EventsInv, ConnectedInv, Pending, Saying, Rows
<1>7. SilentInv' /\ GoneInv' /\ IdsOk(disk_list, next_disk_id)'
  BY <1>1 DEF EventsInv, SilentInv, GoneInv, GivenOut, Saying
<1> QED
  BY <1>3, <1>4, <1>5, <1>6, <1>7 DEF EventsInv

LEMMA EventsStep ==
    ASSUME CalmAdds, IdSpan > 1, NumbersApart, NestedTogether, WalkInv, EventsInv,
           [DiskNext]_diskVars, next_disk_id <= next_disk_id'
    PROVE  EventsInv'
<1>1. CASE UNCHANGED <<taskVars, listVars>>
  BY <1>1, NothingSaid DEF taskVars, listVars
<1>2. CASE Begin
  <2>1. /\ AddDevicePath(DefaultPath) /\ monitor = "begin" /\ monitor' = "mark"
        /\ UNCHANGED <<send_events, gone, paths, disk2>>
    BY <1>2 DEF Begin
  <2> QED
    BY <2>1, AddKeepsInRefresh
<1>3. CASE \E path \in UserPaths : DSKAddDevicePath(path)
  <2>1. PICK path \in UserPaths : DSKAddDevicePath(path)
    BY <1>3
  <2>2. /\ path \in UserPaths \cup {DefaultPath} /\ AddDevicePath(path)
        /\ UNCHANGED <<monitor, send_events, gone, paths, disk2>>
    BY <2>1 DEF DSKAddDevicePath, taskVars
  <2>3. CASE monitor = "wait"
    BY <2>2, <2>3, AddKeepsAtWait
  <2>4. CASE monitor # "wait"
    BY <2>2, <2>4, AddKeepsInRefresh
  <2> QED
    BY <2>3, <2>4
<1>4. CASE \E e \in Entries : DSKLoadDevicePath(e)
  BY <1>4, LoadKeeps
<1>5. CASE StartRefresh \/ Mark \/ ReadMounts \/ EndOfFile \/ Stays \/ EndRefresh
  BY <1>5, PlainSteps
<1>6. CASE Line
  BY <1>6, LineKeeps
<1>7. CASE SayConnected
  BY <1>7, SayConnectedKeeps
<1>8. CASE RemoveLost
  BY <1>8, RemoveLostKeeps
<1>9. CASE SayRemoved
  BY <1>9, SayRemovedKeeps
<1>10. CASE Collect
  BY <1>10, CollectKeeps
<1>11. CASE NextPath
  BY <1>11, NextPathKeeps
<1>12. CASE Unrelated
  BY <1>12, UnrelatedKeeps
<1>13. CASE RemoveRelated
  BY <1>13, RemoveRelatedKeeps
<1>14. CASE SayRelated
  BY <1>14, SayRelatedKeeps
<1>15. CASE (\E refresh \in BOOLEAN : DSKSetRefresh(refresh)) \/ (\E m \in Range(Mounts) : Plug(m))
  BY <1>1, <1>15 DEF DSKSetRefresh, Plug
<1> QED
  BY <1>1, <1>2, <1>3, <1>4, <1>5, <1>6, <1>7, <1>8, <1>9, <1>10, <1>11, <1>12, <1>13, <1>14,
     <1>15 DEF DiskNext, MonitorNext, diskVars

(***************************************************************************)
(* Between two refreshes the events agree with the list, for any mounts    *)
(* and directories, whatever comes and goes and whoever adds or loads a    *)
(* directory between two events; but for the IDs whose entry a call        *)
(* replaced, which tells nobody.  It holds as long as no call replaces one *)
(* during a refresh, a mount below a stick that goes does not belong to a  *)
(* device that is also mounted elsewhere, and the counter of the IDs does  *)
(* not wrap.                                                               *)
(***************************************************************************)
THEOREM EventsAgreeTheorem ==
    ASSUME CalmAdds, IdSpan > 1, NumbersApart, NestedTogether
    PROVE  DiskSpec /\ [][next_disk_id <= next_disk_id']_diskVars => []EventsAgree
<1>1. DiskInit => EventsInv
  <2> SUFFICES ASSUME DiskInit PROVE EventsInv
    OBVIOUS
  <2>1. Len(disk_list) = 0 /\ 0 \in 0 .. IdSpan - 1
    BY DiskAssumption DEF DiskInit
  <2> QED
    BY <2>1
    DEF DiskInit, EventsInv, IdsOk, AwayInv, SeenInv, TogetherInv, ConnectedInv, SilentInv,
        GoneInv, Pending, Saying, Relating, Rows
<1>2. WalkInv /\ EventsInv => EventsAgree
  <2> SUFFICES ASSUME WalkInv, EventsInv, monitor = "wait"
               PROVE  /\ \A e \in Entries : e.id \notin removed
                      /\ \A id \in connected : (\E e \in Entries : e.id = id) \/ id \in replaced
    BY DEF EventsAgree
  <2>1. Entries = {disk_list[i] : i \in Rows}
    BY ListIsSeq DEF Entries, WalkInv, Rows
  <2>2. /\ \A i \in Rows : disk_list[i].id \notin removed
        /\ \A id \in connected : (\E i \in Rows : disk_list[i].id = id) \/ id \in replaced
    BY AtPlain DEF Plain
  <2> QED
    BY <2>1, <2>2
<1>3. (WalkInv /\ EventsInv) /\ [DiskNext]_diskVars /\ [next_disk_id <= next_disk_id']_diskVars
      => (WalkInv /\ EventsInv)'
  <2> SUFFICES ASSUME WalkInv, EventsInv, [DiskNext]_diskVars,
                      [next_disk_id <= next_disk_id']_diskVars
               PROVE  WalkInv' /\ EventsInv'
    OBVIOUS
  <2>1. CASE UNCHANGED diskVars
    BY <2>1, WalkStep, NothingSaid DEF diskVars, taskVars, listVars
  <2>2. CASE next_disk_id <= next_disk_id'
    BY <2>2, WalkStep, EventsStep
  <2> QED
    BY <2>1, <2>2
<1> QED
  BY <1>1, <1>2, <1>3, WalkInit, PTL DEF DiskSpec
=============================================================================
