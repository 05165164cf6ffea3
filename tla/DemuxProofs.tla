---------------------------- MODULE DemuxProofs ----------------------------
(***************************************************************************)
(* What UpdateSectionFilter computes, for any set of section filters and    *)
(* sections of any length; the text ring of STB_DMXChangeTextPID,           *)
(* PesCallback and STB_DMXReadTextPES, for every size of the buffer and     *)
(* every length of the data that arrives; and, for any number of PID        *)
(* filters, section filters and filters of the device, that every filter of *)
(* the device has one user, that a section reaches the PID it is of, and    *)
(* that the device collects what it was asked for.                          *)
(***************************************************************************)
EXTENDS Demux, SequenceTheorems, FiniteSetTheorems, WellFoundedInduction, TLAPS

(***************************************************************************)
(* Where the combined filter looks, all the section filters look too, and   *)
(* it asks for the same bit as each of them.                                *)
(***************************************************************************)
LEMMA CombinedAgrees ==
    ASSUME NEW S \in SUBSET SectionFilters, NEW sf \in S, NEW b \in Bits,
           Combined(S).mask[b]
    PROVE  sf.mask[b] /\ Combined(S).match[b] = sf.match[b]
<1>1. Combined(S).mask[b] = ((\A g \in S : g.mask[b]) /\ mask_all(S)[b] = mask_some(S)[b])
  BY DEF Combined
<1>2. Combined(S).match[b] = mask_all(S)[b]
  BY DEF Combined
<1>3. mask_all(S)[b] = (\A g \in S : g.match[b]) /\ mask_some(S)[b] = (\E g \in S : g.match[b])
  BY DEF mask_all, mask_some
<1>4. sf.match[b] \in BOOLEAN
  BY DEF SectionFilters, Patterns
<1> QED
  BY <1>1, <1>2, <1>3, <1>4

(***************************************************************************)
(* The driver's filter holds back no section that one of the section        *)
(* filters accepts (UpdateSectionFilter).                                   *)
(***************************************************************************)
THEOREM WideTheorem == CombinedIsWide
<1> SUFFICES ASSUME NEW S \in SUBSET SectionFilters, NEW sf \in S, NEW bytes \in Patterns,
                    Matches(sf, bytes), NEW b \in Bits, Combined(S).mask[b]
             PROVE  bytes[b] = Combined(S).match[b]
  BY DEF CombinedIsWide, Matches
<1>1. sf.mask[b] /\ Combined(S).match[b] = sf.match[b]
  BY CombinedAgrees
<1> QED
  BY <1>1 DEF Matches

(***************************************************************************)
(* A PID with one section filter gets exactly what that filter accepts: the *)
(* driver then does all the filtering.                                      *)
(***************************************************************************)
THEOREM OneFilterIsExact ==
    ASSUME NEW sf \in SectionFilters, NEW bytes \in Patterns
    PROVE  Matches(Combined({sf}), bytes) <=> Matches(sf, bytes)
<1>1. ASSUME NEW b \in Bits
      PROVE  Combined({sf}).mask[b] = sf.mask[b] /\ Combined({sf}).match[b] = sf.match[b]
  <2>1. sf.mask[b] \in BOOLEAN /\ sf.match[b] \in BOOLEAN
    BY DEF SectionFilters, Patterns
  <2>2. Combined({sf}).mask[b] = ((\A g \in {sf} : g.mask[b]) /\ mask_all({sf})[b] = mask_some({sf})[b])
    BY DEF Combined
  <2>3. Combined({sf}).match[b] = mask_all({sf})[b]
    BY DEF Combined
  <2>4. mask_all({sf})[b] = (\A g \in {sf} : g.match[b]) /\ mask_some({sf})[b] = (\E g \in {sf} : g.match[b])
    BY DEF mask_all, mask_some
  <2> QED
    BY <2>1, <2>2, <2>3, <2>4
<1> QED
  BY <1>1 DEF Matches

------------------------------------------------------------------------------
RingType == ring \in [read : 0..(TEXT_BUFFER_SIZE - 1), write : 0..(TEXT_BUFFER_SIZE - 1),
                      available : 0..TEXT_BUFFER_SIZE]
RingInv == RingType /\ RingAgrees

\* The only steps that touch the ring.
RingStep == ClearRing \/ CopyIn \/ ReadTextPES

LEMMA StepsOfRing == [Next]_vars => RingStep \/ UNCHANGED ring
<1> SUFFICES ASSUME [Next]_vars PROVE RingStep \/ UNCHANGED ring
  OBVIOUS
<1>1. CASE UNCHANGED vars
  BY <1>1 DEF vars, textVars
<1>2. CASE Device \/ Section \/ Filtering
  BY <1>2 DEF Device, Section, Filtering, textVars
<1>3. CASE TextData
  BY <1>3 DEF TextData, PesCallback, CheckText, RingStep
<1>4. CASE Subtitles
  BY <1>4 DEF Subtitles, ChangeText, STB_DMXChangeTextPID, TextDeviceCall, PidRefused,
              FreeTextHandle, AllocText, StartText, StartRefused, RingStep
<1> QED
  BY <1>1, <1>2, <1>3, <1>4 DEF Next

LEMMA RingInit == Init => RingInv
<1> TEXT_BUFFER_SIZE \in Nat \ {0}
  BY SizeAssumption
<1> QED
  BY DEF Init, TextInit, EmptyRing, RingInv, RingType, RingAgrees

LEMMA RingNext == RingInv /\ [Next]_vars => RingInv'
<1> SUFFICES ASSUME RingInv, [Next]_vars PROVE RingInv'
  OBVIOUS
<1>0. TEXT_BUFFER_SIZE \in Nat \ {0} /\ Lengths \subseteq Nat \ {0}
  BY SizeAssumption
<1>1. CASE UNCHANGED ring
  BY <1>1 DEF RingInv, RingType, RingAgrees
<1>2. CASE ClearRing
  BY <1>0, <1>2 DEF ClearRing, EmptyRing, RingInv, RingType, RingAgrees
<1>3. CASE CopyIn
  <2>1. PICK len \in Lengths :
            IF ring.available + len <= TEXT_BUFFER_SIZE
            THEN LET room == TEXT_BUFFER_SIZE - ring.write
                 IN  ring' = [ring EXCEPT
                         !.write = IF room > len THEN @ + len ELSE len - room,
                         !.available = @ + len]
            ELSE ring' = ring
    BY <1>3 DEF CopyIn
  <2>2. CASE ring.available + len <= TEXT_BUFFER_SIZE
    <3>1. /\ ring'.read = ring.read
          /\ ring'.available = ring.available + len
          /\ ring'.write = IF TEXT_BUFFER_SIZE - ring.write > len THEN ring.write + len
                           ELSE len - (TEXT_BUFFER_SIZE - ring.write)
          /\ ring' = [read |-> ring'.read, write |-> ring'.write, available |-> ring'.available]
      BY <2>1, <2>2 DEF RingInv, RingType
    <3> QED
      BY <1>0, <2>2, <3>1 DEF RingInv, RingType, RingAgrees
  <2>3. CASE ~(ring.available + len <= TEXT_BUFFER_SIZE)
    BY <2>1, <2>3, <1>1
  <2> QED
    BY <2>2, <2>3
<1>4. CASE ReadTextPES
  <2>1. /\ ring'.write = ring.write
        /\ ring'.available = 0
        /\ ring'.read = IF ring.available < TEXT_BUFFER_SIZE - ring.read
                        THEN ring.read + ring.available
                        ELSE ring.available - (TEXT_BUFFER_SIZE - ring.read)
        /\ ring' = [read |-> ring'.read, write |-> ring'.write, available |-> ring'.available]
    BY <1>4 DEF ReadTextPES, RingInv, RingType
  <2> QED
    BY <1>0, <2>1 DEF RingInv, RingType, RingAgrees
<1> QED
  BY <1>1, <1>2, <1>3, <1>4, StepsOfRing DEF RingStep

(***************************************************************************)
(* The pointers and the count of the ring stay in the buffer: PesCallback    *)
(* and STB_DMXReadTextPES copy nothing from or to beyond its end.            *)
(***************************************************************************)
THEOREM RingInBuffer == Spec => []RingType
<1>1. Spec => []RingInv
  BY RingInit, RingNext, PTL DEF Spec
<1> QED
  BY <1>1, PTL DEF RingInv

(***************************************************************************)
(* The pointers are as far apart as the count says, so what is read is what *)
(* was written.                                                             *)
(***************************************************************************)
THEOREM RingTheorem == Spec => []RingAgrees
<1>1. Spec => []RingInv
  BY RingInit, RingNext, PTL DEF Spec
<1> QED
  BY <1>1, PTL DEF RingInv

------------------------------------------------------------------------------
(***************************************************************************)
(* The PID filters and the text together.  A call of stbhwdmx.c is a list   *)
(* of steps still to be made, and between any two of them the thread may     *)
(* run; so the invariant says for every such rest of a call in which state   *)
(* the PID filter and its entry in the device are.                          *)
(***************************************************************************)

(* What a call of a PID filter still has to do, and what is first in it.   *)

UpdatePlans == {<<"set">>, <<"alloc", "set">>, <<"stop", "set", "restart">>,
                <<"set", "restart">>, <<"restart">>}
StartPlans == {<<"alloc", "update", "callback", "start">>, <<"update", "callback", "start">>,
               <<"alloc", "set", "callback", "start">>, <<"set", "callback", "start">>,
               <<"callback", "start">>, <<"start">>}
StopPlans == {<<"stop", "uncallback", "free">>, <<"uncallback", "free">>, <<"free">>}
ReleasePlans == {<<"stop", "uncallback", "free", "forget">>, <<"uncallback", "free", "forget">>,
                 <<"free", "forget">>, <<"forget">>}
Plans == {<<>>, <<"write">>} \cup UpdatePlans \cup StartPlans \cup StopPlans \cup ReleasePlans

First(do) == IF do = <<>> THEN "none" ELSE Head(do)

(* A call that finds the filter started works on one that runs; a call     *)
(* that allocates finds no handle, and one that sets or starts finds       *)
(* section filters that are set up.                                        *)
Running(do) ==
    \/ do \in {<<"stop", "set", "restart">>, <<"set", "restart">>, <<"restart">>}
    \/ do \in StopPlans \cup ReleasePlans /\ First(do) # "forget"
NotRunning(do) == do \in StartPlans \cup {<<"set">>, <<"alloc", "set">>, <<"forget">>}
Setting(do) == do = <<"stop", "set", "restart">>
               \/ First(do) \in {"alloc", "update", "set", "restart", "callback", "start"}

SetUp(p) == {i \in Sects : p.sects[i].setup}
Ask(p) == [pid |-> p.pid, sf |-> Combined({p.sects[i].sf : i \in SetUp(p)})]
Todo(s) == IF ~Idle /\ config.slot = s THEN config.do ELSE <<>>

(* A PID filter p with do still to be done to it.                          *)
SlotOk(p, do) ==
    /\ do \in Plans
    /\ p.started => p.fhandle # NoHandle /\ p.pid # NotUsed
    /\ do # <<>> => p.pid # NotUsed
    /\ \A i \in SetUp(p) : p.sects[i].in_use /\ p.sects[i].sf \in Wanted
    /\ Running(do) => p.started
    /\ NotRunning(do) => ~p.started
    /\ First(do) = "alloc" => p.fhandle = NoHandle
    /\ Setting(do) => SetUp(p) # {}
    /\ First(do) = "forget" /\ p.fhandle # NoHandle => SetUp(p) = {}

(* The entry f of the device that the PID filter s has.                    *)
EntryOk(s, p, f, do) ==
    /\ f.used /\ ~f.need_free
    /\ f.cb \in {s, Nobody}
    /\ f.enable = f.running
    /\ f.running <=> p.started /\ First(do) \notin {"set", "restart", "uncallback", "free"}
    /\ (p.started /\ First(do) # "free") \/ First(do) = "start" => f.cb = s
    /\ SetUp(p) # {} /\ First(do) \in {"none", "write", "restart", "callback", "start", "forget"}
          => f.ask = Ask(p)
    /\ f.running => f.ask.pid = p.pid

SlotsInv == \A s \in Slots : SlotOk(slots[s], Todo(s))
EntriesInv == \A s \in Slots : slots[s].fhandle # NoHandle =>
                  EntryOk(s, slots[s], filter[slots[s].fhandle], Todo(s))
WritingInv == config.do = <<"write">> =>
    /\ config.sect \in Sects /\ config.sf \in Wanted
    /\ slots[config.slot].sects[config.sect].in_use
BusyInv == Idle \/ config.slot \in Slots

(* The text.                                                               *)
ClearPlans ==
    {<<"stop", "uncallback", "free", "clear">>, <<"uncallback", "free", "clear">>,
     <<"free", "clear">>, <<"clear">>}
CollectPlans ==
    {<<"stop", "uncallback", "free", "clear", "alloc", "set", "callback", "start">>,
     <<"uncallback", "free", "clear", "alloc", "set", "callback", "start">>,
     <<"free", "clear", "alloc", "set", "callback", "start">>,
     <<"clear", "alloc", "set", "callback", "start">>,
     <<"alloc", "set", "callback", "start">>, <<"set", "callback", "start">>}
TextPlans == {<<>>, <<"callback", "start">>, <<"start">>} \cup ClearPlans \cup CollectPlans

TextOk(t, do) ==
    /\ do \in TextPlans
    /\ do \in CollectPlans => t.pid \in TextPids
    /\ First(do) \in {"stop", "uncallback", "free"} => t.started
    /\ First(do) = "clear" => t.fhandle = NoHandle
    /\ First(do) \in {"clear", "alloc", "set", "callback", "start"} => ~t.started
    /\ First(do) \in {"set", "callback", "start"} => t.fhandle # NoHandle
    /\ t.started => t.fhandle # NoHandle
TextEntryOk(t, f, do) ==
    /\ f.used /\ ~f.need_free
    /\ f.cb \in {Text, Nobody}
    /\ f.running => f.enable /\ t.started /\ First(do) \notin {"uncallback", "free"}

TextInv ==
    /\ TextOk(text, change)
    /\ text.fhandle # NoHandle => TextEntryOk(text, filter[text.fhandle], change)

(* What the variables hold; the section filters that nobody has set up hold *)
(* whatever Cleared says.                                                   *)
SectType == [in_use : BOOLEAN, setup : BOOLEAN, empty_mask : BOOLEAN,
             sf : Wanted \cup {Cleared.sf}]
SlotType == [pid : Pids \cup {NotUsed}, func : BOOLEAN, fhandle : Handles \cup {NoHandle},
             started : BOOLEAN, start_count : Nat, sects : [Sects -> SectType]]
TextType == [pid : TextPids \cup {NoPid}, fhandle : Handles \cup {NoHandle}, started : BOOLEAN]
TypesInv == /\ filter \in [Handles -> Filters]
            /\ slots \in [Slots -> SlotType]
            /\ text \in TextType

(* Whose a handle is.                                                      *)
HandleOf(u) == IF u = Text THEN text.fhandle ELSE slots[u].fhandle
InUse(f) == f.used /\ ~f.need_free
OwnersInv ==
    /\ \A u, v \in Receivers : HandleOf(u) = HandleOf(v) /\ HandleOf(u) # NoHandle => u = v
    /\ \A h \in Handles : InUse(filter[h]) => h \in lost \/ \E u \in Receivers : HandleOf(u) = h
    /\ \A h \in Handles : ~InUse(filter[h]) => ~filter[h].running

(* A handle that has been lost is nobody's, and collects nothing.           *)
LostInv == \A h \in lost : /\ h \in Handles /\ InUse(filter[h]) /\ ~filter[h].running
                           /\ \A u \in Receivers : HandleOf(u) # h

(* A handle whose data the thread has in its hands is not given out again. *)
InHands == thread.at \in {"callback", "copy", "sect", "handler"}
ThreadInv ==
    /\ thread.at \in {"scan", "look"} \/ InHands
    /\ thread.ready \subseteq Handles
    /\ thread.at \in {"scan", "look"} =>
           thread \in [at : {"scan", "look"}, ready : SUBSET Handles, h : {NoHandle}]
    /\ thread.at # "scan" => thread.ready # {}
    /\ InHands => thread.h \in Handles /\ filter[thread.h].used
    /\ thread.at = "copy" => thread.cb = Text
    /\ thread.at \in {"sect", "handler"} =>
           thread = [at |-> thread.at, ready |-> thread.ready, h |-> thread.h,
                     cb |-> thread.cb, section |-> thread.section, i |-> thread.i]
    /\ \A s \in Slots : InCallback(s) /\ slots[s].fhandle = thread.h =>
           slots[s].started /\ thread.section.pid = slots[s].pid

DemuxInv ==
    /\ TypesInv /\ SlotsInv /\ EntriesInv /\ WritingInv /\ BusyInv
    /\ TextInv /\ OwnersInv /\ LostInv /\ ThreadInv

------------------------------------------------------------------------------
(* Lists of steps put together.                                             *)

(* Two lists are one list when the elements agree.                          *)
LEMMA CatIs ==
    ASSUME NEW S, NEW s \in Seq(S), NEW t \in Seq(S), NEW r \in Seq(S),
           Len(r) = Len(s) + Len(t), \A i \in 1 .. Len(s) : r[i] = s[i],
           \A i \in 1 .. Len(t) : r[Len(s) + i] = t[i]
    PROVE  s \o t = r
<1>1. /\ s \o t \in Seq(S) /\ Len(s \o t) = Len(r)
      /\ \A i \in 1 .. Len(s) + Len(t) :
             (s \o t)[i] = IF i <= Len(s) THEN s[i] ELSE t[i - Len(s)]
  BY ConcatProperties
<1>2. \A i \in 1 .. Len(s \o t) : (s \o t)[i] = r[i]
  <2> SUFFICES ASSUME NEW i \in 1 .. Len(s) + Len(t) PROVE (s \o t)[i] = r[i]
    BY <1>1
  <2>1. CASE i <= Len(s)
    BY <1>1, <2>1
  <2>2. CASE i > Len(s)
    <3>1. i - Len(s) \in 1 .. Len(t) /\ Len(s) + (i - Len(s)) = i
      BY <2>2
    <3>2. r[Len(s) + (i - Len(s))] = t[i - Len(s)]
      BY <3>1
    <3> QED
      BY <1>1, <2>2, <3>1, <3>2
  <2> QED
    BY <2>1, <2>2
<1> QED
  BY <1>1, <1>2, SeqEqual

LEMMA Join11 ==
    ASSUME NEW a, NEW b
    PROVE  <<a>> \o <<b>> = <<a, b>>
<1> DEFINE S == {a, b}
           s == <<a>>
           t == <<b>>
           r == <<a, b>>
<1>1. s \in Seq(S) /\ Len(s) = 1 /\ s[1] = a
  OBVIOUS
<1>2. t \in Seq(S) /\ Len(t) = 1 /\ t[1] = b
  OBVIOUS
<1>3. r \in Seq(S) /\ Len(r) = 2 /\ r[1] = a /\ r[2] = b
  OBVIOUS
<1>4. s \o t = r
  <2> HIDE DEF S, s, t, r
  <2>1. Len(r) = Len(s) + Len(t)
    BY <1>1, <1>2, <1>3
  <2>2. \A i \in 1 .. Len(s) : r[i] = s[i]
    BY <1>1, <1>3
  <2>3. \A i \in 1 .. Len(t) : r[Len(s) + i] = t[i]
    BY <1>1, <1>2, <1>3
  <2> QED
    BY <1>1, <1>2, <1>3, <2>1, <2>2, <2>3, CatIs
<1> QED
  BY <1>4

LEMMA Join21 ==
    ASSUME NEW a, NEW b, NEW c
    PROVE  <<a, b>> \o <<c>> = <<a, b, c>>
<1> DEFINE S == {a, b, c}
           s == <<a, b>>
           t == <<c>>
           r == <<a, b, c>>
<1>1. s \in Seq(S) /\ Len(s) = 2 /\ s[1] = a /\ s[2] = b
  OBVIOUS
<1>2. t \in Seq(S) /\ Len(t) = 1 /\ t[1] = c
  OBVIOUS
<1>3. r \in Seq(S) /\ Len(r) = 3 /\ r[1] = a /\ r[2] = b /\ r[3] = c
  OBVIOUS
<1>4. s \o t = r
  <2> HIDE DEF S, s, t, r
  <2>1. Len(r) = Len(s) + Len(t)
    BY <1>1, <1>2, <1>3
  <2>2. \A i \in 1 .. Len(s) : r[i] = s[i]
    BY <1>1, <1>3
  <2>3. \A i \in 1 .. Len(t) : r[Len(s) + i] = t[i]
    BY <1>1, <1>2, <1>3
  <2> QED
    BY <1>1, <1>2, <1>3, <2>1, <2>2, <2>3, CatIs
<1> QED
  BY <1>4

LEMMA Join12 ==
    ASSUME NEW a, NEW b, NEW c
    PROVE  <<a>> \o <<b, c>> = <<a, b, c>>
<1> DEFINE S == {a, b, c}
           s == <<a>>
           t == <<b, c>>
           r == <<a, b, c>>
<1>1. s \in Seq(S) /\ Len(s) = 1 /\ s[1] = a
  OBVIOUS
<1>2. t \in Seq(S) /\ Len(t) = 2 /\ t[1] = b /\ t[2] = c
  OBVIOUS
<1>3. r \in Seq(S) /\ Len(r) = 3 /\ r[1] = a /\ r[2] = b /\ r[3] = c
  OBVIOUS
<1>4. s \o t = r
  <2> HIDE DEF S, s, t, r
  <2>1. Len(r) = Len(s) + Len(t)
    BY <1>1, <1>2, <1>3
  <2>2. \A i \in 1 .. Len(s) : r[i] = s[i]
    BY <1>1, <1>3
  <2>3. \A i \in 1 .. Len(t) : r[Len(s) + i] = t[i]
    BY <1>1, <1>2, <1>3
  <2> QED
    BY <1>1, <1>2, <1>3, <2>1, <2>2, <2>3, CatIs
<1> QED
  BY <1>4

LEMMA Join22 ==
    ASSUME NEW a, NEW b, NEW c, NEW d
    PROVE  <<a, b>> \o <<c, d>> = <<a, b, c, d>>
<1> DEFINE S == {a, b, c, d}
           s == <<a, b>>
           t == <<c, d>>
           r == <<a, b, c, d>>
<1>1. s \in Seq(S) /\ Len(s) = 2 /\ s[1] = a /\ s[2] = b
  OBVIOUS
<1>2. t \in Seq(S) /\ Len(t) = 2 /\ t[1] = c /\ t[2] = d
  OBVIOUS
<1>3. r \in Seq(S) /\ Len(r) = 4 /\ r[1] = a /\ r[2] = b /\ r[3] = c /\ r[4] = d
  OBVIOUS
<1>4. s \o t = r
  <2> HIDE DEF S, s, t, r
  <2>1. Len(r) = Len(s) + Len(t)
    BY <1>1, <1>2, <1>3
  <2>2. \A i \in 1 .. Len(s) : r[i] = s[i]
    BY <1>1, <1>3
  <2>3. \A i \in 1 .. Len(t) : r[Len(s) + i] = t[i]
    BY <1>1, <1>2, <1>3
  <2> QED
    BY <1>1, <1>2, <1>3, <2>1, <2>2, <2>3, CatIs
<1> QED
  BY <1>4

LEMMA Join31 ==
    ASSUME NEW a, NEW b, NEW c, NEW d
    PROVE  <<a, b, c>> \o <<d>> = <<a, b, c, d>>
<1> DEFINE S == {a, b, c, d}
           s == <<a, b, c>>
           t == <<d>>
           r == <<a, b, c, d>>
<1>1. s \in Seq(S) /\ Len(s) = 3 /\ s[1] = a /\ s[2] = b /\ s[3] = c
  OBVIOUS
<1>2. t \in Seq(S) /\ Len(t) = 1 /\ t[1] = d
  OBVIOUS
<1>3. r \in Seq(S) /\ Len(r) = 4 /\ r[1] = a /\ r[2] = b /\ r[3] = c /\ r[4] = d
  OBVIOUS
<1>4. s \o t = r
  <2> HIDE DEF S, s, t, r
  <2>1. Len(r) = Len(s) + Len(t)
    BY <1>1, <1>2, <1>3
  <2>2. \A i \in 1 .. Len(s) : r[i] = s[i]
    BY <1>1, <1>3
  <2>3. \A i \in 1 .. Len(t) : r[Len(s) + i] = t[i]
    BY <1>1, <1>2, <1>3
  <2> QED
    BY <1>1, <1>2, <1>3, <2>1, <2>2, <2>3, CatIs
<1> QED
  BY <1>4

LEMMA Join44 ==
    ASSUME NEW a, NEW b, NEW c, NEW d, NEW e, NEW f, NEW g, NEW h
    PROVE  <<a, b, c, d>> \o <<e, f, g, h>> = <<a, b, c, d, e, f, g, h>>
<1> DEFINE S == {a, b, c, d, e, f, g, h}
           s == <<a, b, c, d>>
           t == <<e, f, g, h>>
           r == <<a, b, c, d, e, f, g, h>>
<1>1. s \in Seq(S) /\ Len(s) = 4 /\ s[1] = a /\ s[2] = b /\ s[3] = c /\ s[4] = d
  OBVIOUS
<1>2. t \in Seq(S) /\ Len(t) = 4 /\ t[1] = e /\ t[2] = f /\ t[3] = g /\ t[4] = h
  OBVIOUS
<1>3. r \in Seq(S) /\ Len(r) = 8 /\ r[1] = a /\ r[2] = b /\ r[3] = c /\ r[4] = d
      /\ r[5] = e /\ r[6] = f /\ r[7] = g /\ r[8] = h
  OBVIOUS
<1>4. s \o t = r
  <2> HIDE DEF S, s, t, r
  <2>1. Len(r) = Len(s) + Len(t)
    BY <1>1, <1>2, <1>3
  <2>2. \A i \in 1 .. Len(s) : r[i] = s[i]
    BY <1>1, <1>3
  <2>3. \A i \in 1 .. Len(t) : r[Len(s) + i] = t[i]
    BY <1>1, <1>2, <1>3
  <2> QED
    BY <1>1, <1>2, <1>3, <2>1, <2>2, <2>3, CatIs
<1> QED
  BY <1>4

(* The parts of the invariant after a step, with the primes on the          *)
(* variables.                                                               *)
LEMMA Primed ==
    /\ SlotsInv' <=> \A s \in Slots : SlotOk(slots'[s], Todo(s)')
    /\ EntriesInv' <=> \A s \in Slots : slots'[s].fhandle # NoHandle =>
                  EntryOk(s, slots'[s], filter'[slots'[s].fhandle], Todo(s)')
    /\ TextInv' <=> TextOk(text', change')
         /\ (text'.fhandle # NoHandle => TextEntryOk(text', filter'[text'.fhandle], change'))
    /\ OwnersInv' <=>
         /\ \A u, v \in Receivers : HandleOf(u)' = HandleOf(v)' /\ HandleOf(u)' # NoHandle => u = v
         /\ \A h \in Handles : InUse(filter'[h]) => h \in lost' \/ \E u \in Receivers : HandleOf(u)' = h
         /\ \A h \in Handles : ~InUse(filter'[h]) => ~filter'[h].running
    /\ LostInv' <=>
         \A h \in lost' : /\ h \in Handles /\ InUse(filter'[h]) /\ ~filter'[h].running
                          /\ \A u \in Receivers : HandleOf(u)' # h
<1>1. SlotsInv' <=> \A s \in Slots : SlotOk(slots'[s], Todo(s)')
  BY DEF SlotsInv, SlotOk, SetUp, Running, NotRunning, First, Setting
<1>2. EntriesInv' <=> \A s \in Slots : slots'[s].fhandle # NoHandle =>
                  EntryOk(s, slots'[s], filter'[slots'[s].fhandle], Todo(s)')
  BY DEF EntriesInv, EntryOk, SetUp, First, Ask
<1>3. TextInv' <=> TextOk(text', change')
         /\ (text'.fhandle # NoHandle => TextEntryOk(text', filter'[text'.fhandle], change'))
  BY DEF TextInv, TextOk, TextEntryOk, First
<1>4. OwnersInv' <=>
         /\ \A u, v \in Receivers : HandleOf(u)' = HandleOf(v)' /\ HandleOf(u)' # NoHandle => u = v
         /\ \A h \in Handles : InUse(filter'[h]) => h \in lost' \/ \E u \in Receivers : HandleOf(u)' = h
         /\ \A h \in Handles : ~InUse(filter'[h]) => ~filter'[h].running
  BY DEF OwnersInv, InUse
<1>5. LostInv' <=>
         \A h \in lost' : /\ h \in Handles /\ InUse(filter'[h]) /\ ~filter'[h].running
                          /\ \A u \in Receivers : HandleOf(u)' # h
  BY DEF LostInv, InUse
<1> QED
  BY <1>1, <1>2, <1>3, <1>4, <1>5

(* A set of indices has a least one.                                        *)
LEMMA LeastIn ==
    ASSUME NEW S \in SUBSET Nat, S # {}
    PROVE  Min(S) \in S /\ \A g \in S : Min(S) <= g
<1>1. PICK x \in S : \A y \in S : ~(<<y, x>> \in OpToRel(<, Nat))
  BY NatLessThanWellFounded, WFMin
<1>2. \A y \in S : x <= y
  <2> SUFFICES ASSUME NEW y \in S, y < x PROVE FALSE
    OBVIOUS
  <2>1. <<y, x>> \in Nat \X Nat
    OBVIOUS
  <2> QED
    BY <1>1, <2>1 DEF OpToRel
<1> QED
  BY <1>2 DEF Min

LEMMA FirstUnusedIs ==
    ASSUME TypesInv, Unused # {}
    PROVE  FirstUnused \in Handles /\ ~filter[FirstUnused].used
<1>1. Unused \in SUBSET Nat /\ Unused \subseteq Handles
  BY HandlesAssumption DEF Unused
<1>2. Min(Unused) \in Unused
  BY <1>1, LeastIn
<1>3. FirstUnused = Min(Unused)
  BY DEF FirstUnused, Min
<1> QED
  BY <1>1, <1>2, <1>3 DEF Unused

LEMMA HandleIsNumber == NoHandle \notin Handles
BY HandlesAssumption DEF NoHandle

LEMMA TextIsNoSlot == Receivers = Slots \cup {Text} /\ Text \notin Slots /\ Nobody \notin Receivers
BY ReceiversAssumption, NobodyAssumption

(* What the invariant says of the three properties.                         *)
LEMMA OwnedHandles == DemuxInv => HandlesOwned
<1>0. ASSUME DemuxInv, NEW h \in Handles, h \in lost PROVE filter[h].used /\ ~filter[h].running
  BY <1>0 DEF DemuxInv, LostInv, InUse
<1> SUFFICES ASSUME DemuxInv, NEW h \in Handles
             PROVE  Cardinality(Users(h)) = IF InUse(filter[h]) /\ h \notin lost THEN 1 ELSE 0
  BY <1>0 DEF HandlesOwned, InUse
<1>1. h # NoHandle
  BY HandleIsNumber
<1>2. Users(h) = {u \in Receivers : HandleOf(u) = h}
  BY TextIsNoSlot DEF Users, HandleOf
<1>3. \A u \in Receivers : HandleOf(u) = h => InUse(filter[h])
  <2>1. \A s \in Slots : slots[s].fhandle = h => InUse(filter[h])
    BY <1>1 DEF DemuxInv, EntriesInv, EntryOk, InUse
  <2>2. text.fhandle = h => InUse(filter[h])
    BY <1>1 DEF DemuxInv, TextInv, TextEntryOk, InUse
  <2> QED
    BY <2>1, <2>2, TextIsNoSlot DEF HandleOf
<1>4. CASE InUse(filter[h]) /\ h \notin lost
  <2>1. PICK u \in Receivers : HandleOf(u) = h
    BY <1>4 DEF DemuxInv, OwnersInv
  <2>2. Users(h) = {u}
    BY <1>1, <1>2, <2>1 DEF DemuxInv, OwnersInv
  <2> QED
    BY <1>4, <2>2, FS_Singleton
<1>5. CASE ~InUse(filter[h])
  BY <1>2, <1>3, <1>5, FS_EmptySet
<1>6. CASE h \in lost
  <2>1. Users(h) = {}
    BY <1>2, <1>6 DEF DemuxInv, LostInv
  <2> QED
    BY <1>6, <2>1, FS_EmptySet
<1> QED
  BY <1>4, <1>5, <1>6

LEMMA CurrentSection == DemuxInv => SectionIsCurrent
BY DEF DemuxInv, ThreadInv, SectionIsCurrent

(* What a PID filter asks of the driver is something the driver can be      *)
(* asked.                                                                   *)
LEMMA AskIsAsk ==
    ASSUME NEW p \in SlotType, p.pid # NotUsed, SetUp(p) # {},
           \A i \in SetUp(p) : p.sects[i].sf \in Wanted
    PROVE  Ask(p) \in Asks
<1> DEFINE S == {p.sects[i].sf : i \in SetUp(p)}
<1>1. mask_all(S) \in Patterns /\ Combined(S) \in SectionFilters
  BY DEF mask_all, Combined, Patterns, SectionFilters
<1> QED
  BY <1>1 DEF Ask, Asks, SlotType

LEMMA PassesWanted == DemuxInv => WantedPasses
<1> SUFFICES ASSUME DemuxInv, Idle, NEW s \in Slots, slots[s].started
             PROVE  LET f == filter[slots[s].fhandle]
                    IN  /\ f.enable /\ f.running /\ f.cb = s
                        /\ \A i \in Setups(s) : \A bytes \in Patterns :
                               Matches(slots[s].sects[i].sf, bytes)
                                   => Admits(f.ask, [pid |-> slots[s].pid, bytes |-> bytes])
  BY DEF WantedPasses
<1> DEFINE p == slots[s]
           f == filter[p.fhandle]
<1>1. Todo(s) = <<>> /\ First(<<>>) = "none"
  BY DEF Todo, First
<1>2. p.fhandle # NoHandle /\ \A i \in SetUp(p) : p.sects[i].sf \in Wanted
  BY DEF DemuxInv, SlotsInv, SlotOk
<1>3. EntryOk(s, p, f, <<>>)
  BY <1>1, <1>2 DEF DemuxInv, EntriesInv
<1>4. f.enable = f.running /\ f.running /\ f.cb = s
  BY <1>1, <1>3 DEF EntryOk
<1>5. ASSUME NEW i \in Setups(s), NEW bytes \in Patterns, Matches(p.sects[i].sf, bytes)
      PROVE  Admits(f.ask, [pid |-> p.pid, bytes |-> bytes])
  <2> DEFINE S == {p.sects[j].sf : j \in SetUp(p)}
  <2>1. SetUp(p) = Setups(s)
    BY DEF SetUp, Setups
  <2>2. f.ask = [pid |-> p.pid, sf |-> Combined(S)]
    BY <1>1, <1>3, <2>1 DEF EntryOk, Ask
  <2>3. S \in SUBSET SectionFilters /\ p.sects[i].sf \in S
    BY <1>2, <2>1, WantedAssumption
  <2>4. Matches(Combined(S), bytes)
    BY <1>5, <2>3, WideTheorem DEF CombinedIsWide
  <2> QED
    BY <2>2, <2>4 DEF Admits
<1> QED
  BY <1>4, <1>5

LEMMA RunsAsAsked == DemuxInv => RunsForSomeone
<1> SUFFICES ASSUME DemuxInv, Idle, change = <<>>, NEW h \in Handles, filter[h].running
             PROVE  \/ text.started /\ text.fhandle = h
                    \/ \E s \in Slots : slots[s].started /\ slots[s].fhandle = h
  BY DEF RunsForSomeone
<1>1. PICK u \in Receivers : HandleOf(u) = h
  BY DEF DemuxInv, OwnersInv, LostInv
<1>2. h # NoHandle
  BY HandleIsNumber
<1>3. CASE u = Text
  BY <1>1, <1>2, <1>3 DEF DemuxInv, TextInv, TextEntryOk, HandleOf
<1>4. CASE u \in Slots
  BY <1>1, <1>2, <1>4, TextIsNoSlot DEF DemuxInv, EntriesInv, EntryOk, HandleOf
<1> QED
  BY <1>3, <1>4, TextIsNoSlot

(* A PID filter nobody is working on.                                       *)
LEMMA NoPlan ==
    /\ <<>> \in Plans /\ First(<<>>) = "none"
    /\ ~Running(<<>>) /\ ~NotRunning(<<>>) /\ ~Setting(<<>>)
BY DEF Plans, First, Running, NotRunning, Setting, UpdatePlans, StartPlans, StopPlans, ReleasePlans

------------------------------------------------------------------------------
(* The initial state.                                                       *)
LEMMA DemuxInit == Init => DemuxInv
<1> SUFFICES ASSUME Init PROVE DemuxInv
  OBVIOUS
<1> USE DEF Init, DeviceInit, FiltersInit, TextInit
<1>1. TypesInv
  <2>1. filter \in [Handles -> Filters]
    BY DEF Filters, Opened
  <2>2. Cleared \in SectType
    BY DEF Cleared, SectType
  <2>3. slots \in [Slots -> SlotType]
    BY <2>2 DEF SlotType
  <2>4. text \in TextType
    BY DEF TextType
  <2> QED
    BY <2>1, <2>3, <2>4 DEF TypesInv
<1>2. Idle /\ BusyInv /\ WritingInv
  BY DEF Idle, Free, BusyInv, WritingInv
<1>3. SlotsInv
  <2> SUFFICES ASSUME NEW s \in Slots PROVE SlotOk(slots[s], Todo(s))
    BY DEF SlotsInv
  <2>1. Todo(s) = <<>>
    BY <1>2 DEF Todo
  <2>2. slots[s].fhandle = NoHandle /\ ~slots[s].started /\ SetUp(slots[s]) = {}
    BY DEF SetUp, Cleared
  <2> QED
    BY <2>1, <2>2, NoPlan DEF SlotOk
<1>4. EntriesInv /\ TextInv
  BY NoPlan DEF EntriesInv, TextInv, TextOk, TextPlans, CollectPlans, First
<1>5. OwnersInv /\ LostInv
  BY TextIsNoSlot DEF OwnersInv, LostInv, HandleOf, InUse, Opened
<1>6. ThreadInv
  BY DEF ThreadInv, InHands, InCallback
<1> QED
  BY <1>1, <1>2, <1>3, <1>4, <1>5, <1>6 DEF DemuxInv

(***************************************************************************)
(* A step of a call for one PID filter: what has to be shown of the filter,  *)
(* of its entry in the device and of what is left of the call.              *)
(***************************************************************************)
LEMMA SlotGoes ==
    ASSUME DemuxInv, NEW s \in Slots, NEW p2 \in SlotType, NEW do2,
           Idle \/ config.slot = s,
           slots' = [slots EXCEPT ![s] = p2],
           Todo(s)' = do2, \A t \in Slots : t # s => Todo(t)' = <<>>,
           WritingInv', BusyInv',
           filter' \in [Handles -> Filters],
           \A h \in Handles : h \notin {slots[s].fhandle, p2.fhandle} => filter'[h] = filter[h],
           \A h \in Handles : filter[h].used => filter'[h].used,
           \/ p2.fhandle = slots[s].fhandle
           \/ slots[s].fhandle = NoHandle /\ ~filter[p2.fhandle].used
           \/ p2.fhandle = NoHandle /\ ~InUse(filter'[slots[s].fhandle])
                                    /\ ~filter'[slots[s].fhandle].running,
           slots[s].started /\ p2.fhandle = slots[s].fhandle => p2.started /\ p2.pid = slots[s].pid,
           SlotOk(p2, do2),
           p2.fhandle # NoHandle => EntryOk(s, p2, filter'[p2.fhandle], do2),
           UNCHANGED <<text, change, lost, thread>>
    PROVE  DemuxInv'
<1> DEFINE p == slots[s]
<1>0. /\ slots'[s] = p2 /\ \A t \in Slots : t # s => slots'[t] = slots[t]
      /\ slots \in [Slots -> SlotType] /\ filter \in [Handles -> Filters]
      /\ text' = text /\ change' = change /\ lost' = lost /\ thread' = thread
  BY DEF DemuxInv, TypesInv
<1>1. TypesInv'
  BY DEF DemuxInv, TypesInv
<1>2. SlotsInv'
  <2> SUFFICES ASSUME NEW t \in Slots PROVE SlotOk(slots'[t], Todo(t)')
    BY Primed
  <2>1. CASE t = s
    BY <1>0, <2>1
  <2>2. CASE t # s
    <3>1. Todo(t)' = Todo(t)
      BY <2>2 DEF Todo
    <3> QED
      BY <1>0, <2>2, <3>1 DEF DemuxInv, SlotsInv
  <2> QED
    BY <2>1, <2>2
<1>3. \A u \in Receivers : u # s => HandleOf(u)' = HandleOf(u) /\ HandleOf(u) \in Handles \cup {NoHandle}
  BY <1>0, TextIsNoSlot DEF HandleOf, DemuxInv, TypesInv, SlotType, TextType
<1>4. /\ HandleOf(s)' = p2.fhandle /\ HandleOf(s) = p.fhandle /\ s \in Receivers
      /\ p.fhandle \in Handles \cup {NoHandle} /\ p2.fhandle \in Handles \cup {NoHandle}
  BY <1>0, TextIsNoSlot DEF HandleOf, SlotType
<1>5. \A u \in Receivers : HandleOf(u) # NoHandle => InUse(filter[HandleOf(u)])
  BY TextIsNoSlot DEF HandleOf, DemuxInv, EntriesInv, EntryOk, TextInv, TextEntryOk, InUse
<1>6. ASSUME NEW u \in Receivers, u # s, HandleOf(u) # NoHandle
      PROVE  HandleOf(u) # p2.fhandle /\ HandleOf(u) # p.fhandle
             /\ filter'[HandleOf(u)] = filter[HandleOf(u)]
  <2>1. HandleOf(u) # p.fhandle
    BY <1>4, <1>6 DEF DemuxInv, OwnersInv
  <2>2. HandleOf(u) # p2.fhandle
    BY <1>5, <1>6, <2>1 DEF InUse
  <2> QED
    BY <1>3, <1>6, <2>1, <2>2
<1>7. EntriesInv'
  <2> SUFFICES ASSUME NEW t \in Slots, slots'[t].fhandle # NoHandle
               PROVE  EntryOk(t, slots'[t], filter'[slots'[t].fhandle], Todo(t)')
    BY Primed
  <2>1. CASE t = s
    BY <1>0, <2>1
  <2>2. CASE t # s
    <3>1. Todo(t)' = Todo(t)
      BY <2>2 DEF Todo
    <3>2. HandleOf(t) = slots[t].fhandle /\ t \in Receivers
      BY TextIsNoSlot DEF HandleOf
    <3>3. filter'[slots[t].fhandle] = filter[slots[t].fhandle]
      BY <1>0, <1>6, <2>2, <3>2
    <3> QED
      BY <1>0, <2>2, <3>1, <3>3 DEF DemuxInv, EntriesInv
  <2> QED
    BY <2>1, <2>2
<1>8. TextInv'
  <2>1. HandleOf(Text) = text.fhandle /\ Text \in Receivers /\ Text # s
    BY TextIsNoSlot DEF HandleOf
  <2>2. text.fhandle # NoHandle => filter'[text.fhandle] = filter[text.fhandle]
    BY <1>6, <2>1
  <2> QED
    BY <1>0, <2>2, Primed DEF DemuxInv, TextInv
<1>9. OwnersInv'
  <2>1. \A u, v \in Receivers : HandleOf(u)' = HandleOf(v)' /\ HandleOf(u)' # NoHandle => u = v
    BY <1>3, <1>4, <1>6 DEF DemuxInv, OwnersInv
  <2>2. ASSUME NEW h \in Handles
        PROVE  /\ InUse(filter'[h]) => h \in lost' \/ \E u \in Receivers : HandleOf(u)' = h
               /\ ~InUse(filter'[h]) => ~filter'[h].running
    <3>1. CASE h = p2.fhandle
      BY <1>4, <3>1, HandleIsNumber DEF EntryOk, InUse
    <3>2. CASE h # p2.fhandle /\ h = p.fhandle
      BY <1>4, <3>2, HandleIsNumber
    <3>3. CASE h # p2.fhandle /\ h # p.fhandle
      BY <1>0, <1>3, <1>4, <3>3 DEF DemuxInv, OwnersInv
    <3> QED
      BY <3>1, <3>2, <3>3
  <2> QED
    BY <2>1, <2>2, Primed
<1>10. LostInv'
  <2> SUFFICES ASSUME NEW h \in lost
               PROVE  /\ h \in Handles /\ InUse(filter'[h]) /\ ~filter'[h].running
                      /\ \A u \in Receivers : HandleOf(u)' # h
    BY <1>0, Primed
  <2>1. /\ h \in Handles /\ InUse(filter[h]) /\ ~filter[h].running
        /\ \A u \in Receivers : HandleOf(u) # h
    BY DEF DemuxInv, LostInv
  <2>2. h # p.fhandle /\ h # p2.fhandle
    BY <1>4, <2>1, HandleIsNumber DEF InUse
  <2>3. filter'[h] = filter[h]
    BY <2>1, <2>2
  <2> QED
    BY <1>3, <1>4, <2>1, <2>2, <2>3
<1>11. ThreadInv'
  <2>1. ASSUME NEW t \in Slots, InCallback(t), slots'[t].fhandle = thread.h
        PROVE  slots'[t].started /\ thread.section.pid = slots'[t].pid
    <3>1. CASE t # s
      BY <1>0, <2>1, <3>1 DEF DemuxInv, ThreadInv
    <3>2. CASE t = s
      <4>1. thread.h \in Handles /\ filter[thread.h].used
        BY <2>1 DEF DemuxInv, ThreadInv, InCallback
      <4>2. p.fhandle = thread.h
        BY <1>0, <2>1, <3>2, <4>1, HandleIsNumber
      <4> QED
        BY <1>0, <2>1, <3>2, <4>2 DEF DemuxInv, ThreadInv
    <3> QED
      BY <3>1, <3>2
  <2>2. thread.h \in Handles /\ filter[thread.h].used => filter'[thread.h].used
    OBVIOUS
  <2>3. InHands' = InHands /\ \A t \in Slots : InCallback(t)' = InCallback(t)
    BY <1>0 DEF InHands, InCallback
  <2> QED
    BY <1>0, <2>1, <2>2, <2>3 DEF DemuxInv, ThreadInv
<1> QED
  BY <1>1, <1>2, <1>7, <1>8, <1>9, <1>11, <1>10 DEF DemuxInv

------------------------------------------------------------------------------
(* What the calls of the device do to the entry of a handle in use.        *)

Touches(h) ==
    /\ filter' \in [Handles -> Filters]
    /\ \A g \in Handles : g # h => filter'[g] = filter[g]
    /\ \A g \in Handles : filter[g].used => filter'[g].used
Same(e, f) == (e.used <=> f.used) /\ (e.need_free <=> f.need_free)

LEMMA OnUsedDoes ==
    ASSUME TypesInv, NEW h \in Handles, filter[h].used, NEW e \in Filters, e.used, OnUsed(h, e)
    PROVE  Touches(h) /\ filter'[h] = e
BY DEF TypesInv, OnUsed, Touches

LEMMA SetDoes ==
    ASSUME TypesInv, NEW h \in Handles, filter[h].used, NEW ask \in Asks, DMX_SetSecFilter(h, ask)
    PROVE  /\ Touches(h) /\ Same(filter'[h], filter[h])
           /\ filter'[h].cb = filter[h].cb /\ filter'[h].ask = ask
           /\ (filter'[h].enable <=> filter[h].enable) /\ ~filter'[h].running
<1> DEFINE f == filter[h]
           no == FALSE
           e == [f EXCEPT !.ask = ask, !.running = no]
<1>1. f \in Filters
  BY DEF TypesInv
<1>2. no \in BOOLEAN /\ ~no
  OBVIOUS
<1>3. OnUsed(h, e)
  BY DEF DMX_SetSecFilter
<1> HIDE DEF no
<1>4. /\ e \in Filters /\ e.used = f.used /\ e.need_free = f.need_free /\ e.cb = f.cb
      /\ e.ask = ask /\ e.enable = f.enable /\ e.running = no
  BY <1>1, <1>2 DEF Filters
<1> HIDE DEF e
<1>5. Touches(h) /\ filter'[h] = e
  BY <1>3, <1>4, OnUsedDoes
<1> QED
  BY <1>2, <1>4, <1>5 DEF Same

LEMMA CallbackDoes ==
    ASSUME TypesInv, NEW h \in Handles, filter[h].used, NEW cb \in Receivers \cup {Nobody},
           DMX_SetCallback(h, cb)
    PROVE  /\ Touches(h) /\ Same(filter'[h], filter[h])
           /\ filter'[h].cb = cb /\ filter'[h].ask = filter[h].ask
           /\ (filter'[h].enable <=> filter[h].enable) /\ (filter'[h].running <=> filter[h].running)
<1> DEFINE f == filter[h]
           e == [f EXCEPT !.cb = cb]
<1>1. f \in Filters
  BY DEF TypesInv
<1>2. OnUsed(h, e)
  BY DEF DMX_SetCallback
<1>3. /\ e \in Filters /\ e.used = f.used /\ e.need_free = f.need_free /\ e.cb = cb
      /\ e.ask = f.ask /\ e.enable = f.enable /\ e.running = f.running
  BY <1>1 DEF Filters
<1> HIDE DEF e
<1>4. Touches(h) /\ filter'[h] = e
  BY <1>2, <1>3, OnUsedDoes
<1> QED
  BY <1>3, <1>4 DEF Same

LEMMA FreeDoes ==
    ASSUME TypesInv, NEW h \in Handles, filter[h].used, DMX_FreeFilter(h)
    PROVE  /\ Touches(h) /\ filter'[h].need_free
           /\ (filter'[h].running <=> filter[h].running)
<1> DEFINE f == filter[h]
           yes == TRUE
           e == [f EXCEPT !.need_free = yes]
<1>1. f \in Filters
  BY DEF TypesInv
<1>2. OnUsed(h, e)
  BY DEF DMX_FreeFilter
<1>3. yes \in BOOLEAN /\ yes
  OBVIOUS
<1> HIDE DEF yes
<1>4. e \in Filters /\ e.used = f.used /\ e.need_free = yes /\ e.running = f.running
  BY <1>1, <1>3 DEF Filters
<1> HIDE DEF e
<1>5. Touches(h) /\ filter'[h] = e
  BY <1>2, <1>4, OnUsedDoes
<1> QED
  BY <1>3, <1>4, <1>5

LEMMA StopDoes ==
    ASSUME TypesInv, NEW h \in Handles, filter[h].used, filter[h].running => filter[h].enable,
           DMX_StopFilter(h)
    PROVE  /\ Touches(h) /\ Same(filter'[h], filter[h])
           /\ filter'[h].cb = filter[h].cb /\ filter'[h].ask = filter[h].ask
           /\ ~filter'[h].enable /\ ~filter'[h].running
<1> DEFINE f == filter[h]
           no == FALSE
           e == [f EXCEPT !.enable = no, !.running = no]
<1>1. f \in Filters
  BY DEF TypesInv
<1>2. no \in BOOLEAN /\ ~no
  OBVIOUS
<1>3. CASE f.enable
  <2>1. OnUsed(h, e)
    BY <1>3 DEF DMX_StopFilter
  <2> HIDE DEF no
  <2>2. /\ e \in Filters /\ e.used = f.used /\ e.need_free = f.need_free /\ e.cb = f.cb
        /\ e.ask = f.ask /\ e.enable = no /\ e.running = no
    BY <1>1, <1>2 DEF Filters
  <2> HIDE DEF e
  <2>3. Touches(h) /\ filter'[h] = e
    BY <2>1, <2>2, OnUsedDoes
  <2> QED
    BY <1>2, <2>2, <2>3 DEF Same
<1>4. CASE ~f.enable
  BY <1>4 DEF DMX_StopFilter, Touches, TypesInv, Same
<1> QED
  BY <1>3, <1>4

LEMMA StartDoes ==
    ASSUME TypesInv, NEW h \in Handles, filter[h].used,
           DMX_StartFilter(h)
    PROVE  /\ Touches(h) /\ Same(filter'[h], filter[h])
           /\ filter'[h].cb = filter[h].cb /\ filter'[h].ask = filter[h].ask
           /\ \/ ~filter[h].enable /\ CanStart(h) /\ filter'[h].enable /\ filter'[h].running
              \/ (filter[h].enable \/ ~CanStart(h)) /\ filter'[h] = filter[h]
<1> DEFINE f == filter[h]
           yes == TRUE
           e == [f EXCEPT !.enable = yes, !.running = yes]
<1>1. f \in Filters
  BY DEF TypesInv
<1>2. yes \in BOOLEAN /\ yes
  OBVIOUS
<1>3. CASE ~f.enable /\ CanStart(h)
  <2>1. OnUsed(h, e)
    BY <1>3 DEF DMX_StartFilter
  <2> HIDE DEF yes
  <2>2. /\ e \in Filters /\ e.used = f.used /\ e.need_free = f.need_free /\ e.cb = f.cb
        /\ e.ask = f.ask /\ e.enable = yes /\ e.running = yes
    BY <1>1, <1>2 DEF Filters
  <2> HIDE DEF e
  <2>3. Touches(h) /\ filter'[h] = e
    BY <2>1, <2>2, OnUsedDoes
  <2> QED
    BY <1>2, <1>3, <2>2, <2>3 DEF Same
<1>4. CASE ~(~f.enable /\ CanStart(h))
  BY <1>4 DEF DMX_StartFilter, Touches, TypesInv, Same
<1> QED
  BY <1>3, <1>4

LEMMA AllocateDoes ==
    ASSUME TypesInv, Unused # {}, DMX_AllocateFilter
    PROVE  /\ FirstUnused \in Handles /\ ~filter[FirstUnused].used
           /\ Touches(FirstUnused)
           /\ filter'[FirstUnused].used /\ ~filter'[FirstUnused].need_free
           /\ filter'[FirstUnused].cb = Nobody
           /\ ~filter'[FirstUnused].enable /\ ~filter'[FirstUnused].running
<1> DEFINE h == FirstUnused
<1>1. h \in Handles /\ ~filter[h].used
  BY FirstUnusedIs
<1>2. /\ Opened \in Filters /\ Opened.used /\ ~Opened.need_free /\ Opened.cb = Nobody
      /\ ~Opened.enable /\ ~Opened.running
  BY DEF Opened, Filters
<1>3. filter' = [filter EXCEPT ![h] = Opened]
  BY DEF DMX_AllocateFilter
<1> HIDE DEF h
<1>4. Touches(h) /\ filter'[h] = Opened
  BY <1>1, <1>2, <1>3 DEF TypesInv, Touches
<1> QED
  BY <1>1, <1>2, <1>4 DEF h

------------------------------------------------------------------------------
(***************************************************************************)
(* A step of STB_DMXChangeTextPID.                                          *)
(***************************************************************************)
LEMMA TextGoes ==
    ASSUME DemuxInv, NEW t2 \in TextType, text' = t2,
           filter' \in [Handles -> Filters],
           \A h \in Handles : h \notin {text.fhandle, t2.fhandle} => filter'[h] = filter[h],
           \A h \in Handles : filter[h].used => filter'[h].used,
           \/ t2.fhandle = text.fhandle /\ lost' = lost
           \/ /\ t2.fhandle \in Handles /\ ~filter[t2.fhandle].used
              /\ ~text.started /\ lost' = lost \cup ({text.fhandle} \ {NoHandle})
              /\ text.fhandle # NoHandle => filter'[text.fhandle] = filter[text.fhandle]
           \/ /\ t2.fhandle = NoHandle /\ ~InUse(filter'[text.fhandle])
              /\ ~filter'[text.fhandle].running /\ lost' = lost,
           TextOk(t2, change'),
           t2.fhandle # NoHandle => TextEntryOk(t2, filter'[t2.fhandle], change'),
           UNCHANGED <<slots, config, thread>>
    PROVE  DemuxInv'
<1>0. slots' = slots /\ config' = config /\ thread' = thread
  OBVIOUS
<1>1. TypesInv'
  BY DEF DemuxInv, TypesInv
<1>2. BusyInv' /\ WritingInv' /\ \A s \in Slots : Todo(s)' = Todo(s)
  BY DEF DemuxInv, BusyInv, WritingInv, Idle, Todo
<1>3. SlotsInv'
  BY <1>0, <1>2, Primed DEF DemuxInv, SlotsInv
<1>4. TextInv'
  BY Primed
<1>5. /\ HandleOf(Text) = text.fhandle /\ HandleOf(Text)' = t2.fhandle /\ Text \in Receivers
      /\ text.fhandle \in Handles \cup {NoHandle} /\ t2.fhandle \in Handles \cup {NoHandle}
  BY TextIsNoSlot DEF HandleOf, DemuxInv, TypesInv, TextType
<1>6. \A u \in Receivers : u # Text => HandleOf(u)' = HandleOf(u) /\ HandleOf(u) \in Handles \cup {NoHandle}
  BY <1>0, TextIsNoSlot DEF HandleOf, DemuxInv, TypesInv, SlotType
<1>7. \A u \in Receivers : HandleOf(u) # NoHandle => InUse(filter[HandleOf(u)])
  BY TextIsNoSlot DEF HandleOf, DemuxInv, EntriesInv, EntryOk, TextInv, TextEntryOk, InUse
<1>8. ASSUME NEW u \in Receivers, u # Text, HandleOf(u) # NoHandle
      PROVE  HandleOf(u) # t2.fhandle /\ HandleOf(u) # text.fhandle
             /\ filter'[HandleOf(u)] = filter[HandleOf(u)]
  <2>1. HandleOf(u) # text.fhandle
    BY <1>5, <1>8 DEF DemuxInv, OwnersInv
  <2>2. HandleOf(u) # t2.fhandle
    BY <1>7, <1>8, <2>1 DEF InUse
  <2> QED
    BY <1>6, <1>8, <2>1, <2>2
<1>9. EntriesInv'
  <2> SUFFICES ASSUME NEW s \in Slots, slots[s].fhandle # NoHandle
               PROVE  EntryOk(s, slots[s], filter'[slots[s].fhandle], Todo(s))
    BY <1>0, <1>2, Primed
  <2>1. HandleOf(s) = slots[s].fhandle /\ s \in Receivers /\ s # Text
    BY TextIsNoSlot DEF HandleOf
  <2>2. filter'[slots[s].fhandle] = filter[slots[s].fhandle]
    BY <1>8, <2>1
  <2> QED
    BY <2>2 DEF DemuxInv, EntriesInv
<1>10. OwnersInv'
  <2>1. \A u, v \in Receivers : HandleOf(u)' = HandleOf(v)' /\ HandleOf(u)' # NoHandle => u = v
    BY <1>5, <1>6, <1>8 DEF DemuxInv, OwnersInv
  <2>2. ASSUME NEW h \in Handles
        PROVE  /\ InUse(filter'[h]) => h \in lost' \/ \E u \in Receivers : HandleOf(u)' = h
               /\ ~InUse(filter'[h]) => ~filter'[h].running
    <3>1. CASE h = t2.fhandle
      BY <1>5, <3>1, HandleIsNumber DEF TextEntryOk, InUse
    <3>2. CASE h # t2.fhandle /\ h = text.fhandle
      BY <1>5, <1>7, <3>2, HandleIsNumber
    <3>3. CASE h # t2.fhandle /\ h # text.fhandle
      <4>1. lost \subseteq lost'
        OBVIOUS
      <4> QED
        BY <1>5, <1>6, <3>3, <4>1 DEF DemuxInv, OwnersInv
    <3> QED
      BY <3>1, <3>2, <3>3
  <2> QED
    BY <2>1, <2>2, Primed
<1>11. LostInv'
  <2> SUFFICES ASSUME NEW h \in lost'
               PROVE  /\ h \in Handles /\ InUse(filter'[h]) /\ ~filter'[h].running
                      /\ \A u \in Receivers : HandleOf(u)' # h
    BY Primed
  <2>1. CASE h \in lost
    <3>1. /\ h \in Handles /\ InUse(filter[h]) /\ ~filter[h].running
          /\ \A u \in Receivers : HandleOf(u) # h
      BY <2>1 DEF DemuxInv, LostInv
    <3>2. h # text.fhandle /\ h # t2.fhandle
      BY <1>5, <3>1, HandleIsNumber DEF InUse
    <3>3. filter'[h] = filter[h]
      BY <3>1, <3>2
    <3> QED
      BY <1>5, <1>6, <3>1, <3>2, <3>3
  <2>2. CASE h \notin lost
    <3>1. /\ h = text.fhandle /\ h # NoHandle /\ h \in Handles /\ ~text.started
          /\ filter'[h] = filter[h] /\ ~filter[t2.fhandle].used
      BY <1>5, <2>2
    <3>2. InUse(filter[h]) /\ ~filter[h].running
      BY <3>1 DEF DemuxInv, TextInv, TextEntryOk, InUse
    <3>3. h # t2.fhandle
      BY <3>1, <3>2 DEF InUse
    <3>4. \A u \in Receivers : u # Text => HandleOf(u) # h
      BY <1>5, <3>1 DEF DemuxInv, OwnersInv
    <3> QED
      BY <1>5, <1>6, <3>1, <3>2, <3>3, <3>4
  <2> QED
    BY <2>1, <2>2
<1>12. ThreadInv'
  <2>1. thread.h \in Handles /\ filter[thread.h].used => filter'[thread.h].used
    OBVIOUS
  <2>2. InHands' = InHands /\ \A s \in Slots : InCallback(s)' = InCallback(s)
    BY <1>0 DEF InHands, InCallback
  <2> QED
    BY <1>0, <2>1, <2>2 DEF DemuxInv, ThreadInv
<1> QED
  BY <1>1, <1>2, <1>3, <1>4, <1>9, <1>10, <1>12, <1>11 DEF DemuxInv

(* What is left of a change when its first step is made.                   *)
LEMMA TextPlanRest ==
    ASSUME NEW do \in TextPlans, do # <<>>
    PROVE  /\ Tail(do) \in TextPlans
           /\ Tail(do) \in CollectPlans => do \in CollectPlans
           /\ First(do) = Head(do)
           /\ Head(do) = "stop" => First(Tail(do)) = "uncallback"
           /\ Head(do) = "uncallback" => First(Tail(do)) = "free"
           /\ Head(do) = "free" => First(Tail(do)) = "clear"
           /\ Head(do) = "clear" => First(Tail(do)) \in {"alloc", "none"}
           /\ Head(do) = "alloc" => First(Tail(do)) = "set"
           /\ Head(do) = "set" => First(Tail(do)) = "callback" /\ do \in CollectPlans
           /\ Head(do) = "callback" => First(Tail(do)) = "start"
           /\ Head(do) = "start" => First(Tail(do)) = "none"
<1> USE DEF TextPlans, ClearPlans, CollectPlans, First
<1>1. CASE do = <<"stop", "uncallback", "free", "clear">>
  BY <1>1
<1>2. CASE do = <<"uncallback", "free", "clear">>
  BY <1>2
<1>3. CASE do = <<"free", "clear">>
  BY <1>3
<1>4. CASE do = <<"clear">>
  BY <1>4
<1>5. CASE do = <<"stop", "uncallback", "free", "clear", "alloc", "set", "callback", "start">>
  BY <1>5
<1>6. CASE do = <<"uncallback", "free", "clear", "alloc", "set", "callback", "start">>
  BY <1>6
<1>7. CASE do = <<"free", "clear", "alloc", "set", "callback", "start">>
  BY <1>7
<1>8. CASE do = <<"clear", "alloc", "set", "callback", "start">>
  BY <1>8
<1>9. CASE do = <<"alloc", "set", "callback", "start">>
  BY <1>9
<1>10. CASE do = <<"set", "callback", "start">>
  BY <1>10
<1>11. CASE do = <<"callback", "start">>
  BY <1>11
<1>12. CASE do = <<"start">>
  BY <1>12
<1> QED
  BY <1>1, <1>2, <1>3, <1>4, <1>5, <1>6, <1>7, <1>8, <1>9, <1>10, <1>11, <1>12

LEMMA ChangePlans ==
    LET away == <<"stop", "uncallback", "free", "clear">>
        anew == <<"alloc", "set", "callback", "start">>
    IN  /\ away \o <<>> = away /\ away \o anew \in CollectPlans /\ First(away \o anew) = "stop"
        /\ <<>> \o <<>> = <<>> /\ <<>> \o anew = anew
        /\ away \in ClearPlans /\ away \notin CollectPlans /\ First(away) = "stop"
        /\ anew \in CollectPlans /\ First(anew) = "alloc" /\ <<>> \notin CollectPlans
<1> DEFINE away == <<"stop", "uncallback", "free", "clear">>
           anew == <<"alloc", "set", "callback", "start">>
           S == {"stop", "uncallback", "free", "clear", "alloc", "set", "callback", "start"}
<1>1. away \o anew = <<"stop", "uncallback", "free", "clear", "alloc", "set", "callback", "start">>
  BY Join44
<1>2. away \in Seq(S) /\ anew \in Seq(S) /\ <<>> \in Seq(S)
  OBVIOUS
<1>3. away \o <<>> = away /\ <<>> \o <<>> = <<>> /\ <<>> \o anew = anew
  <2> HIDE DEF away, anew, S
  <2> QED
    BY <1>2, ConcatEmptySeq
<1>4. away \o anew \in CollectPlans /\ First(away \o anew) = "stop"
  BY <1>1 DEF CollectPlans, First
<1>5. away \in ClearPlans /\ away \notin CollectPlans /\ First(away) = "stop"
  BY DEF ClearPlans, CollectPlans, First
<1>6. anew \in CollectPlans /\ First(anew) = "alloc" /\ <<>> \notin CollectPlans
  BY DEF CollectPlans, First
<1> QED
  BY <1>3, <1>4, <1>5, <1>6

(* STB_DMXChangeTextPID up to its first call of the device.                 *)
LEMMA TextChanges ==
    ASSUME DemuxInv, NEW pid \in TextPids \cup {NoPid}, STB_DMXChangeTextPID(pid),
           UNCHANGED <<thread, filterVars>>
    PROVE  DemuxInv'
<1> DEFINE t2 == [text EXCEPT !.pid = pid]
           away == <<"stop", "uncallback", "free", "clear">>
           anew == <<"alloc", "set", "callback", "start">>
<1>1. /\ text \in TextType /\ change = <<>> /\ text' = t2 /\ filter' = filter
      /\ filter \in [Handles -> Filters] /\ lost' = lost
  BY DEF DemuxInv, TypesInv, STB_DMXChangeTextPID
<1>2. t2 \in TextType /\ t2.pid = pid /\ t2.fhandle = text.fhandle /\ t2.started = text.started
  BY <1>1 DEF TextType
<1>3. /\ First(<<>>) = "none"
      /\ text.started => text.fhandle # NoHandle
      /\ text.fhandle # NoHandle => TextEntryOk(text, filter[text.fhandle], <<>>)
  BY <1>1 DEF DemuxInv, TextInv, TextOk, First
<1>4. change' = (IF text.started THEN away ELSE <<>>) \o (IF pid = NoPid THEN <<>> ELSE anew)
  BY DEF STB_DMXChangeTextPID
<1>5. /\ change' \in TextPlans
      /\ change' \in CollectPlans => pid \in TextPids
      /\ text.started => First(change') = "stop"
      /\ ~text.started => First(change') \in {"none", "alloc"}
  BY <1>3, <1>4, ChangePlans DEF TextPlans
<1>6. TextOk(t2, change')
  BY <1>2, <1>3, <1>5 DEF TextOk
<1>7. t2.fhandle # NoHandle => TextEntryOk(t2, filter'[t2.fhandle], change')
  BY <1>1, <1>2, <1>3, <1>5 DEF TextEntryOk
<1> HIDE DEF t2
<1> QED
  BY <1>1, <1>2, <1>6, <1>7, TextGoes DEF filterVars

LEMMA TextNext == DemuxInv /\ Subtitles => DemuxInv'
<1> SUFFICES ASSUME DemuxInv, Subtitles PROVE DemuxInv'
  OBVIOUS
<1> DEFINE h == text.fhandle
<1>1. /\ filter \in [Handles -> Filters] /\ text \in TextType /\ TypesInv
      /\ TextOk(text, change) /\ (h # NoHandle => TextEntryOk(text, filter[h], change))
      /\ h \in Handles \cup {NoHandle} /\ change \in TextPlans
  BY DEF DemuxInv, TypesInv, TextInv, TextOk, TextType
<1>2. UNCHANGED filterVars /\ (ChangeText \/ ReadTextPES)
  BY DEF Subtitles
<1>3. ChangeText => UNCHANGED thread
  BY DEF ChangeText
<1>4. h # NoHandle => h \in Handles /\ filter[h].used
  BY <1>1 DEF TextEntryOk
<1>5. CASE ReadTextPES
  <2>1. UNCHANGED <<filter, thread, text, change, lost, slots, config>>
    BY <1>2, <1>5 DEF ReadTextPES, filterVars
  <2> QED
    BY <1>1, <2>1, TextGoes
<1>6. ASSUME NEW pid \in TextPids \cup {NoPid}, ChangeText, STB_DMXChangeTextPID(pid) PROVE DemuxInv'
  BY <1>2, <1>3, <1>6, TextChanges
<1>7. ASSUME ChangeText, lost' = lost, text' = text, h # NoHandle, Touches(h),
             TextOk(text, change'), TextEntryOk(text, filter'[h], change')
      PROVE  DemuxInv'
  BY <1>1, <1>2, <1>3, <1>4, <1>7, TextGoes DEF Touches, filterVars
<1>8. ASSUME ChangeText, TextDeviceCall PROVE DemuxInv'
  <2>1. change # <<>> /\ change' = Tail(change) /\ text' = text /\ lost' = lost
    BY <1>8 DEF TextDeviceCall, Changing, OnWith
  <2> DEFINE rest == Tail(change)
  <2>2. First(change) = Head(change)
    BY <1>1, <2>1, TextPlanRest
  <2>3. Changing("stop") \/ Changing("uncallback") \/ Changing("set") \/ Changing("callback")
    BY <1>8 DEF TextDeviceCall
  <2>4. Head(change) \in {"stop", "uncallback", "set", "callback"}
    BY <2>3 DEF Changing
  <2>5. h # NoHandle /\ h \in Handles /\ filter[h].used /\ TextEntryOk(text, filter[h], change)
    BY <1>1, <1>4, <2>2, <2>4 DEF TextOk
  <2>6. TextOk(text, rest)
    BY <1>1, <2>1, <2>2, <2>4, TextPlanRest DEF TextOk
  <2>7. CASE Head(change) = "stop"
    <3>1. DMX_StopFilter(h)
      BY <1>8, <2>7 DEF TextDeviceCall, Changing
    <3>2. /\ Touches(h) /\ Same(filter'[h], filter[h]) /\ filter'[h].cb = filter[h].cb
          /\ ~filter'[h].running
      BY <1>1, <2>5, <3>1, StopDoes DEF TextEntryOk
    <3> QED
      BY <1>7, <1>8, <2>1, <2>5, <2>6, <3>2 DEF TextEntryOk, Same
  <2>8. CASE Head(change) = "uncallback"
    <3>1. DMX_SetCallback(h, Nobody)
      BY <1>8, <2>8 DEF TextDeviceCall, Changing
    <3>2. /\ Touches(h) /\ Same(filter'[h], filter[h]) /\ filter'[h].cb = Nobody
          /\ (filter'[h].running <=> filter[h].running)
      BY <1>1, <2>5, <3>1, CallbackDoes
    <3> QED
      BY <1>7, <1>8, <2>1, <2>2, <2>5, <2>6, <2>8, <3>2 DEF TextEntryOk, Same
  <2>9. CASE Head(change) = "set"
    <3>1. DMX_SetSecFilter(h, [pid |-> text.pid, sf |-> WholePid])
      BY <1>8, <2>9 DEF TextDeviceCall, Changing
    <3>2. text.pid \in TextPids
      BY <1>1, <2>1, <2>9, TextPlanRest DEF TextOk
    <3>3. [pid |-> text.pid, sf |-> WholePid] \in Asks
      BY <3>2, TextAssumption DEF Asks, WholePid, SectionFilters, Patterns
    <3>4. Touches(h) /\ Same(filter'[h], filter[h]) /\ filter'[h].cb = filter[h].cb /\ ~filter'[h].running
      BY <1>1, <2>5, <3>1, <3>3, SetDoes
    <3> QED
      BY <1>7, <1>8, <2>1, <2>5, <2>6, <3>4 DEF TextEntryOk, Same
  <2>10. CASE Head(change) = "callback"
    <3>1. DMX_SetCallback(h, Text)
      BY <1>8, <2>10 DEF TextDeviceCall, Changing
    <3>2. /\ Touches(h) /\ Same(filter'[h], filter[h]) /\ filter'[h].cb = Text
          /\ (filter'[h].running <=> filter[h].running)
      BY <1>1, <2>5, <3>1, TextIsNoSlot, CallbackDoes
    <3>3. ~filter[h].running
      BY <1>1, <2>2, <2>5, <2>10 DEF TextOk, TextEntryOk
    <3> QED
      BY <1>7, <1>8, <2>1, <2>5, <2>6, <3>2, <3>3 DEF TextEntryOk, Same
  <2> QED
    BY <2>4, <2>7, <2>8, <2>9, <2>10
<1>9. ASSUME ChangeText, change' = <<>>, ~text.started, text' = text, lost' = lost,
              \/ filter' = filter
              \/ /\ h # NoHandle /\ Touches(h) /\ Same(filter'[h], filter[h])
                 /\ filter'[h].cb = Nobody /\ ~filter'[h].running
       PROVE  DemuxInv'
  <2>1. <<>> \in TextPlans /\ <<>> \notin CollectPlans /\ First(<<>>) = "none"
    BY DEF TextPlans, CollectPlans, First
  <2>2. TextOk(text, <<>>)
    BY <1>9, <2>1 DEF TextOk
  <2>3. h # NoHandle => TextEntryOk(text, filter'[h], <<>>)
    BY <1>1, <1>9, <2>1 DEF TextEntryOk, Same
  <2> QED
    BY <1>1, <1>2, <1>3, <1>4, <1>9, <2>2, <2>3, TextGoes DEF Touches, filterVars
<1>10. ASSUME ChangeText, PidRefused PROVE DemuxInv'
  <2>1. change # <<>> /\ Head(change) = "set" /\ First(change) = Head(change)
    BY <1>1, <1>10, TextPlanRest DEF PidRefused, Changing
  <2> QED
    BY <1>1, <1>9, <1>10, <2>1 DEF PidRefused, TextOk
<1>11. ASSUME ChangeText, StartRefused PROVE DemuxInv'
  <2>1. change # <<>> /\ Head(change) = "start" /\ First(change) = Head(change)
    BY <1>1, <1>11, TextPlanRest DEF StartRefused, Changing
  <2>2. ~text.started /\ h # NoHandle /\ ~filter[h].running
    BY <1>1, <2>1 DEF TextOk, TextEntryOk
  <2>3. h \in Handles /\ filter[h].used /\ DMX_SetCallback(h, Nobody)
    BY <1>4, <1>11, <2>2 DEF StartRefused
  <2>4. /\ Touches(h) /\ Same(filter'[h], filter[h]) /\ filter'[h].cb = Nobody
        /\ (filter'[h].running <=> filter[h].running)
    BY <1>1, <2>3, CallbackDoes
  <2> QED
    BY <1>9, <1>11, <2>2, <2>4 DEF StartRefused
<1>12. ASSUME ChangeText, FreeTextHandle PROVE DemuxInv'
  <2> DEFINE no == FALSE
             t2 == [text EXCEPT !.fhandle = NoHandle, !.started = no]
  <2>1. /\ change # <<>> /\ Head(change) = "free" /\ change' = Tail(change) /\ text' = t2
        /\ DMX_FreeFilter(h) /\ lost' = lost
    BY <1>12 DEF FreeTextHandle, Changing, OnWith
  <2>2. no \in BOOLEAN /\ ~no
    OBVIOUS
  <2> HIDE DEF no
  <2>3. t2 \in TextType /\ t2.pid = text.pid /\ t2.fhandle = NoHandle /\ ~t2.started
    BY <1>1, <2>2 DEF TextType
  <2> HIDE DEF t2
  <2>4. First(change) = "free"
    BY <1>1, <2>1, TextPlanRest
  <2>5. h \in Handles /\ filter[h].used /\ ~filter[h].running
    BY <1>1, <1>4, <2>4 DEF TextOk, TextEntryOk
  <2>6. Touches(h) /\ filter'[h].need_free /\ ~filter'[h].running
    BY <1>1, <2>1, <2>5, FreeDoes
  <2>7. TextOk(t2, change')
    BY <1>1, <2>1, <2>3, TextPlanRest DEF TextOk
  <2> QED
    BY <1>2, <1>3, <1>12, <2>1, <2>3, <2>6, <2>7, TextGoes DEF Touches, InUse, filterVars
<1>13. ASSUME ChangeText, ClearRing PROVE DemuxInv'
  <2>1. /\ change # <<>> /\ Head(change) = "clear" /\ change' = Tail(change)
        /\ text' = text /\ filter' = filter /\ lost' = lost
    BY <1>13 DEF ClearRing, Changing, OnWith
  <2>2. First(change) = "clear"
    BY <1>1, <2>1, TextPlanRest
  <2>3. h = NoHandle /\ TextOk(text, change')
    BY <1>1, <2>1, <2>2, TextPlanRest DEF TextOk
  <2> QED
    BY <1>1, <1>2, <1>3, <1>13, <2>1, <2>3, TextGoes DEF filterVars
<1>14. ASSUME ChangeText, AllocText PROVE DemuxInv'
  <2>1. change # <<>> /\ Head(change) = "alloc"
    BY <1>14 DEF AllocText, Changing
  <2>2. First(change) = "alloc"
    BY <1>1, <2>1, TextPlanRest
  <2>3. ~text.started
    BY <1>1, <2>2 DEF TextOk
  <2>4. CASE /\ Unused # {} /\ DMX_AllocateFilter /\ text' = [text EXCEPT !.fhandle = FirstUnused]
             /\ lost' = lost \cup ({h} \ {NoHandle}) /\ OnWith
    <3> DEFINE g == FirstUnused
               t2 == [text EXCEPT !.fhandle = g]
    <3>1. /\ g \in Handles /\ ~filter[g].used /\ Touches(g)
          /\ filter'[g].used /\ ~filter'[g].need_free /\ filter'[g].cb = Nobody /\ ~filter'[g].running
      BY <1>1, <2>4, AllocateDoes
    <3>2. text' = t2 /\ change' = Tail(change)
      BY <2>4 DEF OnWith
    <3> HIDE DEF g
    <3>3. t2 \in TextType /\ t2.pid = text.pid /\ t2.fhandle = g /\ t2.started = text.started
      BY <1>1, <3>1 DEF TextType
    <3> HIDE DEF t2
    <3>4. TextOk(t2, change')
      BY <1>1, <2>1, <2>3, <3>1, <3>2, <3>3, TextPlanRest, HandleIsNumber DEF TextOk
    <3>5. TextEntryOk(t2, filter'[g], change')
      BY <3>1 DEF TextEntryOk
    <3> QED
      <4>1. h # NoHandle => filter'[h] = filter[h]
        BY <1>4, <3>1 DEF Touches
      <4> QED
        BY <1>2, <1>3, <1>14, <2>3, <2>4, <3>1, <3>2, <3>3, <3>4, <3>5, <4>1, TextGoes
        DEF Touches, filterVars
  <2>5. CASE change' = <<>> /\ UNCHANGED <<filter, text, lost>>
    <3> QED
      BY <1>9, <1>14, <2>3, <2>5
  <2> QED
    BY <1>14, <2>4, <2>5 DEF AllocText
<1>15. ASSUME ChangeText, StartText PROVE DemuxInv'
  <2> DEFINE yes == TRUE
             t2 == [text EXCEPT !.started = yes]
  <2>1. /\ change # <<>> /\ Head(change) = "start" /\ change' = Tail(change) /\ text' = t2
        /\ DMX_StartFilter(h) /\ lost' = lost
    BY <1>15 DEF StartText, Changing, OnWith
  <2>2. yes \in BOOLEAN /\ yes
    OBVIOUS
  <2> HIDE DEF yes
  <2>3. t2 \in TextType /\ t2.pid = text.pid /\ t2.fhandle = h /\ t2.started
    BY <1>1, <2>2 DEF TextType
  <2> HIDE DEF t2
  <2>4. First(change) = "start"
    BY <1>1, <2>1, TextPlanRest
  <2>5. h # NoHandle /\ h \in Handles /\ filter[h].used /\ TextEntryOk(text, filter[h], change)
    BY <1>1, <1>4, <2>4 DEF TextOk
  <2>6. /\ Touches(h) /\ Same(filter'[h], filter[h]) /\ filter'[h].cb = filter[h].cb
        /\ (filter'[h].running => filter'[h].enable)
    BY <1>1, <2>1, <2>5, StartDoes DEF TextEntryOk
  <2>7. TextOk(t2, change') /\ First(change') = "none"
    BY <1>1, <2>1, <2>3, <2>5, TextPlanRest DEF TextOk
  <2>8. TextEntryOk(t2, filter'[h], change')
    BY <2>3, <2>5, <2>6, <2>7 DEF TextEntryOk, Same
  <2> QED
    BY <1>2, <1>3, <1>15, <2>1, <2>3, <2>6, <2>7, <2>8, TextGoes DEF Touches, filterVars
<1> QED
  BY <1>2, <1>5, <1>6, <1>8, <1>12, <1>13, <1>14, <1>15, <1>10, <1>11 DEF ChangeText

------------------------------------------------------------------------------
(***************************************************************************)
(* The thread of the device.  Only a round that begins touches the table.   *)
(***************************************************************************)
LEMMA ThreadGoes ==
    ASSUME DemuxInv, ThreadInv', UNCHANGED <<filter, slots, config, text, change, lost>>
    PROVE  DemuxInv'
<1>1. TypesInv' /\ BusyInv' /\ WritingInv' /\ \A s \in Slots : Todo(s)' = Todo(s)
  BY DEF DemuxInv, TypesInv, BusyInv, WritingInv, Idle, Todo
<1>2. \A u \in Receivers : HandleOf(u)' = HandleOf(u)
  BY DEF HandleOf
<1>3. SlotsInv' /\ EntriesInv' /\ TextInv' /\ OwnersInv'
  BY <1>1, <1>2, Primed DEF DemuxInv, SlotsInv, EntriesInv, TextInv, OwnersInv
<1>4. LostInv'
  BY <1>2, Primed DEF DemuxInv, LostInv
<1> QED
  BY <1>1, <1>3, <1>4 DEF DemuxInv

(* The thread goes on with the next descriptor.                             *)
LEMMA GoesOn ==
    ASSUME ThreadInv, thread.at # "scan", NEW h, GoOn(h)
    PROVE  ThreadInv'
<1>1. thread' = [at |-> IF thread.ready = {h} THEN "scan" ELSE "look",
                 ready |-> thread.ready \ {h}, h |-> NoHandle]
  BY DEF GoOn
<1>2. thread'.at \in {"scan", "look"} /\ thread'.ready = thread.ready \ {h}
      /\ (thread'.at # "scan" => thread.ready # {h})
  BY <1>1
<1>3. thread.ready \subseteq Handles /\ thread.ready # {}
  BY DEF ThreadInv
<1>4. thread' \in [at : {"scan", "look"}, ready : SUBSET Handles, h : {NoHandle}]
  BY <1>1, <1>3
<1> QED
  BY <1>2, <1>3, <1>4 DEF ThreadInv, InHands, InCallback

LEMMA ScanNext == DemuxInv /\ Scan /\ UNCHANGED <<filterVars, textVars>> => DemuxInv'
<1> SUFFICES ASSUME DemuxInv, Scan, UNCHANGED <<filterVars, textVars>> PROVE DemuxInv'
  OBVIOUS
<1>1. /\ filter \in [Handles -> Filters] /\ filter' = [h \in Handles |-> Close(filter[h])]
      /\ slots' = slots /\ config' = config /\ text' = text /\ change' = change /\ lost' = lost
  BY DEF DemuxInv, TypesInv, Scan, filterVars, textVars
<1>2. ASSUME NEW f \in Filters
      PROVE  /\ Close(f) \in Filters
             /\ ~f.need_free => Close(f) = f
             /\ f.need_free => ~Close(f).used /\ ~Close(f).running
  <2> DEFINE no == FALSE
             e == [f EXCEPT !.used = no, !.need_free = no, !.cb = Nobody,
                            !.ask = NoAsk, !.running = no]
  <2>1. Close(f) = IF f.need_free THEN e ELSE f
    BY DEF Close
  <2>2. no \in BOOLEAN /\ ~no
    OBVIOUS
  <2> HIDE DEF no
  <2>3. e \in Filters /\ e.used = no /\ e.running = no
    BY <2>2 DEF Filters
  <2> HIDE DEF e
  <2> QED
    BY <2>1, <2>2, <2>3
<1>3. /\ filter' \in [Handles -> Filters]
      /\ \A h \in Handles : InUse(filter[h]) => filter'[h] = filter[h]
      /\ \A h \in Handles : InUse(filter'[h]) => InUse(filter[h])
      /\ \A h \in Handles : ~InUse(filter[h]) /\ ~filter[h].running => ~filter'[h].running
  BY <1>1, <1>2 DEF InUse
<1>4. TypesInv' /\ BusyInv' /\ WritingInv' /\ \A s \in Slots : Todo(s)' = Todo(s)
  BY <1>1, <1>3 DEF DemuxInv, TypesInv, BusyInv, WritingInv, Idle, Todo
<1>5. \A u \in Receivers : HandleOf(u)' = HandleOf(u)
  BY <1>1 DEF HandleOf
<1>6. SlotsInv'
  BY <1>1, <1>4, Primed DEF DemuxInv, SlotsInv
<1>7. EntriesInv'
  <2> SUFFICES ASSUME NEW s \in Slots, slots[s].fhandle # NoHandle
               PROVE  EntryOk(s, slots[s], filter'[slots[s].fhandle], Todo(s))
    BY <1>1, <1>4, Primed
  <2>1. EntryOk(s, slots[s], filter[slots[s].fhandle], Todo(s)) /\ slots[s].fhandle \in Handles
    BY DEF DemuxInv, EntriesInv, TypesInv, SlotType
  <2>2. InUse(filter[slots[s].fhandle])
    BY <2>1 DEF EntryOk, InUse
  <2> QED
    BY <1>3, <2>1, <2>2
<1>8. TextInv'
  <2>1. text.fhandle # NoHandle => text.fhandle \in Handles
    BY DEF DemuxInv, TypesInv, TextType
  <2>2. text.fhandle # NoHandle => InUse(filter[text.fhandle])
    BY DEF DemuxInv, TextInv, TextEntryOk, InUse
  <2> QED
    BY <1>1, <1>3, <2>1, <2>2, Primed DEF DemuxInv, TextInv
<1>9. OwnersInv'
  <2>1. \A u, v \in Receivers : HandleOf(u)' = HandleOf(v)' /\ HandleOf(u)' # NoHandle => u = v
    BY <1>5 DEF DemuxInv, OwnersInv
  <2>2. ASSUME NEW h \in Handles
        PROVE  /\ InUse(filter'[h]) => h \in lost' \/ \E u \in Receivers : HandleOf(u)' = h
               /\ ~InUse(filter'[h]) => ~filter'[h].running
    <3>1. CASE InUse(filter[h])
      BY <1>1, <1>3, <1>5, <3>1 DEF DemuxInv, OwnersInv
    <3>2. CASE ~InUse(filter[h])
      BY <1>3, <3>2 DEF DemuxInv, OwnersInv
    <3> QED
      BY <3>1, <3>2
  <2> QED
    BY <2>1, <2>2, Primed
<1>10. LostInv'
  <2> SUFFICES ASSUME NEW h \in lost
               PROVE  /\ h \in Handles /\ InUse(filter'[h]) /\ ~filter'[h].running
                      /\ \A u \in Receivers : HandleOf(u)' # h
    BY <1>1, Primed
  <2> QED
    BY <1>3, <1>5 DEF DemuxInv, LostInv
<1>11. ThreadInv'
  <2> DEFINE used == {h \in Handles : filter'[h].used}
  <2>1. thread' = [thread EXCEPT !.at = IF used = {} THEN "scan" ELSE "look", !.ready = used]
    BY DEF Scan
  <2>2. thread \in [at : {"scan", "look"}, ready : SUBSET Handles, h : {NoHandle}]
    BY DEF Scan, DemuxInv, ThreadInv
  <2>3. /\ thread' \in [at : {"scan", "look"}, ready : SUBSET Handles, h : {NoHandle}]
        /\ thread'.at = (IF used = {} THEN "scan" ELSE "look") /\ thread'.ready = used
    BY <2>1, <2>2
  <2> QED
    BY <2>3 DEF ThreadInv, InHands, InCallback
<1> QED
  BY <1>4, <1>6, <1>7, <1>8, <1>9, <1>11, <1>10 DEF DemuxInv

LEMMA LookNext == DemuxInv /\ Look /\ UNCHANGED <<filterVars, textVars>> => DemuxInv'
<1> SUFFICES ASSUME DemuxInv, Look, UNCHANGED <<filterVars, textVars>> PROVE DemuxInv'
  OBVIOUS
<1>1. UNCHANGED <<filter, slots, config, text, change, lost>> /\ thread.at = "look"
  BY DEF Look, filterVars, textVars
<1> DEFINE h == Min(thread.ready)
<1>2. h \in Handles /\ ThreadInv
  <2>1. thread.ready \in SUBSET Nat /\ thread.ready \subseteq Handles /\ thread.ready # {}
    BY <1>1, HandlesAssumption DEF DemuxInv, ThreadInv
  <2> QED
    BY <2>1, LeastIn DEF DemuxInv
<1>3. GoOn(h) \/ \E section \in Sections : ReadSection(h, section)
  BY DEF Look
<1> HIDE DEF h
<1>4. CASE GoOn(h)
  BY <1>1, <1>2, <1>4, GoesOn, ThreadGoes
<1>5. ASSUME NEW section \in Sections, ReadSection(h, section), ~GoOn(h) PROVE DemuxInv'
  <2> DEFINE f == filter[h]
  <2>1. /\ f.enable /\ f.used /\ ~f.need_free /\ f.running /\ section.pid = f.ask.pid
        /\ f.cb # Nobody
        /\ thread' = [at |-> "callback", ready |-> thread.ready, h |-> h, cb |-> f.cb,
                      section |-> section]
    BY <1>5 DEF ReadSection, Readable, Admits
  <2>2. /\ thread'.at = "callback" /\ thread'.ready = thread.ready /\ thread'.h = h
        /\ thread'.cb = f.cb /\ thread'.section = section
    BY <2>1
  <2>3. ASSUME NEW s \in Slots, slots[s].fhandle = h
        PROVE  slots[s].started /\ section.pid = slots[s].pid
    BY <1>2, <2>1, <2>3, HandleIsNumber DEF DemuxInv, EntriesInv, EntryOk
  <2>4. thread.ready \subseteq Handles /\ thread.ready # {}
    BY <1>1, <1>2 DEF ThreadInv
  <2>5. ThreadInv'
    BY <1>1, <1>2, <2>1, <2>2, <2>3, <2>4 DEF ThreadInv, InHands, InCallback
  <2> QED
    BY <1>1, <2>5, ThreadGoes
<1> QED
  BY <1>3, <1>4, <1>5

LEMMA SectionNext == DemuxInv /\ Section => DemuxInv'
<1> SUFFICES ASSUME DemuxInv, NEW s \in Slots, InCallback(s),
                    CheckHandle(s) \/ TestSect(s) \/ Handler,
                    UNCHANGED <<filter, filterVars, textVars>>
             PROVE  DemuxInv'
  BY DEF Section, PidCallback
<1>1. UNCHANGED <<filter, slots, config, text, change, lost>> /\ ThreadInv
  BY DEF filterVars, textVars, DemuxInv
<1>2. /\ thread.at \notin {"scan", "look"} /\ thread.cb = s /\ InHands
      /\ thread.ready \subseteq Handles /\ thread.ready # {}
      /\ thread.h \in Handles /\ filter[thread.h].used
  BY <1>1 DEF InCallback, ThreadInv, InHands
<1>3. CASE GoOn(thread.h)
  BY <1>1, <1>2, <1>3, GoesOn, ThreadGoes
<1>4. ASSUME thread'.at \in {"sect", "handler"},
             thread' = [at |-> thread'.at, ready |-> thread.ready, h |-> thread.h,
                        cb |-> thread.cb, section |-> thread.section, i |-> thread'.i]
      PROVE  DemuxInv'
  <2>1. /\ thread'.ready = thread.ready /\ thread'.h = thread.h /\ thread'.cb = thread.cb
        /\ thread'.section = thread.section
    BY <1>4
  <2>2. \A t \in Slots : InCallback(t)' <=> InCallback(t)
    BY <1>2, <1>4, <2>1 DEF InCallback
  <2>3. ThreadInv'
    BY <1>1, <1>2, <1>4, <2>1, <2>2 DEF ThreadInv, InHands
  <2> QED
    BY <1>1, <2>3, ThreadGoes
<1>5. CASE CheckHandle(s)
  BY <1>3, <1>4, <1>5 DEF CheckHandle, Return
<1>6. ASSUME thread.at \in {"sect", "handler"}, NextSect PROVE DemuxInv'
  <2> DEFINE later == {i \in Sects : i > thread.i}
  <2>1. CASE later = {}
    BY <1>3, <1>6, <2>1 DEF NextSect, Return
  <2>2. CASE later # {}
    <3> DEFINE j == Min(later)
    <3>1. thread' = [thread EXCEPT !.at = "sect", !.i = j]
      BY <1>6, <2>2 DEF NextSect
    <3>2. thread = [at |-> thread.at, ready |-> thread.ready, h |-> thread.h,
                    cb |-> thread.cb, section |-> thread.section, i |-> thread.i]
      BY <1>1, <1>6 DEF ThreadInv
    <3> HIDE DEF j
    <3>3. thread' = [at |-> "sect", ready |-> thread.ready, h |-> thread.h,
                     cb |-> thread.cb, section |-> thread.section, i |-> j]
      BY <3>1, <3>2
    <3> QED
      BY <1>4, <3>3
  <2> QED
    BY <2>1, <2>2
<1>7. CASE TestSect(s)
  <2>1. thread.at = "sect"
    BY <1>7 DEF TestSect
  <2>2. CASE NextSect
    BY <1>6, <2>1, <2>2
  <2>3. CASE thread' = [thread EXCEPT !.at = "handler"]
    <3>1. thread = [at |-> thread.at, ready |-> thread.ready, h |-> thread.h,
                    cb |-> thread.cb, section |-> thread.section, i |-> thread.i]
      BY <1>1, <2>1 DEF ThreadInv
    <3>2. thread' = [at |-> "handler", ready |-> thread.ready, h |-> thread.h,
                     cb |-> thread.cb, section |-> thread.section, i |-> thread.i]
      BY <2>3, <3>1
    <3> QED
      BY <1>4, <3>2
  <2> QED
    BY <1>7, <2>2, <2>3 DEF TestSect
<1>8. CASE Handler
  BY <1>6, <1>8 DEF Handler
<1> QED
  BY <1>5, <1>7, <1>8

LEMMA TextDataNext == DemuxInv /\ TextData => DemuxInv'
<1> SUFFICES ASSUME DemuxInv, InCallback(Text), CheckText \/ CopyIn,
                    UNCHANGED <<filter, text, change, lost, filterVars>>
             PROVE  DemuxInv'
  BY DEF TextData, PesCallback
<1>1. UNCHANGED <<filter, slots, config, text, change, lost>> /\ ThreadInv
  BY DEF filterVars, DemuxInv
<1>2. /\ thread.at \notin {"scan", "look"} /\ thread.cb = Text /\ InHands
      /\ thread.ready \subseteq Handles /\ thread.ready # {}
      /\ thread.h \in Handles /\ filter[thread.h].used
  BY <1>1 DEF InCallback, ThreadInv, InHands
<1>3. CASE GoOn(thread.h)
  BY <1>1, <1>2, <1>3, GoesOn, ThreadGoes
<1>4. CASE thread' = [at |-> "copy", ready |-> thread.ready, h |-> thread.h, cb |-> Text]
  <2>1. /\ thread'.at = "copy" /\ thread'.ready = thread.ready /\ thread'.h = thread.h
        /\ thread'.cb = Text
    BY <1>4
  <2>2. \A s \in Slots : ~InCallback(s)'
    BY <2>1, TextIsNoSlot DEF InCallback
  <2>3. ThreadInv'
    BY <1>1, <1>2, <2>1, <2>2 DEF ThreadInv, InHands
  <2> QED
    BY <1>1, <2>3, ThreadGoes
<1> QED
  BY <1>3, <1>4 DEF CheckText, CopyIn, Return

------------------------------------------------------------------------------
(* What is left of a call of a PID filter when its first step is made.      *)
LEMMA PlanRest ==
    ASSUME NEW do \in Plans, do # <<>>
    PROVE  /\ First(do) = Head(do) /\ Tail(do) \in Plans /\ Tail(do) # <<"write">>
           /\ Head(do) \in {"stop", "uncallback", "set", "callback", "restart"} =>
                  /\ Running(Tail(do)) => Running(do)
                  /\ NotRunning(Tail(do)) => NotRunning(do)
                  /\ Setting(Tail(do)) => Setting(do)
                  /\ First(Tail(do)) \notin {"alloc", "forget", "stop"}
           /\ Head(do) = "stop" => Running(do) /\ First(Tail(do)) \in {"set", "uncallback"}
           /\ Head(do) = "uncallback" => Running(do) /\ First(Tail(do)) = "free"
           /\ Head(do) = "set" =>
                  /\ First(Tail(do)) \in {"none", "restart", "callback"} /\ Setting(do)
                  /\ First(Tail(do)) # "restart" => NotRunning(do)
           /\ Head(do) = "restart" => Running(do) /\ Setting(do) /\ Tail(do) = <<>>
           /\ Head(do) = "callback" => NotRunning(do) /\ Setting(do) /\ First(Tail(do)) = "start"
           /\ Head(do) = "start" => NotRunning(do) /\ Setting(do) /\ Tail(do) = <<>>
           /\ Head(do) = "free" =>
                  /\ Running(do) /\ First(Tail(do)) \in {"none", "forget"}
                  /\ ~Running(Tail(do)) /\ ~Setting(Tail(do))
           /\ Head(do) = "forget" => NotRunning(do) /\ Tail(do) = <<>>
           /\ Head(do) = "alloc" =>
                  /\ NotRunning(do) /\ ~Running(Tail(do)) /\ Setting(do)
                  /\ First(Tail(do)) \in {"set", "update"}
           /\ Head(do) = "update" =>
                  NotRunning(do) /\ Setting(do) /\ Tail(do) = <<"callback", "start">>
           /\ Head(do) = "write" => do = <<"write">>
<1> USE DEF Plans, UpdatePlans, StartPlans, StopPlans, ReleasePlans, First, Running, NotRunning,
            Setting
<1>1. CASE do = <<"write">>
  BY <1>1
<1>2. CASE do = <<"set">>
  BY <1>2
<1>3. CASE do = <<"alloc", "set">>
  BY <1>3
<1>4. CASE do = <<"stop", "set", "restart">>
  BY <1>4
<1>5. CASE do = <<"set", "restart">>
  BY <1>5
<1>6. CASE do = <<"restart">>
  BY <1>6
<1>7. CASE do = <<"alloc", "update", "callback", "start">>
  BY <1>7
<1>8. CASE do = <<"update", "callback", "start">>
  BY <1>8
<1>9. CASE do = <<"alloc", "set", "callback", "start">>
  BY <1>9
<1>10. CASE do = <<"set", "callback", "start">>
  BY <1>10
<1>11. CASE do = <<"callback", "start">>
  BY <1>11
<1>12. CASE do = <<"start">>
  BY <1>12
<1>13. CASE do = <<"stop", "uncallback", "free">>
  BY <1>13
<1>14. CASE do = <<"uncallback", "free">>
  BY <1>14
<1>15. CASE do = <<"free">>
  BY <1>15
<1>16. CASE do = <<"stop", "uncallback", "free", "forget">>
  BY <1>16
<1>17. CASE do = <<"uncallback", "free", "forget">>
  BY <1>17
<1>18. CASE do = <<"free", "forget">>
  BY <1>18
<1>19. CASE do = <<"forget">>
  BY <1>19
<1> QED
  BY <1>1, <1>2, <1>3, <1>4, <1>5, <1>6, <1>7, <1>8, <1>9, <1>10,
     <1>11, <1>12, <1>13, <1>14, <1>15, <1>16, <1>17, <1>18, <1>19

(* The plans that are made by the calls.                                   *)
LEMMA MadePlans ==
    /\ \A do \in {<<"set">>, <<"alloc", "set">>, <<"alloc", "set", "callback", "start">>,
                   <<"set", "callback", "start">>, <<"callback", "start">>} :
           do \in Plans /\ NotRunning(do) /\ ~Running(do) /\ Setting(do) /\ do # <<"write">>
    /\ LET do == <<"alloc", "update", "callback", "start">>
       IN  do \in Plans /\ NotRunning(do) /\ ~Running(do) /\ Setting(do) /\ do # <<"write">>
    /\ \A do \in {<<"stop", "uncallback", "free">>, <<"stop", "uncallback", "free", "forget">>} :
           do \in Plans /\ Running(do) /\ ~NotRunning(do) /\ ~Setting(do) /\ do # <<"write">>
    /\ LET do == <<"stop", "set", "restart">>
       IN  do \in Plans /\ Running(do) /\ ~NotRunning(do) /\ Setting(do) /\ do # <<"write">>
    /\ LET do == <<"forget">>
       IN  do \in Plans /\ NotRunning(do) /\ ~Running(do) /\ ~Setting(do) /\ do # <<"write">>
    /\ LET do == <<"write">>
       IN  do \in Plans /\ ~Running(do) /\ ~NotRunning(do) /\ ~Setting(do)
    /\ First(<<"set">>) = "set" /\ First(<<"alloc", "set">>) = "alloc"
    /\ First(<<"alloc", "set", "callback", "start">>) = "alloc"
    /\ First(<<"set", "callback", "start">>) = "set"
    /\ First(<<"callback", "start">>) = "callback"
    /\ First(<<"alloc", "update", "callback", "start">>) = "alloc"
    /\ First(<<"stop", "uncallback", "free">>) = "stop"
    /\ First(<<"stop", "uncallback", "free", "forget">>) = "stop"
    /\ First(<<"stop", "set", "restart">>) = "stop" /\ First(<<"forget">>) = "forget"
    /\ First(<<"write">>) = "write"
BY DEF Plans, UpdatePlans, StartPlans, StopPlans, ReleasePlans, First, Running, NotRunning,
       Setting

(* What UpdateSectionFilter has to do.                                      *)
LEMMA UpdateIs ==
    ASSUME NEW p, p.started \in BOOLEAN, p.started => p.fhandle # NoHandle, NEW some \in BOOLEAN
    PROVE  /\ ~some => Update(p, some) = <<>>
           /\ some => Update(p, some) = IF p.started THEN <<"stop", "set", "restart">>
                                        ELSE IF p.fhandle = NoHandle THEN <<"alloc", "set">>
                                        ELSE <<"set">>
<1>1. <<"alloc">> \o <<"set">> = <<"alloc", "set">>
  BY Join11
<1>2. <<"stop">> \o <<"set">> = <<"stop", "set">>
  BY Join11
<1>3. <<"stop", "set">> \o <<"restart">> = <<"stop", "set", "restart">>
  BY Join21
<1>4. /\ <<>> \o <<"alloc">> = <<"alloc">> /\ <<"alloc", "set">> \o <<>> = <<"alloc", "set">>
      /\ <<>> \o <<"set">> = <<"set">> /\ <<"set">> \o <<>> = <<"set">>
      /\ <<"stop">> \o <<>> = <<"stop">> /\ <<>> \o <<>> = <<>>
  <2> DEFINE S == {"alloc", "set", "stop"}
  <2>1. /\ <<"alloc">> \in Seq(S) /\ <<"alloc", "set">> \in Seq(S) /\ <<"set">> \in Seq(S)
        /\ <<"stop">> \in Seq(S) /\ <<>> \in Seq(S)
    OBVIOUS
  <2> HIDE DEF S
  <2> QED
    BY <2>1, ConcatEmptySeq
<1>5. CASE p.started
  BY <1>1, <1>2, <1>3, <1>4, <1>5 DEF Update
<1>6. CASE ~p.started /\ p.fhandle = NoHandle
  BY <1>1, <1>2, <1>3, <1>4, <1>6 DEF Update
<1>7. CASE ~p.started /\ p.fhandle # NoHandle
  BY <1>1, <1>2, <1>3, <1>4, <1>7 DEF Update
<1> QED
  BY <1>5, <1>6, <1>7

(* What a call has still to do, as the other operators see it.             *)
Leaves(s, do) ==
    /\ Todo(s)' = do /\ \A t \in Slots : t # s => Todo(t)' = <<>>
    /\ BusyInv'

(* Only the PID filter of the call has something left to do.                *)
LEMMA BeginLeaves ==
    ASSUME NEW s \in Slots, NEW do, Begin(s, do)
    PROVE  Leaves(s, do) /\ (do # <<"write">> => WritingInv')
<1>1. CASE do = <<>>
  <2>1. config' = [do |-> <<>>] /\ config'.do = <<>>
    BY <1>1 DEF Begin, Free
  <2> QED
    BY <1>1, <2>1 DEF Leaves, Todo, Idle, BusyInv, WritingInv
<1>2. CASE do # <<>>
  <2>1. config'.do = do /\ config'.slot = s
    BY <1>2 DEF Begin
  <2> QED
    BY <1>2, <2>1 DEF Leaves, Todo, Idle, BusyInv, WritingInv
<1> QED
  BY <1>1, <1>2

LEMMA ThenLeaves ==
    ASSUME NEW s \in Slots, config.slot = s, NEW do, Then(do)
    PROVE  Leaves(s, do) /\ (do # <<"write">> => WritingInv')
BY BeginLeaves DEF Then, Begin

LEMMA SameAsk ==
    ASSUME NEW p, NEW q, q.pid = p.pid, SetUp(q) = SetUp(p),
           \A i \in SetUp(p) : q.sects[i].sf = p.sects[i].sf
    PROVE  Ask(q) = Ask(p)
BY DEF Ask

(***************************************************************************)
(* A step that leaves the handle of the PID filter what it is.              *)
(***************************************************************************)
LEMMA HandleStays ==
    ASSUME DemuxInv, NEW s \in Slots, NEW p2 \in SlotType, NEW do2,
           Idle \/ config.slot = s, Leaves(s, do2), WritingInv',
           slots' = [slots EXCEPT ![s] = p2], p2.fhandle = slots[s].fhandle,
           \/ filter' = filter
           \/ p2.fhandle # NoHandle /\ Touches(p2.fhandle),
           slots[s].started => p2.started /\ p2.pid = slots[s].pid,
           SlotOk(p2, do2),
           p2.fhandle # NoHandle => EntryOk(s, p2, filter'[p2.fhandle], do2),
           UNCHANGED <<text, change, lost, thread>>
    PROVE  DemuxInv'
<1>1. /\ filter' \in [Handles -> Filters]
      /\ \A h \in Handles : h # p2.fhandle => filter'[h] = filter[h]
      /\ \A h \in Handles : filter[h].used => filter'[h].used
  BY DEF DemuxInv, TypesInv, Touches
<1> QED
  BY <1>1, SlotGoes DEF Leaves

------------------------------------------------------------------------------
(* The calls, each up to its first call of the device.                      *)

LEMMA IdleSlot ==
    ASSUME DemuxInv, Idle, NEW s \in Slots
    PROVE  /\ slots[s] \in SlotType /\ SlotOk(slots[s], <<>>)
           /\ slots[s].fhandle # NoHandle => EntryOk(s, slots[s], filter[slots[s].fhandle], <<>>)
<1>1. Todo(s) = <<>>
  BY DEF Todo
<1> QED
  BY <1>1 DEF DemuxInv, TypesInv, SlotsInv, EntriesInv

LEMMA GrabPID ==
    ASSUME DemuxInv, Idle, NEW s \in Slots, NEW pid \in Pids, STB_DMXGrabPIDFilter(s, pid),
           UNCHANGED <<text, change, lost, thread>>
    PROVE  DemuxInv'
<1> DEFINE p == slots[s]
           yes == TRUE
           no == FALSE
           zero == 0
           sects == [i \in Sects |-> Cleared]
           p2 == [p EXCEPT !.pid = pid, !.func = yes, !.start_count = zero, !.started = no,
                           !.sects = sects]
<1>1. p.pid = NotUsed /\ slots' = [slots EXCEPT ![s] = p2] /\ config' = config /\ filter' = filter
  BY DEF STB_DMXGrabPIDFilter
<1>2. /\ p \in SlotType /\ SlotOk(p, <<>>)
      /\ p.fhandle # NoHandle => EntryOk(s, p, filter[p.fhandle], <<>>)
  BY IdleSlot
<1>3. yes \in BOOLEAN /\ no \in BOOLEAN /\ ~no /\ zero \in Nat
  OBVIOUS
<1>4. sects \in [Sects -> SectType] /\ \A i \in Sects : ~sects[i].setup
  BY DEF SectType, Cleared
<1> HIDE DEF yes, no, zero, sects
<1>5. /\ p2 \in SlotType /\ p2.pid = pid /\ p2.fhandle = p.fhandle /\ p2.started = no
      /\ p2.sects = sects
  BY <1>2, <1>3, <1>4 DEF SlotType
<1> HIDE DEF p2
<1>6. SetUp(p2) = {}
  BY <1>4, <1>5 DEF SetUp
<1>7. Leaves(s, <<>>) /\ WritingInv'
  BY <1>1 DEF Leaves, Todo, Idle, BusyInv, WritingInv
<1>8. ~p.started
  BY <1>1, <1>2 DEF SlotOk
<1>9. SlotOk(p2, <<>>)
  BY <1>3, <1>5, <1>6, NoPlan DEF SlotOk
<1>10. p2.fhandle # NoHandle => EntryOk(s, p2, filter'[p2.fhandle], <<>>)
  BY <1>1, <1>2, <1>3, <1>5, <1>6, <1>8, NoPlan DEF EntryOk
<1> QED
  BY <1>1, <1>5, <1>7, <1>8, <1>9, <1>10, HandleStays

LEMMA GrabSect ==
    ASSUME DemuxInv, Idle, NEW s \in Slots, STB_DMXGrabSectFilter(s),
           UNCHANGED <<text, change, lost, thread>>
    PROVE  DemuxInv'
<1> DEFINE p == slots[s]
           free == {i \in Sects : ~p.sects[i].in_use}
           j == Min(free)
           yes == TRUE
           sect == [p.sects[j] EXCEPT !.in_use = yes, !.sf = Cleared.sf]
           sects == [p.sects EXCEPT ![j] = sect]
           p2 == [p EXCEPT !.sects = sects]
<1>1. /\ p.pid # NotUsed /\ free # {}
      /\ slots' = [slots EXCEPT ![s].sects[j] = [@ EXCEPT !.in_use = TRUE, !.sf = Cleared.sf]]
      /\ config' = config /\ filter' = filter
  BY DEF STB_DMXGrabSectFilter
<1>2. /\ p \in SlotType /\ SlotOk(p, <<>>)
      /\ p.fhandle # NoHandle => EntryOk(s, p, filter[p.fhandle], <<>>)
  BY IdleSlot
<1>3. j \in Sects /\ ~p.sects[j].in_use
  <2>1. free \in SUBSET Nat
    BY SectsAssumption
  <2> QED
    BY <1>1, <2>1, LeastIn
<1>4. slots' = [slots EXCEPT ![s] = p2]
  BY <1>1 DEF DemuxInv, TypesInv
<1>5. yes \in BOOLEAN /\ yes
  OBVIOUS
<1> HIDE DEF yes, j
<1>6. p.sects[j] \in SectType
  BY <1>2, <1>3 DEF SlotType
<1>7. sect \in SectType /\ sect.setup = p.sects[j].setup /\ sect.in_use = yes
  BY <1>5, <1>6 DEF SectType
<1> HIDE DEF sect
<1>8. sects \in [Sects -> SectType] /\ sects[j] = sect /\ \A i \in Sects : i # j => sects[i] = p.sects[i]
  BY <1>2, <1>3, <1>7 DEF SlotType
<1> HIDE DEF sects
<1>9. /\ p2 \in SlotType /\ p2.pid = p.pid /\ p2.fhandle = p.fhandle /\ p2.started = p.started
      /\ p2.sects = sects
  BY <1>2, <1>8 DEF SlotType
<1> HIDE DEF p2
<1>10. j \notin SetUp(p)
  BY <1>2, <1>3 DEF SlotOk
<1>11. SetUp(p2) = SetUp(p)
  BY <1>3, <1>7, <1>8, <1>9 DEF SetUp
<1>12. \A i \in SetUp(p) : p2.sects[i] = p.sects[i]
  BY <1>8, <1>9, <1>10 DEF SetUp
<1>13. Ask(p2) = Ask(p)
  BY <1>9, <1>11, <1>12, SameAsk
<1>14. Leaves(s, <<>>) /\ WritingInv'
  BY <1>1 DEF Leaves, Todo, Idle, BusyInv, WritingInv
<1>15. SlotOk(p2, <<>>)
  BY <1>2, <1>9, <1>11, <1>12, NoPlan DEF SlotOk
<1>16. p2.fhandle # NoHandle => EntryOk(s, p2, filter'[p2.fhandle], <<>>)
  BY <1>1, <1>2, <1>9, <1>11, <1>13 DEF EntryOk
<1> QED
  BY <1>1, <1>4, <1>9, <1>14, <1>15, <1>16, HandleStays

LEMMA SetupSect ==
    ASSUME DemuxInv, Idle, NEW s \in Slots, NEW i \in Sects, NEW sf \in Wanted,
           STB_DMXSetupSectFilter(s, i, sf), UNCHANGED <<text, change, lost, thread>>
    PROVE  DemuxInv'
<1> DEFINE p == slots[s]
<1>1. /\ p.pid # NotUsed /\ p.sects[i].in_use
      /\ config' = [do |-> <<"write">>, slot |-> s, sect |-> i, sf |-> sf]
      /\ slots' = slots /\ filter' = filter
  BY DEF STB_DMXSetupSectFilter
<1>2. /\ p \in SlotType /\ SlotOk(p, <<>>)
      /\ p.fhandle # NoHandle => EntryOk(s, p, filter[p.fhandle], <<>>)
  BY IdleSlot
<1>3. config'.do = <<"write">> /\ config'.slot = s /\ config'.sect = i /\ config'.sf = sf
  BY <1>1
<1>4. Leaves(s, <<"write">>) /\ WritingInv'
  BY <1>1, <1>3 DEF Leaves, Todo, Idle, BusyInv, WritingInv
<1>5. slots' = [slots EXCEPT ![s] = p]
  BY <1>1 DEF DemuxInv, TypesInv
<1>6. SlotOk(p, <<"write">>)
  BY <1>1, <1>2, MadePlans DEF SlotOk
<1>7. p.fhandle # NoHandle => EntryOk(s, p, filter'[p.fhandle], <<"write">>)
  BY <1>1, <1>2, NoPlan, MadePlans DEF EntryOk
<1> QED
  BY <1>1, <1>2, <1>4, <1>5, <1>6, <1>7, HandleStays

LEMMA ReleaseSect ==
    ASSUME DemuxInv, Idle, NEW s \in Slots, NEW i \in Sects, STB_DMXReleaseSectFilter(s, i),
           UNCHANGED <<text, change, lost, thread>>
    PROVE  DemuxInv'
<1> DEFINE p == slots[s]
           no == FALSE
           sect == [p.sects[i] EXCEPT !.in_use = no, !.setup = no]
           sects == [p.sects EXCEPT ![i] = sect]
           p2 == [p EXCEPT !.sects = sects]
           some == Setups(s) \ {i} # {}
           do2 == Update(p, some)
<1>1. /\ p.pid # NotUsed /\ filter' = filter /\ Begin(s, do2)
      /\ slots' = [slots EXCEPT ![s].sects[i] = [@ EXCEPT !.in_use = FALSE, !.setup = FALSE]]
  BY DEF STB_DMXReleaseSectFilter
<1>2. /\ p \in SlotType /\ SlotOk(p, <<>>)
      /\ p.fhandle # NoHandle => EntryOk(s, p, filter[p.fhandle], <<>>)
  BY IdleSlot
<1>3. slots' = [slots EXCEPT ![s] = p2]
  BY <1>1 DEF DemuxInv, TypesInv
<1>4. no \in BOOLEAN /\ ~no
  OBVIOUS
<1> HIDE DEF no
<1>5. p.sects[i] \in SectType
  BY <1>2 DEF SlotType
<1>6. sect \in SectType /\ sect.setup = no
  BY <1>4, <1>5 DEF SectType
<1> HIDE DEF sect
<1>7. sects \in [Sects -> SectType] /\ sects[i] = sect /\ \A j \in Sects : j # i => sects[j] = p.sects[j]
  BY <1>2, <1>6 DEF SlotType
<1> HIDE DEF sects
<1>8. /\ p2 \in SlotType /\ p2.pid = p.pid /\ p2.fhandle = p.fhandle /\ p2.started = p.started
      /\ p2.sects = sects
  BY <1>2, <1>7 DEF SlotType
<1> HIDE DEF p2
<1>9. SetUp(p2) = SetUp(p) \ {i} /\ \A j \in SetUp(p2) : p2.sects[j] = p.sects[j]
  BY <1>4, <1>6, <1>7, <1>8 DEF SetUp
<1>10. some <=> SetUp(p2) # {}
  BY <1>9 DEF SetUp, Setups
<1>11. /\ ~some => do2 = <<>>
       /\ some => do2 = IF p.started THEN <<"stop", "set", "restart">>
                        ELSE IF p.fhandle = NoHandle THEN <<"alloc", "set">> ELSE <<"set">>
  <2>1. p.started \in BOOLEAN /\ (p.started => p.fhandle # NoHandle)
    BY <1>2 DEF SlotOk, SlotType
  <2>2. some \in BOOLEAN
    OBVIOUS
  <2> HIDE DEF p, some
  <2> QED
    BY <2>1, <2>2, UpdateIs
<1> HIDE DEF some, do2
<1>12. do2 # <<"write">>
  BY <1>11, MadePlans
<1>13. Leaves(s, do2) /\ WritingInv'
  BY <1>1, <1>12, BeginLeaves
<1>14. SlotOk(p2, do2)
  BY <1>1, <1>2, <1>8, <1>9, <1>10, <1>11, NoPlan, MadePlans DEF SlotOk
<1>15. p2.fhandle # NoHandle => EntryOk(s, p2, filter'[p2.fhandle], do2)
  BY <1>1, <1>2, <1>8, <1>10, <1>11, NoPlan, MadePlans DEF EntryOk
<1> QED
  BY <1>1, <1>3, <1>8, <1>13, <1>14, <1>15, HandleStays

(* A call that changes no more of a PID filter than its count of starts.    *)
LEMMA CountChanges ==
    ASSUME NEW p \in SlotType, NEW n \in Nat
    PROVE  LET q == [p EXCEPT !.start_count = n]
           IN  /\ q \in SlotType /\ q.pid = p.pid /\ q.fhandle = p.fhandle
               /\ q.started = p.started /\ q.sects = p.sects
BY DEF SlotType

LEMMA StartPID ==
    ASSUME DemuxInv, Idle, NEW s \in Slots, STB_DMXStartPIDFilter(s),
           UNCHANGED <<text, change, lost, thread>>
    PROVE  DemuxInv'
<1> DEFINE p == slots[s]
           n == p.start_count + 1
           p2 == [p EXCEPT !.start_count = n]
           do2 == IF p.started THEN <<>>
                  ELSE (IF p.fhandle = NoHandle THEN <<"alloc", "update">> ELSE <<>>)
                       \o <<"callback", "start">>
<1>1. /\ p.pid # NotUsed /\ filter' = filter /\ Begin(s, do2) /\ Setups(s) # {}
      /\ slots' = [slots EXCEPT ![s].start_count = @ + 1]
  BY DEF STB_DMXStartPIDFilter
<1>2. /\ p \in SlotType /\ SlotOk(p, <<>>)
      /\ p.fhandle # NoHandle => EntryOk(s, p, filter[p.fhandle], <<>>)
  BY IdleSlot
<1>3. slots' = [slots EXCEPT ![s] = p2] /\ SetUp(p) # {}
  BY <1>1 DEF DemuxInv, TypesInv, SetUp, Setups
<1>4. n \in Nat
  BY <1>2 DEF SlotType
<1> HIDE DEF n
<1>5. /\ p2 \in SlotType /\ p2.pid = p.pid /\ p2.fhandle = p.fhandle /\ p2.started = p.started
      /\ p2.sects = p.sects
  BY <1>2, <1>4, CountChanges
<1> HIDE DEF p2
<1>6. SetUp(p2) = SetUp(p) /\ Ask(p2) = Ask(p)
  BY <1>5 DEF SetUp, Ask
<1>7. do2 = IF p.started THEN <<>>
            ELSE IF p.fhandle = NoHandle THEN <<"alloc", "update", "callback", "start">>
            ELSE <<"callback", "start">>
  <2>1. <<"alloc", "update">> \o <<"callback", "start">> = <<"alloc", "update", "callback", "start">>
    BY Join22
  <2>2. <<>> \o <<"callback", "start">> = <<"callback", "start">>
    <3>1. <<"callback", "start">> \in Seq({"callback", "start"})
      OBVIOUS
    <3> QED
      BY <3>1, ConcatEmptySeq
  <2> QED
    BY <2>1, <2>2
<1> HIDE DEF do2
<1>8. do2 # <<"write">>
  BY <1>7, MadePlans
<1>9. Leaves(s, do2) /\ WritingInv'
  BY <1>1, <1>8, BeginLeaves
<1>10. SlotOk(p2, do2)
  BY <1>1, <1>2, <1>3, <1>5, <1>6, <1>7, NoPlan, MadePlans DEF SlotOk
<1>11. p2.fhandle # NoHandle => EntryOk(s, p2, filter'[p2.fhandle], do2)
  BY <1>1, <1>2, <1>5, <1>6, <1>7, NoPlan, MadePlans DEF EntryOk
<1> QED
  BY <1>1, <1>3, <1>5, <1>9, <1>10, <1>11, HandleStays

LEMMA StopPID ==
    ASSUME DemuxInv, Idle, NEW s \in Slots, STB_DMXStopPIDFilter(s),
           UNCHANGED <<text, change, lost, thread>>
    PROVE  DemuxInv'
<1> DEFINE p == slots[s]
           n == Fewer(s)
           p2 == [p EXCEPT !.start_count = n]
           do2 == StopCalls(s, n)
<1>1. /\ p.pid # NotUsed /\ filter' = filter /\ Begin(s, do2)
      /\ slots' = [slots EXCEPT ![s].start_count = n]
  BY DEF STB_DMXStopPIDFilter
<1>2. /\ p \in SlotType /\ SlotOk(p, <<>>)
      /\ p.fhandle # NoHandle => EntryOk(s, p, filter[p.fhandle], <<>>)
  BY IdleSlot
<1>3. slots' = [slots EXCEPT ![s] = p2]
  BY <1>1 DEF DemuxInv, TypesInv
<1>4. n \in Nat
  BY <1>2 DEF Fewer, SlotType
<1>5. do2 = <<>> \/ (p.started /\ do2 = <<"stop", "uncallback", "free">>)
  BY DEF StopCalls
<1> HIDE DEF n, do2
<1>6. /\ p2 \in SlotType /\ p2.pid = p.pid /\ p2.fhandle = p.fhandle /\ p2.started = p.started
      /\ p2.sects = p.sects
  BY <1>2, <1>4, CountChanges
<1> HIDE DEF p2
<1>7. SetUp(p2) = SetUp(p) /\ Ask(p2) = Ask(p)
  BY <1>6 DEF SetUp, Ask
<1>8. do2 # <<"write">>
  BY <1>5, MadePlans
<1>9. Leaves(s, do2) /\ WritingInv'
  BY <1>1, <1>8, BeginLeaves
<1>10. SlotOk(p2, do2)
  BY <1>1, <1>2, <1>5, <1>6, <1>7, NoPlan, MadePlans DEF SlotOk
<1>11. p2.fhandle # NoHandle => EntryOk(s, p2, filter'[p2.fhandle], do2)
  BY <1>1, <1>2, <1>5, <1>6, <1>7, NoPlan, MadePlans DEF EntryOk
<1> QED
  BY <1>1, <1>3, <1>6, <1>9, <1>10, <1>11, HandleStays

LEMMA ReleasePID ==
    ASSUME DemuxInv, Idle, NEW s \in Slots, STB_DMXReleasePIDFilter(s),
           UNCHANGED <<text, change, lost, thread>>
    PROVE  DemuxInv'
<1> DEFINE p == slots[s]
           n == Fewer(s)
           no == FALSE
           sects == [i \in Sects |-> [p.sects[i] EXCEPT !.setup = no]]
           p2 == [p EXCEPT !.func = no, !.start_count = n, !.sects = sects]
           do2 == StopCalls(s, n) \o <<"forget">>
<1>1. /\ p.pid # NotUsed /\ p.start_count <= 1 /\ filter' = filter /\ Begin(s, do2)
      /\ slots' = [slots EXCEPT ![s] = p2]
  BY DEF STB_DMXReleasePIDFilter
<1>2. /\ p \in SlotType /\ SlotOk(p, <<>>)
      /\ p.fhandle # NoHandle => EntryOk(s, p, filter[p.fhandle], <<>>)
  BY IdleSlot
<1>3. n \in Nat /\ (p.started => n = 0)
  BY <1>1, <1>2 DEF Fewer, SlotType
<1>4. do2 = IF p.started THEN <<"stop", "uncallback", "free", "forget">> ELSE <<"forget">>
  <2>1. <<"stop", "uncallback", "free">> \o <<"forget">> = <<"stop", "uncallback", "free", "forget">>
    BY Join31
  <2>2. <<>> \o <<"forget">> = <<"forget">>
    <3>1. <<"forget">> \in Seq({"forget"})
      OBVIOUS
    <3> QED
      BY <3>1, ConcatEmptySeq
  <2> QED
    BY <1>3, <2>1, <2>2 DEF StopCalls
<1>5. no \in BOOLEAN /\ ~no
  OBVIOUS
<1> HIDE DEF n, no, do2
<1>6. sects \in [Sects -> SectType] /\ \A i \in Sects : sects[i].setup = no
  BY <1>2, <1>5 DEF SlotType, SectType
<1> HIDE DEF sects
<1>7. /\ p2 \in SlotType /\ p2.pid = p.pid /\ p2.fhandle = p.fhandle /\ p2.started = p.started
      /\ p2.sects = sects
  BY <1>2, <1>3, <1>5, <1>6 DEF SlotType
<1> HIDE DEF p2
<1>8. SetUp(p2) = {}
  BY <1>5, <1>6, <1>7 DEF SetUp
<1>9. do2 # <<"write">>
  BY <1>4, MadePlans
<1>10. Leaves(s, do2) /\ WritingInv'
  BY <1>1, <1>9, BeginLeaves
<1>11. SlotOk(p2, do2)
  BY <1>1, <1>2, <1>4, <1>7, <1>8, MadePlans DEF SlotOk
<1>12. p2.fhandle # NoHandle => EntryOk(s, p2, filter'[p2.fhandle], do2)
  BY <1>1, <1>2, <1>4, <1>7, <1>8, NoPlan, MadePlans DEF EntryOk
<1> QED
  BY <1>1, <1>7, <1>10, <1>11, <1>12, HandleStays

LEMMA CallNext == DemuxInv /\ Call /\ UNCHANGED textVars => DemuxInv'
<1> SUFFICES ASSUME DemuxInv, Call, UNCHANGED textVars PROVE DemuxInv'
  OBVIOUS
<1>1. Idle /\ UNCHANGED <<text, change, lost, thread>>
  BY DEF Call, textVars
<1> QED
  BY <1>1, GrabPID, GrabSect, SetupSect, ReleaseSect, StartPID, StopPID, ReleasePID DEF Call

------------------------------------------------------------------------------
(* The rest of a call, one call of the device at a time.                    *)

LEMMA BusySlot ==
    ASSUME DemuxInv, ~Idle, NEW s \in Slots, config.slot = s
    PROVE  /\ config.do # <<>> /\ config.do \in Plans
           /\ slots[s] \in SlotType /\ SlotOk(slots[s], config.do) /\ slots[s].pid # NotUsed
           /\ slots[s].fhandle # NoHandle =>
                  /\ slots[s].fhandle \in Handles /\ filter[slots[s].fhandle].used
                  /\ EntryOk(s, slots[s], filter[slots[s].fhandle], config.do)
<1> DEFINE p == slots[s]
<1>1. config.do # <<>> /\ Todo(s) = config.do
  BY DEF Idle, Todo
<1>2. p \in SlotType /\ SlotOk(p, config.do) /\ p.fhandle \in Handles \cup {NoHandle}
  BY <1>1 DEF DemuxInv, TypesInv, SlotsInv, SlotType
<1>3. config.do \in Plans /\ p.pid # NotUsed
  BY <1>1, <1>2 DEF SlotOk
<1>4. p.fhandle # NoHandle => EntryOk(s, p, filter[p.fhandle], config.do)
  BY <1>1 DEF DemuxInv, EntriesInv
<1>5. p.fhandle # NoHandle => filter[p.fhandle].used
  BY <1>4 DEF EntryOk
<1> QED
  BY <1>1, <1>2, <1>3, <1>4, <1>5

LEMMA WriteDone ==
    ASSUME DemuxInv, ~Idle, NEW s \in Slots, config.slot = s, Write(s),
           UNCHANGED <<text, change, lost, thread>>
    PROVE  DemuxInv'
<1> DEFINE p == slots[s]
           i == config.sect
           sf == config.sf
           yes == TRUE
           empty == p.sects[i].empty_mask \/ EmptyMask(sf)
           sect == [p.sects[i] EXCEPT !.setup = yes, !.sf = sf, !.empty_mask = empty]
           sects == [p.sects EXCEPT ![i] = sect]
           p2 == [p EXCEPT !.sects = sects]
           some == TRUE
           do2 == Update(p, some)
<1>1. /\ Doing("write") /\ Then(do2) /\ filter' = filter
      /\ slots' = [slots EXCEPT ![s].sects[i] = sect]
  BY DEF Write
<1>2. /\ s \in Slots /\ p \in SlotType /\ SlotOk(p, config.do) /\ p.pid # NotUsed
      /\ p.fhandle # NoHandle => EntryOk(s, p, filter[p.fhandle], config.do)
  BY BusySlot
<1>3. config.do = <<"write">>
  BY <1>1, BusySlot, PlanRest DEF Doing
<1>4. i \in Sects /\ sf \in Wanted /\ p.sects[i].in_use
  BY <1>3 DEF DemuxInv, WritingInv
<1>5. slots' = [slots EXCEPT ![s] = p2]
  BY <1>1, <1>2 DEF DemuxInv, TypesInv
<1>6. yes \in BOOLEAN /\ yes /\ empty \in BOOLEAN
  <2>1. p.sects[i].empty_mask \in BOOLEAN /\ EmptyMask(sf) \in BOOLEAN
    BY <1>2, <1>4 DEF SlotType, SectType, EmptyMask
  <2> QED
    BY <2>1
<1> HIDE DEF yes, empty
<1>7. p.sects[i] \in SectType
  BY <1>2, <1>4 DEF SlotType
<1>8. sect \in SectType /\ sect.setup = yes /\ sect.in_use = p.sects[i].in_use /\ sect.sf = sf
  BY <1>4, <1>6, <1>7 DEF SectType
<1> HIDE DEF sect
<1>9. sects \in [Sects -> SectType] /\ sects[i] = sect /\ \A j \in Sects : j # i => sects[j] = p.sects[j]
  BY <1>2, <1>4, <1>8 DEF SlotType
<1> HIDE DEF sects
<1>10. /\ p2 \in SlotType /\ p2.pid = p.pid /\ p2.fhandle = p.fhandle /\ p2.started = p.started
       /\ p2.sects = sects
  BY <1>2, <1>9 DEF SlotType
<1> HIDE DEF p2
<1>11. /\ SetUp(p2) = SetUp(p) \cup {i}
       /\ \A j \in SetUp(p2) : p2.sects[j].in_use /\ p2.sects[j].sf \in Wanted
  <2>1. SetUp(p2) = SetUp(p) \cup {i}
    BY <1>4, <1>6, <1>8, <1>9, <1>10 DEF SetUp
  <2>2. \A j \in SetUp(p) : j \in Sects /\ p.sects[j].in_use /\ p.sects[j].sf \in Wanted
    BY <1>2 DEF SlotOk, SetUp
  <2> QED
    BY <1>4, <1>8, <1>9, <1>10, <2>1, <2>2
<1>12. do2 = IF p.started THEN <<"stop", "set", "restart">>
             ELSE IF p.fhandle = NoHandle THEN <<"alloc", "set">> ELSE <<"set">>
  <2>1. p.started \in BOOLEAN /\ (p.started => p.fhandle # NoHandle)
    BY <1>2 DEF SlotOk, SlotType
  <2>2. some \in BOOLEAN
    OBVIOUS
  <2>3. /\ ~some => Update(p, some) = <<>>
        /\ some => Update(p, some) = IF p.started THEN <<"stop", "set", "restart">>
                                     ELSE IF p.fhandle = NoHandle THEN <<"alloc", "set">>
                                     ELSE <<"set">>
    <3> HIDE DEF p, some
    <3> QED
      BY <2>1, <2>2, UpdateIs
  <2>4. some
    OBVIOUS
  <2> QED
    BY <2>3, <2>4
<1> HIDE DEF do2
<1>13. do2 # <<"write">>
  BY <1>12, MadePlans
<1>14. Leaves(s, do2) /\ WritingInv'
  BY <1>1, <1>2, <1>13, ThenLeaves
<1>15. SlotOk(p2, do2)
  BY <1>2, <1>10, <1>11, <1>12, MadePlans DEF SlotOk
<1>16. p2.fhandle # NoHandle => EntryOk(s, p2, filter'[p2.fhandle], do2)
  BY <1>1, <1>2, <1>3, <1>10, <1>12, MadePlans DEF EntryOk
<1> QED
  BY <1>1, <1>2, <1>5, <1>10, <1>14, <1>15, <1>16, HandleStays

LEMMA AllocDone ==
    ASSUME DemuxInv, ~Idle, NEW s \in Slots, config.slot = s, Alloc(s),
           UNCHANGED <<text, change, lost, thread>>
    PROVE  DemuxInv'
<1> DEFINE p == slots[s]
           rest == Tail(config.do)
<1>1. Head(config.do) = "alloc" /\ Then(rest)
  BY DEF Alloc, Doing, Rest
<1>2. s \in Slots /\ p \in SlotType /\ SlotOk(p, config.do) /\ p.pid # NotUsed
  BY BusySlot
<1>3. /\ First(config.do) = "alloc" /\ NotRunning(config.do) /\ ~Running(rest) /\ Setting(config.do)
      /\ First(rest) \in {"set", "update"} /\ rest \in Plans /\ rest # <<"write">>
  BY <1>1, BusySlot, PlanRest
<1>4. p.fhandle = NoHandle /\ ~p.started /\ SetUp(p) # {}
  BY <1>2, <1>3 DEF SlotOk
<1> HIDE DEF rest
<1>5. Leaves(s, rest) /\ WritingInv'
  BY <1>1, <1>2, <1>3, ThenLeaves
<1>6. CASE UNCHANGED <<slots, filter>>
  <2>1. SlotOk(p, rest)
    BY <1>2, <1>3, <1>4 DEF SlotOk
  <2>2. slots' = [slots EXCEPT ![s] = p]
    BY <1>6 DEF DemuxInv, TypesInv
  <2> QED
    BY <1>2, <1>4, <1>5, <1>6, <2>1, <2>2, HandleStays
<1>7. CASE Unused # {} /\ DMX_AllocateFilter /\ slots' = [slots EXCEPT ![s].fhandle = FirstUnused]
  <2> DEFINE h == FirstUnused
             p2 == [p EXCEPT !.fhandle = h]
  <2>1. /\ h \in Handles /\ ~filter[h].used /\ Touches(h)
        /\ filter'[h].used /\ ~filter'[h].need_free /\ filter'[h].cb = Nobody
        /\ ~filter'[h].enable /\ ~filter'[h].running
    BY <1>7, AllocateDoes DEF DemuxInv
  <2>2. slots' = [slots EXCEPT ![s] = p2]
    BY <1>2, <1>7 DEF DemuxInv, TypesInv
  <2> HIDE DEF h
  <2>3. /\ p2 \in SlotType /\ p2.pid = p.pid /\ p2.fhandle = h /\ p2.started = p.started
        /\ p2.sects = p.sects
    BY <1>2, <2>1 DEF SlotType
  <2> HIDE DEF p2
  <2>4. SetUp(p2) = SetUp(p)
    BY <2>3 DEF SetUp
  <2>5. SlotOk(p2, rest)
    BY <1>2, <1>3, <1>4, <2>3, <2>4 DEF SlotOk
  <2>6. filter'[h].enable = filter'[h].running
    BY <2>1 DEF Touches, Filters
  <2>7. EntryOk(s, p2, filter'[h], rest)
    BY <1>3, <1>4, <2>1, <2>3, <2>6 DEF EntryOk
  <2> QED
    BY <1>2, <1>4, <1>5, <2>1, <2>2, <2>3, <2>5, <2>7, HandleIsNumber, SlotGoes DEF Touches, Leaves
<1> QED
  BY <1>6, <1>7 DEF Alloc

(* A step that changes no PID filter.                                      *)
LEMMA SameSlotsDone ==
    ASSUME DemuxInv, ~Idle, NEW s \in Slots, config.slot = s, NEW do2, Then(do2),
           do2 # <<"write">>, slots' = slots, UNCHANGED <<text, change, lost, thread>>,
           \/ filter' = filter
           \/ slots[s].fhandle # NoHandle /\ Touches(slots[s].fhandle),
           SlotOk(slots[s], do2),
           slots[s].fhandle # NoHandle =>
               EntryOk(s, slots[s], filter'[slots[s].fhandle], do2)
    PROVE  DemuxInv'
<1> DEFINE p == slots[s]
<1>1. p \in SlotType
  BY BusySlot
<1>2. slots' = [slots EXCEPT ![s] = p]
  BY DEF DemuxInv, TypesInv
<1>3. Leaves(s, do2) /\ WritingInv'
  BY <1>1, ThenLeaves
<1> QED
  BY <1>1, <1>2, <1>3, HandleStays

LEMMA AgainDone ==
    ASSUME DemuxInv, ~Idle, NEW s \in Slots, config.slot = s, Again(s),
           UNCHANGED <<text, change, lost, thread>>
    PROVE  DemuxInv'
<1> DEFINE p == slots[s]
           some == Setups(s) # {}
           do2 == Update(p, some) \o Rest
<1>1. Head(config.do) = "update" /\ Then(do2) /\ slots' = slots /\ filter' = filter
  BY DEF Again, Doing, SameSlots
<1>2. /\ s \in Slots /\ p \in SlotType /\ SlotOk(p, config.do) /\ p.pid # NotUsed
      /\ p.fhandle # NoHandle => EntryOk(s, p, filter[p.fhandle], config.do)
  BY BusySlot
<1>3. /\ First(config.do) = "update" /\ NotRunning(config.do) /\ Setting(config.do)
      /\ Rest = <<"callback", "start">>
  BY <1>1, BusySlot, PlanRest DEF Rest
<1>4. ~p.started /\ SetUp(p) # {}
  BY <1>2, <1>3 DEF SlotOk
<1>5. do2 = IF p.fhandle = NoHandle THEN <<"alloc", "set", "callback", "start">>
            ELSE <<"set", "callback", "start">>
  <2>1. some \in BOOLEAN
    OBVIOUS
  <2>2. <<"alloc", "set">> \o <<"callback", "start">> = <<"alloc", "set", "callback", "start">>
    BY Join22
  <2>3. <<"set">> \o <<"callback", "start">> = <<"set", "callback", "start">>
    BY Join12
  <2>4. p.started \in BOOLEAN /\ (p.started => p.fhandle # NoHandle)
    BY <1>4, <1>2 DEF SlotType
  <2>5. /\ ~some => Update(p, some) = <<>>
        /\ some => Update(p, some) = IF p.started THEN <<"stop", "set", "restart">>
                                     ELSE IF p.fhandle = NoHandle THEN <<"alloc", "set">>
                                     ELSE <<"set">>
    <3> HIDE DEF p, some
    <3> QED
      BY <2>1, <2>4, UpdateIs
  <2>6. some
    BY <1>4 DEF SetUp, Setups
  <2>7. Update(p, some) = IF p.fhandle = NoHandle THEN <<"alloc", "set">> ELSE <<"set">>
    BY <1>4, <2>5, <2>6
  <2> HIDE DEF some, p
  <2> QED
    BY <1>3, <2>2, <2>3, <2>7
<1> HIDE DEF do2
<1>6. do2 # <<"write">>
  BY <1>5, MadePlans
<1>7. SlotOk(p, do2)
  BY <1>2, <1>4, <1>5, MadePlans DEF SlotOk
<1>8. p.fhandle # NoHandle => EntryOk(s, p, filter'[p.fhandle], do2)
  BY <1>1, <1>2, <1>3, <1>4, <1>5, MadePlans DEF EntryOk
<1> QED
  BY <1>1, <1>6, <1>7, <1>8, SameSlotsDone

LEMMA SkipDone ==
    ASSUME DemuxInv, ~Idle, NEW s \in Slots, config.slot = s, Skip(s),
           UNCHANGED <<text, change, lost, thread>>
    PROVE  DemuxInv'
<1> DEFINE p == slots[s]
           rest == Tail(config.do)
<1>1. /\ p.fhandle = NoHandle /\ Head(config.do) \in {"set", "callback", "start"}
      /\ Then(rest) /\ slots' = slots /\ filter' = filter
  BY DEF Skip, Rest, SameSlots
<1>2. SlotOk(p, config.do) /\ p.pid # NotUsed
  BY BusySlot
<1>3. ~p.started
  BY <1>1, <1>2 DEF SlotOk
<1>4. rest \in Plans /\ rest # <<"write">>
  BY BusySlot, PlanRest
<1>5. SlotOk(p, rest)
  <2>1. CASE Head(config.do) = "start"
    <3>1. rest = <<>>
      BY <2>1, BusySlot, PlanRest
    <3> QED
      BY <1>2, <3>1, NoPlan DEF SlotOk
  <2>2. CASE Head(config.do) \in {"set", "callback"}
    <3>1. /\ Running(rest) => Running(config.do)
          /\ Setting(rest) => Setting(config.do)
          /\ First(rest) \notin {"alloc", "forget"}
      BY <2>2, BusySlot, PlanRest
    <3> HIDE DEF rest
    <3> QED
      BY <1>2, <1>3, <1>4, <3>1 DEF SlotOk
  <2> QED
    BY <1>1, <2>1, <2>2
<1> QED
  BY <1>1, <1>4, <1>5, SameSlotsDone

LEMMA DeviceCallDone ==
    ASSUME DemuxInv, ~Idle, NEW s \in Slots, config.slot = s, DeviceCall(s),
           UNCHANGED <<text, change, lost, thread>>
    PROVE  DemuxInv'
<1> DEFINE p == slots[s]
           h == p.fhandle
           f == filter[h]
           e == filter'[h]
           do == config.do
           rest == Tail(do)
<1>1. h # NoHandle /\ Then(rest) /\ slots' = slots
  BY DEF DeviceCall, Rest, SameSlots
<1>2. /\ s \in Slots /\ p \in SlotType /\ SlotOk(p, do) /\ p.pid # NotUsed
      /\ h \in Handles /\ f.used /\ EntryOk(s, p, f, do)
  BY <1>1, BusySlot
<1>3. Head(do) \in {"stop", "uncallback", "set", "callback", "restart"}
  BY DEF DeviceCall, Doing
<1>4. /\ First(do) = Head(do) /\ rest \in Plans /\ rest # <<"write">>
      /\ Running(rest) => Running(do)
      /\ NotRunning(rest) => NotRunning(do)
      /\ Setting(rest) => Setting(do)
      /\ First(rest) \notin {"alloc", "forget", "stop"}
  BY <1>3, BusySlot, PlanRest
<1>5. SlotOk(p, rest)
  <2> HIDE DEF rest, do, p
  <2> QED
    BY <1>2, <1>4 DEF SlotOk
<1>6. ASSUME Touches(h), EntryOk(s, p, e, rest) PROVE DemuxInv'
  BY <1>1, <1>4, <1>5, <1>6, SameSlotsDone
<1>7. TypesInv /\ f.enable \in BOOLEAN /\ f.running \in BOOLEAN
  BY <1>2 DEF DemuxInv, TypesInv, Filters
<1>8. Touches(h) => e.enable \in BOOLEAN /\ e.running \in BOOLEAN
  BY <1>2 DEF Touches, Filters
<1>9. SetUp(p) # {} => Ask(p) \in Asks /\ Ask(p).pid = p.pid
  BY <1>2, AskIsAsk DEF SlotOk, Ask
<1>10. CASE Head(do) = "stop"
  <2>1. Running(do) /\ First(rest) \in {"set", "uncallback"}
    BY <1>10, BusySlot, PlanRest
  <2>2. p.started
    BY <1>2, <2>1 DEF SlotOk
  <2>3. DMX_StopFilter(h)
    BY <1>10 DEF DeviceCall, Doing
  <2>4. /\ Touches(h) /\ Same(e, f) /\ e.cb = f.cb /\ e.ask = f.ask /\ ~e.enable /\ ~e.running
    BY <1>2, <1>7, <2>3, StopDoes DEF EntryOk
  <2>5. EntryOk(s, p, e, rest)
    BY <1>2, <1>4, <1>8, <1>10, <2>1, <2>2, <2>4 DEF EntryOk, Same
  <2> QED
    BY <1>6, <2>4, <2>5
<1>11. CASE Head(do) = "uncallback"
  <2>1. Running(do) /\ First(rest) = "free"
    BY <1>11, BusySlot, PlanRest
  <2>2. DMX_SetCallback(h, Nobody)
    BY <1>11 DEF DeviceCall, Doing
  <2>3. /\ Touches(h) /\ Same(e, f) /\ e.cb = Nobody /\ e.ask = f.ask
        /\ (e.enable <=> f.enable) /\ (e.running <=> f.running)
    BY <1>2, <1>7, <2>2, CallbackDoes
  <2>4. EntryOk(s, p, e, rest)
    BY <1>2, <1>4, <1>7, <1>8, <1>11, <2>1, <2>3 DEF EntryOk, Same
  <2> QED
    BY <1>6, <2>3, <2>4
<1>12. CASE Head(do) = "set"
  <2>1. /\ First(rest) \in {"none", "restart", "callback"} /\ Setting(do)
        /\ First(rest) # "restart" => NotRunning(do)
    BY <1>12, BusySlot, PlanRest
  <2>2. SetUp(p) # {} /\ (First(rest) # "restart" => ~p.started)
    BY <1>2, <2>1 DEF SlotOk
  <2>3. HardwareAsk(s) = Ask(p)
    BY DEF HardwareAsk, Ask, Setups, SetUp
  <2>4. DMX_SetSecFilter(h, Ask(p))
    BY <1>12, <2>3 DEF DeviceCall, Doing
  <2>5. /\ Touches(h) /\ Same(e, f) /\ e.cb = f.cb /\ e.ask = Ask(p)
        /\ (e.enable <=> f.enable) /\ ~e.running
    BY <1>2, <1>7, <1>9, <2>2, <2>4, SetDoes
  <2>6. EntryOk(s, p, e, rest)
    BY <1>2, <1>4, <1>7, <1>8, <1>12, <2>1, <2>2, <2>5 DEF EntryOk, Same
  <2> QED
    BY <1>6, <2>5, <2>6
<1>13. CASE Head(do) = "callback"
  <2>1. NotRunning(do) /\ Setting(do) /\ First(rest) = "start"
    BY <1>13, BusySlot, PlanRest
  <2>2. ~p.started
    BY <1>2, <2>1 DEF SlotOk
  <2>3. DMX_SetCallback(h, s) /\ s \in Receivers
    BY <1>2, <1>13, TextIsNoSlot DEF DeviceCall, Doing
  <2>4. /\ Touches(h) /\ Same(e, f) /\ e.cb = s /\ e.ask = f.ask
        /\ (e.enable <=> f.enable) /\ (e.running <=> f.running)
    <3> HIDE DEF h
    <3> QED
      BY <1>2, <1>7, <2>3, CallbackDoes
  <2>5. EntryOk(s, p, e, rest)
    BY <1>2, <1>4, <1>7, <1>8, <1>13, <2>1, <2>2, <2>4 DEF EntryOk, Same
  <2> QED
    BY <1>6, <2>4, <2>5
<1>14. CASE Head(do) = "restart"
  <2>1. Running(do) /\ Setting(do) /\ rest = <<>>
    BY <1>14, BusySlot, PlanRest
  <2>2. p.started /\ SetUp(p) # {}
    BY <1>2, <2>1 DEF SlotOk
  <2>3. DMX_StartFilter(h)
    BY <1>14 DEF DeviceCall, Doing
  <2>4. f.ask = Ask(p) /\ ~f.enable /\ f.cb = s
    BY <1>2, <1>4, <1>7, <1>14, <2>2 DEF EntryOk
  <2>5. CanStart(h)
    BY <1>9, <2>2, <2>4, NoAskAssumption DEF CanStart
  <2>6. Touches(h) /\ Same(e, f) /\ e.cb = f.cb /\ e.ask = f.ask /\ e.enable /\ e.running
    BY <1>2, <1>7, <2>3, <2>4, <2>5, StartDoes
  <2>7. EntryOk(s, p, e, <<>>)
    BY <1>2, <1>8, <1>9, <2>2, <2>4, <2>6, NoPlan DEF EntryOk, Same
  <2> QED
    BY <1>6, <2>1, <2>6, <2>7
<1> QED
  BY <1>3, <1>10, <1>11, <1>12, <1>13, <1>14

LEMMA StartDone ==
    ASSUME DemuxInv, ~Idle, NEW s \in Slots, config.slot = s, StartDevice(s),
           UNCHANGED <<text, change, lost, thread>>
    PROVE  DemuxInv'
<1> DEFINE p == slots[s]
           h == p.fhandle
           f == filter[h]
           e == filter'[h]
           yes == TRUE
           p2 == [p EXCEPT !.started = yes]
<1>1. h # NoHandle /\ Head(config.do) = "start" /\ DMX_StartFilter(h)
  BY DEF StartDevice, Doing
<1>2. /\ p \in SlotType /\ SlotOk(p, config.do) /\ p.pid # NotUsed
      /\ h \in Handles /\ f.used /\ EntryOk(s, p, f, config.do)
  BY <1>1, BusySlot
<1>3. /\ First(config.do) = "start" /\ NotRunning(config.do) /\ Setting(config.do)
      /\ Tail(config.do) = <<>>
  BY <1>1, BusySlot, PlanRest
<1>4. ~p.started /\ SetUp(p) # {}
  BY <1>2, <1>3 DEF SlotOk
<1>5. TypesInv /\ f.enable \in BOOLEAN /\ f.running \in BOOLEAN
  BY <1>2 DEF DemuxInv, TypesInv, Filters
<1>6. Ask(p) \in Asks /\ Ask(p).pid = p.pid
  BY <1>2, <1>4, AskIsAsk DEF SlotOk, Ask
<1>7. f.ask = Ask(p) /\ ~f.enable /\ f.cb = s
  BY <1>2, <1>3, <1>4, <1>5 DEF EntryOk
<1>8. CanStart(h)
  BY <1>6, <1>7, NoAskAssumption DEF CanStart
<1>9. /\ Touches(h) /\ Same(e, f) /\ e.cb = s /\ e.ask = Ask(p) /\ e.enable /\ e.running
      /\ e.enable \in BOOLEAN /\ e.running \in BOOLEAN
  <2>1. Touches(h) /\ Same(e, f) /\ e.cb = f.cb /\ e.ask = f.ask /\ e.enable /\ e.running
    BY <1>1, <1>2, <1>5, <1>7, <1>8, StartDoes
  <2> QED
    BY <1>2, <1>7, <2>1 DEF Touches, Filters
<1>10. slots' = [slots EXCEPT ![s] = p2] /\ Then(<<>>)
  <2>1. slots' = [slots EXCEPT ![s].started = TRUE] /\ Then(Rest)
    BY <1>8 DEF StartDevice
  <2> QED
    BY <1>3, <2>1 DEF Rest, DemuxInv, TypesInv
<1>11. Leaves(s, <<>>) /\ WritingInv'
  <2> DEFINE nothing == <<>>
  <2>1. nothing # <<"write">>
    OBVIOUS
  <2>2. Then(nothing)
    BY <1>10
  <2> HIDE DEF nothing
  <2>3. Leaves(s, nothing) /\ WritingInv'
    BY <2>1, <2>2, ThenLeaves
  <2> QED
    BY <2>3 DEF nothing
<1>12. yes \in BOOLEAN /\ yes
  OBVIOUS
<1> HIDE DEF yes
<1>13. /\ p2 \in SlotType /\ p2.pid = p.pid /\ p2.fhandle = p.fhandle /\ p2.started = yes
       /\ p2.sects = p.sects
  BY <1>2, <1>12 DEF SlotType
<1> HIDE DEF p2
<1>14. SetUp(p2) = SetUp(p) /\ Ask(p2) = Ask(p)
  BY <1>13 DEF SetUp, Ask
<1>15. SlotOk(p2, <<>>)
  BY <1>1, <1>2, <1>13, <1>14, NoPlan DEF SlotOk
<1>16. EntryOk(s, p2, e, <<>>)
  BY <1>2, <1>6, <1>9, <1>12, <1>13, <1>14, NoPlan DEF EntryOk, Same
<1> QED
  BY <1>1, <1>4, <1>9, <1>10, <1>11, <1>13, <1>15, <1>16, HandleStays

LEMMA FreeDone ==
    ASSUME DemuxInv, ~Idle, NEW s \in Slots, config.slot = s, FreeHandle(s),
           UNCHANGED <<text, change, lost, thread>>
    PROVE  DemuxInv'
<1> DEFINE p == slots[s]
           h == p.fhandle
           no == FALSE
           p2 == [p EXCEPT !.fhandle = NoHandle, !.started = no]
           rest == Tail(config.do)
<1>1. /\ Head(config.do) = "free" /\ DMX_FreeFilter(h) /\ Then(rest)
      /\ slots' = [slots EXCEPT ![s] = p2]
  BY DEF FreeHandle, Doing, Rest
<1>2. p \in SlotType /\ SlotOk(p, config.do) /\ p.pid # NotUsed
  BY BusySlot
<1>3. /\ First(config.do) = "free" /\ Running(config.do) /\ rest \in Plans /\ rest # <<"write">>
      /\ First(rest) \in {"none", "forget"} /\ ~Running(rest) /\ ~Setting(rest)
  BY <1>1, BusySlot, PlanRest
<1>4. p.started /\ h # NoHandle
  BY <1>2, <1>3 DEF SlotOk
<1>5. h \in Handles /\ filter[h].used /\ EntryOk(s, p, filter[h], config.do)
  BY <1>4, BusySlot
<1>6. ~filter[h].running
  BY <1>3, <1>5 DEF EntryOk
<1>7. Touches(h) /\ filter'[h].need_free /\ ~filter'[h].running
  BY <1>1, <1>5, <1>6, FreeDoes DEF DemuxInv
<1>8. no \in BOOLEAN /\ ~no
  OBVIOUS
<1> HIDE DEF no, rest
<1>9. /\ p2 \in SlotType /\ p2.pid = p.pid /\ p2.fhandle = NoHandle /\ p2.started = no
      /\ p2.sects = p.sects
  BY <1>2, <1>8 DEF SlotType
<1> HIDE DEF p2
<1>10. SetUp(p2) = SetUp(p)
  BY <1>9 DEF SetUp
<1>11. Leaves(s, rest) /\ WritingInv'
  BY <1>1, <1>3, ThenLeaves
<1>12. SlotOk(p2, rest)
  BY <1>2, <1>3, <1>8, <1>9, <1>10 DEF SlotOk
<1> QED
  BY <1>1, <1>4, <1>7, <1>9, <1>11, <1>12, SlotGoes DEF Touches, Leaves, InUse

LEMMA ForgetDone ==
    ASSUME DemuxInv, ~Idle, NEW s \in Slots, config.slot = s, Forget(s),
           UNCHANGED <<text, change, lost, thread>>
    PROVE  DemuxInv'
<1> DEFINE p == slots[s]
           no == FALSE
           p2 == [p EXCEPT !.pid = NotUsed, !.started = no]
<1>1. /\ Head(config.do) = "forget" /\ Then(Tail(config.do)) /\ filter' = filter
      /\ slots' = [slots EXCEPT ![s] = p2]
  BY DEF Forget, Doing, Rest
<1>2. /\ p \in SlotType /\ SlotOk(p, config.do)
      /\ p.fhandle # NoHandle => EntryOk(s, p, filter[p.fhandle], config.do)
  BY BusySlot
<1>3. First(config.do) = "forget" /\ NotRunning(config.do) /\ Tail(config.do) = <<>>
  BY <1>1, BusySlot, PlanRest
<1>4. ~p.started
  BY <1>2, <1>3 DEF SlotOk
<1>5. Leaves(s, <<>>) /\ WritingInv'
  <2> DEFINE nothing == <<>>
  <2>1. nothing # <<"write">>
    OBVIOUS
  <2>2. Then(nothing)
    BY <1>1, <1>3
  <2> HIDE DEF nothing
  <2>3. Leaves(s, nothing) /\ WritingInv'
    BY <2>1, <2>2, ThenLeaves
  <2> QED
    BY <2>3 DEF nothing
<1>6. no \in BOOLEAN /\ ~no
  OBVIOUS
<1> HIDE DEF no
<1>7. /\ p2 \in SlotType /\ p2.pid = NotUsed /\ p2.fhandle = p.fhandle /\ p2.started = no
      /\ p2.sects = p.sects
  BY <1>2, <1>6 DEF SlotType
<1> HIDE DEF p2
<1>8. SetUp(p2) = SetUp(p)
  BY <1>7 DEF SetUp
<1>9. SlotOk(p2, <<>>)
  BY <1>2, <1>6, <1>7, <1>8, NoPlan DEF SlotOk
<1>10. p2.fhandle # NoHandle => EntryOk(s, p2, filter'[p2.fhandle], <<>>)
  <2> SUFFICES ASSUME p.fhandle # NoHandle PROVE EntryOk(s, p2, filter[p.fhandle], <<>>)
    BY <1>1, <1>7
  <2>1. SetUp(p2) = {}
    BY <1>2, <1>3, <1>8 DEF SlotOk
  <2> QED
    BY <1>2, <1>3, <1>4, <1>6, <1>7, <2>1, NoPlan DEF EntryOk
<1> QED
  BY <1>1, <1>4, <1>5, <1>7, <1>9, <1>10, HandleStays

LEMMA ProceedNext == DemuxInv /\ Proceed /\ UNCHANGED textVars => DemuxInv'
<1> SUFFICES ASSUME DemuxInv, Proceed, UNCHANGED textVars PROVE DemuxInv'
  OBVIOUS
<1>1. ~Idle /\ config.slot \in Slots /\ UNCHANGED <<text, change, lost, thread>>
  BY DEF Proceed, textVars, DemuxInv, BusyInv
<1>2. PICK s \in Slots : config.slot = s
  BY <1>1
<1>3. \/ Write(s) \/ Alloc(s) \/ Again(s) \/ DeviceCall(s) \/ StartDevice(s)
      \/ Skip(s) \/ FreeHandle(s) \/ Forget(s)
  BY <1>2 DEF Proceed
<1> QED
  BY <1>1, <1>2, <1>3, WriteDone, AllocDone, AgainDone, DeviceCallDone, StartDone, SkipDone, FreeDone,
     ForgetDone

(* Every step keeps the invariant.                                          *)
LEMMA DemuxNext == DemuxInv /\ [Next]_vars => DemuxInv'
<1> SUFFICES ASSUME DemuxInv, [Next]_vars PROVE DemuxInv'
  OBVIOUS
<1>1. CASE UNCHANGED vars
  <2>1. UNCHANGED <<filter, thread, slots, config, text, change, lost>>
    BY <1>1 DEF vars, deviceVars, filterVars, textVars
  <2>2. ThreadInv'
    BY <2>1 DEF DemuxInv, ThreadInv, InHands, InCallback
  <2> QED
    BY <2>1, <2>2, ThreadGoes
<1>2. CASE Device
  BY <1>2, ScanNext, LookNext DEF Device, DeviceStep
<1>3. CASE Section
  BY <1>3, SectionNext
<1>4. CASE TextData
  BY <1>4, TextDataNext
<1>5. CASE Filtering
  BY <1>5, CallNext, ProceedNext DEF Filtering
<1>6. CASE Subtitles
  BY <1>6, TextNext
<1> QED
  BY <1>1, <1>2, <1>3, <1>4, <1>5, <1>6 DEF Next

LEMMA DemuxAlways == Spec => []DemuxInv
BY DemuxInit, DemuxNext, PTL DEF Spec

(***************************************************************************)
(* Two users never have one filter of the device, and none is left without  *)
(* a user that could give it back but those that the text loses after the   *)
(* driver has refused it a PID or a start, and those collect nothing:       *)
(* whatever the order of the calls of stbhwdmx.c, of the changes of the     *)
(* text PID and of the rounds of dmx_data_thread.                           *)
(***************************************************************************)
THEOREM OwnedTheorem == Spec => []HandlesOwned
BY DemuxAlways, OwnedHandles, PTL

(***************************************************************************)
(* PidCallback never puts a section of one PID into a PID filter that is    *)
(* for another one, although the PID filter may be given back and taken     *)
(* again, and handles given out again, while the section is in the hands of *)
(* the thread.                                                              *)
(***************************************************************************)
THEOREM CurrentTheorem == Spec => []SectionIsCurrent
BY DemuxAlways, CurrentSection, PTL

(***************************************************************************)
(* Between two calls the device collects all that the started PID filters   *)
(* wait for, and nothing that nobody has asked for: UpdateSectionFilter has *)
(* set the driver anew after every change, and has started it again where   *)
(* it ran.                                                                  *)
(***************************************************************************)
THEOREM CollectsTheorem == Spec => []CollectsAsAsked
<1>1. DemuxInv => CollectsAsAsked
  BY PassesWanted, RunsAsAsked DEF CollectsAsAsked
<1> QED
  BY <1>1, DemuxAlways, PTL
=============================================================================
