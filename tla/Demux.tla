------------------------------- MODULE Demux -------------------------------
(***************************************************************************)
(* One demux path: the PID filters and the text PES collection, which take  *)
(* their filters from the same device and are called by the same thread.    *)
(***************************************************************************)
EXTENDS SectionFilters, TextPes

ASSUME ReceiversAssumption == Receivers = Slots \cup {Text} /\ Text \notin Slots

vars == <<deviceVars, filterVars, textVars>>

Init == DeviceInit /\ FiltersInit /\ TextInit

Device == DeviceStep /\ UNCHANGED <<filterVars, textVars>>
Section == PidCallback /\ UNCHANGED textVars
TextData == PesCallback /\ UNCHANGED filterVars
Filtering == (Call \/ Proceed) /\ UNCHANGED textVars
Subtitles == (ChangeText \/ ReadTextPES) /\ UNCHANGED filterVars

Next == Device \/ Section \/ TextData \/ Filtering \/ Subtitles

Spec == Init /\ [][Next]_vars

-----------------------------------------------------------------------------
Threads ==
    [at : {"scan", "look"}, ready : SUBSET Handles, h : {NoHandle}]
    \cup [at : {"callback"}, ready : SUBSET Handles, h : Handles,
          cb : Receivers, section : Sections]
    \cup [at : {"copy"}, ready : SUBSET Handles, h : Handles, cb : {Text}]
    \cup [at : {"sect", "handler"}, ready : SUBSET Handles, h : Handles,
          cb : Slots, section : Sections, i : Sects]

(***************************************************************************)
(* Types: pointers and counts of the ring stay in the buffer, and the       *)
(* number of started filters is the number of those that have the flag.     *)
(***************************************************************************)
TypeOK ==
    /\ filter \in [Handles -> Filters]
    /\ thread \in Threads
    /\ slots \in [Slots -> PidFilters]
    /\ num_pid_filters_started = Cardinality({s \in Slots : slots[s].started})
    /\ text \in [pid : TextPids \cup {NoPid}, fhandle : Handles \cup {NoHandle}, started : BOOLEAN]
    /\ ring \in [read : 0..(TEXT_BUFFER_SIZE - 1), write : 0..(TEXT_BUFFER_SIZE - 1),
                 available : 0..TEXT_BUFFER_SIZE]
    /\ lost \subseteq Handles

Users(h) == {s \in Slots : slots[s].fhandle = h} \cup (IF text.fhandle = h THEN {Text} ELSE {})

(***************************************************************************)
(* A filter of the device that is in use and not marked to be closed has    *)
(* exactly one user, a PID filter or the text; one that is marked or not in *)
(* use has none.  Two users with one handle would get each other's data, a  *)
(* filter without a user can never be closed.  The code does leave some of  *)
(* those: a text filter whose PID or start the driver refused, when the     *)
(* next one is allocated over it.  They are `lost', they have no user, and   *)
(* they collect nothing; no other step loses one.                           *)
(***************************************************************************)
HandlesOwned ==
    \A h \in Handles :
        /\ Cardinality(Users(h)) =
               IF filter[h].used /\ ~filter[h].need_free /\ h \notin lost THEN 1 ELSE 0
        /\ h \in lost => filter[h].used /\ ~filter[h].running

(***************************************************************************)
(* As long as the PID filter that PidCallback works for has the handle the  *)
(* section came from, the section is of the PID the filter is for now, even *)
(* when the PID filter was given back and taken for another PID meanwhile.  *)
(* This is what the delayed closing of a handle and the comparison of       *)
(* fhandle in PidCallback are for.                                          *)
(***************************************************************************)
SectionIsCurrent ==
    \A s \in Slots :
        InCallback(s) /\ slots[s].fhandle = thread.h => thread.section.pid = slots[s].pid

(***************************************************************************)
(* Between two calls the driver lets through, for every filter that is      *)
(* started, whatever one of its section filters accepts, and hands it to    *)
(* PidCallback.                                                             *)
(***************************************************************************)
WantedPasses ==
    Idle => \A s \in Slots : slots[s].started =>
        LET f == filter[slots[s].fhandle]
        IN  /\ f.enable /\ f.running /\ f.cb = s
            /\ \A i \in Setups(s) : \A bytes \in Patterns :
                   Matches(slots[s].sects[i].sf, bytes) => Admits(f.ask, [pid |-> slots[s].pid, bytes |-> bytes])

(***************************************************************************)
(* A filter that is not started is not running: nothing is collected that   *)
(* nobody has asked for.                                                    *)
(***************************************************************************)
RunsForSomeone ==
    Idle /\ change = <<>> => \A h \in Handles : filter[h].running =>
        \/ text.started /\ text.fhandle = h
        \/ \E s \in Slots : slots[s].started /\ slots[s].fhandle = h

(***************************************************************************)
(* The device does between two calls what was asked of it: it collects all  *)
(* that is wanted, also where a filter was changed while it ran, and        *)
(* nothing for anybody else.                                                *)
(***************************************************************************)
CollectsAsAsked == WantedPasses /\ RunsForSomeone

(***************************************************************************)
(* The write pointer is the count of bytes ahead of the read pointer, past   *)
(* the end of the buffer or not: through wrapping, a full buffer and a       *)
(* change of the PID.                                                       *)
(***************************************************************************)
RingAgrees == ring.write \in {ring.read + ring.available, ring.read + ring.available - TEXT_BUFFER_SIZE}
=============================================================================
