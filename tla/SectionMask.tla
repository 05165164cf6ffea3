---------------------------- MODULE SectionMask ----------------------------
(***************************************************************************)
(* Sections and the filters that choose among them (stbhwdmx.c).  A filter  *)
(* has a match and a mask; the bytes of both are taken bit by bit, so &, |  *)
(* and ^ on bytes become /\, \/ and # on Booleans.  The driver has one      *)
(* filter per PID, and UpdateSectionFilter makes it out of all the section  *)
(* filters of the PID.                                                      *)
(***************************************************************************)
CONSTANTS
    Bits,       \* the bits of a section that filters look at
    Pids        \* the packet identifiers

Patterns == [Bits -> BOOLEAN]
SectionFilters == [match : Patterns, mask : Patterns]
Sections == [pid : Pids, bytes : Patterns]

\* mask & (section ^ match) == 0
Matches(sf, bytes) == \A b \in Bits : sf.mask[b] => bytes[b] = sf.match[b]

\* If mask is empty then can skip checking this when section data arrives.
EmptyMask(sf) == \A b \in Bits : ~sf.mask[b]

mask_all(S) == [b \in Bits |-> \A sf \in S : sf.match[b]]
mask_some(S) == [b \in Bits |-> \E sf \in S : sf.match[b]]

(***************************************************************************)
(* The one filter for the driver: it looks at the bits that every section   *)
(* filter looks at and on which all of them agree.                          *)
(***************************************************************************)
Combined(S) ==
    [match |-> mask_all(S),
     mask |-> [b \in Bits |-> /\ \A sf \in S : sf.mask[b]
                              /\ mask_all(S)[b] = mask_some(S)[b]]]

\* What the driver is asked for on a file descriptor: a PID and one filter.
Asks == [pid : Pids, sf : SectionFilters]
Admits(ask, section) == section.pid = ask.pid /\ Matches(ask.sf, section.bytes)

(***************************************************************************)
(* The driver's filter never holds back a section that one of the section   *)
(* filters is waiting for (the comment at UpdateSectionFilter).             *)
(***************************************************************************)
CombinedIsWide ==
    \A S \in SUBSET SectionFilters : \A sf \in S : \A bytes \in Patterns :
        Matches(sf, bytes) => Matches(Combined(S), bytes)
=============================================================================
