--------------------------- MODULE SectionFilters ---------------------------
(***************************************************************************)
(* PID filters and their section filters on one demux path (stbhwdmx.c).    *)
(* Every call holds config_mutex from its beginning to its end, so one call *)
(* is made at a time; but it is made of calls of the demux device, and the  *)
(* device's thread, which runs PidCallback and does not take config_mutex,  *)
(* may come between any two of them.                                        *)
(***************************************************************************)
EXTENDS DemuxDevice, Sequences

CONSTANTS
    Slots,      \* indices of filter_info
    Sects,      \* indices of section_filters
    Wanted,     \* the match and mask pairs that callers ask for
    MaxStarts   \* how often a caller starts one filter

ASSUME SectsAssumption == Sects \subseteq Nat /\ IsFiniteSet(Sects)
ASSUME WantedAssumption == Wanted \subseteq SectionFilters

NotUsed == 65535   \* DEMUX_PID_NOT_USED
ASSUME NotUsedAssumption == NotUsed \notin Pids

VARIABLES
    slots,      \* filter_info: the PID filters
    num_pid_filters_started,
    config      \* the call that has config_mutex: what it still has to do, to which filter

filterVars == <<slots, num_pid_filters_started, config>>

\* A section filter; sf is its match and mask.
Sect == [in_use : BOOLEAN, setup : BOOLEAN, empty_mask : BOOLEAN, sf : Wanted]
Cleared == [in_use |-> FALSE, setup |-> FALSE, empty_mask |-> FALSE,
            sf |-> CHOOSE sf \in Wanted : TRUE]

\* func is TRUE while func_ptr is not NULL.
PidFilters == [pid : Pids \cup {NotUsed}, func : BOOLEAN, fhandle : Handles \cup {NoHandle},
               started : BOOLEAN, start_count : 0..MaxStarts,
               sects : [Sects -> Sect]]

Free == [do |-> <<>>]
Idle == config.do = <<>>

FiltersInit ==
    /\ slots = [s \in Slots |->
           [pid |-> NotUsed, func |-> FALSE, fhandle |-> NoHandle, started |-> FALSE,
            start_count |-> 0, sects |-> [i \in Sects |-> Cleared]]]
    /\ num_pid_filters_started = 0
    /\ config = Free

Setups(s) == {i \in Sects : slots[s].sects[i].setup}
HardwareAsk(s) == [pid |-> slots[s].pid,
                   sf |-> Combined({slots[s].sects[i].sf : i \in Setups(s)})]

-----------------------------------------------------------------------------
(* The calls, each up to its first call of the device.                      *)

\* Mutant: a filter that was running is not started again.
UpdateStopped(p, some) ==
    IF ~some THEN <<>>
    ELSE (IF p.started THEN <<"stop">> ELSE <<>>)
         \o (IF p.fhandle = NoHandle THEN <<"alloc">> ELSE <<>>) \o <<"set">>

\* UpdateSectionFilter: with nothing set up the driver is left as it is.
Update(p, some) ==
    IF ~some THEN <<>>
    ELSE (IF p.started THEN <<"stop">> ELSE <<>>)
         \o (IF p.fhandle = NoHandle THEN <<"alloc">> ELSE <<>>)
         \o <<"set">>
         \o (IF p.started THEN <<"restart">> ELSE <<>>)

Begin(s, do) == config' = IF do = <<>> THEN Free ELSE [do |-> do, slot |-> s]

\* Any unused PID filter; the code takes the first.
STB_DMXGrabPIDFilter(s, pid) ==
    /\ slots[s].pid = NotUsed
    /\ slots' = [slots EXCEPT ![s] =
           [@ EXCEPT !.pid = pid, !.func = TRUE, !.start_count = 0, !.started = FALSE,
                     !.sects = [i \in Sects |-> Cleared]]]
    /\ UNCHANGED <<num_pid_filters_started, config, filter>>

STB_DMXGrabSectFilter(s) ==
    /\ slots[s].pid # NotUsed
    /\ LET free == {i \in Sects : ~slots[s].sects[i].in_use}
       IN  /\ free # {}
           /\ slots' = [slots EXCEPT ![s].sects[Min(free)] =
                  [@ EXCEPT !.in_use = TRUE, !.sf = Cleared.sf]]
    /\ UNCHANGED <<num_pid_filters_started, config, filter>>

\* "write" is the time in which the callback may see half of the new bytes.
STB_DMXSetupSectFilter(s, i, sf) ==
    /\ slots[s].pid # NotUsed /\ slots[s].sects[i].in_use
    /\ config' = [do |-> <<"write">>, slot |-> s, sect |-> i, sf |-> sf]
    /\ UNCHANGED <<slots, num_pid_filters_started, filter>>

STB_DMXReleaseSectFilter(s, i) ==
    /\ slots[s].pid # NotUsed /\ slots[s].sects[i].in_use
    /\ slots' = [slots EXCEPT ![s].sects[i] = [@ EXCEPT !.in_use = FALSE, !.setup = FALSE]]
    /\ Begin(s, Update(slots[s], Setups(s) \ {i} # {}))
    /\ UNCHANGED <<num_pid_filters_started, filter>>

\* A caller starts a filter that has been set up, at most MaxStarts times.
STB_DMXStartPIDFilter(s) ==
    /\ slots[s].pid # NotUsed /\ Setups(s) # {} /\ slots[s].start_count < MaxStarts
    /\ slots' = [slots EXCEPT ![s].start_count = @ + 1]
    /\ Begin(s, IF slots[s].started THEN <<>>
                ELSE (IF slots[s].fhandle = NoHandle THEN <<"alloc", "update">> ELSE <<>>)
                     \o <<"callback", "start">>)
    /\ UNCHANGED <<num_pid_filters_started, filter>>

\* The last stop gives the handle back.
StopCalls(s, count) == IF slots[s].started /\ count = 0 THEN <<"stop", "uncallback", "free">> ELSE <<>>
Fewer(s) == IF slots[s].started /\ slots[s].start_count > 0
                THEN slots[s].start_count - 1 ELSE slots[s].start_count

STB_DMXStopPIDFilter(s) ==
    /\ slots[s].pid # NotUsed
    /\ slots' = [slots EXCEPT ![s].start_count = Fewer(s)]
    /\ Begin(s, StopCalls(s, Fewer(s)))
    /\ UNCHANGED <<num_pid_filters_started, filter>>

\* A caller has undone all its starts but the last, which the release undoes.
STB_DMXReleasePIDFilter(s) ==
    /\ slots[s].pid # NotUsed /\ slots[s].start_count <= 1
    /\ slots' = [slots EXCEPT ![s] =
           [@ EXCEPT !.func = FALSE, !.start_count = Fewer(s),
                     !.sects = [i \in Sects |-> [slots[s].sects[i] EXCEPT !.setup = FALSE]]]]
    /\ Begin(s, StopCalls(s, Fewer(s)) \o <<"forget">>)
    /\ UNCHANGED <<num_pid_filters_started, filter>>

Call ==
    /\ Idle
    /\ \E s \in Slots :
           \/ \E pid \in Pids : STB_DMXGrabPIDFilter(s, pid)
           \/ STB_DMXGrabSectFilter(s)
           \/ \E i \in Sects : \/ \E sf \in Wanted : STB_DMXSetupSectFilter(s, i, sf)
                               \/ STB_DMXReleaseSectFilter(s, i)
           \/ STB_DMXStartPIDFilter(s)
           \/ STB_DMXStopPIDFilter(s)
           \/ STB_DMXReleasePIDFilter(s)
    /\ UNCHANGED thread

-----------------------------------------------------------------------------
(* The rest of a call, one call of the device at a time.                    *)

Doing(step) == config.do # <<>> /\ Head(config.do) = step
Then(do) == config' = IF do = <<>> THEN Free ELSE [do |-> do, slot |-> config.slot]
Rest == Tail(config.do)
SameSlots == UNCHANGED <<slots, num_pid_filters_started>>

\* empty_mask is set here and, but for a new PID filter, never cleared.
Write(s) ==
    /\ Doing("write")
    /\ LET sect == slots[s].sects[config.sect]
       IN  slots' = [slots EXCEPT ![s].sects[config.sect] =
               [sect EXCEPT !.setup = TRUE, !.sf = config.sf,
                            !.empty_mask = sect.empty_mask \/ EmptyMask(config.sf)]]
    /\ Then(Update(slots[s], TRUE))
    /\ UNCHANGED <<num_pid_filters_started, filter>>

\* The table may be full; the handle then stays what it was.
Alloc(s) ==
    /\ Doing("alloc")
    /\ \/ /\ Unused # {}
          /\ DMX_AllocateFilter
          /\ slots' = [slots EXCEPT ![s].fhandle = FirstUnused]
       \/ /\ Unused = {}
          /\ UNCHANGED <<slots, filter>>
    /\ Then(Rest)
    /\ UNCHANGED num_pid_filters_started

Again(s) ==
    /\ Doing("update")
    /\ Then(Update(slots[s], Setups(s) # {}) \o Rest)
    /\ SameSlots /\ UNCHANGED filter

\* Every call of the device but the allocation is left out without a handle.
DeviceCall(s) ==
    LET h == slots[s].fhandle
    IN  /\ h # NoHandle
        /\ \/ Doing("set") /\ DMX_SetSecFilter(h, HardwareAsk(s))
           \/ Doing("callback") /\ DMX_SetCallback(h, s)
           \/ Doing("uncallback") /\ DMX_SetCallback(h, Nobody)
           \/ Doing("stop") /\ DMX_StopFilter(h)
           \/ Doing("restart") /\ DMX_StartFilter(h)
        /\ Then(Rest)
        /\ SameSlots

StartDevice(s) ==
    LET h == slots[s].fhandle
    IN  /\ h # NoHandle /\ Doing("start")
        /\ DMX_StartFilter(h)
        /\ IF CanStart(h)
             THEN /\ slots' = [slots EXCEPT ![s].started = TRUE]
                  /\ num_pid_filters_started' = num_pid_filters_started + 1
                  /\ Then(Rest)
             ELSE SameSlots /\ Then(<<"uncallback">>)

Skip(s) ==
    /\ slots[s].fhandle = NoHandle
    /\ config.do # <<>> /\ Head(config.do) \in {"set", "callback", "start"}
    /\ Then(Rest)
    /\ SameSlots /\ UNCHANGED filter

\* Mutant: the handle is still in the filter after it was given back.
FreeKept(s) ==
    /\ Doing("free")
    /\ DMX_FreeFilter(slots[s].fhandle)
    /\ slots' = [slots EXCEPT ![s].started = FALSE]
    /\ num_pid_filters_started' = num_pid_filters_started - 1
    /\ Then(Rest)

FreeHandle(s) ==
    /\ Doing("free")
    /\ DMX_FreeFilter(slots[s].fhandle)
    /\ slots' = [slots EXCEPT ![s] = [@ EXCEPT !.fhandle = NoHandle, !.started = FALSE]]
    /\ num_pid_filters_started' = num_pid_filters_started - 1
    /\ Then(Rest)

Forget(s) ==
    /\ Doing("forget")
    /\ slots' = [slots EXCEPT ![s] = [@ EXCEPT !.pid = NotUsed, !.started = FALSE]]
    /\ Then(Rest)
    /\ UNCHANGED <<num_pid_filters_started, filter>>

Proceed ==
    /\ ~Idle
    /\ LET s == config.slot
       IN  \/ Write(s) \/ Alloc(s) \/ Again(s) \/ DeviceCall(s) \/ StartDevice(s)
           \/ Skip(s) \/ FreeHandle(s) \/ Forget(s)
    /\ UNCHANGED thread

-----------------------------------------------------------------------------
(* PidCallback, in the device's thread                                      *)

FirstSect == Min(Sects)

\* The section is for this filter only if the filter still has the handle.
CheckHandle(s) ==
    /\ thread.at = "callback"
    /\ IF slots[s].fhandle = thread.h
         THEN thread' = [at |-> "sect", ready |-> thread.ready, h |-> thread.h, cb |-> thread.cb,
                         section |-> thread.section, i |-> FirstSect]
         ELSE Return

NextSect ==
    LET later == {i \in Sects : i > thread.i}
    IN  IF later = {} THEN Return
        ELSE thread' = [thread EXCEPT !.at = "sect", !.i = Min(later)]

\* A section filter in use that is not set up, or has an empty mask, wants all.
Wants(sect) == sect.in_use /\ (~sect.setup \/ sect.empty_mask \/ Matches(sect.sf, thread.section.bytes))
HalfWritten(s, i) == Doing("write") /\ config.slot = s /\ config.sect = i

\* A handler that is registered here runs, whatever is released after that.
TestSect(s) ==
    /\ thread.at = "sect"
    /\ LET sect == slots[s].sects[thread.i]
           half == HalfWritten(s, thread.i)
       IN  \/ /\ Wants(sect) \/ (half /\ sect.in_use)
              /\ slots[s].func
              /\ thread' = [thread EXCEPT !.at = "handler"]
           \/ /\ ~Wants(sect) \/ half \/ ~slots[s].func
              /\ NextSect

\* The handler: it may take the section with STB_DMXCopyPIDFilterSect.
Handler == thread.at = "handler" /\ NextSect

PidCallback ==
    /\ \E s \in Slots :
           /\ InCallback(s)
           /\ CheckHandle(s) \/ TestSect(s) \/ Handler
    /\ UNCHANGED <<filter, filterVars>>
=============================================================================
