---------------------------- MODULE DemuxSource ----------------------------
(***************************************************************************)
(* hw/src/stbhwdmx.c, on SC2: where each demux takes its stream from.      *)
(*                                                                         *)
(* A client chooses the source of its path; when a CI module comes or goes,*)
(* STB_DMXRouteTS changes the input of the tuners and then every path that *)
(* takes from a tuner.  No lock is taken.  A call is at "get" (the old     *)
(* source is read), "configure" (the input of the tuner is read), "apply"  *)
(* (both are compared with what is set, and noted) or "drive" (the driver  *)
(* is told).                                                               *)
(*                                                                         *)
(* Writing to a demux from memory, and the tsn_source node that goes with  *)
(* it, are left out.                                                       *)
(***************************************************************************)
EXTENDS Integers, FiniteSets

CONSTANTS NumPaths,         \* num_paths
          NumTuners,        \* tuner_num
          InputOf,          \* ori_tsinput_idx of each tuner
          CamInput,         \* CICAM_TSI: the input behind a module in a slot
          ClientCaps,       \* what the clients pass as demux_cap
          Fails,            \* what may fail: "source", a source that the driver
                            \* does not take; and what UsbCam names
          MaxEvents         \* a bound

Paths == 0 .. NumPaths - 1
Tuners == 0 .. NumTuners - 1
Callers == {"client", "router"}

ASSUME DemuxSourceAssumption ==
    /\ NumPaths \in 1 .. 4 /\ NumTuners \in Nat \ {0}
    /\ InputOf \in [Tuners -> 0 .. 3] /\ CamInput \in 0 .. 3

VARIABLES
    ts_input_idx,       \* of each tuner, as it is now
    demux_status,       \* source, source_param and demux_cap of each path
    hw_source,          \* what the driver has for each demux
    injecting,          \* of the path's player
    module_inserted,    \* a USB module was reported
    call,               \* what each thread is doing
    overtaken,          \* callers whose decision has been made stale
    astray,             \* paths last set by one of these, or not by the driver
    events              \* how many calls, routings, modules and faults there were

sourceVars == <<ts_input_idx, demux_status, hw_source, injecting, call, overtaken, astray>>

USBCAM_INPUT == 4       \* set_camPlug_tssource; the demux of that number is
InjDemux == 4           \* the one that the module's data is written to
RecDemux == 5           \* and the one it is taken from

TS(i) == [port |-> "ts", n |-> i]
TS_1(i) == [port |-> "ts_1", n |-> i]
DMA(i) == [port |-> "dma", n |-> i]

NoCall == [at |-> "idle", path |-> 0, source |-> "tuner", param |-> 0, cap |-> "none",
           cfg |-> TS(0), pass |-> FALSE]

(* The source for an input, by what the path is for.                       *)
Configured(i, source, cap) ==
    IF cap = "usbcam" THEN DMA(i)
    ELSE IF cap = "live" /\ source = "tuner" THEN TS_1(i)
    ELSE TS(i)

TunerOf(param) == IF param >= NumTuners THEN NumTuners - 1 ELSE param

(* Until a client has chosen, a path is one from memory.                   *)
SourceInit ==
    /\ ts_input_idx = InputOf
    /\ demux_status = [p \in Paths |-> [source |-> "memory", param |-> 255, cap |-> "none"]]
    /\ hw_source = [d \in Paths \cup {InjDemux, RecDemux} |-> TS(0)]
    /\ injecting = [p \in Paths |-> FALSE]
    /\ module_inserted = FALSE
    /\ call = [c \in Callers |-> NoCall]
    /\ overtaken = {} /\ astray = {}
    /\ events = 0

Event == events < MaxEvents /\ events' = events + 1
Fault(f) == f \in Fails /\ Event
Well == UNCHANGED events

Idle(c) == call[c].at = "idle"
Set(c, fields) == call' = [call EXCEPT ![c] = fields]

(* DvbSetDemuxSource, when the driver takes the source.  Nobody looks at   *)
(* what it returns.                                                        *)
DvbSetDemuxSource(d, src) == hw_source' = [hw_source EXCEPT ![d] = src]

------------------------------------------------------------------------------
(* STB_DMXSetDemuxSource.                                                  *)

ThroughUsb == \E t \in Tuners : ts_input_idx[t] = USBCAM_INPUT

(* A client that has the stream descrambled by a USB module says so.       *)
SetDemuxSource(p, source, param, cap) ==
    /\ Idle("client")
    /\ (cap = "usbcam") = (ThroughUsb /\ source = "tuner")
    /\ Event
    /\ Set("client", [NoCall EXCEPT !.at = "configure", !.path = p, !.source = source,
                                    !.param = param, !.cap = cap])
    /\ UNCHANGED <<ts_input_idx, demux_status, hw_source, injecting, overtaken, astray>>

Configure(c) ==
    LET k == call[c]
    IN  /\ k.at = "configure" /\ Well
        /\ Set(c, [k EXCEPT !.at = "apply",
                            !.cfg = Configured(ts_input_idx[TunerOf(k.param)], k.source, k.cap)])
        /\ UNCHANGED <<ts_input_idx, demux_status, hw_source, injecting, overtaken, astray>>

SameChoice(k, m) == k.source = m.source /\ k.param = m.param

(* Only a mutant uses it.                                                  *)
ByChoice(k) == SameChoice(k, demux_status[k.path])

(* Nothing is to be done when source, parameter and the driver agree.      *)
Unchanged(k) == SameChoice(k, demux_status[k.path]) /\ k.cfg = hw_source[k.path]

(* The router goes on with its next path.                                  *)
AfterApply(c) ==
    IF c = "router" /\ call[c].path < NumPaths - 1
    THEN [NoCall EXCEPT !.at = "get", !.path = call[c].path + 1, !.pass = call[c].pass]
    ELSE NoCall

(* A path set by one that was overtaken is astray until it is set again.   *)
Strays(c, taken) ==
    /\ overtaken' = overtaken \ {c}
    /\ astray' = IF taken /\ c \notin overtaken THEN astray \ {call[c].path}
                 ELSE astray \cup {call[c].path}

ApplySame(c) ==
    /\ call[c].at = "apply" /\ Unchanged(call[c]) /\ Well
    /\ Set(c, AfterApply(c)) /\ Strays(c, TRUE)
    /\ UNCHANGED <<ts_input_idx, demux_status, hw_source, injecting>>

(* What another is about to tell the driver of this path is not noted any  *)
(* more, unless it has chosen the same.                                    *)
ApplyNew(c) ==
    LET k == call[c]
        p == k.path
        overwritten == {d \in Callers : /\ call[d].at = "drive" /\ call[d].path = p
                                        /\ ~SameChoice(call[d], k)}
    IN  /\ k.at = "apply" /\ ~Unchanged(k) /\ Well
        /\ Set(c, [k EXCEPT !.at = "drive"])
        /\ demux_status' = [demux_status EXCEPT
               ![p] = [source |-> k.source, param |-> k.param, cap |-> k.cap]]
        /\ injecting' = [injecting EXCEPT ![p] = k.source = "memory"]
        /\ overtaken' = overtaken \cup overwritten
        /\ UNCHANGED <<ts_input_idx, hw_source, astray>>

Drive(c) ==
    LET k == call[c]
        p == k.path
    IN  /\ k.at = "drive"
        /\ Set(c, AfterApply(c))
        /\ \/ /\ Well /\ Strays(c, TRUE)
              /\ DvbSetDemuxSource(p, IF k.source = "tuner" THEN k.cfg ELSE DMA(p))
           \/ Fault("source") /\ Strays(c, FALSE) /\ UNCHANGED hw_source
        /\ UNCHANGED <<ts_input_idx, demux_status, injecting>>

------------------------------------------------------------------------------
(* STB_DMXRouteTS.                                                         *)

(* Through a slot, or through a USB module, or past both.                  *)
RoutedInput(t, pass) ==
    IF ~pass THEN InputOf[t] ELSE IF module_inserted THEN USBCAM_INPUT ELSE CamInput

(* What a client in a call has read or said of the inputs may be stale now.*)
RouteTS(pass) ==
    /\ Idle("router")
    /\ Event
    /\ ts_input_idx' = [t \in Tuners |-> RoutedInput(t, pass)]
    /\ Set("router", [NoCall EXCEPT !.at = "get", !.pass = pass])
    /\ overtaken' = IF ts_input_idx' = ts_input_idx \/ Idle("client") THEN overtaken
                    ELSE overtaken \cup {"client"}
    /\ UNCHANGED <<demux_status, hw_source, injecting, astray>>

(* A path from a tuner is set to tuner 0, and its parameter is passed on as*)
(* its capability.  Whether there is a module is asked again: when that has*)
(* changed since the inputs were set, the router has been overtaken.       *)
RoutePath ==
    LET k == call["router"]
        st == demux_status[k.path]
        capOfParam == CASE st.param = 1 -> "live" [] st.param = 4 -> "recording"
                        [] st.param = 64 -> "usbcam" [] OTHER -> "none"
        cap == IF k.pass /\ module_inserted THEN "usbcam" ELSE capOfParam
    IN  /\ k.at = "get" /\ Well
        /\ IF st.source = "tuner"
           THEN /\ Set("router", [k EXCEPT !.at = "configure", !.source = "tuner", !.param = 0,
                                           !.cap = cap])
                /\ overtaken' = IF (cap = "usbcam") = ThroughUsb THEN overtaken
                                ELSE overtaken \cup {"router"}
           ELSE Set("router", AfterApply("router")) /\ UNCHANGED overtaken
        /\ UNCHANGED <<ts_input_idx, demux_status, hw_source, injecting, astray>>

SourceNext ==
    \/ \E p \in Paths, source \in {"tuner", "memory"}, param \in Tuners, cap \in ClientCaps :
          SetDemuxSource(p, source, param, cap)
    \/ \E c \in Callers : Configure(c) \/ ApplySame(c) \/ ApplyNew(c) \/ Drive(c)
    \/ RoutePath

------------------------------------------------------------------------------
(* Properties.                                                             *)

AtRest == \A c \in Callers : Idle(c)

(* At rest, each path that takes from a tuner takes the stream behind the  *)
(* tuner's input, whatever order calls and routing came in: what the USB   *)
(* module returns when the stream goes through it, else the input itself.  *)
(* Not so a path that was last set by a caller overtaken by a routing or by*)
(* another caller, or whose source the driver did not take.                *)
FollowsTheRoute ==
    AtRest => \A p \in Paths \ astray : demux_status[p].source = "tuner" =>
        LET i == ts_input_idx[TunerOf(demux_status[p].param)]
        IN  hw_source[p] \in IF i = USBCAM_INPUT THEN {DMA(InjDemux)} ELSE {TS(i), TS_1(i)}
=============================================================================
