---------------------------- MODULE DemuxDevice ----------------------------
(***************************************************************************)
(* The demux device (linuxdvbdmx_wrapper.c): a table of filters, each with  *)
(* a file descriptor of its own, and one thread that polls them, reads a    *)
(* section and hands it to the filter's callback.  Every call takes the     *)
(* lock of the device for its whole body, so a call is one step; the        *)
(* callback runs without the lock.  A filter that is given back is only     *)
(* marked: the thread closes it the next time it begins a round.  Left out   *)
(* are the product that moves the NIT to another demux                       *)
(* (STB_GetCustomCFGForA_A_1) and DMX_Close, which nothing calls.            *)
(***************************************************************************)
EXTENDS SectionMask, Integers, FiniteSetsExt

CONSTANTS
    Handles,    \* the indices of the filter table
    Receivers   \* what a callback is registered for: the user_data

ASSUME HandlesAssumption == Handles \subseteq Nat /\ IsFiniteSet(Handles)

NoHandle == -1
CONSTANTS Nobody,   \* the callback pointer is NULL
          NoAsk     \* a descriptor on which nothing has been set
ASSUME NobodyAssumption == Nobody \notin Receivers
ASSUME NoAskAssumption == NoAsk \notin Asks

VARIABLES
    filter,     \* the table; ask and running are what the driver knows
    thread      \* where dmx_data_thread is, and its local variables

deviceVars == <<filter, thread>>

Filters == [used : BOOLEAN, enable : BOOLEAN, need_free : BOOLEAN,
            cb : Receivers \cup {Nobody}, ask : Asks \cup {NoAsk}, running : BOOLEAN]
Opened == [used |-> TRUE, enable |-> FALSE, need_free |-> FALSE,
           cb |-> Nobody, ask |-> NoAsk, running |-> FALSE]

DeviceInit ==
    /\ filter = [h \in Handles |-> [Opened EXCEPT !.used = FALSE]]
    /\ thread = [at |-> "scan", ready |-> {}, h |-> NoHandle]

-----------------------------------------------------------------------------
(* The calls.  On a filter that is not in use they change nothing.          *)

Unused == {h \in Handles : ~filter[h].used}
FirstUnused == CHOOSE h \in Unused : \A g \in Unused : h <= g
DMX_AllocateFilter == filter' = [filter EXCEPT ![FirstUnused] = Opened]

OnUsed(h, entry) == filter' = IF filter[h].used THEN [filter EXCEPT ![h] = entry] ELSE filter

\* The driver stops a filter before it takes new settings; enable is not told.
DMX_SetSecFilter(h, ask) == OnUsed(h, [filter[h] EXCEPT !.ask = ask, !.running = FALSE])
DMX_SetCallback(h, cb) == OnUsed(h, [filter[h] EXCEPT !.cb = cb])
\* Mutant: a filter that is given back may be given out again at once.
FreeAtOnce(h) == OnUsed(h, [filter[h] EXCEPT !.used = FALSE, !.running = FALSE])

DMX_FreeFilter(h) == OnUsed(h, [filter[h] EXCEPT !.need_free = TRUE])

\* The driver cannot start a descriptor on which nothing has been set.
CanStart(h) == filter[h].enable \/ filter[h].ask # NoAsk
DMX_StartFilter(h) ==
    IF ~filter[h].enable /\ CanStart(h)
        THEN OnUsed(h, [filter[h] EXCEPT !.enable = TRUE, !.running = TRUE])
        ELSE filter' = filter
DMX_StopFilter(h) ==
    IF filter[h].enable
        THEN OnUsed(h, [filter[h] EXCEPT !.enable = FALSE, !.running = FALSE])
        ELSE filter' = filter

-----------------------------------------------------------------------------
(* dmx_data_thread                                                          *)

\* A round: close what has been given back and note what is in use, for poll.
Close(f) == IF f.need_free
                THEN [f EXCEPT !.used = FALSE, !.need_free = FALSE, !.cb = Nobody,
                               !.ask = NoAsk, !.running = FALSE]
                ELSE f
Scan ==
    /\ thread.at = "scan"
    /\ filter' = [h \in Handles |-> Close(filter[h])]
    /\ LET used == {h \in Handles : filter'[h].used}
       IN  thread' = [thread EXCEPT !.at = IF used = {} THEN "scan" ELSE "look", !.ready = used]

\* The next descriptor, or the next round.
GoOn(h) == thread' = [at |-> IF thread.ready = {h} THEN "scan" ELSE "look",
                      ready |-> thread.ready \ {h}, h |-> NoHandle]

Readable(f) == f.enable /\ f.used /\ ~f.need_free

\* The section is read and the callback noted under the lock.
ReadSection(h, section) ==
    /\ Readable(filter[h]) /\ filter[h].running
    /\ Admits(filter[h].ask, section)
    /\ IF filter[h].cb = Nobody
           THEN GoOn(h)
           ELSE thread' = [at |-> "callback", ready |-> thread.ready, h |-> h,
                           cb |-> filter[h].cb, section |-> section]

\* poll waits without the lock, so what it reports may have changed since; a
\* descriptor that it does not report, that is not to be read any more or that
\* fails to be read is passed over.
Look ==
    /\ thread.at = "look"
    /\ LET h == Min(thread.ready)
       IN  GoOn(h) \/ \E section \in Sections : ReadSection(h, section)
    /\ UNCHANGED filter

InCallback(r) == thread.at \notin {"scan", "look"} /\ thread.cb = r
Return == GoOn(thread.h)

DeviceStep == Scan \/ Look
=============================================================================
