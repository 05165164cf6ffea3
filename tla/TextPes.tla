------------------------------ MODULE TextPes ------------------------------
(***************************************************************************)
(* Teletext and subtitle PES data of one demux path (stbhwdmx.c): the DVB   *)
(* stack changes the PID, the device's thread puts what arrives into a ring *)
(* buffer, and the text decoder takes all of it at a time.  The ring has a  *)
(* mutex; the handle and the flag text_started are read without one.        *)
(***************************************************************************)
EXTENDS DemuxDevice, Sequences

CONSTANTS
    Text,               \* the user_data of PesCallback
    TextPids,           \* the PIDs of text streams
    NoPid,              \* 0: nothing is collected
    TEXT_BUFFER_SIZE,
    Lengths             \* the numbers of bytes that arrive at a time

ASSUME TextAssumption == Text \in Receivers /\ TextPids \subseteq Pids /\ NoPid \notin TextPids
ASSUME SizeAssumption == TEXT_BUFFER_SIZE \in Nat \ {0} /\ Lengths \subseteq Nat \ {0}

VARIABLES
    text,       \* pid, text_fhandle and text_started
    ring,       \* read_ptr, write_ptr and text_bytes_available
    change,     \* what STB_DMXChangeTextPID has still to do
    lost        \* ghost: the handles that text_fhandle has been taken off without a free

textVars == <<text, ring, change, lost>>

EmptyRing == [read |-> 0, write |-> 0, available |-> 0]

\* A PES filter looks at nothing but the PID.
WholePid == [match |-> [b \in Bits |-> FALSE], mask |-> [b \in Bits |-> FALSE]]

TextInit ==
    /\ text = [pid |-> NoPid, fhandle |-> NoHandle, started |-> FALSE]
    /\ ring = EmptyRing
    /\ change = <<>>
    /\ lost = {}

-----------------------------------------------------------------------------
(* STB_DMXChangeTextPID.  The calls of the device come one by one; the keys *)
(* of the descrambler, which it also resets, are in DscChannels.  A device  *)
(* that cannot be opened, a PID or a start that the driver refuses end the  *)
(* call; in the last two the handle stays in text_fhandle, not started, and *)
(* the next change, which frees a started one only, allocates over it.      *)

Changing(step) == change # <<>> /\ Head(change) = step
OnWith == change' = Tail(change)

STB_DMXChangeTextPID(pid) ==
    /\ change = <<>>
    /\ pid # text.pid
    /\ text' = [text EXCEPT !.pid = pid]
    /\ change' = (IF text.started THEN <<"stop", "uncallback", "free", "clear">> ELSE <<>>)
                 \o (IF pid = NoPid THEN <<>> ELSE <<"alloc", "set", "callback", "start">>)
    /\ UNCHANGED <<filter, ring, lost>>

TextDeviceCall ==
    /\ \/ Changing("stop") /\ DMX_StopFilter(text.fhandle)
       \/ Changing("uncallback") /\ DMX_SetCallback(text.fhandle, Nobody)
       \/ Changing("set") /\ DMX_SetSecFilter(text.fhandle, [pid |-> text.pid, sf |-> WholePid])
       \/ Changing("callback") /\ DMX_SetCallback(text.fhandle, Text)
    /\ OnWith
    /\ UNCHANGED <<text, ring, lost>>

PidRefused ==
    /\ Changing("set")
    /\ change' = <<>>
    /\ UNCHANGED <<filter, text, ring, lost>>

FreeTextHandle ==
    /\ Changing("free")
    /\ DMX_FreeFilter(text.fhandle)
    /\ text' = [text EXCEPT !.fhandle = NoHandle, !.started = FALSE]
    /\ OnWith
    /\ UNCHANGED <<ring, lost>>

\* Mutant: the pointers stay where they are.
ClearCount ==
    /\ Changing("clear")
    /\ ring' = [ring EXCEPT !.available = 0]
    /\ OnWith
    /\ UNCHANGED <<filter, text, lost>>

ClearRing ==
    /\ Changing("clear")
    /\ ring' = EmptyRing
    /\ OnWith
    /\ UNCHANGED <<filter, text, lost>>

\* Without a new handle, for the table is full or the device is not to be opened,
\* the call ends and text_fhandle stays: the new PID is noted but not collected.
AllocText ==
    /\ Changing("alloc")
    /\ \/ /\ Unused # {}
          /\ DMX_AllocateFilter
          /\ text' = [text EXCEPT !.fhandle = FirstUnused]
          /\ lost' = lost \cup ({text.fhandle} \ {NoHandle})
          /\ OnWith
       \/ /\ change' = <<>>
          /\ UNCHANGED <<filter, text, lost>>
    /\ UNCHANGED ring

StartText ==
    /\ Changing("start")
    /\ DMX_StartFilter(text.fhandle)
    /\ text' = [text EXCEPT !.started = TRUE]
    /\ OnWith
    /\ UNCHANGED <<ring, lost>>

StartRefused ==
    /\ Changing("start")
    /\ DMX_SetCallback(text.fhandle, Nobody)
    /\ change' = <<>>
    /\ UNCHANGED <<text, ring, lost>>

ChangeText ==
    /\ \/ \E pid \in TextPids \cup {NoPid} : STB_DMXChangeTextPID(pid)
       \/ TextDeviceCall \/ PidRefused \/ FreeTextHandle \/ ClearRing
       \/ AllocText \/ StartText \/ StartRefused
    /\ UNCHANGED thread

-----------------------------------------------------------------------------
(* PesCallback, in the device's thread                                      *)

\* The handle is compared without the mutex; the mutex is taken after that.
CheckText ==
    /\ thread.at = "callback"
    /\ IF text.fhandle = thread.h
         THEN thread' = [at |-> "copy", ready |-> thread.ready, h |-> thread.h, cb |-> Text]
         ELSE Return
    /\ UNCHANGED ring

\* What does not fit is thrown away; what just fits up to the end wraps.
CopyIn ==
    /\ thread.at = "copy"
    /\ \E len \in Lengths :
           IF ring.available + len <= TEXT_BUFFER_SIZE
           THEN LET room == TEXT_BUFFER_SIZE - ring.write
                IN  ring' = [ring EXCEPT
                        !.write = IF room > len THEN @ + len ELSE len - room,
                        !.available = @ + len]
           ELSE ring' = ring
    /\ Return

PesCallback ==
    /\ InCallback(Text)
    /\ CheckText \/ CopyIn
    /\ UNCHANGED <<filter, text, change, lost>>

-----------------------------------------------------------------------------
(* STB_DMXReadTextPES takes all there is.  It looks at text_started before  *)
(* it has the mutex; a reader that saw the flag before a change of the PID   *)
(* may come at any time after it, and an empty ring gives it nothing.        *)

ReadTextPES ==
    /\ ring.available # 0
    /\ LET up_to_end == TEXT_BUFFER_SIZE - ring.read
       IN  ring' = [ring EXCEPT
               !.read = IF ring.available < up_to_end THEN @ + ring.available
                        ELSE ring.available - up_to_end,
               !.available = 0]
    /\ UNCHANGED <<filter, thread, text, change, lost>>
=============================================================================
