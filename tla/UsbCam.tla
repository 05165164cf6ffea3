------------------------------- MODULE UsbCam -------------------------------
(***************************************************************************)
(* hw/src/stbhwdemux_usb.c: a CI module on USB.  A task looks every second *)
(* whether it is there; then a write task takes the stream of the tuner    *)
(* from one demux to the module and a read task takes what the module      *)
(* returns to another, from which the paths play (DemuxSource).            *)
(*                                                                         *)
(* A stream is a sequence of chunks, numbered modulo Span; the buffer of   *)
(* the write task holds what it recorded and has not written yet.  Of the  *)
(* read task's buffer only the length counts.  Of "open", "demuxes",       *)
(* "create read", "create write", "info", "header" and "data", what may    *)
(* fail is in Fails, and it does so now and then.                          *)
(***************************************************************************)
EXTENDS DemuxSource, Sequences

CONSTANTS Media,        \* USB_CIMODULE_MEDIA_MAX_SIZE, written at a time
          Poll,         \* the most that is recorded at a time: 10 of them
          Fill,         \* what is collected before the first write: 100
          BuffSize,     \* REC_BUFF_SIZE: 120
          ReadRoom,     \* of the read task's buffer: 100
          Recorded,     \* the lengths that a record may return
          Packets,      \* and those that a read from the module may return
          Short,        \* a packet below it is a short one
          Span

ASSUME UsbCamAssumption ==
    /\ Media \in Nat \ {0} /\ Poll \in Nat /\ Fill \in Nat /\ BuffSize \in Nat
    /\ Media <= Fill /\ Fill + Poll <= BuffSize
    /\ ReadRoom \in Nat /\ Short \in Nat /\ Span \in Nat \ {0}
    /\ Recorded \subseteq 0 .. Poll /\ Packets \subseteq Nat

Last == NumTuners - 1   \* the tuner that is recorded

VARIABLES
    plugged,                \* the driver has the nodes of a module
    media,                  \* where USB_Media_Task is
    media_open_status, thread_running,
    media_fd,               \* both of them: "none", open, or of a module gone
    held,                   \* the buffers and descriptors there are
    reader, usbdata_len,    \* the read task
    writer, first_run, buffer, recorded,    \* the write task
    written,                \* what the module has got of the stream
    left_behind,            \* a read task that nobody will wait for
    misfed                  \* the tuner was not to be taken from its own input

usbVars == <<plugged, media, media_open_status, thread_running, media_fd, held, reader,
             usbdata_len, writer, first_run, buffer, recorded, written, left_behind, misfed>>
readerVars == <<reader, usbdata_len>>
writerVars == <<writer, first_run, buffer, recorded, written>>
vars == <<sourceVars, module_inserted, events, usbVars>>

ReadNeeds == {"media_readbuf", "inj_dvr_fd"}
WriteNeeds == {"media_writebuf", "rec_dvr_fd"}
Reading == {"read", "inject"}
Writing == {"record", "header", "data"}
Serving == reader \in Reading /\ writer \in Writing

UsbInit ==
    /\ SourceInit
    /\ plugged = FALSE /\ media = "poll"
    /\ media_open_status = FALSE /\ thread_running = FALSE
    /\ media_fd = "none" /\ held = {}
    /\ reader = "none" /\ usbdata_len = 0
    /\ writer = "none" /\ first_run = TRUE /\ buffer = <<>> /\ recorded = 0 /\ written = 0
    /\ left_behind = FALSE /\ misfed = FALSE

------------------------------------------------------------------------------
(* The module, and the service that reports it.                            *)

Plug ==
    /\ ~plugged /\ Event
    /\ plugged' = TRUE
    /\ UNCHANGED <<sourceVars, module_inserted, media, media_open_status, thread_running,
                   media_fd, held, readerVars, writerVars, left_behind, misfed>>

Unplug ==
    /\ plugged /\ plugged' = FALSE
    /\ media_fd' = IF media_fd = "open" THEN "gone" ELSE media_fd
    /\ UNCHANGED <<sourceVars, module_inserted, media, media_open_status, thread_running,
                   held, readerVars, writerVars, left_behind, misfed, events>>

(* STB_CIUsbInsertedState(INSERTED) and (NOT_INSERTED).                    *)
Report ==
    /\ module_inserted' = plugged /\ module_inserted # plugged
    /\ UNCHANGED <<sourceVars, events, usbVars>>

------------------------------------------------------------------------------
(* USB_Media_Task, with AML_Usbcam_Media_Open and Media_Close, which only  *)
(* it calls.                                                               *)

ResetResource == media_fd' = "none" /\ held' = {}

(* The nodes of the module are opened; one that fails closes the other.    *)
PollOpen ==
    /\ media = "poll" /\ ~media_open_status /\ plugged
    /\ \/ Well /\ media_fd' = "open" /\ media' = "demuxes"
       \/ Fault("open") /\ UNCHANGED <<media_fd, media>>
    /\ UNCHANGED <<sourceVars, module_inserted, plugged, media_open_status, thread_running,
                   held, readerVars, writerVars, left_behind, misfed>>

(* AML_Usbcam_Set_Demuxes: the last tuner is the one recorded, from the    *)
(* input that it has just now; the driver takes some of the sources.       *)
DemuxesSet(taken) ==
    [d \in DOMAIN hw_source |->
        IF d \notin taken THEN hw_source[d]
        ELSE IF d = InjDemux THEN DMA(InjDemux) ELSE TS(ts_input_idx[Last])]

SetDemuxes ==
    /\ media = "demuxes"
    /\ \/ /\ media' = "create read"
          /\ held' = ReadNeeds \cup WriteNeeds \cup {"rec_dmx_fd"} /\ UNCHANGED media_fd
          /\ \/ /\ Well /\ hw_source' = DemuxesSet({InjDemux, RecDemux})
                /\ misfed' = (ts_input_idx[Last] # InputOf[Last])
             \/ /\ Fault("source") /\ misfed' = TRUE
                /\ \E taken \in SUBSET {InjDemux, RecDemux} : hw_source' = DemuxesSet(taken)
       \/ /\ Fault("demuxes") /\ media' = "poll" /\ ResetResource /\ UNCHANGED misfed
          /\ \E taken \in SUBSET {InjDemux, RecDemux} : hw_source' = DemuxesSet(taken)
    /\ UNCHANGED <<ts_input_idx, demux_status, injecting, call, overtaken, astray,
                   module_inserted, plugged, media_open_status, thread_running,
                   readerVars, writerVars, left_behind>>

(* Only a mutant uses it.                                                  *)
GiveUpOpen ==
    /\ media' = "poll" /\ thread_running' = FALSE /\ media_open_status' = TRUE
    /\ ResetResource

GiveUp ==
    /\ media' = "poll" /\ thread_running' = FALSE /\ media_open_status' = FALSE
    /\ ResetResource

CreateRead ==
    /\ media = "create read"
    /\ \/ /\ Well /\ media' = "create write" /\ reader' = "info" /\ usbdata_len' = 0
          /\ thread_running' = TRUE /\ media_open_status' = TRUE
          /\ UNCHANGED <<media_fd, held>>
       \/ Fault("create read") /\ GiveUp /\ UNCHANGED readerVars
    /\ UNCHANGED <<sourceVars, module_inserted, plugged, writerVars, left_behind, misfed>>

(* Without a write task nobody will join the read task that was made.      *)
CreateWrite ==
    /\ media = "create write"
    /\ \/ /\ Well /\ media' = "poll" /\ writer' = "info"
          /\ first_run' = TRUE /\ buffer' = <<>> /\ recorded' = 0 /\ written' = 0
          /\ UNCHANGED <<media_open_status, thread_running, media_fd, held, reader, left_behind>>
       \/ /\ Fault("create write") /\ GiveUp /\ UNCHANGED writerVars
          /\ reader' = "none" /\ left_behind' = (left_behind \/ reader # "ended")
    /\ UNCHANGED <<sourceVars, module_inserted, plugged, usbdata_len, misfed>>

(* It ends when it finds itself told to or the node closed, and goes on    *)
(* when thread_running has been set for the next one in time.              *)
StrayRead ==
    /\ left_behind /\ left_behind' = FALSE
    /\ ~thread_running \/ media_fd # "open"
    /\ UNCHANGED <<sourceVars, module_inserted, plugged, media, media_open_status,
                   thread_running, media_fd, held, readerVars, writerVars, misfed, events>>

PollClose ==
    /\ media = "poll" /\ media_open_status /\ ~module_inserted
    /\ media' = "join" /\ thread_running' = FALSE
    /\ UNCHANGED <<sourceVars, module_inserted, plugged, media_open_status, media_fd, held,
                   readerVars, writerVars, left_behind, misfed, events>>

(* Only a mutant uses it.                                                  *)
OneEnded == reader = "ended" \/ writer = "ended"

BothEnded == reader = "ended" /\ writer = "ended"

Joined ==
    /\ media = "join" /\ BothEnded
    /\ media' = "poll" /\ media_open_status' = FALSE
    /\ ResetResource
    /\ UNCHANGED <<sourceVars, module_inserted, plugged, thread_running, readerVars,
                   writerVars, left_behind, misfed, events>>

MediaTask == PollOpen \/ SetDemuxes \/ CreateRead \/ CreateWrite \/ PollClose \/ Joined

------------------------------------------------------------------------------
(* AML_Usbcam_Read_Cam_Media_Task.                                         *)

Elsewhere == UNCHANGED <<sourceVars, module_inserted, plugged, media, media_open_status,
                         thread_running, media_fd, held, left_behind, misfed>>

(* Without information, or without the right to read, the task ends.       *)
ReadInfo ==
    /\ reader = "info"
    /\ \/ Well /\ media_fd = "open" /\ reader' = "read"
       \/ Well /\ media_fd # "open" /\ reader' = "ended"
       \/ Fault("info") /\ reader' = "ended"
    /\ UNCHANGED <<usbdata_len, writerVars>> /\ Elsewhere

(* Only a mutant uses it.                                                  *)
TakenWhole(len, n) == IF n < Short /\ len = 0 THEN 0 ELSE len + n

(* A short packet that comes first is dropped, as is one without room.     *)
Taken(len, n) ==
    IF (n < Short /\ len = 0) \/ len + n > ReadRoom THEN len ELSE len + n

(* The read fails, or brings nothing or a packet.                          *)
ReadMedia ==
    /\ reader = "read"
    /\ IF ~thread_running \/ media_fd # "open"
       THEN reader' = "ended" /\ UNCHANGED usbdata_len
       ELSE \E n \in Packets \cup {0} :
              /\ usbdata_len' = Taken(usbdata_len, n)
              /\ reader' = IF n > 0 /\ Taken(usbdata_len, n) >= Media THEN "inject" ELSE "read"
    /\ Well /\ UNCHANGED writerVars /\ Elsewhere

(* What the driver does not take stays for the next time.                  *)
Inject ==
    /\ reader = "inject" /\ reader' = "read"
    /\ \E inj_len \in 0 .. usbdata_len : usbdata_len' = usbdata_len - inj_len
    /\ Well /\ UNCHANGED writerVars /\ Elsewhere

ReadTask == ReadInfo \/ ReadMedia \/ Inject

------------------------------------------------------------------------------
(* AML_Usbcam_Write_Media_To_Cam_Task.                                     *)

WriteInfo ==
    /\ writer = "info"
    /\ \/ Well /\ media_fd = "open" /\ writer' = "record"
       \/ Well /\ media_fd # "open" /\ writer' = "ended"
       \/ Fault("info") /\ writer' = "ended"
    /\ UNCHANGED <<first_run, buffer, recorded, written, readerVars>> /\ Elsewhere

Chunks(n) == [i \in 1 .. n |-> (recorded + i - 1) % Span]

(* AML_Usbcam_Record_From_Tsin at the end of the buffer.  Before the first *)
(* write a good deal is collected.                                         *)
RecordFromTsin ==
    /\ writer = "record"
    /\ IF ~thread_running THEN writer' = "ended" /\ UNCHANGED <<buffer, recorded>>
       ELSE \E rec_len \in Recorded \cup {0} :
              /\ buffer' = buffer \o Chunks(rec_len)
              /\ recorded' = (recorded + rec_len) % Span
              /\ writer' = IF first_run /\ Len(buffer) + rec_len <= Fill THEN "record" ELSE "header"
    /\ Well /\ UNCHANGED <<first_run, written, readerVars>> /\ Elsewhere

(* Each block has a header of its own; that of the first one marks a new   *)
(* stream.  Only a module that has gone ends the task here.                *)
WriteHeader ==
    /\ writer = "header"
    /\ IF Len(buffer) <= Media \/ ~thread_running
       THEN Well /\ writer' = "record" /\ UNCHANGED first_run
       ELSE /\ first_run' = FALSE
            /\ \/ Well /\ media_fd = "open" /\ writer' = "data"
               \/ Well /\ media_fd # "open" /\ writer' = "ended"
               \/ Fault("header") /\ media_fd = "open" /\ UNCHANGED writer
    /\ UNCHANGED <<buffer, recorded, written, readerVars>> /\ Elsewhere

(* Only a mutant uses it.                                                  *)
MovedByBlock(s, write_len) == SubSeq(s, Media + 1, Len(s))

(* memmove: what was not written comes to the front.                       *)
Moved(s, write_len) == SubSeq(s, write_len + 1, Len(s))

(* The module may take less than a block.  Any failure ends the task.      *)
WriteData ==
    /\ writer = "data"
    /\ \/ /\ Well /\ media_fd = "open" /\ writer' = "header"
          /\ \E write_len \in 0 .. Media :
                /\ buffer' = Moved(buffer, write_len)
                /\ written' = (written + write_len) % Span
       \/ Well /\ media_fd # "open" /\ writer' = "ended" /\ UNCHANGED <<buffer, written>>
       \/ Fault("data") /\ writer' = "ended" /\ UNCHANGED <<buffer, written>>
    /\ UNCHANGED <<first_run, recorded, readerVars>> /\ Elsewhere

WriteTask == WriteInfo \/ RecordFromTsin \/ WriteHeader \/ WriteData

------------------------------------------------------------------------------
(* STB_CIRouteTS, which the stack calls for any module.                    *)
CIRouteTS(pass) ==
    /\ RouteTS(pass)
    /\ UNCHANGED <<module_inserted, usbVars>>

SourceStep == SourceNext /\ UNCHANGED <<module_inserted, usbVars>>

Next ==
    \/ Plug \/ Unplug \/ Report
    \/ MediaTask \/ ReadTask \/ StrayRead \/ WriteTask
    \/ \E pass \in BOOLEAN : CIRouteTS(pass)
    \/ SourceStep

(* The tasks are threads that run; the module comes and goes as it likes.  *)
Spec == UsbInit /\ [][Next]_vars
            /\ WF_vars(MediaTask) /\ WF_vars(ReadTask) /\ WF_vars(WriteTask)

------------------------------------------------------------------------------
(* Properties.                                                             *)

TypeOK ==
    /\ media \in {"poll", "demuxes", "create read", "create write", "join"}
    /\ media_fd \in {"none", "open", "gone"}
    /\ {plugged, media_open_status, thread_running, first_run} \subseteq BOOLEAN
    /\ {left_behind, misfed} \subseteq BOOLEAN
    /\ held \subseteq ReadNeeds \cup WriteNeeds \cup {"rec_dmx_fd"}
    /\ reader \in {"none", "info", "ended"} \cup Reading
    /\ writer \in {"none", "info", "ended"} \cup Writing
    /\ usbdata_len \in Nat /\ recorded \in Nat /\ written \in Nat
    /\ buffer \in Seq(Nat)

(* Neither task goes over the end of its buffer.  The write task does not  *)
(* look at its room before it records: it relies on having written all but *)
(* one block, or on not having begun.                                      *)
BuffersFit ==
    /\ Len(buffer) <= BuffSize
    /\ writer = "record" /\ thread_running => Len(buffer) + Poll <= BuffSize
    /\ usbdata_len <= ReadRoom

(* The module gets the stream as it was recorded: nothing twice, nothing   *)
(* left out, however little it takes at a time.                            *)
KeptInOrder ==
    \A i \in DOMAIN buffer : buffer[i] = (written + i - 1) % Span

(* While a task of the module is at work, what it works with is there: no  *)
(* failure and no closing takes it away.  (A read task that was left behind*)
(* is none of the module's any more, and has lost all of it.)              *)
LiveWhileUsed ==
    /\ reader \in Reading => ReadNeeds \subseteq held
    /\ writer \in Writing => WriteNeeds \subseteq held

(* While a module is served, it is served from the tuner's own input, if   *)
(* this was the input when the module was opened; and at rest the paths    *)
(* that take from the tuner take what the route says.                      *)
ThroughTheCam ==
    /\ Serving /\ ~misfed => hw_source[RecDemux] = TS(InputOf[Last])
    /\ FollowsTheRoute

(* A task has ended, and nobody looks: the status says open.               *)
GivenUp ==
    /\ media_open_status /\ thread_running /\ media_fd = "open"
    /\ reader = "ended" \/ writer = "ended"

(* The module was away for less than a poll: what is open is of the old one*)
Overlooked == media_open_status /\ media_fd = "gone"

(* A module that stays gets both tasks, and keeps them, unless one of them *)
(* ends for a failure of its own or the module was away unseen.            *)
MediaServed ==
    <>[](plugged /\ module_inserted) => <>[]Serving \/ <>[](GivenUp \/ Overlooked)
=============================================================================
