------------------------------ MODULE DiskList ------------------------------
(***************************************************************************)
(* hw/src/stbhwdsk.c: the list of disks, the task that brings it into line *)
(* with /proc/mounts every three seconds, and the calls that change it.    *)
(*                                                                         *)
(* The task lets disk_mutex go after each line it read, and each time it   *)
(* sends an event; while it holds it, one step is one entry of the list.   *)
(* The calls hold it throughout and are one step.  Lookups and the file    *)
(* calls read the list under the mutex and change nothing here.            *)
(***************************************************************************)
EXTENDS Integers, FiniteSets, SequencesExt

CONSTANTS Mounts,       \* what can be mounted, of a type that is used, in the
                        \* order of /proc/mounts: records [dev, path, number,
                        \* removeable], where number is from the major and
                        \* minor one in the name, or 0
          UserPaths,    \* directories that the stack adds
          DefaultPath,  \* the one that the task adds
          SubOf(_, _),  \* IsSubDirectoryOf: one level below, and not of root
          IdSpan,       \* next_disk_id has eight bits
          CalmAdds,     \* no entry is replaced by a call during a refresh
          MaxDisks, MaxDskCalls, MaxChanges     \* bounds

ASSUME DiskAssumption == IdSpan \in Nat \ {0} /\ MaxDisks \in Nat /\ CalmAdds \in BOOLEAN
ASSUME MountsAssumption == DOMAIN Mounts \subseteq Nat

(* There are addresses enough: as many as there can be entries.            *)
DiskPaths == {m.path : m \in Range(Mounts)} \cup UserPaths \cup {DefaultPath}

ASSUME AddressAssumption == IsFiniteSet(DiskPaths) /\ Cardinality(DiskPaths) <= MaxDisks

VARIABLES
    mounted,            \* what is mounted
    disk_list,          \* the list: at is the address of an S_DISK_INFO
    next_disk_id, refresh_disk,
    disk_mutex,         \* the task has it
    monitor,            \* where the task is
    send_events,        \* FALSE in its first refresh
    lines,              \* lines of /proc/mounts still to be read: places in Mounts
    disk,               \* the pointer of the loop over the list
    gone,               \* the disk that the next event is about
    paths, disk2,       \* those related to it still to be looked for, in order
    connected, removed, \* the IDs whose last event was the one or the other
    replaced,           \* the IDs whose entry was replaced since: no event says so
    dsk_calls, changes

taskVars == <<monitor, send_events, lines, disk, gone, paths, disk2, disk_mutex>>
listVars == <<disk_list, next_disk_id, connected, removed, replaced>>
diskVars == <<mounted, refresh_disk, taskVars, listVars, dsk_calls, changes>>

NULL == 0
NoDisk == [id |-> NULL, path |-> "none"]

User(path) == [dev |-> "user", path |-> path, number |-> 0, removeable |-> FALSE]

Entries == Range(disk_list)
Addresses == {e.at : e \in Entries}
Entry(at) == CHOOSE e \in Entries : e.at = at
Listed(path) == \E e \in Entries : e.path = path

FirstAt(list) == IF list = <<>> THEN NULL ELSE list[1].at

PlaceOf(list, at) == CHOOSE i \in DOMAIN list : list[i].at = at

(* disk->next                                                              *)
NextAt(at) ==
    LET i == PlaceOf(disk_list, at)
    IN  IF i = Len(disk_list) THEN NULL ELSE disk_list[i + 1].at

------------------------------------------------------------------------------
(* RemoveDisk and AddDisk on a list.                                       *)

RemoveDisk(list, at) == RemoveAt(list, PlaceOf(list, at))

(* A directory of the user counts as removable: by the disk it is on, or   *)
(* by force.  A disk makes the user's directories that are on it what it is*)
(* itself.                                                                 *)
SyncedWith(list, m) ==
    [i \in DOMAIN list |->
        IF m.dev # "user" /\ list[i].dev = "user" /\ SubOf(list[i].path, m.path)
        THEN [list[i] EXCEPT !.removeable = m.removeable] ELSE list[i]]

NextId(m) == IF m.number # 0 THEN next_disk_id ELSE (next_disk_id + 1) % IdSpan
IdFor(m) == IF m.number # 0 THEN m.number ELSE NextId(m)

FreeAddress(list) ==
    CHOOSE a \in 1 .. MaxDisks : \A e \in Range(list) : e.at # a

AddDisk(list, m) ==
    Append(SyncedWith(list, m),
           [at |-> FreeAddress(list), dev |-> m.dev, path |-> m.path, id |-> IdFor(m),
            removeable |-> m.dev = "user" \/ m.removeable, found |-> TRUE])


(* To keep the runs small, all is plugged in at the start or nothing is.   *)
DiskInit ==
    /\ mounted \in {{}, Range(Mounts)}
    /\ disk_list = <<>> /\ next_disk_id = 0 /\ refresh_disk = TRUE
    /\ disk_mutex = FALSE /\ monitor = "begin" /\ send_events = FALSE
    /\ lines = {} /\ disk = NULL /\ gone = NoDisk /\ paths = {} /\ disk2 = NULL
    /\ connected = {} /\ removed = {} /\ replaced = {}
    /\ dsk_calls = 0 /\ changes = 0

------------------------------------------------------------------------------
(* The calls, and what happens outside.                                    *)

(* STB_DSKAddDevicePath: an entry of that path whose directory opens is    *)
(* used again; one that does not open is replaced.  The new one stays when *)
(* its directory is there or can be made.  Nobody is told.                 *)
AddedPath(path, opens, makes) ==
    LET old == CHOOSE e \in Entries : e.path = path
        rest == IF Listed(path) THEN RemoveDisk(disk_list, old.at) ELSE disk_list
    IN  IF Listed(path) /\ opens THEN disk_list
        ELSE IF opens \/ makes THEN AddDisk(rest, User(path)) ELSE rest

AddDevicePath(path) ==
    \E opens, makes \in BOOLEAN :
        /\ CalmAdds /\ monitor # "wait" /\ Listed(path) => opens
        /\ disk_list' = AddedPath(path, opens, makes)
        /\ next_disk_id' = IF Listed(path) /\ opens THEN next_disk_id ELSE NextId(User(path))
        /\ replaced' = replaced \cup {e.id : e \in {d \in Entries : d.path = path /\ ~opens}}
        /\ UNCHANGED <<connected, removed>>

(* The stack calls it in a thread of its own.                              *)
DSKAddDevicePath(path) ==
    /\ ~disk_mutex /\ dsk_calls < MaxDskCalls /\ dsk_calls' = dsk_calls + 1
    /\ AddDevicePath(path)
    /\ UNCHANGED <<mounted, refresh_disk, taskVars, changes>>

(* An event that says that a disk is connected, or removed.                *)
Tell(id) ==
    /\ connected' = connected \cup {id}
    /\ removed' = removed \ {id} /\ replaced' = replaced \ {id}

TellGone(id) ==
    /\ removed' = removed \cup {id} /\ connected' = connected \ {id}
    /\ UNCHANGED replaced

(* STB_DSKLoadDevicePath, for a disk that is there, only sends the event.  *)
(* The stack waits until the first list is made, which is done in silence. *)
DSKLoadDevicePath(e) ==
    /\ monitor = "wait" \/ send_events
    /\ ~disk_mutex /\ dsk_calls < MaxDskCalls /\ dsk_calls' = dsk_calls + 1
    /\ Tell(e.id)
    /\ UNCHANGED <<mounted, refresh_disk, taskVars, disk_list, next_disk_id, changes>>

DSKSetRefresh(refresh) ==
    /\ dsk_calls < MaxDskCalls /\ dsk_calls' = dsk_calls + 1
    /\ refresh_disk' = refresh
    /\ UNCHANGED <<mounted, taskVars, listVars, changes>>

Plug(m) ==
    /\ changes < MaxChanges /\ changes' = changes + 1
    /\ mounted' = IF m \in mounted THEN mounted \ {m} ELSE mounted \cup {m}
    /\ UNCHANGED <<refresh_disk, taskVars, listVars, dsk_calls>>

Quiet == UNCHANGED <<mounted, refresh_disk, dsk_calls, changes>>

------------------------------------------------------------------------------
(* DiskMonitorTask and RefreshDiskList.                                    *)

Begin ==
    /\ monitor = "begin" /\ monitor' = "mark"
    /\ AddDevicePath(DefaultPath)
    /\ Quiet /\ UNCHANGED <<send_events, lines, disk, gone, paths, disk2, disk_mutex>>

(* After three seconds, unless refreshing is switched off.                 *)
StartRefresh ==
    /\ monitor = "wait" /\ refresh_disk
    /\ monitor' = "mark" /\ send_events' = TRUE
    /\ Quiet /\ UNCHANGED <<listVars, lines, disk, gone, paths, disk2, disk_mutex>>

Mark ==
    /\ monitor = "mark" /\ monitor' = "open"
    /\ disk_list' = [i \in DOMAIN disk_list |->
                       [disk_list[i] EXCEPT !.found = @ /\ ~disk_list[i].removeable]]
    /\ Quiet /\ UNCHANGED <<send_events, lines, disk, gone, paths, disk2, disk_mutex,
                            next_disk_id, connected, removed, replaced>>

(* The kernel writes the file when it is read.                             *)
ReadMounts ==
    /\ monitor = "open" /\ monitor' = "lines"
    /\ lines' = {i \in DOMAIN Mounts : Mounts[i] \in mounted}
    /\ Quiet /\ UNCHANGED <<listVars, send_events, disk, gone, paths, disk2, disk_mutex>>

(* Only a mutant uses it.                                                  *)
MarkedSubOnly(list, m) ==
    [i \in DOMAIN list |->
        IF list[i].dev = "user" /\ SubOf(list[i].path, m.path)
        THEN [list[i] EXCEPT !.found = TRUE] ELSE list[i]]

(* A line finds the entry of its path, and the user's directories on it.   *)
Marked(list, m) ==
    [i \in DOMAIN list |->
        IF list[i].path = m.path \/ (list[i].dev = "user" /\ SubOf(list[i].path, m.path))
        THEN [list[i] EXCEPT !.found = TRUE] ELSE list[i]]

FirstLine == CHOOSE i \in lines : \A j \in lines : i <= j

Line ==
    /\ monitor = "lines" /\ lines # {}
    /\ lines' = lines \ {FirstLine}
    /\ LET m == Mounts[FirstLine]
           list == Marked(disk_list, m)
       IN  IF Listed(m.path)
           THEN /\ disk_list' = list
                /\ UNCHANGED <<monitor, gone, next_disk_id>>
           ELSE /\ disk_list' = AddDisk(list, m)
                /\ next_disk_id' = NextId(m)
                /\ monitor' = IF send_events THEN "say connected" ELSE monitor
                /\ gone' = IF send_events THEN [id |-> IdFor(m), path |-> m.path] ELSE gone
    /\ Quiet /\ UNCHANGED <<send_events, disk, paths, disk2, disk_mutex, connected, removed,
                            replaced>>

SayConnected ==
    /\ monitor = "say connected" /\ monitor' = "lines"
    /\ Tell(gone.id) /\ gone' = NoDisk
    /\ Quiet /\ UNCHANGED <<disk_list, next_disk_id, send_events, lines, disk, paths, disk2,
                            disk_mutex>>

EndOfFile ==
    /\ monitor = "lines" /\ lines = {}
    /\ monitor' = "sweep" /\ disk_mutex' = TRUE /\ disk' = FirstAt(disk_list)
    /\ Quiet /\ UNCHANGED <<listVars, send_events, lines, gone, paths, disk2>>

Stays ==
    /\ monitor = "sweep" /\ disk # NULL /\ Entry(disk).found
    /\ disk' = NextAt(disk)
    /\ Quiet /\ UNCHANGED <<listVars, monitor, send_events, lines, gone, paths, disk2, disk_mutex>>

(* A disk that was not found is removed, and the stack told.               *)
RemoveLost ==
    /\ monitor = "sweep" /\ disk # NULL /\ ~Entry(disk).found
    /\ gone' = [id |-> Entry(disk).id, path |-> Entry(disk).path]
    /\ disk' = NextAt(disk)
    /\ disk_list' = RemoveDisk(disk_list, disk)
    /\ IF send_events THEN monitor' = "say removed" /\ disk_mutex' = FALSE
                      ELSE monitor' = "collect" /\ UNCHANGED disk_mutex
    /\ Quiet /\ UNCHANGED <<next_disk_id, connected, removed, replaced, send_events, lines, paths,
                            disk2>>

SayRemoved ==
    /\ monitor = "say removed" /\ monitor' = "collect" /\ disk_mutex' = TRUE
    /\ TellGone(gone.id)
    /\ Quiet /\ UNCHANGED <<disk_list, next_disk_id, send_events, lines, disk, gone, paths, disk2>>

(* Only a mutant uses it.                                                  *)
RelatedAlone(list, d) == {[place |-> 0, path |-> d.path]}

(* The paths that go with a disk: its own and then those of its ID, in the *)
(* order of the list.                                                      *)
RelatedPaths(list, d) ==
    {[place |-> 0, path |-> d.path]} \cup
    {[place |-> i, path |-> list[i].path] : i \in {j \in DOMAIN list : list[j].id = d.id}}

(* mpath                                                                   *)
FirstPath == CHOOSE p \in paths : \A q \in paths : p.place <= q.place

Collect ==
    /\ monitor = "collect" /\ monitor' = "related"
    /\ paths' = RelatedPaths(disk_list, gone)
    /\ disk2' = FirstAt(disk_list)
    /\ Quiet /\ UNCHANGED <<listVars, send_events, lines, disk, gone, disk_mutex>>

NextPath ==
    /\ monitor = "related" /\ disk2 = NULL /\ paths # {}
    /\ paths' = paths \ {FirstPath}
    /\ IF paths' = {}
       THEN monitor' = "sweep" /\ gone' = NoDisk /\ UNCHANGED disk2
       ELSE disk2' = FirstAt(disk_list) /\ UNCHANGED <<monitor, gone>>
    /\ Quiet /\ UNCHANGED <<listVars, send_events, lines, disk, disk_mutex>>

Related(at) == Entry(at).path = FirstPath.path \/ SubOf(Entry(at).path, FirstPath.path)

Unrelated ==
    /\ monitor = "related" /\ disk2 # NULL /\ ~Related(disk2)
    /\ disk2' = NextAt(disk2)
    /\ Quiet /\ UNCHANGED <<listVars, monitor, send_events, lines, disk, gone, paths, disk_mutex>>

(* Only a mutant uses it.                                                  *)
FirstLoopAsItWas == disk

(* The pointer of the first loop must not stay on a disk that goes.        *)
FirstLoop == IF disk = disk2 THEN NextAt(disk2) ELSE disk

RemoveRelated ==
    /\ monitor = "related" /\ disk2 # NULL /\ Related(disk2)
    /\ disk' = FirstLoop
    /\ disk2' = NextAt(disk2)
    /\ gone' = [id |-> Entry(disk2).id, path |-> gone.path]
    /\ disk_list' = RemoveDisk(disk_list, disk2)
    /\ IF send_events THEN monitor' = "say related" /\ disk_mutex' = FALSE
                      ELSE UNCHANGED <<monitor, disk_mutex>>
    /\ Quiet /\ UNCHANGED <<next_disk_id, connected, removed, replaced, send_events, lines, paths>>

SayRelated ==
    /\ monitor = "say related" /\ monitor' = "related" /\ disk_mutex' = TRUE
    /\ TellGone(gone.id)
    /\ Quiet /\ UNCHANGED <<disk_list, next_disk_id, send_events, lines, disk, gone, paths, disk2>>

EndRefresh ==
    /\ monitor = "sweep" /\ disk = NULL
    /\ monitor' = "wait" /\ disk_mutex' = FALSE
    /\ Quiet /\ UNCHANGED <<listVars, send_events, lines, disk, gone, paths, disk2>>

MonitorNext ==
    \/ Begin \/ StartRefresh \/ Mark \/ ReadMounts
    \/ Line \/ SayConnected \/ EndOfFile \/ Stays \/ RemoveLost \/ SayRemoved \/ Collect
    \/ NextPath \/ Unrelated \/ RemoveRelated \/ SayRelated \/ EndRefresh

DiskNext ==
    \/ MonitorNext
    \/ \E path \in UserPaths : DSKAddDevicePath(path)
    \/ \E e \in Entries : DSKLoadDevicePath(e)
    \/ \E refresh \in BOOLEAN : DSKSetRefresh(refresh)
    \/ \E m \in Range(Mounts) : Plug(m)

DiskSpec == DiskInit /\ [][DiskNext]_diskVars /\ WF_diskVars(MonitorNext)

------------------------------------------------------------------------------
(* Properties.                                                             *)

(* No two entries have one path.                                           *)
DiskTypeOK ==
    /\ Len(disk_list) <= MaxDisks
    /\ \A i, j \in DOMAIN disk_list : i # j =>
          disk_list[i].at # disk_list[j].at /\ disk_list[i].path # disk_list[j].path
    /\ next_disk_id \in 0 .. IdSpan - 1 /\ refresh_disk \in BOOLEAN
    /\ disk_mutex = (monitor \in {"sweep", "collect", "related"})
    /\ lines \subseteq DOMAIN Mounts /\ mounted \subseteq Range(Mounts)

(* The loops of the task only ever stand on entries of the list, although  *)
(* each event lets others change it, and the inner loop removes entries    *)
(* that the outer one was going to look at.                                *)
WalksTheList ==
    {disk, disk2} \subseteq Addresses \cup {NULL}

(* Between two refreshes the events agree with the list: a disk that the   *)
(* stack has last been told was removed is not in it, one that was         *)
(* connected is, unless a call replaced its entry, which tells nobody.  IDs*)
(* are shared by the mounts of one device, so that the removal of one takes*)
(* the others with it.                                                     *)
EventsAgree ==
    monitor = "wait" =>
        /\ \A e \in Entries : e.id \notin removed
        /\ \A id \in connected : (\E e \in Entries : e.id = id) \/ id \in replaced

(* When no more is plugged in or out and refreshing is on, the list comes  *)
(* to hold what is mounted, and nothing that is removable and is neither   *)
(* mounted nor on what is.                                                 *)
ListSettles ==
    (<>[]refresh_disk) =>
        <>[](/\ \A m \in mounted : Listed(m.path)
             /\ \A e \in Entries : e.removeable /\ monitor = "wait" =>
                  \E m \in mounted : e.path = m.path \/ (e.dev = "user" /\ SubOf(e.path, m.path)))
=============================================================================
