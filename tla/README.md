# A verification project for the DTVKit platform layer on Amlogic

The repository is the layer between the DTVKit broadcast stack and an Amlogic
chip.  The stack is above and not in the repository: it calls functions that
begin with `STB_`.  Below are the Linux drivers (frontend, demux, descrambler)
and Amlogic's media and conditional access libraries.  What is hard in this
layer is what happens between its threads, the threads of the stack, and the
callbacks of drivers and timers; that is what the modules here are about.

Contents: 1 the system, 2 the modules and the code, 3 the runs, 4 bounds and
fairness, 5 what is proved, 6 where the code and its comments disagree, 7 what
is not modelled, 8 the plan.

To check: `tlc -config X.cfg M` for a run of section 3, `tlapm M.tla` for a
module of section 5.  `PROJECT.json` has the list of the runs, for every
property a mutation of the code that breaks it, the source lines of every
definition, and the hazards that the properties are aimed at.

## 1. The system

### Components

| Component | State it keeps | Operations | Modelled |
|---|---|---|---|
| OS queue `os/src/stbos_queue.c` | ring, two pointers, a count; one pthread mutex, one condition variable | create, read, write (now, timed, for ever) | `OsQueue` |
| OS mutex `stbos_mutex.c` | pthread mutex, owner, count | lock, timed lock, unlock, all recursive | `OsMutex` |
| OS semaphore `stbos_semaphore.c` | a POSIX semaphore | wait, timed wait, signal | the deadline, in `OsDeadline` |
| OS timer `stbos_timer.c` | a POSIX timer | add, restart, delete | as its one user sees it, in `TuneFsm` |
| OS task, event, clock, log | nothing of interest | | no |
| Tuner, DVB and ATSC `hw/src/stbhwtun.c` | `S_TUNER_STATUS` of each path; one task per path; the settings and the thread of a blind scan | start, stop, open, close, type, usage, search mode, take away, give back; scan, end of scan | `TunerTask`, `BlindScan` |
| Tuner, ISDB `stbhwtun_ex.c`, `fsm_base.c` | a queue, a task and a state machine per path; one timer for all | start, stop | `TuneFsm` |
| Descrambler channels `stbhwdmx.c`, lines 560-1080 and 2790-3060 | the table of channels and keys, a reference count per device | allocate, set key, free; key and PID of a track | `DscChannels` |
| Section and text filters `stbhwdmx.c` | PID filters, section filters, the text ring | grab, set up, start, stop, release, change the text PID, read | `SectionMask`, `SectionFilters`, `TextPes`, `Demux` |
| Demux device `linuxdvbdmx_wrapper.c` | a table of file descriptors; one thread | allocate, set, callback, start, stop, free | `DemuxDevice` |
| Demux source and CI routing `stbhwdmx.c`, `stbhwci.c` | source of each path, input of each tuner | set the source, route | `DemuxSource`; not TEMI and the CI signal monitor |
| PVR `stbpvrpr_amlmp.c` | recorders and players, their channels and keys, the memory of the CA system | record, pause, stop, keys; play, speed, stop, decoders | `PvrRecorder`, `PvrPlayer` |
| Audio and video `stbhwav_amlmp.c`, `afd_ctrl.c` | a player per path, what it was told and what it is to be told | start and stop each decoder, switch track, mute, blank, mode, sync from a playback, injection | `AvPath`; not the getters and the screen |
| CA glue `ca_glue_amlmp.c` | handles, sessions, PID lists, the PIN check | acquire, release, start, stop, PMT, record, play, PIN | `CaSessions`; not the smart card and the menus |
| Disks `stbhwdsk.c` | the list of disks; a task that rebuilds it | add, load, refresh, lookups, files | `DiskList`; not the files |
| Network `stbhwnet.c` | Ethernet monitors; a task that calls them | start and stop a monitor, sockets | `EthMonitor`; not the sockets |
| USB CAM `stbhwdemux_usb.c` | a task that looks for the module, two that carry the stream to it and back, their buffers | report of the module; the tasks do the rest | `UsbCam` |
| Tuner framework wrappers, AFC variants | the same interfaces over Java | | planned in part |
| Graphics, configuration, memory, CI, subtitles, media player, XDS, analogue TV, HAL, emulation, cJSON | | | no, see section 7 |

### How they interact

- **Calls from above.**  The stack calls from several threads.  A tuner path
  lets the calls in one after the other (`tstatus->lock`), a demux path has
  `config_mutex`, the descrambler table `dsc->mutex`, the CA glue `g_ca_mutex`,
  the disks `disk_mutex`, the monitors `nw_mutex`.  The question is always what
  happens between two critical sections of one call.
- **Threads of this layer.**  `TunerTask`, `tune_fsm_task`,
  `fend_blindscan_thread`, `dmx_data_thread`, the disk and Ethernet monitors,
  `USB_Media_Task` with its two copying tasks.  They share the state of the calls,
  under other locks (`tstatus->mutex`) or under none (`PidCallback`).
- **Messages.**  The ISDB tuner sends commands and timeouts through `OsQueue`;
  the task also writes to the queue that only it reads.
- **Callbacks.**  The timer of the ISDB tuner expires in a thread of its own;
  the demux thread calls `PidCallback` and `PesCallback` without a lock.  The
  libraries of the media player and of the CA system call `RecEventHandler`,
  `PlayEventHandler` and `cas_event_cb` in threads of their own.  The Ethernet
  task calls the stack with `nw_mutex` in its hands, the disk task lets
  `disk_mutex` go for each event.
- **Shared hardware.**  Tracks of live services and of recorders share
  descrambler channels; PID filters and the text share the filters of a device;
  a CI module is put between the tuner and every path that takes from it.
- **One module over another.**  The player of a path gives way to the one of a
  playback, a playback has a session of the CA glue, a recorder has encryption
  channels in the table of the descramblers, the USB module is fed by one demux
  and feeds another.
- **Polling.**  A stop waits for a task by looking at its state every 30 ms,
  which is not the same as being told.

### What makes each component correct, and what is hard about it

- *Queue*: a bounded FIFO; nobody sleeps while what it waits for is there.
  Hard: readers and writers sleep on one condition variable, messages can be
  taken between the signal and the wake-up, waits time out.
- *Mutex*: one holder; the count is what the holder has to undo.  Hard: the
  owner is read without the lock to find out whether the caller is the owner.
- *Tuners*: a stop returns and leaves the tuner at rest; an attempt to lock
  ends; what is reported is about the signal that was asked for.  Hard: start,
  stop, timers, the frontend and a tuner that is taken away, in any order.
- *Descrambler*: what a user holds works until it frees it; counts are the
  number of users; no key is lost.  Hard: a call is several critical sections,
  and every one of the allocations may fail.
- *Demux*: data reaches who asked for it and nobody else; no filter is lost or
  shared.  Hard: a filter is stopped, released and taken for another PID while
  the thread is in its callback.

- *Blind scan*: the frontend is in scan mode only while there is a thread to take
  it out.  Hard: the thread takes `tstatus->lock` for each step, and the path may
  be stopped, closed and opened in between.
- *Recorders*: whatever way a recording ends, its channels, its player and its
  secure memory are given back, and it is reported as stopped.  Hard: the library
  reports from its own thread while a call destroys the recorder.
- *Players and AV paths*: the player of a path exists while something is decoded,
  and is set as the calls made before and after its creation say.  Hard: four
  flags that each call has to look at, two players that take over from each other.
- *CA glue*: every session has one owner, and what a handle says runs does run.
  Hard: each start has four places to fail; a PMT comes between two halves of a
  recording's start; events come late.
- *Disks*: what the stack was told is what is in the list.  Hard: the list changes
  under both loops of the task each time it sends an event.
- *Ethernet monitors*: nobody is called after his stop has returned, and nobody
  misses a change.  Hard: the recursive lock lets callbacks change the list that
  is being walked.
- *USB module*: the stream goes through unbroken, and only while the module is
  there.  Hard: seven places that can fail while two tasks work, a module that goes
  and comes within a second, routing that another part does.

## 2. The modules and the code

Names are the names of the code.  A definition that has no counterpart
(`change`, `config.do`, `pc`) says where a call is between two of its steps.
`MC*` modules only give values to constants.

**`BoundedFifo`** is what `inc/stbhwos.h` promises of a queue: calls that take
effect once between call and return, or fail without effect.

**`OsQueue`** is `stbos_queue.c`.  A step is the code between two points at
which the mutex is free: `Invoke` (the call), `Block` (the first test fails, wait
on the condition), `Read` and `Write` (with the broadcast), `Timeout`,
`SpuriousWakeup`, `Fail`.  `ImplementsFifo` is `BoundedFifo` with the contents of
the ring, read from `read_ptr`, as its sequence.

**`OsMutex`** is `stbos_mutex.c`, one load or store per step, because
`STB_OSMutexLock` compares `thread_id` before it has anything.

**`OsDeadline`** is the arithmetic of the three timed waits.  It is a module of
its own because the three places carry in three ways.  It has no variables, and
its formulas are proved, not run.

**`TuneFsm`** is `stbhwtun_ex.c` on `fsm_base.c`.  A task takes a message and
moves its machine in one step (`Handle`), except where it can be held up: while
it polls the frontend (`Check`) and when it writes to its own queue
(`SendToSelf`).  `Expire` and `TimerCallback` are apart because the callback runs
in another thread and reads the global message then.  The tables are
`Transitions` and `CheckRows`.

**`TunerTask`** is one path of `stbhwtun.c`: the task's loop with every place
where it takes `tstatus->mutex`, and eleven calls of the API.  The wait of
`TuneStopTuner` is `SeeRest`, a look that may come at any time and need not come
at a good one.  `MonitorOther` is the turn of the monitoring loop that an event of
other parameters ends without a look at the request to stop.  `late` remembers that
a stop found the tuner at rest while a start was still on its way to the task.

**`BlindScan`** extends `TunerTask`.  `Tuner` is a step of the tuner, beside which
the thread of the scan goes through its states: `Turn` is the top of its loop, the
`Scan*` actions are its branches, each of which waits for `tstatus->lock` where
the code takes it.  A frontend that is closed forgets that it was scanning;
one that was told to leave the mode and did not is in it still (`hw_scan = "kept"`).

**`EthMonitor`** extends `OsMutex` with the list of monitors.  `PollLink` is the
read of the link, which is stored before the lock is taken; `FirstMonitor`,
`CallMonitor` and `NextMonitor` are the walk, `Insert` and `Unlink` the two calls
between their `CallLocks` and `CallUnlocks`.

**`DscChannels`** is the table on an SC2.  The three functions that hold the
mutex are one step each; `ApplyKey`, `ClearKey` and `ResetDscChannel` are
sequences of them.

**`SectionMask`** is the arithmetic of section filters: a match and a mask,
`Combined` (the loop of `UpdateSectionFilter` that makes one filter for the
driver out of many), `Matches` (the test in `PidCallback`).

**`DemuxDevice`** is the handle table and the thread of
`linuxdvbdmx_wrapper.c`.  A handle that is given back is only marked
(`need_free`); `Scan` closes it.  `Look` stands for `poll` and the loop over the
descriptors, `ReadSection` for the read and the choice of the callback.

**`SectionFilters`** is the part of `stbhwdmx.c` under `config_mutex`.  A call is
its first step and a list `config.do` of what it still has to ask of the device,
one item per step, because the device's thread comes in between.  A PID filter
has one handler and one count of starts: the code has arrays of eight, of which
`STB_DMXGrabPIDFilter` only ever fills the first.  `PidCallback`
is `CheckHandle`, `TestSect` for each section filter, and `Handler`.

**`TextPes`** is `STB_DMXChangeTextPID`, `PesCallback` and `STB_DMXReadTextPES`
over the ring.  Each call of the device may be refused (`PidRefused`,
`StartRefused`); `lost` remembers the handles that the next change then writes over.

**`Demux`** composes the last four and states their properties.

**`PvrRecorder`** is the recorders' half of `stbpvrpr_amlmp.c`.  A call is split
where the library or its thread can come in between: `Create`, `StartLib` and
`SetStarting` of `STB_PVRRecordStart`, `RecordStop`, `Destroy` and `ReportStop` of
the stop; `ReadStatus` and `TakeStatus` are the two halves of `RecEventHandler`.
The two calls for keys take a channel at a time (`KeyAudio`, `KeyVideo`,
`EncryptAudio`, `EncryptVideo`), as the live service may take one in between; whether
a PID was found (`aid_found`) is part of the caller's place.  What is given back is
every entry of the slot at once (`ChanOf`, `Freed`).
The channels are those of `DscChannels`, here a PID and a count.

**`PvrPlayer`** is the players' half, with the replay session.  `PlayTransition`
and `PlayStarted` are the callback.

**`AvPath`** extends `PvrPlayer` with `stbhwav_amlmp.c`: one action per call, each
with the branch that goes to the playback's player (`Pvr*`), and one for what the
path's own player may refuse.  `Released` is what is left of a player that has no
decoder any more: nothing, or one that the library would not destroy (`kept`).

**`CaSessions`** is `ca_glue_amlmp.c`. `CaList` is what the glue makes of the
descriptors of a PMT, `CaPids` and `FirstEcm` what a handle keeps of it.
`StartAttempt` is the chain of open, register and start with the way back from
each; `PVRRecordStart` and `StartDVRRecord` are the halves of a call without the
mutex; `PinEvent` and `StorePin` those of `cas_event_cb`.

**`DiskList`** is `stbhwdsk.c`.  One step of the task is one entry of the list, or
one line of `/proc/mounts`, or one event with the mutex free.  An entry has an
address (`at`), so that one can say that a pointer is to something freed.
`connected` and `removed` change with the events and with nothing else; `replaced`
remembers the IDs whose entry a call took away without one.

**`DemuxSource`** is the source of the paths.  A call is at the read of the old
source, of the tuner's input, at the comparison of both with what is set, or at the
driver, and a client's call and a routing do these steps side by side.  `overtaken`
are the callers whose decision another has made stale, `astray` the paths that such
a one, or a driver that refused, was the last to set.

**`UsbCam`** extends it with `stbhwdemux_usb.c`.  Streams are numbered chunks, so that
the order in which the module gets them can be checked.  `PollOpen`, `SetDemuxes`,
`CreateRead`, `CreateWrite` are the opening, each with its failures; `PollClose`
and `Joined` the closing; `ReadInfo`, `ReadMedia`, `Inject` one of the tasks,
`WriteInfo`, `RecordFromTsin`, `WriteHeader`, `WriteData` the other.

**`*Proofs`** extend the module they are named after and have its theorems.
`TunerTaskProofs` also has those of `BlindScan`, `OsMutexProofs` those of
`EthMonitor`, `OsQueueProofs` those of `OsDeadline` and `TuneFsm`, `DemuxProofs` those
of the modules that `Demux` composes, `AvPathProofs` those of `PvrPlayer`;
`RecordingProofs` has those of `CaSessions`, `PvrRecorder` and `DiskList`.

## 3. The runs

| Run | Configuration | Shows |
|---|---|---|
| `queue` | `MCOsQueue.cfg` | Two readers, a writer, a ring of two: types, nobody sleeps beside what it waits for (`NoLostWakeup`), the queue implements `BoundedFifo`, and under fairness a reader and a message do not stay together (`BlockedReadIsServed`). |
| `mutex` | `MCEthMonitor.cfg` | The monitors' task, two callers and a thread that nests and times out at will: the count is what the holder has to undo (`CountIsHolds`), the owner is always recognised, nobody is called after his stop has returned (`CalledWhileLive`), nobody in the list misses a change of the link (`NobodyMissesAChange`). |
| `tune_fsm` | `MCTuneFsm_one.cfg` | One path, a client that starts and stops at will, a frontend that locks and loses at will: every state has its wake-up under way (`NeverStranded`); every attempt ends and every stop returns. |
| `tuner_calls` | `MCBlindScan.cfg` | Two clients, all eleven calls at any moment, and a scan: a request to stop never outlives the call that made it, a tuner at rest is left there unless a start was on its way (`RestIsRespected`), the frontend is in scan mode only while there is a thread for it or because it would not leave (`ScanModeHasThread`), a transponder that the scan found is in the list when the callback is told of it (`ResultIsListed`). |
| `tuner_tv` | `MCTunerTask_tv.cfg` | On a television: attempts end whatever the frontend reports (`TuningEnds`), stops return in every state of the task (`StopReturns`). |
| `dsc_channels` | `MCDscChannels.cfg` | Three users on two demuxes, where the open of a device and every allocation may fail: a held channel works (`HeldChannelWorks`), counts are the number of users and every key has exactly one owner (`TableBalanced`). |
| `demux` | `MCDemux.cfg` | A PID filter and the text over two handles and the thread: no handle is shared, and none is lost but by a refused change of the text PID, after which nobody has it and nothing runs on it (`HandlesOwned`), a section counts as one of the PID only if it is (`SectionIsCurrent`), what is asked for is let through and nothing runs for nobody (`CollectsAsAsked`), the ring stays consistent (`RingAgrees`). |
| `pvr_recorder` | `MCPvrRecorder.cfg` | Two recorders and a live service over three channels, a library that may fail and reports in its own thread: a recorder at rest has stopped and was reported so (`RestIsStopped`), what was taken is known to somebody who will give it back (`TakenIsKnown`): if the library makes the recorder of a protected recording, encryption keys come when it runs, and audio PIDs are above 255. |
| `av_playback` | `MCAvPath_playback.cfg` | A path and a playback that take over from each other: the playback owns its player and its session (`PlaybackOwns`), the PIDs a path remembers are those that are decoded (`DecodesRemembered`), the player is as the calls want it, whenever it was created (`PlayerAsSet`), and goes with the last decoder unless the library will not destroy it (`LastTakesPlayer`). |
| `ca_sessions` | `MCCaSessions.cfg` | A live service, a recording and playback, each step of a start failing: sessions have one owner (`SessionsOwned`), what counts as descrambled or recorded is, but for a service whose stop could halt its session and not close it (`SaysWhatRuns`), no event of one playback is left to the next (`PinOfThisPlayback`). |
| `disks` | `MCDiskList.cfg` | A stick with two partitions, a system disk and two directories that the stack adds: the task only stands on entries of the list (`WalksTheList`), events and list agree but for an entry that a call replaced and told nobody of (`EventsAgree`), and when nothing changes any more the list is what is mounted (`ListSettles`). |
| `usb_cam` | `MCUsbCam.cfg` | A module that comes, goes and comes back at any moment, routed through and past while calls are under way, where each of the eight things that may fail does: the tasks keep to their buffers (`BuffersFit`), to the order of the stream (`KeptInOrder`) and to what is allocated (`LiveWhileUsed`); at rest the paths take what the route says, but those last set by a caller that was overtaken or refused (`ThroughTheCam`); a module that stays is served for good, unless one of the tasks ended at a failure of its own or the module had been away unseen (`MediaServed`). |

Type invariants are in the modules as `TypeOK`.  That of `OsQueue` is proved and
part of its run; those of the others are not in a run.

`SectionIsCurrent` says as much as the code gives: once `PidCallback` has compared
the handle, a release and a new grab may put another handler into `func_ptr`, and
that one is then called with the section of the old PID if the filter has
another handle by then, or none.  The property covers the case in which the handle
is the same, which is the one that the delayed closing is there for.

## 4. Bounds and fairness

| Run | Bounds | Why they are enough |
|---|---|---|
| `queue` | 2 readers, 1 writer, 2 messages, 2 elements | Both kinds of thread sleep together, the ring wraps and fills, a message is stolen between signal and wake-up.  The safety part is proved for all values. |
| `mutex` | the task, 2 callers, 1 other thread, 3 monitors, `MaxHolds` 2 | A monitor before, at and after the one that is called; a callback nests once.  All four properties are proved for all values. |
| `tune_fsm` | 1 path, 3 calls, queue of 4, `MaxPolls` 2, `MaxCallbacks` 1 | Start, stop and start meet in every state; two polls are one that goes on and one that runs out of time; a callback in flight while the timer is set anew. |
| `tuner_calls` | 2 clients, 2 frequencies, 4 calls of which a scan counts three, `WaitLock` 1, a list of 1 | A call meets a scan, or four each other: two starts leave the second signal that a stop is too early for.  The list is full after one.  All four properties are proved for all values. |
| `tuner_tv` | 1 client, 4 calls of all eleven, `WaitLock` 2, `Useless` 1, `LostTimes` 1 | Start, stop, start and one more; the counters need "not yet" and "reached". |
| `dsc_channels` | 3 users, 2 devices, 2 channels, 2 entries, 5 keys, 6 calls | Two users share and a third is on the other device; the table fills; five keys let the sixth allocation of a slot fail.  Both properties are proved for all values. |
| `demux` | 1 PID filter with 1 section filter, 2 handles, 2 PIDs, 1 bit, 2 starts, ring of 3, lengths of 2 | Reuse of a handle needs two PIDs and a filter that comes back; the second handle lets the text compete; a length that does not divide the ring makes it wrap in the middle.  How several section filters combine is arithmetic and proved in `DemuxProofs`.  All four safety properties are proved for all values. |
| `pvr_recorder` | 2 recorders, 3 channels, 1 audio and 1 video PID, 5 calls | Both recorders and the live service want the same PIDs; three channels let the fourth be refused; five calls are a recording with both kinds of keys up to its stop, with one kind up to its release, or the starts of two.  The proofs have no such bound. |
| `av_playback` | 1 pair of decoders, one of sound, picture and playback varied at a time | The flags of sound and of picture are read and written by different calls; each group meets the playback.  All four properties are proved, for any number of paths and decoders but for the session of a playback. |
| `ca_sessions` | 1 live handle, 1 for recording, playback, 4 sessions, 9 calls | Three sessions are in use and the fourth replaces one; nine calls are a start that fails, a start, a PMT and the stops.  Four PMTs: a descriptor of the service after one of an unsupported system, no stream, one of a stream after one too short, none.  All three properties are proved for all values. |
| `disks` | 3 mounts, two of them one stick, a directory of the stack and the default one, 3 calls, 2 changes, 5 entries | Two entries share an ID; a directory is on the stick or not; something comes and goes during one refresh; three calls are the addition of a directory, its load, and its addition again when it is gone. |
| `usb_cam` | 1 path, 1 tuner, 3 events, which are calls, routings, arrivals of a module and failures; blocks of 2, buffers of 2 and 4, records of 2, packets of 1 and 2 | A module that comes back needs two arrivals and finds what the first or its failure has left; a route, a call and a second route or a failure overlap.  The proportions of the code's buffers (1, 10, 100, 120 blocks) are an assumption, under which all four safety properties are proved, for all sizes and any number of events. |

`Max*` and the bounds above are those of the models, not of the code.  Where they
let a run come to its end, or a module may simply stay away, the configuration
has `CHECK_DEADLOCK FALSE`.

**Assumptions about callers and libraries.**  The calls that the stack makes are
free but for these.

- `Patient` (`TunerTask`): no call while a start has yet to reach the task.
  `tuner_tv` needs it: the second signal of two starts can keep a stop from
  returning.  `tuner_calls` and the proofs do without.
- `StopFirst` (`TuneFsm`): a client stops before it starts anew.
- `Demux`: a filter is set up before it is started, and released only when one stop
  is enough; the code logs an error in the first case and leaves the device
  running in the second.
- `BlindScan`: each scan is ended by one call of `STB_Tune_BlindExit`.
- `EthMonitor`: a monitor is started and stopped once; its own callback does not
  stop it (`StopsOwn = FALSE`).  The task is not one of the threads that call, but
  its callbacks do.  `Others` are threads that this file does not have; they make
  the lock busier than it is.
- `PvrRecorder`: the PIDs of descrambled tracks are above 255 (the code keeps eight
  bits of them); keys come any number of times, and encryption keys only when the recorder runs
  (`EncryptsFirst = FALSE`); a recorder that cannot be made is one of an
  unprotected recording.
- `AvPath`: calls for a pair come one after the other with the path's lock held;
  live decoding is stopped before a playback begins, and a path whose player the
  library would not destroy is neither released nor given to a playback; the
  streams of a playback are taken and its decoders and those of a path are stopped
  when told (`"streams"` and `"stop"` are not among what fails in the run); the track is switched only
  while video is decoded too (`SwitchesRadio = FALSE`, of the run only).  The
  numbers of decoders are numbers of paths, as in the tables of the products.
- `CaSessions`: the library's close waits for the callback of the session; no PMT
  comes during the walk of the PID list in the half of a recording's start that is
  without the mutex (`ca_glue_amlmp.c:2137-2149`), which is one step; a close whose
  result the code does not look at works; a recording whose start failed is not started again (`Retries = FALSE`); handles
  of live services and of recordings are different ones.
- `DiskList`: the stack loads a disk after it was told of it; `CalmAdds`: no call
  replaces an entry during a refresh.
- `UsbCam`: who chooses a tuner while the stream goes through the USB module says
  `DMX_CAPS_USBCAM`, and nobody else says so.

Section 6 says what happens when some of these do not hold.

**Fairness.**  `OsQueue`: a thread that can have the mutex gets it; critical
sections are short.  Nothing obliges a wait to time out or a thread to call.
`TuneFsm`: the tasks, the timer, its callback and a client inside a call are
weakly fair, which the scheduler and the kernel's timer give; the frontend has
none, so an attempt must end whatever it does.  `TunerTask`: the same for the
task and for clients inside a call; weak fairness of the stopping client says
that it looks again, not that it looks while the state is `TUNER_IDLE`.  Of the
frontend one thing is asked, as strong fairness of `Monitor`: while the tuner is
locked it does not have an event of other parameters ready at each poll for ever.
The code leaves the monitoring loop at such an event before it looks at the request
to stop (`stbhwtun.c:3297`) and comes back to it, so that under a frontend that
never ends to report another frequency a stop would not return.
`DiskList`: the task goes on.  `UsbCam`: its three tasks go on; no fairness of
the module, of the report of it, or of calls.
`StopReturns` of `tune_fsm` holds while the messages under way are fewer than the
queue has entries: the task writes to its own queue without a timeout and would
wait for itself on a full one (`stbhwtun_ex.c:701`; the queue has 20 entries).
The other modules are checked for safety alone.

## 5. What is proved

All proofs hold for every value of the constants that the named assumptions of
the modules allow.

- **`OsQueueProofs`**.  `TypeCorrect`, then `RingTheorem` (`write_ptr` is
  `elem_count` places after `read_ptr`), then `NoLostWakeupTheorem`.  For the last
  one the invariant is inductive once types are known: a sleeper that could
  proceed has been woken, because every change of the count broadcasts.
  `QueueIsFifo` is the refinement: `CallInv` ties what a thread is doing to the
  call it made, and `ReadTakes` and `WritePuts` say that the ring, read as a
  sequence, loses its head and gains a last element; the lemmas on `Slot` do the
  arithmetic modulo the size.
  On `TuneFsm`: `StoppingEndsTheorem`, for any number of paths and clients, from
  `FsmInv`: where the task of a path may be in each state (`PathOk`), and whether its
  queue holds one `STOPPED` or none.  `NeverStrandedTheorem` for one path, from
  `WakeInv`: a timer that exists is that of the present state, and a state that waits
  has the timer, an expiry, its event or a verdict; the task that looks at the
  frontend needs the timer still there, or `RestartTimer` would do nothing.  The
  hypothesis `Paths = {p}` is the first finding of the tuner in section 6: with two
  paths the code does strand one.
- **`OsMutexProofs`**.  `MutualExclusion` is not inductive: one has to know what
  `thread_id` may be while its owner is inside Lock or Unlock.  `OwnerInv` says it
  for each place of the program; `LockIsExclusive`, `CountCorrect`, `OwnerKnown`
  and `HandOver` follow.  Every step of the monitors is one of the lock
  (`LocksAsOsMutex`), so that the same holds under them.
  `NobodyMissesAChangeTheorem` needs whom the task has already passed: those in the
  list before the monitor it is at (`ToldInv`), and those that a start has put at
  its head meanwhile, which know the link from the start.
  `CalledWhileLiveTheorem` rests on who has the lock in the walk (`WalkLocked`), on
  one call per monitor (`CallInv`), on memory from the start to the return of the
  stop (`ListInv`), and on the task staying in the list (`WalkInv`), which holds as
  no callback stops its own monitor.  Two lemmas on sequences, `Inserted` and
  `Removed`, say what a call does to the list.
- **`TunerTaskProofs`**.  `StopHasOwnerTheorem`, for any number of clients, calls and
  polls.  `StopHasOwner` is not inductive: with a second client between taking
  the lock and its stop it could be lost.  `OwnerInv` adds that whoever is past
  `tstatus->lock` has it (`HoldersLock`), and the types of `client`.  Three lemmas
  say what may be done to the request (the task only takes it back, a call that
  returns had none, a move keeps it with the holder of the lock), and each action
  is one of the three.  It assumes that `NoClient` is no client and that the calls
  are those of `AllOps`.  `RestIsRespectedTheorem` has no other hypothesis: it
  holds for any number of clients and of calls, on a television or not, with second
  signals and with a close under a start.  `RestInv` says when the tuner is `Due` to
  be quiet: after a stop, while it is taken away, and from the moment on when a stop
  saw it rest, unless a start was `late`; and that it is `Quiet` then: at rest, with no
  start on its way.  The task leaves a quiet tuner quiet (`TaskKeepsRest`), and a call
  that is not a stop ends what was due.
  `StopHasOwnerInScan` carries it over to `BlindScan`, whose
  thread goes by the same lemmas.  `ScanModeHasThreadTheorem` needs where the
  thread is (`ModeInv`): in scan mode it has not decided to leave, unless the driver
  refused to end the mode.  `ResultIsListedTheorem` needs that a transponder is
  stored before the turn of the loop that tells of it (`ListInv`), and is an argument
  about `Append` to a list; it says nothing of the starts that report a lock, of which
  the callback is told as well and which are in no list (section 6).
- **`DscChannelsProofs`**.  `HeldChannelWorksTheorem` and `TableBalancedTheorem`, for
  any users, devices, slots, channels and keys.  What is allocated, keyed and
  freed in several critical sections is one invariant, `DscInv`: no channel is in
  two slots (`TableInv`), what a user holds is in a slot for its PID and device
  (`HeldInv`), a count is the cardinality of the holders, a key is named by one
  slot and kind.  That a device is open while a slot needs it is not inductive:
  the close is decided by `dsc_ref`, which is *at least* the number of slots of the
  device (`DeviceInv`; a shared channel that is freed leaves it too high, section
  6).  It assumes finitely many users and slots, since the counts are
  cardinalities.
- **`RecordingProofs`**, of the CA glue.  `SessionsOwnedTheorem`, for any handles, sessions, PMTs and
  refusals.  A start must know that the number it gets was never given out
  (`LaterClosed`), that the handle has no session yet (`HandleAgrees`), and that no
  two handles share one (`NotShared`); a handle with CA must have an entry to store
  a session in, which is where the descriptors of the PMTs come in.  The lemmas are
  one per way a session changes: opened, closed, started.  It assumes that no
  handle is both for a live service and for a recording.  `SaysWhatRunsTheorem`
  adds what a handle knows of a recording between its two halves (`SaysInv`); each
  step touches one handle and one session (`HandleStepTouches`), and sessions are
  not shared, so the others keep what they say.  A close that was refused leaves a session
  that no longer works for a handle that still counts as descrambled; it is then
  the only one that may.  `~Retries` is the finding of section 6.  `PinOfThisPlaybackTheorem` needs that an event under way
  is of the open playback (`PinInv`).
  Of the recorders: `RestIsStoppedTheorem`, for any recorders and channels and
  whatever the library may fail to do.  It is not inductive: a status that the
  library's thread has read may be put into `rec_state` only while the recorder is
  there.  `RecAgrees` says for each place of a caller what the library has, that
  there is no event without a recorder, and that one that does not run was
  reported as stopped.  `SecmemsTheorem` is the half of `TakenIsKnown` about secure
  buffers: there is none but while its recorder is being made or runs, and only
  for a protected recording (`SecmemAgrees`).  Each call is a new slot, place and
  so on of one recorder (`Becomes`, `RecorderGoes`), the keys and channels are
  fields that neither fact looks at (`OnlyTheSlot`).
  `TakenIsKnownTheorem` joins it with `ChannelsTheorem`: the count of a channel is the
  cardinality of the entries that hold it (`Balanced`), over all recorders, both uses
  and all tracks.  An entry that takes a channel had none (`BalancedTakes`), and what
  is given back is all that one recorder holds for one use (`BalancedGivesBack`).  It
  is not inductive: the code gives encryption channels back on a demux that a
  release has just forgotten.  `KeySlotAgrees` says why there are none left then:
  they are only taken while the recorder is there, and it went with a stop that gave
  them back, or before its library was at work.  The other hypothesis, audio PIDs
  above 255, makes the search for a PID in a list of bytes find nothing.

  Of the disks: `WalksTheListTheorem`, for any mounts and directories and any
  relation of sub-directories.  `WalkInv` is that addresses and paths differ from
  entry to entry, that the pointers are entries or `NULL`, and that they are `NULL`
  outside their loops.  What the inner loop removes is an entry that the outer one
  does not stand on, since it moves on first (`FirstLoop`); what is added keeps the
  addresses there are (`PutIn`), and there is an address for it, because an entry
  has one of finitely many paths (`RoomForOne`, which counts).

  `EventsAgreeTheorem` is about what the stack was told: only an event changes
  `connected`, and an entry that a call replaces leaves it as it was.  It needs to know
  why an entry that still bears an ID that was
  said to be removed will not bear it for long (`EventsInv`, on top of `WalkInv`).
  Such an entry is of a device mounted several times, and it waits: while the paths
  are not collected it is found by its ID, then by a path still to come, and for the
  path at hand by lying ahead of `disk2` (`Waits`).  That needs in turn that the paths
  are with each mount of a device all of them (`TogetherInv`), that nothing the inner
  loop is past goes with the path at hand (`SeenInv`), and that an ID of the counter
  is on one entry only (`IdsOk`).  The collected paths are pairs of a place and a
  path, as the list of the code is one that may be walked only forwards.
- **`DemuxProofs`**.  `WideTheorem`: the driver's filter never holds back a section
  that one of the section filters accepts.  `OneFilterIsExact`: with one filter it
  is that filter.  `RingInBuffer` and `RingTheorem`, for every buffer size and
  every length.  `StepsOfRing` reduces the whole next-state relation to the three
  actions that touch the ring.  The two facts need each other: without the
  agreement of pointers and count, "room" after a wrap is not bounded.

  `OwnedTheorem`, `CurrentTheorem` and `CollectsTheorem` share one invariant,
  `DemuxInv`, because none of them holds by itself.  A call of `stbhwdmx.c` is a list
  of steps still to be made (`config.do`, and `change` for the text), and what a PID
  filter and its entry in the device look like depends on what is left of it:
  `SlotOk` and `EntryOk` say so for every rest of a list, `TextOk` and `TextEntryOk` for
  the text.  Thus a list that begins with an allocation means that there is no
  handle yet, and only between a change of a section filter and the `Update` that
  follows may the driver's filter be behind.  `OwnersInv` says whose a handle is, or that the text has lost it;
  `ThreadInv` that a handle whose data the thread has in hand stays in use until the
  thread's next round, given back or not, and so cannot be given out for another
  PID: that is `SectionIsCurrent`.  `SlotGoes`, `TextGoes` and `ThreadGoes` reduce an
  action to what it changes; there is one lemma per action and one per call of the
  device.  `CollectsTheorem` takes the arithmetic of the masks from `WideTheorem`.  The
  only hypotheses are the assumptions on the constants.
- **`UsbCamProofs`**.  `BuffersNeverOverflow`: for buffers of any sizes in the
  proportions of the code (`Fill + Poll <= BuffSize`, `Media <= Fill`), whatever the
  drivers return.  The write task does not test its room, so one has to know how
  much can be left when it comes back to record: nothing beyond the first fill
  before it began, at most a block after (`BufferInv`).  This ends when
  `thread_running` is taken back, but then it does not record any more.
  `NothingFreedInUse`: `HeldInv` ties the place of `USB_Media_Task` to what is held and
  to which tasks are there; memory is freed where both have ended or neither exists,
  or where the second could not be created, and then the first is `left_behind`: the
  code frees under it, and what it goes on to do is `StrayRead` (section 6).
  `KeptInOrderTheorem`: what is in the buffer are the chunks between the last one
  written and the next one recorded (`OrderInv`), modulo the span of the numbers,
  and a block is only written when there is more than one.  `ThroughTheCamTheorem`
  holds for calls and routings that overlap in any way, at any time, with drivers that
  refuse.  `SourceInv` says that the inputs of all tuners go through the module or none
  (`Inputs`), that the capability of a call fits them (`CallsFit`) and that a path at
  which no call is follows the route (`Follows`), for every caller that was not
  overtaken and every path that is not astray.  `RecordsTuner` says that the recording
  demux has the tuner's own input unless the source was asked for when the route had
  already taken that away (`misfed`).  The three ghosts name the orders in which
  section 6 finds the code wrong, and the theorem says that there are no others.
- **`AvPathProofs`**.  Most of it shows that each call is one of three kinds of step:
  of a path and its player (`PathMoves`), of a slot and the playback's player
  (`PlayMoves`), or a blanking of all paths of a decoder; what a kind keeps is said
  once (`Goes`, `PlayGoes`).  `StateHasPlayerTheorem` and the fact that a path's
  player gives way to a playback are inductive with the types (`BaseInv`).
  `PlaybackOwnsTheorem` adds where a secure buffer may be (`SecureInv`).
  `PlayerAsSet` is not inductive: the start of video only adds to `hidden` and
  `surface`, so these must not be ahead of the path while there is no video
  (`SetInv`).  `DecodesRememberedTheorem` and `LastTakesPlayerTheorem` follow from
  `BaseInv`.

Hypotheses, where a theorem has any, are named in it, and each leaves the system
most of what it does:

- `~StopsOwn` (`CalledWhileLiveTheorem`), `~Retries` (`SaysWhatRunsTheorem`): what
  section 6 reports, and nothing else;
- `SecmemsTheorem`: the library makes the recorder of a protected recording
  (`"create smp" \notin StartFails`); `WalksTheListTheorem`: `CalmAdds`.  Both are
  in section 6, among the smaller ones;
- `TakenIsKnownTheorem`: the same of the library; encryption keys for a recorder that
  is there (`~EncryptsFirst`) and audio PIDs above 255.  All three are reported in
  section 6, and the run satisfies them;
- `EventsAgreeTheorem`: `CalmAdds`; numbers of devices are not of the counter's range
  (`NumbersApart`: `(major << 8) + minor` with a major of at least one); a
  device mounted below a path that goes has all its mounts there (`NestedTogether`);
  and the counter does not wrap, which is said of the behaviour.  The last two are
  in section 6; the mounts of the run satisfy the first three;
- `PlaybackOwnsTheorem`: one pair of decoders, because the stop of a second player
  closes the one session of the CA glue under the first; and the library makes the
  player of a protected playback (`"create smp" \notin PlayFails`), because the
  secure buffer of one that failed stays in its slot;
- `DecodesRememberedTheorem`, `LastTakesPlayerTheorem`: the library stops what it is
  told to stop; the first also, that it takes the streams of a playback.  It may
  refuse all the rest, the end of a player included.
  `PlayerAsSetTheorem` and `StateHasPlayerTheorem` have no hypothesis.

`ChannelsTheorem`, `LockIsExclusive`, `HandOver`, `RingInBuffer`, `DeadlinesExact` and the theorems
on section masks and on the ring of the queue state what no run lists any more.

**Only model-checked**: of `DiskList` `ListSettles`; of `TunerTask`,
`TuneFsm`, `UsbCam` and `OsQueue` the liveness.  Liveness and `ENABLED` are out of the
prover's reach.  Every invariant and every action property of the runs is proved,
those with hypotheses under these.

## 6. Where the code and its comments disagree

With a counterexample of TLC when the configuration, the constant or the stronger
property named here is used; none of them is in the list of runs.

- **A second that is not carried** (proved, `QueueRefusedOnce`).  `CalcAbstime`
  carries when the sum is *more* than 10^9 (`stbos_queue.c:334`), although it says
  "make it less than one" (336); at exactly 10^9 the wait is refused and the call
  fails at once.
- **One timer for all paths** (`MCTuneFsm_two.cfg`).  A second path that starts
  takes it away from the first, which then waits for ever (`stbhwtun_ex.c:728`).
- **Start, stop, start** (`MCTuneFsm_lockedfor.cfg`).  The stop sees `IDLE` while
  the first start is in the queue, returns, and its message makes the machine drop
  the second start; `LOCKED` is then reported for the first signal
  (`stbhwtun_ex.c:223`, `stbhwtun.c:648`).
- **A signal too many** (`MCTunerTask_token.cfg`).  Two starts in a row leave a
  second signal in `tune_sem` (`stbhwtun.c:814`).  The task takes it up just after
  it answered a stop, and the stop misses `TUNER_IDLE` and waits with the lock in
  its hands (873).  If it does not miss it, it returns, and the tuner then tunes:
  `RestIsRespected` without its `late` is violated in `tuner_calls`.
- **A key that nobody sets** (`MCDscChannels_shared.cfg`).  With two users on a
  channel `STB_DMXSetKey` does nothing (`stbhwdmx.c:906`), also for the first key,
  and every call returns TRUE (2797).
- **A radio that is not switched** (`MCAvPath_switch.cfg`).
  `STB_AVSwitchAudioTrack` goes on with the handle it took before the stop
  (`stbhwav_amlmp.c:1975-2050`); when only audio was decoded the stop has destroyed
  that player.
- **A monitor that stops itself** (`MCEthMonitor.cfg` with `StopsOwn = TRUE`).  The
  task reads `next` of what the callback has freed (`stbhwnet.c:1573`).
- **A retry that says yes** (`ca_sessions` with `Retries = TRUE`).  A recording
  whose start failed keeps its session; the next start finds it and returns 0
  although nothing is recorded (`ca_glue_amlmp.c:2099`).
- **The USB module** (`usb_cam`, each found when the property is stated without the
  excuse named here).  Routed before it is opened, its recording demux is given the
  module's own output (`stbhwdemux_usb.c:559`; `misfed`).  When the second task cannot
  be created, the buffers of the first are freed while it runs (637; `left_behind`).
  Taken out and put back within a second, it stays with two tasks that have ended
  and a status that says open (178; `Overlooked`).  One write or read that fails ends
  its task for good with the module still there (437; `GivenUp`).  With routing and a
  client's call at the same time, a path is left on a source that nobody chose
  (`stbhwdmx.c:2330`; `overtaken`, `astray`).

Seen in the code and in the models:

- a start that arrives in `TUNING` is answered by no row of the table and lost;
- a stop that comes between a start and the task's first look at it sees a tuner
  at rest and returns, and the tuner then tunes; so does an idle frontend that the
  task decided to close before it had the lock (`stbhwtun.c:3255`) and closes under a
  start that came in between;
- the monitoring loop of `TunerTask` is left at an event of other parameters without a
  look at the request to stop (`stbhwtun.c:3297-3300`);
- a blind scan whose end the driver refuses leaves the frontend in scan mode without
  a thread; the error is logged (`stbhwtun.c:3934-3939`);
- `wait_lock_timeout` is set for automatic symbol rates and not used;
- a blind scan whose start event says it is locked tells the callback of a
  transponder that is in no list (`stbhwtun.c:3868-3878`); `bs_setting` is cleared
  without the lock;
- `dsc_ref` is not lowered when a shared channel is freed, so that a device stays
  open; a failed `CA_ALLOC` is remembered as a channel (`stbhwdmx.c:651`); with a
  full table the channel just allocated is lost (674);
- `PidCallback` tests `func_ptr` and reads it again, without the mutex, although the
  release says it waits until nothing else is using the configuration;
- a change of the text PID whose device call is refused keeps the handle with the
  text not started (`stbhwdmx.c:1432-1462`), and the next change allocates another and
  writes it over the first (1412), which nobody can free any more;
- data of an old text PID can enter the ring after it was cleared for a new one
  (`stbhwdmx.c:3398`);
- a start of a PID filter that failed has been counted (1889); `empty_mask` is set
  and never cleared while the PID filter is held;
- `STB_PVRReleaseRecorderIndex` makes `rec_demux` invalid before it frees the
  encryption channels with it; the PIDs of descrambled tracks are kept in eight
  bits (`stbpvrpr_amlmp.c:1191`, 1288);
- new PIDs are stored when `updatePlayback` fails, and the same call again does
  nothing (`stbpvrpr_amlmp.c:3062`);
- the secure buffer of a playback whose player cannot be created stays in its slot,
  and the next start puts another in its place (`stbpvrpr_amlmp.c:3353`, 3380); so
  does that of a protected recording (1757), of which the next start makes another;
- a playback whose streams, limit or start the library refuses keeps a player with
  nothing to play and is said to be starting (`stbpvrpr_amlmp.c:3450-3456`); a path's
  player that the library will not destroy stays, with its decoders off and the
  window and blanking it had (`stbhwav_amlmp.c:4655-4658`);
- a stop of a descrambling session that works and whose close does not leaves the
  service counted as descrambled while nothing runs (`ca_glue_amlmp.c:980-985`);
- a stop of one player closes the session of another: `STB_CAPVRPlayStop` closes
  `g_pvrplay_session`, of which there is one (`ca_glue_amlmp.c:2046`);
- mute is not looked at on the way from a mode that only caches back to normal
  (`stbhwav_amlmp.c:4025`); `STB_AVGetLockByPath` takes the lock by the number of
  the decoder (4134); `STB_AVStartADDecoding` indexes the formats by decoder;
- a PMT without CA empties the list whose first entry the recording reads
  (`ca_glue_amlmp.c:2135`);
- disk IDs have eight bits and are not looked up in the list (`stbhwdsk.c:104`), so
  that the 256th gives one out twice.  A mount below a path that goes is removed
  alone: the other mounts of its own device are not collected (1733), so the stack
  is told that a device is gone which is still in the list.  A
  directory that is added again and does not open is replaced (1385) and the stack,
  which was told that the old one is there, is not told that it went; the same also
  when the task has let the mutex go for an event and is to look at that entry next;
- the mark of a new stream is lost if the first header of the USB module is not
  written (`stbhwdemux_usb.c:426`);
  `STB_DMXRouteTS` sets every path to tuner 0 and passes the old parameter as its
  capability (`stbhwdmx.c:2338`), and reads twice whether there is a module.

## 7. What is not modelled, and why

Of the modelled components:

- `STB_OSDestroyQueue`, the deletion of a mutex in use and `DMX_Close`: nothing
  calls them; the last one would wait for a thread that waits for its lock;
- of the tuner the parameters (all are "the frequency"), LNB, DiSEqC, the ADC that
  the paths share (`stbhwtun.c:2671`), and signal quality;
- of the demux one product's move of the NIT (`STB_GetCustomCFGForA_A_1`), TEMI, and
  a driver that refuses what a PID filter asks of it; what the text asks may be
  refused.  `poll` is part of `Look`,
  `text_started` is read as part of the read of the ring, `func_ptr` is read once;
- of the descrambler the fixed table of the older chips and a path that plays from
  memory (`stbhwdmx.c:1316`); each track has one caller and one transport stream;
- of the recorders a change of the recorded PIDs and the values of the keys, of the
  players position, seeking and the library's own states;
- of audio and video the getters, the screen, codecs and formats; of the CA glue the
  smart card, the menus and the private data of the descriptors; of the disks the file calls; of
  the network the sockets; of the CI support all but the route.  `ci_signal_entry`
  is never created;
- of the demux sources the node `tsn_source` and writing to a demux from memory,
  and the chips before SC2.

Not planned: graphics, configuration, memory, CI keys, subtitles, media player,
crypto, upgrade and the like are single calls of a library or of the C library, or
pure data; cJSON is a copy of a library; the emulation replaces the hardware in
tests.

## 8. The plan

Done in this order: OS primitives, because everything rests on them; the two
tuners, the layer's most intricate control; the descrambler table; the demux; then
recorders, players, AV paths, CA sessions, disks, monitors, the blind scan and the
USB module with its routes.  Next:

1. a change of the recorded PIDs in `PvrRecorder`, whose streams are then a list;
2. the composition of `PvrRecorder` with `DscChannels`: one table under both;
3. **`WrapperFrontend`**, the tuner framework's clients, whose lock, scan and
   preemption callbacks run against start and stop; the AFC variants, where their
   control differs;
4. an abstract specification of a counted resource, which `AvPath`, the devices of
   `DscChannels` and the PID filters implement.

Runs: one passing run per module or composition, up to a few million states.

Theorems, next: those of these compositions, and the refinement of the counted
resource by each of the three.
