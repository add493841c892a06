# Verification of the Ex-Alta 2 on-board computer software

TLA+ models, model-checking runs and machine-checked proofs for the flight
software of the Ex-Alta 2 satellite: FreeRTOS tasks in C that serve ground
requests over CSP and keep their data on a transactional file system (Reliance
Edge).

Contents:

1. [The system](#1-the-system)
2. [The modules](#2-the-modules)
3. [The command scheduler](#3-the-command-scheduler)
4. [Housekeeping](#4-housekeeping)
5. [File transfer and the S-band sender](#5-file-transfer-and-the-s-band-sender)
6. [Northern Voices](#6-northern-voices)
7. [XMODEM](#7-xmodem)
8. [The logger](#8-the-logger)
9. [LEOP and the boot information](#9-leop-and-the-boot-information)
10. [What the checks found](#10-what-the-checks-found)
11. [What is proved](#11-what-is-proved)
12. [What is only model-checked](#12-what-is-only-model-checked)
13. [What is not modelled](#13-what-is-not-modelled)
14. [Plan](#14-plan)
15. [Running it](#15-running-it)

## 1. The system

A *service* is a task that accepts CSP connections, reads a request, acts on it
and replies. A *daemon* is a task with its own loop. Tasks share static
variables, FreeRTOS mutexes and queues, and files. The kernel is preemptive;
services and most daemons have the same priority and are time-sliced, the
scheduler daemon, the logger, the diagnostic daemons, the S-band sender and the
watchdog outrank them (`src/main/system.h`). A failed assertion spins for ever at the priority of the
task that failed (`src/main/main.c`, `vAssertCalled`). A reset (watchdog, ground
request) loses everything but the files, and of those what follows the last
transaction point; `red_close`, `red_open` of a new file, `red_unlink` and
`red_transact` make one **for the whole volume**, so any task can commit another
task's half-written file.

| Component | State it keeps | Operations | Shares or calls | What is hard | What makes it correct |
|---|---|---|---|---|---|
| **Command scheduler** (`scheduler.c`, `scheduler_task.c`) | `ScheduleFile`, `SchedLock`, notification queue | upload, delete, read the schedule; wait, send, retire a command | any service, by CSP, its own included | two tasks and a file, waits with the mutex held, resets in half an update, 32-bit waits | each command sent once, in order, not early, not late; the file sorted and durable; nobody blocked for good |
| **Housekeeping** (`housekeeping_service.c`, `housekeeping_task.c`) | circular record file, configuration file, `timestamps`, `current_file`, `MAX_FILES` | store a record, resize, page backwards, search by time | collects from every device | pages sent without the mutex, memory freed and used again, resets between two files | no record lost but the oldest, pages in order, the search finds what is stored |
| **File transfer** (`ftp.c`) | one static upload record with its descriptor | start, packet, finish; burst download | S-band sender queue | lost or repeated packets, errors that leave a closed descriptor in use | each block written once at its place, descriptors released |
| **S-band sender** (`sband_sender.c`) | queue of buffers, transmitter state | enqueue, send | file transfer | a full queue, buffer ownership | every buffer sent and freed once |
| **Logger** (`logger.c`, `logger_service.c`) | queue of ten messages, log file, its size | log, rotate, change the maximum | everyone | message loss, rotation, the size after a reset | the file within its limit, nothing overwritten |
| **Northern Voices** (`northern_voices.c`) | `ctx`, `ctx_mtx`, `enabled` | start, stop; transmit loop | radio, file system | the mutex kept on an error return | the mutex is always released, a stop stops |
| **LEOP and EEPROM** (`leop.c`, `eeprom.c`, `bl_eeprom.c`) | deployment flag, boot information | deploy once, read, erase and program | general service, diagnostics | resets between two steps | deployment at least once and remembered, boot information never lost |
| Diagnostics (`diagnostic.c`) | counters of one subsystem each | ping, power cycle | EPS | power that comes back late | a subsystem is never left off |
| DFGM (`dfgm_handler.c`, `dfgm_service.c`) | run flags, sample buffers | start, stop, receive, filter | file system | flags without a mutex | a run ends, files are closed |
| **Northern SPIRIT** (`ns_*.c`, `xmodem.c`) | byte queue, UART mutex | commands, file upload by XMODEM | serial line | lost and repeated packets, 8-bit counters | the payload receives the file, the sender ends |
| Time (`rtc_daemon.c`, `rtcmk.c`) | cached clock | set, tick, correct | everyone | correction against interrupt | the clock never jumps backwards unasked |
| Beacon, general, communication, command line, ADCS, Iris, Charon, Hyperion, EPS, drivers, cryptography, start-up | next to none | request and reply | a device each | little beyond device errors | marshalling |

Parts in bold are modelled, at least in what is hard about them.
`PROJECT.json` lists these parts with their files, and under `hazards` the
places in the code where something could go wrong that a test would hardly
reach, each with the properties that watch it or the reason why none does yet.

## 2. The modules

| Module | What it is |
|---|---|
| `CommandSchedule` | abstract specification: what the scheduler promises |
| `Scheduler` | both scheduler tasks, the file, the mutex, the queue, errors, resets |
| `SchedulerRefinement` | the mapping under which `Scheduler` implements `CommandSchedule` |
| `Housekeeping` | the record ring, both files, the daemon against the service |
| `FileTransfer` | the file transfer service, the S-band sender, the ground, another task at the same table of open files |
| `NorthernVoices` | the transmitter daemon against the service that starts and stops it |
| `Xmodem` | XMODEM sender and receiver, a lossy line, the payload |
| `Logger` | the log queue, the two log files, the logger service |
| `BootEeprom` | deployment, boot information and the tasks that write it |
| `MCScheduler`, `MCHousekeeping`, `MCFileTransfer`, `MCNorthernVoices`, `MCXmodem`, `MCLogger`, `MCBootEeprom` | what TLC needs: schedules to upload, pages and downloads to ask for |
| `SchedulerProofs`, `SchedulerRefinementProofs`, `HousekeepingProofs`, `FileTransferProofs`, `NorthernVoicesProofs`, `XmodemProofs`, `LoggerProofs`, `BootEepromProofs` | theorems, proved for every value of the constants |

`FileTransfer` is a composition: service and sender meet in the queue of
buffers and in the heap. `NorthernVoices` and `Xmodem` are both driven by the
Northern SPIRIT service, but share no state. All modules with files have the
volume of Reliance Edge in them, as much of it as the component can notice: its
transaction points, its few handles, the descriptors that are reused.

In every module a variable or definition keeps the name it has in the code
where it can; an action stands for a stretch of code between two points at
which another task can be noticed: an operation on a mutex, a queue, a file or
the network. `PROJECT.json`'s `map` gives the lines of each definition. A
definition introduced as *Mutant of X* is a plausible bug in X, used to see that
a property can fail; no specification uses it.

## 3. The command scheduler

### State and actions

`file` is the schedule as the tasks see it and `disk` as it was at the last
transaction point. `lock` is `SchedLock`: who holds it, or `"absent"` until the
service creates it. `queue` and `inbox` count the notifications and the
connections waiting at the service. `spc` and `dpc` say where each task is;
`scmds`, `soff`, `dcmds`, `doff` are their loops over the commands they write;
`dcmd` is the command the daemon took; `swait` and `dwait` are what is left of
the waits. Time passes in instants, `Sec` of them to a second, as the kernel's
ticks do (1000 to a second): `Tick` lets one pass. The times of commands are whole
seconds, as in the code; `Unix` and `Ms` are the two ways the code reads the clock.

- Service: `AcceptSet`, `AcceptSetNoMemory`, `AcceptSetOverrun`, `AcceptOther`,
  `AcceptSelf` receive a request; `STake`, `STakeTimeout` are the wait for the
  mutex; `SOpen`, `STruncate`, `SWrite`, `SClose` an upload; `SUnlink` a
  deletion; `SRead` a reading; `SGive`, `SNotify`, `SReply` the end.
- Daemon: `DBoot`, `DReceive` (the sleep), `DTake`, `DTakeTimeout`,
  `DOpenFails`, `DNothing`, `DTooEarly` or `DLook` (the first command is far or
  near; `dlook` is when the clock was read), `DPrepare` (the daemon is connected,
  reads the clock again and computes its last wait, `FineDelay`), `DSend`,
  `DSendFails`, `DReply` (or its timeout), `DUpdate` (the next occurrence, sorted,
  the file truncated), `DRewrite`, `DClose`, `DGive`.
- Environment: `Transact` is another task's transaction point, `Reset` a reset.
  A command for the scheduler service itself (`SelfIds`) comes back as
  `AcceptSelf`.

`Fault(kind)` lets an operation fail: allocation, open, truncate, write, close,
unlink, read. Once a kind of operation failed it may fail again.

`FineDelay` is the code's computation as it stands (`scheduler_task.c:117-127`):
the seconds to go were read before the connection was made, the milliseconds of
the current second are read after it, and then what has passed in between is
subtracted once more. `Wait` is an `int32_t`: a command `2^31` seconds ahead has
a negative one (`Far`) and is sent at once.

`CommandSchedule` is a bag of commands: `Replace`, `Clear`, `Fire` of an
earliest command, which leaves its next occurrence, and the durable bag that a
`Reset` brings back. While an update is under way, the durable bag is the old
one or a part of the new one.

### Properties and runs

`sched_safety` (3.8 million states): every step may take any time, one kind of
I/O error and one reset may happen anywhere.

| Property | Says | Why it could fail |
|---|---|---|
| `TypeOK` | types; the queue within its length; only whole records in the file | failed writes leave holes |
| `LockExclusion` | the tasks are never both inside the file, and the daemon never gives a mutex it does not hold | `SchedLock` is looked at twice, created in between |
| `CommittedWhenUnlocked` | when neither is inside, the disk holds the schedule | several paths close the file or not |
| `SortedFile` | the file is sorted, in memory and on disk, at every instant | record-by-record rewriting, holes, foreign transaction points |
| `CommandStillScheduled` | what the daemon is about to send is still the first of the file | seconds pass between reading and sending |
| `NeverEarly` | no command leaves a whole second early, however long each step takes, and none an instant early if steps take no time | elapsed time is subtracted twice; waits wrap |

A command does leave early, by less than a second: what passes between line 72 and
line 118 is in `RTCMK_GetMs()` and in `now - start`, so it leaves at its second less
`Ms(now) - Ms(dlook)`, taken when the wait was computed. That difference is what
`NeverEarly` bounds; when a second ends in between it may be negative and the command
is late. `Prompt` lets no time pass there, and then the wait is exact. Commands so
far ahead that their wait is negative leave at once; the property excepts them.

`sched_timing` (459 thousand states): only waits take time (`Prompt`), two
requests, one reset, fairness.

| Property | Says |
|---|---|
| `NoOversleep` | no notification is lost: a sleeping daemon wakes before the first command is due |
| `ImplementsCommandSchedule` | the two tasks implement `CommandSchedule` |
| `EventuallyDrained` | once the ground is silent nothing overdue stays |
| `DaemonReleasesLock` | the daemon does not keep the mutex for good, though it waits with it for a task that may be waiting for it |

`sched_ontime` and `sched_overdue` find violations: section 10.

### Bounds

`Sec` 2: a second has a middle, which is where elapsed time is subtracted twice.
The waits are scaled: 2 s early (`Coarse`) becomes 1 s, the mutex wait of 8 s
(`SemWait`) 2 or 5 instants, the reply wait (`ReadWait`) 1 or 3, keeping their order;
`TickWrap` 4 or 8 instants stands for the 71 minutes after which `pdMS_TO_TICKS`
overflows, so that waits of both sides of it occur; `MsecWrap` for the 32 bits of
milliseconds, half of them negative, and `TimeWrap` for those of seconds: 16 in
`sched_safety`, where one of the schedules has a command 12 s ahead. `Horizon`: the
clock stops at 6 or 24 instants, later than every command that is not `Far`.
`WidthsAssumption` is what the proofs need of these widths; the code's satisfy it.
`MaxRequests` 2: an upload against a daemon working on the one before, or a
deletion; a third request meets no new combination of places of the two tasks.
`MaxFaults` 1 is a number of *kinds* of failing operations, not of failures.
`MaxResets` 1: a reset leads to a state that, but for the file, is initial.
`QueueLen` 2 for ten messages, so that it fills; `Backlog` 1. `MaxNumCmds` 3:
an upload of three commands is already the full array. `UninitMsecs` is what an
uninitialised `msecs` may add, in instants: 0 and 3 in `sched_ontime`, 0 where the
question is another one (more only makes a command later).
`StartupInTime` is an assumption: the service starts within the ten seconds
(`BootDelay`, scaled to 1) that the daemon first waits to "let everyone else
start" (`scheduler_task.c:238`). Without it `LockExclusion` is false, since the
daemon would enter the file without a mutex. `src/main/main.c` starts the daemons
and then the services, which takes far less than ten seconds unless the
start of one of them hangs; nothing enforces it.

### Fairness

`WF(Service)` and `WF(DaemonProgress)`: a ready task runs; the idle task and the
time slices of equal priorities give every task its turn, and higher tasks
wait most of the time. `SF(DTake)`: when the mutex is free again and again while
the daemon waits for it, the daemon gets it, because it outranks the service and
FreeRTOS wakes the highest waiter. `WF(Tick)`: time passes. Nothing is assumed of
the ground, of errors, resets and other tasks' transaction points.

## 4. Housekeeping

### State and actions

A record is represented by its time and 0 is no record. `max`, `cur`, `loaded`
and `arr` are `MAX_FILES`, `current_file`, `config_loaded` and `timestamps` with
its size; `arr.ptr` is `"null"`, `"live"` or `"freed"`, since one path frees the
array and keeps the pointer. `rec` and `cfg` are the two files, `disk` both at
the last transaction point, `lock` is `f_count_lock`, `pc` where each task is.

- Daemon (`populate_and_store_hk_data`): `DCollect`; `DLoad` and its failing
  variants, at the first record after a reset; `DWrite`, `DClose` the record;
  `DArray` its time; `StoreConfig` the configuration, field by field, unchecked
  as in the code; `DAdvance` the next slot, in memory only.
- Service: `SGrow`, or `SShrink`, `SFree` and `StoreConfig`, for a new number of
  slots; `SSearch` with the mutex, then `SBegin`, `SSend`, `SEnd` without it, for
  a page. `SDeletes`, `SProbe`, `SUnprobe` are what `exists()` does when it cannot
  open a file for another reason than that it exists: it deletes it.
- Both: `prv_get_lock` is `FindNoLock` and `CreateLock`, or `FindLock`; `TakeLock`,
  `GiveLock`.

The tasks have the same priority and are time-sliced, and nothing in the model keeps
one from running between two steps of the other. So two things happen in it that
the code does not prevent:

- Both may find no mutex. The second to create one replaces the first, which the
  other may be waiting for or hold: that task is then `stale`, and both get in.
  This counts as a trouble of the kind `"mutex"`. Whoever gives gives the new
  mutex; the kernel asserts when it is the other's.
- `SProbe`, `SUnprobe`: a page begins with `exists(fileName)`, which takes no mutex.
  If there is no record file it creates one to see that, and unlinks it by its name.
  In between the daemon may store a record in it, or several, and they go too.
  While the daemon has the file open the unlinking fails.

With two tasks inside, an action of one (a record written, the array handled) is
still one step, so that the model does not show every interleaving of their
accesses to memory; what the properties claim in that situation is told below.

`Handled(n)` is `dynamic_timestamp_array_handler(n)`: the array it leaves, with
`Words` for memory that was never initialised. `FreesTwice` is where it frees a
block that is not allocated: the task stops in the heap's assertion, or goes on
when the block had become somebody else's. `FileIdFromTimestamp` is the binary
search as it is written.

### Properties and runs

`hk_ring` (3.7 million states): three slots and four records, so that the ring
fills and wraps; two requests, to keep, reduce or increase the slots or for a
page; one kind of error, a second mutex, or one reset.

| Property | Says | Why it could fail |
|---|---|---|
| `TypeOK` | types; the slot counter never leaves the ring | torn configuration files |
| `LockExclusion` | both tasks are inside only if each has a mutex of its own, since both found none; with one mutex they never are | the mutex is created by whoever comes first |
| `NothingLost` | records are lost one by one, to newer ones, in every step including a reset and the loading of the configuration; only a request that does not increase the slots and the end of a page that began without a record file delete them | the record, its time and the counter are saved at three moments |
| `Chronological` | the slots from after the current one around are in order of time | resizing in the middle of a round |
| `StampsMatchRecords` | a time in memory is that of the record in its slot | the array is copied, cut, reloaded |
| `NewestFirst` | a page is newest first though the daemon stores records meanwhile, until it comes round to it | `current_file` is read after the mutex was given |
| `FindsBeforeWrap` | until the ring is full the search finds every record, whatever fails and is reset | off-by-ones at both ends; a configuration file older than the records |

The exceptions are what the code does. `LockExclusion` without its right-hand side and
`NothingLost` without the page are violated, by the two races above; each
needs the first record after a reset to meet a request. After a second mutex was made,
`Chronological`, `StampsMatchRecords`, `NothingLost` and `FindsBeforeWrap` claim
nothing, as after any error they except, while `TypeOK` still holds, and so does
`NewestFirst` of pages whose slack is known.

`slack` is an auxiliary variable: how many records the daemon may store before
it meets the page being sent. No guard reads it. It is fixed by `SBegin`, from
what the page would read at that moment, and is -1 when that is out of order
already; `PagesAreGuarded` (section 11) shows that this never hides a page when
nothing failed. `FindsBeforeWrap` supposes that every slot before the current one
has a time, and that it is its record's: a time that was never set, 0 or foreign
memory, has no place in the order the search relies on.

`hk_search` and `hk_free` find violations: section 10.

### Bounds and assumptions

`TopMax` 3 stands for 20160 slots: one slot before, at and after the current
one. `Threshold` 1 with records 2 apart keeps the code's relation of 15 s to
30 s. `MaxTroubles` 1 bounds kinds of errors and resets together. `Words` {0}:
uninitialised memory reads as zero; the array handler leaves the last of the old
places uninitialised. The properties count a time that is 0 or in `Words` as never
set, and the theorems hold for every `Words`. `Horizon` is at most `TimeWrap`: Unix
time does not wrap while the model runs.
Deadlock is not checked: the daemon stops at the
horizon and a task that fails an assertion stops for good.

## 5. File transfer and the S-band sender

### State and actions

`rec` is `current_upload`, the static record of the one upload in progress, with
its descriptor. `handle` is Reliance Edge's table of open files: a descriptor is
an index, the lowest free one is handed out, and one that was closed may be
another task's the next moment (`OtherOpens`, `OtherCloses`; `ofd`). `vol` is the
volume as the tasks see it, `disk` at its last transaction point; a file is the
sequence of its blocks, a block is named by its upload and number, and `Hole` is
what a gap or a short write leaves.

- Ground: `GStart`, `GPacket`, `GBurst` send a request, which may be lost;
  `GGiveUp` stops waiting for the answer, while the request may still be served.
  `gr` is what it knows: the upload, how many blocks were acknowledged, and
  whether it began at block 0 since the last reset (`clean`).
- Service: `Accept`; `StartCloses`, `StartOpens`, `StartTruncates`,
  `StartRecords` for START_UPLOAD; `PacketChecks`, `PacketWrites`, `PacketFails`
  for UPLOAD_PACKET; `BurstOpens`, `BurstReads`, then `BurstQueues`,
  `BurstLeaks` or `BurstSends`, and `BurstEnds` for a download; `Close`;
  `Reply`, whose answer may be lost.
- Sender: `SenderStarts` peeks, `SenderTakes` receives, `SenderRadios` sends,
  frees the buffer and, by falling through, ends the transmission.

### Properties and run

`file_transfer` (3.3 million states).

| Property | Says | Why it could fail |
|---|---|---|
| `TypeOK` | types; no descriptor out of the table, the queue within its length | descriptors are reused after they were closed |
| `UploadComplete` | once the last block was acknowledged, the file is the upload, in order and on the disk | answers lost, packets repeated, requests served late, uploads resumed |
| `HandlesOwned` | every open handle has an owner that knows it; the service uses only its own | six error paths, each with its own closes |
| `BuffersAccounted` | every buffer is in one place until it is freed once | three owners one after the other; the sender only peeks |
| `AirInOrder` | blocks are radioed in order without a gap | the queue and the loop end independently |

Their exceptions are in the code and named in the properties: a short
`red_write` counts as a success; after a failed `red_ftruncate` (ftp.c:366) or seek
(417) the service closes the descriptor and goes on with it, which by then may be
another task's; when the queue stays full for a second the buffer is lost (144).
Without its exception TLC finds each property violated.

Observed, without a run: blocks acknowledged before the last one are not
durable, so resuming after a reset leaves holes; a burst that fails is answered
with 0, since line 323 compares `status` where it means `err`; a block size of 0
divides by zero (373); `sband_send_queue_full` is inverted, and unused.

### Bounds

Two uploads of two blocks to one file, so that one may be taken for the other;
three handles for the upload, the request and the other task, so that the table
fills only by leaks; two buffers and a queue of one, so that both fill; four
requests: start, both packets and one in between. One kind of failing operation
or one reset (`MaxTroubles`); closing inside a failing truncation or seek is taken
to succeed. The downloads are the whole file and one block of it.

## 6. Northern Voices

`ctx` is `nv_ctx`, `lock` is `ctx_mtx`, `wait` what is left of each task's wait in
seconds. `DTake`, `DCheck`, `DRead`, `DSend` are one turn of the daemon's loop;
`DRewind` and `DResume` the pause after a pass, with the mutex; `DPoll`, `DWake` its
other waits. `SAccept` is a start or a stop, which first clears `enabled` without
the mutex; `STake` or `STimeout`, `SClear`, then for a start `STake` again and
`SBegin` or `SBeginFails`. `Tick` passes a second when both tasks wait.

`northern_voices` (71 thousand states; the waits have their real lengths).

| Property | Says | Why it could fail |
|---|---|---|
| `NeverClosed` | the daemon never reads a closed file nor sends over a closed connection | a stop falls anywhere into a turn |
| `InOrder` | the packets of a transmission come in the order of the blocks, none from an earlier one | the context is cleared in two halves, failures keep parts of it |
| `StopHolds` | nothing is sent after a stop was answered, successfully or not | the stop may time out while a packet is on its way |
| `SilentWhenStuck` | only a start that failed leaves `ctx_mtx` taken, and nothing is enabled, open or being sent from then on | two tasks give it on nine paths, with waits that time out |
| `TransmissionEnds` | every transmission ends | the daemon polls, pauses, fails and retries |

Bounds: a file of two blocks; up to two passes and one number that is refused;
three requests, so that a stop falls between two starts; two errors.
Fairness: `WF(Daemon)` and `WF(Tick)`; the two tasks have the same priority and are
time-sliced. Nothing is assumed of the service, which waits for the ground. The
errors are bounded, so that a daemon that fails for ever is not considered.

When `red_open` or `csp_connect` fails, the start returns with `ctx_mtx` taken, and
every later start and stop fails until a reset; `SilentWhenStuck` says what is
left of the mutex's discipline. Observed, without a run: a stop
that falls into the pause of ten seconds answers failure, although the
transmission does stop; a start that is refused for lack of the mutex has
stopped the running transmission. `csp_buffer_get` is not checked (line 81).

## 7. XMODEM

`pc`, `no`, `len`, `try`, `retrans` and `trychar` are `xmodemTransmit`'s and
`xmodemReceive`'s locals, `file`, `pos`, `leaked` the image file and the
descriptors never closed, `pay` the payload, a usual XMODEM partner that may
cancel at any time (`PStop`), and `line` the one message under way, which
`Lose` and `Damage` may hit. A packet is damaged in its contents (`"bad"`), which the
receiver notices by its complement or check, or the computer does not get its first
byte (`"tail"`): `xmodemReceive` then reads the other bytes one by one for control
bytes (`xmodem.c:101-131`), and `DStray` is what one of them may do: begin nothing
and use up a try, be taken for SOH, EOT or a pair of CAN, or for STX. `UStart`, `USync`, `UFill`, `USend`, `UReply`, `UEnd`
send artwork; `DStart`, `DTry`, `DHear`, `DNew`, `DRepeated`, `DBad` and the ends
receive an image. Data bytes are abstracted to the number of the packet.

`xmodem` (1.1 million states, no deadlock).

| Property | Says | Why it could fail |
|---|---|---|
| `UploadExact` | a file reported as sent is at the payload, every packet once and in order | answers lost, packets repeated, numbers that wrap |
| `DownloadExact` | what is written is the image's beginning, whatever byte is taken for what, and all of it when its own end is reported | the same, and the end may be lost or misheard |
| `TransferEnds` | every session ends and gives `ns_command_mutex` back | each retry may fail, some are not counted |

Their exceptions are in the code: a byte of a packet that lost its first one can be
EOT, as the number of packet 4 is, and the receiver reports a normal end of an image
that is cut off (113-117; `misheard`); if it is STX, `_inbyte`'s buffer of 132 bytes is
cleared over 1028 (110, 148), which is undefined and here a restart; the rest of the file is kept in a `char`, so
that a rest that is a multiple of 256 ends the transfer as a success (line 234);
when synchronisation fails the descriptor stays open (140), so that the image
cannot be unlinked by the next attempt, which overwrites it from the beginning
and keeps its tail; a failed `red_write` is not noticed (155). Without the
exceptions TLC finds the properties violated.

`TransferEnds` needs the payload to give up: reads and repeated packets are counted,
but a packet that is answered with NAK (173-175) uses up no try, so that a payload
that repeats a bad packet for ever would keep the mutex.

Observed, without a run: a packet 255 repeated before packet 0 is refused; the
payload's second CAN may be discarded with the first; `NS_download_image` reports
success in any case.

Bounds: numbers wrap after 3 instead of 256, the least at which a packet, its
repetition and the next differ; two tries, repetitions and retransmissions each,
so that all run out; artwork of none, one and two packets, of four, and of one
more that leaves 256 bytes; images of one and three packets, so that a shorter
one follows a longer. Assumptions: an answer comes within the second that is
waited for it, or never; the line holds one message; a control byte that is sent
alone is lost, not turned into another. A `"tail"` may be taken for anything, also
twice: how many of its bytes are left in the queue is not counted. Fairness: `WF` of the
on-board steps, and of the step of the payload or the line that ends a message's
way; both are what a serial line does.

## 8. The logger

`queue` counts the messages waiting; `disk` has both files, as numbers of
messages in order, and the configured size, `safe` the same at the last
transaction point. `DConfig`, `DOpen`, `DStat`, `DRename`, `DCreate` are
`init_logger_fs`; `DReceive`, `DCount`, `DWrite`, `DCommit` one message.
`SetFileSize`, `GetFileSize`, `FileExists`, `ReadFile` are the service, `Other`
another task that opens and closes a file.

`logger` (8.1 million states).

| Property | Says | Why it could fail |
|---|---|---|
| `SizeBounded` | neither file reaches twice the largest size set | the size is counted from the opening, the length is looked at on rotation |
| `LogIsSuffix` | both files together are the last messages, in order | rotation is rename and create, resets fall between, a full table of handles |

A file may be nearly twice as long as `next_swap`: the code's comment calls it a
maximum size (`logger.c:114`), but rotation waits for both counts. `LogIsSuffix`
holds until a handle is missing (`spoilt`): `get_file` never closes its file
(`logger_service.c:76`), each reading of the old file costs a handle, and an open
handle on it makes the rename fail unnoticed, after which the log is overwritten
from its beginning. Also observed: asking for an old file that does not exist
creates it (line 42, where the assignment swallows the comparison); without a free
handle `exists()` deletes the file it asks about, as in housekeeping; the name of
the old file is stored and not used; the service sets `next_swap` unsynchronised.

Bounds: a message is one unit of length; sizes 1, 2 and 3; three handles, so that
one leak leaves room to work and two do not; six messages, twice the largest
size. Deadlock is checked: the daemon can always go on or be reset.

## 9. LEOP and the boot information

`leop` and `info` are the two blocks of emulated EEPROM, `copy` what a task read
of it. `Look`, `Heat`, `NextDeployable`, `EraseFlag`, `ProgramFlag` are
`execute_leop`; `Request(t)`, `ReadInfo(t)`, `EraseInfo(t)`, `ProgramInfo(t)` and
`SwReset(t)` a reboot of the general service or of the command line, and, without
the reset, the boot counter task; `Abort` the reset after a stack overflow;
`Reset` any other. Tasks of the same priority interleave; the command line's
task is not interrupted by them (`Scheduled`).

`boot_mode` finds a violation: section 10. What holds is proved
(`DeployedBeforeFlag`, section 11). Two modes and two deployables heated twice
are enough for the interleavings. Failures of the flash driver are not modelled.

## 10. What the checks found

1. **Commands leave late** (`sched_ontime`, `OnTime`). `parse_packet` fills a
   freshly allocated command but never its `msecs`, which the delay before the
   dispatch adds. The daemon sleeps past the due second with the mutex held.
2. **An overdue command waits as long again as it is late** (`sched_overdue`,
   `OverdueNotDelayed`). The wait after a dispatch is computed with its sign
   inverted; a comment in the code wonders about the effect.
3. **The search by time misses records once the ring is full** (`hk_search`,
   `FindsStored`). The offset that should rotate the array cancels out, and the
   binary search runs over an array that is not sorted.
4. **The array of times is freed twice** (`hk_free`, `NoAssertion`). A request that
   does not increase the number of slots frees the array and keeps the pointer;
   the next record frees it again, and the heap's assertion stops the daemon
   with the mutex taken.
5. **A requested boot mode is lost** (`boot_mode`, `RebootsToMode`). The boot
   counter task rewrites the boot information with no lock; between the writing
   of the requested mode and the reset it erases it, or puts its older copy back.

Each is quoted with its lines under `findings` in `PROJECT.json`. What was
observed in the other modules without a run of its own is told in their sections;
in the first two modules: `exists()` deletes a file that it cannot open for another
reason; growing the array of times copies one time too few; after a failed
`red_ftruncate` the schedule mixes two uploads (`SortedFile` excepts it).

## 11. What is proved

Each theorem holds for every value of the constants that satisfies the named
assumptions of the component's module, so for every number of slots, handles,
buffers, blocks, tries and requests, every length of queues and waits, and any
number of errors and resets where the runs have one. What a theorem assumes
beyond that is in its column. The properties are seldom inductive by themselves;
the invariants that strengthen them were checked by TLC before they were
proved.

### SchedulerProofs

| Theorem | States | Assumes | Argument |
|---|---|---|---|
| `TypeCorrect` | `TypeOK` | | inductive as it stands, from lemmas on `WriteAt`, `Parsed`, `SortedOrders`, the waits and the update |
| `MutualExclusion` | `LockExclusion` | `StartupInTime` | `LockInv` |
| `DispatchedFromSchedule` | `CommandStillScheduled` | `StartupInTime` | with `LockInv`: while the daemon is inside nobody else writes |
| `DurableWhenUnlocked` | `CommittedWhenUnlocked` | | `CommitInv` |
| `NeverSentEarly` | `NeverEarly` | | `WaitCovers` |
| `FileStaysSorted` | `SortedFile` | `StartupInTime` | `SortInv` |

They do not use `Prompt`, so steps may take any time.

- `LockInv` ties the holder of the mutex to the place of each task, and says that
  the daemon is still in its first delay while the mutex does not exist. The
  latter is what `StartupInTime` buys: without it the daemon may pass an absent
  mutex and later give one that the service has taken.
- `CommitInv`: the disk differs from the file only while one of the tasks is
  writing records (or after a `red_close` that failed), wherever the mutex is.
- `WaitCovers`: while the daemon waits before a dispatch, what is left of the wait
  reaches to an instant less than a second before the due second, and to the due
  second itself under `Prompt`, or the command is `Far` or the clock stands at the
  horizon. `Tick` takes one from the wait and adds one to the clock.
- `SortInv`: what is written so far, followed by what is still to be written, is
  sorted, and the next position is the end of the file, also after writes that
  failed, so that no hole of zeros gets in between. `SortedFile` for the disk
  follows since a transaction point copies the file.

### SchedulerRefinementProofs

| Theorem | States | Assumes | Argument |
|---|---|---|---|
| `Implements` | `ImplementsCommandSchedule` | `MaxFaults = 0`, `StartupInTime` | `RefInv`: all invariants above and `FitsInv` |
| `NeverOversleeps` | `NoOversleep` | also `Prompt` | `WakeInv` |

- `FitsInv`: what the file holds, with what is still to be written to it, is never
  more than `MaxNumCmds` commands, so the daemon, which reads into an array of
  that size, cuts nothing off when it writes the file back.
- The abstract schedule is a bag of commands, the file a sequence. Two sequences
  have the same bag if every command occurs in both equally often; the lemmas
  count: sorting does not change the counts (`SameBagSorted`), writing a record
  moves it from what is to be written to what is written (`WriteMoves`), and
  sending the first command takes it out and puts its next occurrence in
  (`FiredBag`).
- Every action is one step of `CommandSchedule` or none. `STruncate` is `Replace`,
  `SUnlink` is `Clear`, `DSend` and `DSendFails` are `Fire`, another task's
  transaction point is `SavePart`, a reset is `Reset`, and `SClose` and `DClose`
  are `Settle`. The others change neither the file nor what is still to be
  written to it, or move records from the one to the other.
- `WakeInv`: the timeout that the daemon computes reaches at most to the due second
  of the first command (`EarlyCovers`, `LateCovers`, which hold at every width of
  the tick counter and of the milliseconds), stays right until the daemon sleeps,
  and while it sleeps the file is as it was, or the service has yet to notify, or
  a notification is in the queue. `Prompt` is needed twice: time that passes
  between the reading of the clock and the sleep is slept in addition, and a
  daemon that waits in vain for the mutex goes to sleep for the default time.

### HousekeepingProofs

| Theorem | States | Argument |
|---|---|---|
| `MutualExclusion` | `LockExclusion` | `LockInv` |
| `SlotStaysInRing` | `SlotInRing` | `RingInv` |
| `RecordsAreKept` | `NothingLost` | `KeptInv` |
| `RecordsInOrder` | `Chronological` | `OrderInv`, `KeptInv` |
| `TypesKept` | `TypeOK` | `TypeInv` |
| `LeftmostIs` | what the binary search returns, for every array and range | the shortest counterexample |
| `SearchFindsRecords` | `FindsBeforeWrap` | `LapInv`, `AgeInv`, `NewestInv`, `StartInv`, `LeftmostIs` |
| `TimesMatch` | `StampsMatchRecords` | `StampInv` |
| `PagesInOrder` | `NewestFirst` | `SendInv`, `BoundInv` |
| `PagesAreGuarded` | `Guarded` (of that module) | `OrderInv`, `KeptInv` |

- `LockInv` follows the two tasks through `prv_get_lock` at any interleaving: who is
  inside holds the mutex or is `stale`, at most one task is stale at a time, and
  one is only if a second mutex was made (`"mutex"` is in `faults`, which are never
  forgotten, `FaultsStay`). `Excluded`: without a second mutex the tasks exclude each
  other, which is what the invariants about the records use; a second mutex counts as
  a failure in them.
- `RingInv` speaks of the configuration in memory, in the file and on the disk at
  once, since a reset or a write that failed leaves any of them with some of its
  fields new; none is ever out of the ring.
- `KeptInv`: as long as nothing failed, `RecordsInv` and `ConfigInv` hold, at every
  place of both tasks. `RecordsInv`: nothing is stored beyond the ring, and only
  the current slot may differ between memory and the transaction point; while the
  daemon stores a record, it is in the current slot, or a page has deleted the file.
  `ConfigInv`: if a reset came now, the ring found in the configuration file would
  either cover the records, that is have a place for each and overwrite none but
  the one in the current slot (`Covers`), or be ahead by the one slot that the
  daemon is about to leave (`Ahead`). The fields of the file change one by one;
  the number of slots goes first, and what it makes of the old slot is still
  covered, which is the longest case of the proof (`PutMaxKept`). So a step
  leaves what is stored alone, or finds nothing stored, or passes from the newest
  record to the oldest (`SlotPasses`), also when the step is a reset.
- `OrderInv`: one slot comes before another on the way around the ring
  independently of the number of slots, so that resizing to more slots in the
  middle of a round keeps the order.
- `TypeInv` says where each of the two tasks is with which request, and what both
  files, in memory and on the disk, can hold after any number of unchecked writes
  that failed. A slot the service reads a page from comes from the binary search,
  over an array that need not be in any order: that the search stays inside its
  range (`LeftmostIs`) keeps it a slot.
- `Leftmost` is a recursive function over intervals. That the function it is
  defined by exists (`Searchable`) and what it returns (`SearchFinds`) is an
  induction over the length of the interval; the induction theorems of the library
  cannot be instantiated here, so each is a proof by contradiction from the
  shortest interval on which it would be false (`WFMin`).
- `SendInv`: what is left of a page is in order, not newer than what was sent, and,
  with what is left of its slack, fits between the current slot and where the page
  stands (`PageAhead`). The daemon overwrites the current slot, then leaves it:
  `Pending` is the record in between. A reset or a failed operation stops the page
  or leaves the records it still has to read alone.
  `PagesAreGuarded` is what keeps this from being empty: without errors and
  resets the slack of a page that stops short of the current slot is all the room
  there is.
- `StampInv`: as long as nothing failed, each time fits its record, in memory,
  between the configuration and the record file, and between both at the
  transaction point (`FitInv`): the record is always written first. Without resets
  they are equal, but for the current slot until the daemon has put its time there
  (`EqualInv`).
- `LapInv`: call a time of a configuration file known if it was set and is that of
  the record in its slot. The records of the known slots before the current one
  rise with the slot, for memory, for the file with the records, and for both at
  the transaction point. This is what survives errors and resets: a configuration
  file many records old still names a slot before which what it knows rises, and
  what was overwritten since is not known any more, since records only become newer
  (`AgeInv`, `NewestInv`). `StartInv` is the slot in the file when the times are
  written after it.

### FileTransferProofs

| Theorem | States | Argument |
|---|---|---|
| `TypeCorrect` | `TypeOK` | with `BufferInv` and `HandleInv` |
| `HandlesKept` | `HandlesOwned` | `HandleInv` |
| `UploadsArrive` | `UploadComplete` | `FileInv`, `ServedInv`, `OrderInv`, `AskedInv`, `HandleInv` |
| `BuffersKept` | `BuffersAccounted` | `BufferInv` |
| `RadioedInOrder` | `AirInOrder` | `BurstOrder`, `LatestInv`, `BlockInv`, `AirInv` |

- `HandleInv` says of every descriptor whose it is at each place of the service,
  also between closing the file of one upload and opening the next.
- `FileInv`: what was acknowledged is in the file. An answer counts only if it is
  the answer to the ground's last request (`OrderInv`), while requests it gave up
  waiting for may be served at any later time; `AskedInv` says what those can
  still ask for, which is never a block beyond the next, and `ServedInv` that a
  success is only answered after the block is stored.
- The last four follow a block from the file through the buffer, the queue and
  the sender to the air: each of `Latest`, `Sent` and `air` is followed by the
  next, and `BurstOrder` keeps two downloads apart.

### NorthernVoicesProofs

| Theorem | States | Assumes | Argument |
|---|---|---|---|
| `TypeCorrect` | `TypeOK` | `SendWait < StopWait` | with `OpenInv`: no pass begins beyond the goal |
| `ClosedNeverUsed` | `NeverClosed` | `SendWait < StopWait` | `LockInv`, `OpenInv` |
| `StopIsFinal` | `StopHolds` | `SendWait < StopWait` | `WaitInv`, `StopInv` |
| `TransmitsInOrder` | `InOrder` | `SendWait < StopWait` | `OrderInv` |
| `StuckIsSilent` | `SilentWhenStuck` | `SendWait < StopWait` | `LockInv`, `StuckInv` |

The assumption is true of the code, which waits one second for the connection
and five for the mutex. `WaitInv` compares the two waits: a stop that began
before the daemon's packet ends after it, so that even a stop that is answered
with a failure is final. `OrderInv`: the packet number is that of the block plus a
number of full passes, no larger than the count.

### XmodemProofs

| Theorem | States | Argument |
|---|---|---|
| `TypeCorrect` | `TypeOK` | inductive in parts |
| `SentIsReceived` | `UploadExact` | `UpInv` |
| `ImageIsExact` | `DownloadExact` | `DownInv` |

`UpInv` and `DownInv`: the two sides are at most one packet apart, and the numbers
tell which of both cases it is; an acknowledgement under way is one of the
packet that the other side is ahead by. This needs numbers that do not wrap
within two packets (`Numbers > 2`, a part of the module's assumption; the code has
256) and one message on the line.

### LoggerProofs

| Theorem | States | Argument |
|---|---|---|
| `TypeCorrect` | `TypeOK` | with `PlaceInv` |
| `FilesAreShort` | `SizeBounded` | `GrowInv` |
| `LogIsComplete` | `LogIsSuffix` | `SuffixInv` |

`GrowInv`: a file is shorter than some size that was set plus what was counted
since it was opened, and that count is below some size as well; hence twice the
largest. `SuffixInv` holds of the volume in memory and on the disk alike, and in the
middle of a rotation.

### BootEepromProofs

`FlagIsTrue`: for every number of deployables and attempts and all resets,
`DeployedBeforeFlag`: the flag is only set when everything was deployed, and no
deployment begins once it is set. It assumes `Deployables \in Nat`. `LeopInv` says
what has been deployed before the one in hand. The run of this module is about
the boot information, so that no run checks `DeployedBeforeFlag`.

## 12. What is only model-checked

- Liveness (`EventuallyDrained`, `DaemonReleasesLock`, `TransmissionEnds`,
  `TransferEnds`): fairness is out of the prover's reach.
- What the theorems assume, in the tables above. Every other property
  of a passing run is stated by a theorem.
- That the five disagreements of section 10 exist: each is one behaviour.

## 13. What is not modelled

- In the scheduler: an unknown subservice, memory that leaks on error paths, an
  exhausted pool of CSP buffers, corrections of the clock while the daemon
  sleeps (listed as a hazard).
- In housekeeping: the collection from the devices, the copy of the latest
  record behind its own mutex, reading the number of slots, the encoding of a
  record, a reply that is lost.
- In file transfer: a block size of 0, the codes of requests that do nothing, a
  failing read or close other than those named.
- In Northern SPIRIT: packets of 1024 bytes, which the sender never makes; the
  commands that are one exchange with the payload under `ns_command_mutex`.
- In the logger: what is logged before the queue exists, failed writes.
- In LEOP and boot information: failures of the flash driver, and the blocks for
  images and keys, which are written by the same two steps by one operator.
- `csp_buffer_get` that returns no buffer, in every module: what the code does
  then is undefined.
- The DFGM: the flags of a run (`DFGM_runForever`, `secondsPassed`, `collect`) are
  read and written by two tasks, and its files are closed twice at the end of a
  run; it is the next module of the plan.
- The three watchdogs of `diagnostic.c`, and the correction of the cached clock in
  `rtc_daemon.c`: what they show depends mostly on the answers of devices.
- The other components of section 1: register-level drivers, marshalling of one
  request to one exchange with a device (ADCS, Iris, EPS, communication),
  parsers (Charon), calendar arithmetic (time), straight-line start-up. They have
  little control worth a state machine, or depend on radio drivers and on
  libcsp, whose source is not in the repository.
- FreeRTOS, Reliance Edge and the register drivers in `src/source` are third-party
  or generated code, and by far the largest part of the repository. They are
  environment: the modules rely on mutexes, bounded queues, tick conversion, the
  heap's assertion, transaction points and open handles, and model those at the
  point of use.

## 14. Plan

1. `Dfgm`: the service and the receiving task around the flags of a run, the files
   they share. Properties: a run that was started ends and its files are closed
   once; samples of one run do not get into the files of another.
2. In `Scheduler`: an action for clock corrections, and what remains true of
   `NeverEarly` and `NoOversleep` under them.
3. `Watchdogs`: one module for three, with a power supply that answers late.

## 15. Running it

With `tlc` and `tlapm` on the path, in this directory:

    tlc -config scheduler_safety.cfg MCScheduler     # also scheduler_timing, _ontime, _overdue
    tlc -config housekeeping_ring.cfg MCHousekeeping # also housekeeping_search, _free
    tlc -config file_transfer.cfg MCFileTransfer
    tlc -config northern_voices.cfg MCNorthernVoices
    tlc -config xmodem.cfg MCXmodem
    tlc -config logger.cfg MCLogger
    tlc -config boot_mode.cfg MCBootEeprom
    tlapm SchedulerProofs.tla                        # and the other seven

A run takes a minute or two at most; the proofs of a module take up to a few
minutes (about 4850 obligations in `HousekeepingProofs`, 2750 in
`FileTransferProofs`, 1700 in `SchedulerRefinementProofs`, 1500 in
`SchedulerProofs`, 1050 in `XmodemProofs` and `LoggerProofs` each, fewer in the
others).
