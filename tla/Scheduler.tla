----------------------------- MODULE Scheduler -----------------------------
(***************************************************************************)
(* The command scheduler of the on-board computer.                         *)
(*                                                                         *)
(* Two FreeRTOS tasks share one file, ScheduleFile ("VOL0:/gs_cmds.TMP"):  *)
(*                                                                         *)
(*  - the scheduler SERVICE answers the ground station: it replaces,       *)
(*    deletes or reads the schedule (scheduler.c);                         *)
(*  - the scheduler DAEMON sleeps on a notification queue until the first  *)
(*    command of the file is nearly due, sends it, and rewrites the file   *)
(*    without it, or with its next occurrence (scheduler_task.c).          *)
(*                                                                         *)
(* They exclude one another with the mutex SchedLock, which the daemon     *)
(* holds while it waits for the due second and for the reply of the task   *)
(* it commanded.  The file lives on a transactional file system: what was  *)
(* written survives a reset only if a transaction point followed, and any  *)
(* task that closes a file of the volume makes one for everybody.          *)
(*                                                                         *)
(* Time passes in instants, Sec of them to a second: the kernel's ticks.   *)
(* The times of commands are whole seconds.  Variables prefixed s and d    *)
(* belong to the service and to the daemon.                                *)
(***************************************************************************)
EXTENDS Integers, Sequences, FiniteSets

CONSTANTS
  Ids,            \* what a command does when sent: destination and payload
  SelfIds,        \* those addressed to the scheduler service: delete requests
  Uploads,        \* the schedules the ground may upload, as in the packet
  UninitMsecs,    \* what an uninitialised msecs field can hold, in instants
  MaxNumCmds,     \* MAX_NUM_CMDS
  Sec,            \* instants in a second (1000 ticks)
  Coarse,         \* the 2 s the daemon wakes up early
  SchedTimeout,   \* SCHED_TIMEOUT_MS, the default sleep
  SemWait,        \* SCHED_SEM_WAIT, how long either task waits for the mutex
  ReadWait,       \* the time csp_read waits for the commanded task
  BootDelay,      \* the delay before the daemon's first look at the file
  QueueLen,       \* length of SchedulerNotificationQueue
  Backlog,        \* connections the service's socket queues
  TickWrap,       \* instants at which pdMS_TO_TICKS wraps (2^32 / 10^3)
  MsecWrap,       \* instants at which 32-bit milliseconds wrap (2^32)
  TimeWrap,       \* width of a Unix time in seconds (2^32)
  Horizon,        \* bound: the clock stops there
  MaxRequests,    \* bound: requests of the ground
  MaxFaults,      \* bound: I/O errors and failed allocations
  MaxResets,      \* bound: resets of the computer
  Prompt,         \* TRUE: computation takes no time, only waits do
  StartupInTime   \* TRUE: the service starts within BootDelay

ASSUME IdsAssumption == Ids # {} /\ SelfIds \subseteq Ids

ASSUME WaitsAssumption ==
  /\ Coarse \in Nat \ {0} /\ ReadWait \in Nat \ {0} /\ BootDelay \in Nat \ {0}
  /\ SemWait \in Nat \ {0} /\ SchedTimeout \in Nat \ {0}
  /\ UninitMsecs \subseteq Nat /\ Sec \in Nat \ {0}

ASSUME BoundsAssumption ==
  /\ MaxNumCmds \in Nat \ {0} /\ QueueLen \in Nat \ {0} /\ Backlog \in Nat
  /\ TickWrap \in Nat \ {0} /\ MsecWrap \in Nat \ {0} /\ TimeWrap \in Nat \ {0}
  /\ Horizon \in Nat /\ MaxRequests \in Nat /\ MaxFaults \in Nat /\ MaxResets \in Nat
  /\ Prompt \in BOOLEAN /\ StartupInTime \in BOOLEAN

\* A command as the ground sends it, and as the file keeps it: parse_packet
\* leaves msecs unset.
WireCmd == [id : Ids, next : Nat, period : Nat, last : Nat]
Cmd == [id : Ids, next : Nat, period : Nat, last : Nat, msecs : UninitMsecs \cup {0}]

ASSUME UploadsAssumption == Uploads \subseteq Seq(WireCmd)

\* The widths of the code: a wait of 2 s and a 16-bit msecs more does not
\* wrap, and half of 32-bit milliseconds is more than pdMS_TO_TICKS returns.
ASSUME WidthsAssumption ==
  /\ \A g \in UninitMsecs \cup {0} : Coarse * Sec + g < TickWrap
  /\ MsecWrap >= 2 * (TickWrap + Sec)

VARIABLES
  now,       \* xTaskGetTickCount(), in step with the seconds of the clock
  file,      \* ScheduleFile in the working state of the file system
  disk,      \* ScheduleFile at the last transaction point
  leaked,    \* a handle on it that red_close failed to release
  lock,      \* SchedLock: its holder, "free", or "absent" before its creation
  queue,     \* messages in SchedulerNotificationQueue (their content is unused)
  inbox,     \* requests of the daemon waiting in the service's socket
  spc,       \* where the service is
  sop,       \* the request it serves
  scmds,     \* commands it has still to write
  soff,      \* its position in the file
  swait,     \* instants left of its wait for the mutex
  src,       \* the status it will reply
  dpc,       \* where the daemon is
  dlook,     \* when it read the clock for the command it prepares
  dcmd,      \* the command it took from the head of the file
  dcmds,     \* commands it has still to write
  doff,      \* its position in the file
  dwait,     \* instants left of the wait it is in
  dtimeout,  \* the queue timeout it will use next
  reqs, faults, resets   \* what is used of the bounds; faults is a set of kinds

time == <<now, dwait, swait>>
storage == <<file, disk, leaked>>
service == <<spc, sop, scmds, soff, src>>
daemon == <<dpc, dlook, dcmd, dcmds, doff, dtimeout>>
bounds == <<reqs, faults, resets>>
vars == <<now, file, disk, leaked, lock, queue, inbox, spc, sop, scmds, soff,
          swait, src, dpc, dlook, dcmd, dcmds, doff, dwait, dtimeout, reqs, faults, resets>>

-----------------------------------------------------------------------------
(* The file.                                                               *)

File == [exists : BOOLEAN, cmds : Seq(Cmd)]
NoFile == [exists |-> FALSE, cmds |-> << >>]
Holding(cmds) == [exists |-> TRUE, cmds |-> cmds]

\* The record a hole of the file reads as: red_write past the end of the file
\* leaves zeros.
ZeroCmd == [id |-> CHOOSE i \in Ids : TRUE, next |-> 0, period |-> 0, last |-> 0, msecs |-> 0]

\* red_write of one record at position n.
WriteAt(cmds, n, c) ==
  [i \in 1 .. (IF n > Len(cmds) THEN n ELSE Len(cmds)) |->
     IF i = n THEN c ELSE IF i <= Len(cmds) THEN cmds[i] ELSE ZeroCmd]

IsSorted(cmds) == \A i, j \in DOMAIN cmds : i < j => cmds[i].next <= cmds[j].next

\* Mutant of SortedOrders: the rewritten file is not sorted.
SortSkipped(cmds) == {cmds}

\* The orders sort_cmds may leave commands in: increasing time, and any order
\* among equals, since a selection sort moves them.
SortedOrders(cmds) ==
  LET n == Len(cmds)
      Shuffles == {p \in [1 .. n -> 1 .. n] : \A i, j \in 1 .. n : p[i] = p[j] => i = j}
  IN  {s \in {[i \in 1 .. n |-> cmds[p[i]]] : p \in Shuffles} : IsSorted(s)}

AtMost(cmds, n) == SubSeq(cmds, 1, IF Len(cmds) < n THEN Len(cmds) ELSE n)

-----------------------------------------------------------------------------
(* Arithmetic of the waits.                                                *)

\* RTCMK_Unix_Now() and RTCMK_GetMs() at instant t.
Unix(t) == t \div Sec
Ms(t) == t % Sec

\* n kept in w values, half of them negative.
Signed(n, w) ==
  LET m == n % w IN IF 2 * m < w THEN m ELSE m - w

\* pdMS_TO_TICKS(w) for w > 0: the product by the tick rate wraps.  What is
\* left of a tick counts as one.
Ticks(w) == IF w % TickWrap = 0 THEN 1 ELSE w % TickWrap

Missed(c, t) == c.next <= Unix(t)

\* The seconds to go, an int32_t: negative for a command 2^31 s ahead.
Wait(c, t) == Signed(c.next - Unix(t), TimeWrap)
Far(c, t) == 2 * (c.next - Unix(t)) >= TimeWrap

TooEarly(c, t) == ~Missed(c, t) /\ Wait(c, t) > Coarse

\* The queue timeout when the first command is more than 2 s ahead.
EarlyWait(c) == Ticks((Wait(c, now) - Coarse) * Sec)

\* The queue timeout once a command was sent: wait_msec is the number of
\* milliseconds the next one is LATE, as a signed 32-bit integer, and 0 when
\* that is less than 2 s.
LateWait(c) ==
  LET late == Signed((Unix(now) - c.next) * Sec, MsecWrap)
  IN  IF late < Coarse * Sec THEN 0 ELSE Ticks(late)

\* Mutant of FineDelay: the command is sent when the daemon wakes up.
FineDelayDropped(c) == 0

\* The delay before csp_send, unless the command was overdue: to the second
\* it is due and msecs more.  What has passed of the second is subtracted, and
\* then all that has passed since the clock was read, which may be part of it.
FineDelay(c) ==
  LET left == Signed(Wait(c, dlook) * Sec + c.msecs, MsecWrap)
      delay == IF left > Ms(now) THEN Ticks(left - Ms(now)) ELSE 0
      spent == now - dlook
  IN  IF Missed(c, dlook) \/ delay <= spent THEN 0 ELSE delay - spent

\* Mutant of NextOccurrence: a command without a period stays.
PeriodUnchecked(c) == << [c EXCEPT !.next = (@ + c.period) % TimeWrap] >>

\* Mutant of NextOccurrence: a command that repeats never expires.
NeverExpires(c) ==
  IF c.period = 0 THEN << >> ELSE << [c EXCEPT !.next = (@ + c.period) % TimeWrap] >>

\* What is left in the schedule of a command that was sent.
NextOccurrence(c) ==
  LET n == (c.next + c.period) % TimeWrap
  IN  IF c.period = 0 \/ (c.last # 0 /\ n > c.last)
      THEN << >> ELSE << [c EXCEPT !.next = n] >>

-----------------------------------------------------------------------------
(* The service.                                                            *)

Fault(kind) ==
  /\ kind \in faults \/ Cardinality(faults) < MaxFaults
  /\ faults' = faults \cup {kind}

\* A failed assertion of the kernel spins at the daemon's priority, above
\* that of the service.
Scheduled == dpc # "assert"

\* Every variable but the clock and the disk is lost.
ResetTo(f) ==
  /\ resets < MaxResets /\ resets' = resets + 1
  /\ file' = f /\ disk' = f /\ leaked' = FALSE
  /\ lock' = "absent" /\ queue' = 0 /\ inbox' = 0
  /\ spc' = "off" /\ sop' = "none" /\ scmds' = << >> /\ soff' = 1 /\ swait' = 0 /\ src' = "ok"
  /\ dpc' = "boot" /\ dlook' = 0 /\ dcmd' = ZeroCmd /\ dcmds' = << >> /\ doff' = 1 /\ dwait' = BootDelay
  /\ dtimeout' = 0
  /\ UNCHANGED <<now, reqs, faults>>

SStart ==
  /\ Scheduled /\ spc = "off"
  /\ spc' = "idle"
  /\ lock' = IF lock = "absent" THEN "free" ELSE lock
  /\ UNCHANGED <<time, storage, queue, inbox, sop, scmds, soff, src, daemon, bounds>>

\* The commands parse_packet makes of an upload.
Parsed(upload) ==
  LET u == AtMost(upload, MaxNumCmds)
  IN  {[i \in DOMAIN u |-> [id |-> u[i].id, next |-> u[i].next, period |-> u[i].period,
                            last |-> u[i].last, msecs |-> g[i]]] :
         g \in [DOMAIN u -> UninitMsecs]}

GroundRequest ==
  /\ Scheduled /\ spc = "idle" /\ reqs < MaxRequests
  /\ reqs' = reqs + 1
  /\ UNCHANGED <<now, dwait, storage, lock, queue, inbox, soff, daemon, resets>>

AcceptSet ==
  /\ GroundRequest
  /\ sop' = "set" /\ src' = "ok"
  /\ \E u \in Uploads : \E cmds \in Parsed(u) : scmds' \in SortedOrders(cmds)
  /\ spc' = "take" /\ swait' = SemWait
  /\ UNCHANGED faults

\* parse_packet finds no memory: the mutex is not tried.
AcceptSetNoMemory ==
  /\ GroundRequest
  /\ Fault("memory")
  /\ sop' = "set" /\ src' = "nomem"
  /\ spc' = "reply"
  /\ UNCHANGED <<scmds, swait>>

\* With MAX_NUM_CMDS commands nothing ends the array of pointers, and the
\* count may go on into what follows it on the stack; sorting such a pointer
\* aborts.
AcceptSetOverrun ==
  /\ Scheduled /\ spc = "idle" /\ reqs < MaxRequests
  /\ \E u \in Uploads : Len(u) >= MaxNumCmds
  /\ ResetTo(disk)

AcceptOther(op) ==
  /\ GroundRequest
  /\ sop' = op /\ src' = "ok" /\ scmds' = << >>
  /\ spc' = "take" /\ swait' = SemWait
  /\ UNCHANGED faults

\* A request the daemon sent on behalf of a scheduled command.
AcceptSelf ==
  /\ Scheduled /\ spc = "idle" /\ inbox > 0
  /\ inbox' = inbox - 1
  /\ sop' = "delete" /\ src' = "ok" /\ scmds' = << >>
  /\ spc' = "take" /\ swait' = SemWait
  /\ UNCHANGED <<now, dwait, storage, lock, queue, soff, daemon, bounds>>

Available == lock = "free"

STake ==
  /\ Scheduled /\ spc = "take" /\ Available
  /\ lock' = "svc" /\ swait' = 0
  /\ spc' = CASE sop = "set" -> "open" [] sop = "delete" -> "unlink" [] OTHER -> "read"
  /\ UNCHANGED <<now, dwait, storage, queue, inbox, sop, scmds, soff, src, daemon, bounds>>

\* The wait is over.  A deletion has no else branch: it reports success.
STakeTimeout ==
  /\ Scheduled /\ spc = "take" /\ swait = 0 /\ ~Available
  /\ src' = IF sop = "delete" THEN "ok" ELSE "lock"
  /\ spc' = "reply"
  /\ UNCHANGED <<time, storage, lock, queue, inbox, sop, scmds, soff, daemon, bounds>>

\* red_open(RED_O_CREAT): creating the file is a transaction point.
SOpen ==
  /\ Scheduled /\ spc = "open"
  /\ file' = Holding(file.cmds)
  /\ disk' = IF file.exists THEN disk ELSE file'
  /\ spc' = "truncate" /\ soff' = 1
  /\ UNCHANGED <<time, leaked, lock, queue, inbox, sop, scmds, src, daemon, bounds>>

SOpenFails ==
  /\ Scheduled /\ spc = "open"
  /\ Fault("open")
  /\ src' = "io" /\ spc' = "give"
  /\ UNCHANGED <<time, storage, lock, queue, inbox, sop, scmds, soff, daemon, reqs, resets>>

STruncate ==
  /\ Scheduled /\ spc = "truncate"
  /\ \/ file' = Holding(<< >>) /\ UNCHANGED faults
     \/ Fault("truncate") /\ UNCHANGED file         \* only logged
  /\ spc' = "write"
  /\ UNCHANGED <<time, disk, leaked, lock, queue, inbox, sop, scmds, soff, src, daemon, reqs, resets>>

SWrite ==
  /\ Scheduled /\ spc = "write" /\ scmds # << >>
  /\ scmds' = Tail(scmds)
  /\ \/ /\ file' = Holding(WriteAt(file.cmds, soff, Head(scmds)))
        /\ soff' = soff + 1
        /\ UNCHANGED <<src, faults>>
     \/ /\ Fault("write")                           \* and goes on with the next
        /\ src' = "io"
        /\ UNCHANGED <<file, soff>>
  /\ UNCHANGED <<time, disk, leaked, lock, queue, inbox, spc, sop, daemon, reqs, resets>>

\* Mutant of CloseFile: closing is not a transaction point.
CloseNoTransact == disk' = disk /\ UNCHANGED <<leaked, faults>>

\* red_close, whose result nobody looks at: a transaction point of the whole
\* volume, or an I/O error that leaves the handle open.
CloseFile ==
  \/ disk' = file /\ UNCHANGED <<leaked, faults>>
  \/ Fault("close") /\ leaked' = TRUE /\ UNCHANGED disk

SClose ==
  /\ Scheduled /\ spc = "write" /\ scmds = << >>
  /\ CloseFile
  /\ spc' = "give"
  /\ UNCHANGED <<time, file, lock, queue, inbox, sop, scmds, soff, src, daemon, reqs, resets>>

DaemonHasFile == dpc \in {"prepare", "fine", "await", "update", "rewrite", "close"}

\* red_unlink, a transaction point; it refuses a file that does not exist or
\* that a handle is open on.
SUnlink ==
  /\ Scheduled /\ spc = "unlink"
  /\ \/ /\ file.exists /\ ~leaked /\ ~DaemonHasFile
        /\ file' = NoFile /\ disk' = NoFile
        /\ UNCHANGED <<src, faults>>
     \/ /\ \/ (~file.exists \/ leaked \/ DaemonHasFile) /\ UNCHANGED faults
           \/ Fault("unlink")
        /\ src' = "io"
        /\ UNCHANGED <<file, disk>>
  /\ spc' = "give"
  /\ UNCHANGED <<time, leaked, lock, queue, inbox, sop, scmds, soff, daemon, reqs, resets>>

\* GET_SCHEDULE: opens, reads and closes the file; a missing one is empty.
SRead ==
  /\ Scheduled /\ spc = "read"
  /\ \/ file.exists /\ CloseFile /\ UNCHANGED src
     \/ ~file.exists /\ UNCHANGED <<disk, leaked, faults, src>>
     \/ Fault("open") /\ src' = "io" /\ UNCHANGED <<disk, leaked>>
     \/ file.exists /\ Fault("read") /\ src' = "io" /\ disk' = file /\ UNCHANGED leaked
  /\ spc' = "give"
  /\ UNCHANGED <<time, file, lock, queue, inbox, sop, scmds, soff, daemon, reqs, resets>>

SGive ==
  /\ Scheduled /\ spc = "give"
  /\ lock' = "free"
  /\ spc' = IF sop = "get" THEN "reply" ELSE "notify"
  /\ UNCHANGED <<time, storage, queue, inbox, sop, scmds, soff, src, daemon, bounds>>

\* Mutants of Notified: the service does not notify, or the queue has no end.
NeverNotified == queue
UnboundedQueue == queue + 1

\* xQueueSendToBack with no timeout: dropped when the queue is full.
Notified == IF queue < QueueLen THEN queue + 1 ELSE queue

SNotify ==
  /\ Scheduled /\ spc = "notify"
  /\ queue' = Notified
  /\ spc' = "reply"
  /\ UNCHANGED <<time, storage, lock, inbox, sop, scmds, soff, src, daemon, bounds>>

SReply ==
  /\ Scheduled /\ spc = "reply"
  /\ spc' = "idle" /\ sop' = "none" /\ scmds' = << >> /\ soff' = 1 /\ src' = "ok"
  /\ UNCHANGED <<time, storage, lock, queue, inbox, daemon, bounds>>

Service ==
  \/ SStart \/ AcceptSelf \/ STake \/ STakeTimeout \/ SOpen \/ SOpenFails \/ STruncate
  \/ SWrite \/ SClose \/ SUnlink \/ SRead \/ SGive \/ SNotify \/ SReply

Ground ==
  \/ AcceptSet \/ AcceptSetNoMemory \/ AcceptSetOverrun
  \/ \E op \in {"delete", "get"} : AcceptOther(op)

-----------------------------------------------------------------------------
(* The daemon.                                                             *)

\* vTaskDelay at the start of the task: let everyone else start.
DBoot ==
  /\ dpc = "boot" /\ dwait = 0
  /\ StartupInTime => spc # "off"
  /\ dpc' = "receive"
  /\ UNCHANGED <<time, storage, lock, queue, inbox, service, dlook, dcmd, dcmds, doff, dtimeout, bounds>>

\* xQueueReceive returns with a message or at its timeout.
DReceive ==
  /\ dpc = "receive" /\ (queue > 0 \/ dwait = 0)
  /\ queue' = IF queue > 0 THEN queue - 1 ELSE 0
  /\ dpc' = "take" /\ dwait' = SemWait
  /\ dtimeout' = SchedTimeout
  /\ UNCHANGED <<now, swait, storage, lock, inbox, service, dlook, dcmd, dcmds, doff, bounds>>

\* !SchedLock || xSemaphoreTake(...) == pdTRUE
\* Mutant of DTake: having waited in vain, the daemon goes on all the same.
DTakeUnchecked ==
  /\ dpc = "take"
  /\ \/ lock = "absent" /\ UNCHANGED lock
     \/ Available /\ lock' = "dmn"
     \/ dwait = 0 /\ UNCHANGED lock
  /\ dpc' = "open" /\ dwait' = 0
  /\ UNCHANGED <<now, swait, storage, queue, inbox, service, dlook, dcmd, dcmds, doff, dtimeout, bounds>>

DTake ==
  /\ dpc = "take"
  /\ \/ lock = "absent" /\ UNCHANGED lock
     \/ Available /\ lock' = "dmn"
  /\ dpc' = "open" /\ dwait' = 0
  /\ UNCHANGED <<now, swait, storage, queue, inbox, service, dlook, dcmd, dcmds, doff, dtimeout, bounds>>

DTakeTimeout ==
  /\ dpc = "take" /\ dwait = 0 /\ lock \notin {"free", "absent"}
  /\ dpc' = "receive" /\ dwait' = dtimeout
  /\ UNCHANGED <<now, swait, storage, lock, queue, inbox, service, dlook, dcmd, dcmds, doff, dtimeout, bounds>>

DOpenFails ==
  /\ dpc = "open"
  /\ \/ ~file.exists /\ UNCHANGED faults
     \/ Fault("open")
  /\ dpc' = "give"
  /\ UNCHANGED <<time, storage, lock, queue, inbox, service, dlook, dcmd, dcmds, doff, dtimeout, reqs, resets>>

\* The file is empty, or its first record cannot be read.
DNothing ==
  /\ dpc = "open" /\ file.exists
  /\ \/ file.cmds = << >> /\ UNCHANGED faults
     \/ Fault("read")
  /\ dpc' = "close"
  /\ UNCHANGED <<time, storage, lock, queue, inbox, service, dlook, dcmd, dcmds, doff, dtimeout, reqs, resets>>

DTooEarly ==
  /\ dpc = "open" /\ file.exists /\ file.cmds # << >>
  /\ TooEarly(Head(file.cmds), now)
  /\ dtimeout' = EarlyWait(Head(file.cmds))
  /\ dpc' = "close"
  /\ UNCHANGED <<time, storage, lock, queue, inbox, service, dlook, dcmd, dcmds, doff, bounds>>

\* The clock is read.
DLook ==
  /\ dpc = "open" /\ file.exists /\ file.cmds # << >>
  /\ ~TooEarly(Head(file.cmds), now)
  /\ dcmd' = Head(file.cmds) /\ dlook' = now
  /\ dpc' = "prepare"
  /\ UNCHANGED <<time, storage, lock, queue, inbox, service, dcmds, doff, dtimeout, bounds>>

\* The packet is made and the daemon connected.  The clocks are read again,
\* and it sleeps the last seconds with the mutex held.
DPrepare ==
  /\ dpc = "prepare"
  /\ dwait' = FineDelay(dcmd)
  /\ dpc' = "fine"
  /\ UNCHANGED <<now, swait, storage, lock, queue, inbox, service, dlook, dcmd, dcmds, doff,
                 dtimeout, bounds>>

\* csp_send; the scheduler service is a destination like any other.
DSend ==
  /\ dpc = "fine" /\ dwait = 0
  /\ inbox' = IF dcmd.id \in SelfIds /\ inbox < Backlog THEN inbox + 1 ELSE inbox
  /\ dpc' = "await" /\ dwait' = ReadWait /\ dlook' = 0
  /\ UNCHANGED <<now, swait, storage, lock, queue, service, dcmd, dcmds, doff, dtimeout, bounds>>

DSendFails ==
  /\ dpc = "fine" /\ dwait = 0
  /\ dpc' = "update" /\ dlook' = 0
  /\ UNCHANGED <<time, storage, lock, queue, inbox, service, dcmd, dcmds, doff, dtimeout, bounds>>

\* Mutant of ReplyOrTimeout: csp_read waits as long as it takes.
WaitForReply == dcmd.id \notin SelfIds

\* csp_read returns the reply or gives up.  The scheduler service does not
\* reply before it got the mutex, which the daemon holds.
ReplyOrTimeout == dwait = 0 \/ dcmd.id \notin SelfIds

DReply ==
  /\ dpc = "await"
  /\ ReplyOrTimeout
  /\ dpc' = "update" /\ dwait' = 0
  /\ UNCHANGED <<now, swait, storage, lock, queue, inbox, service, dlook, dcmd, dcmds, doff, dtimeout, bounds>>

\* What the daemon reads after the first record: all of it, or what precedes a
\* record it cannot read.
Remaining(n) == SubSeq(file.cmds, 2, n)

CoarseWait(cmds) == IF cmds = << >> THEN SchedTimeout ELSE LateWait(Head(cmds))

\* Reads the rest of the file, adds the next occurrence of the command, sorts,
\* truncates the file and computes the next timeout.
DUpdate ==
  /\ dpc = "update"
  /\ \E n \in 1 .. Len(file.cmds) \cup {0}, lost \in BOOLEAN, kept \in BOOLEAN :
       /\ ~lost => n = Len(file.cmds)
       /\ LET next == NextOccurrence(dcmd)
              rest == AtMost(next \o Remaining(n), MaxNumCmds)
          IN  dcmds' \in SortedOrders(rest)
       /\ file' = IF kept THEN file ELSE Holding(<< >>)
       /\ \/ ~lost /\ ~kept /\ UNCHANGED faults
          \/ lost /\ ~kept /\ Fault("read")
          \/ ~lost /\ kept /\ Fault("truncate")
  /\ dtimeout' = CoarseWait(dcmds')
  /\ doff' = 1
  /\ dpc' = "rewrite"
  /\ UNCHANGED <<time, disk, leaked, lock, queue, inbox, service, dlook, dcmd, reqs, resets>>

DRewrite ==
  /\ dpc = "rewrite" /\ dcmds # << >>
  /\ dcmds' = Tail(dcmds)
  /\ \/ /\ file' = Holding(WriteAt(file.cmds, doff, Head(dcmds)))
        /\ doff' = doff + 1
        /\ UNCHANGED faults
     \/ Fault("write") /\ UNCHANGED <<file, doff>>
  /\ UNCHANGED <<time, disk, leaked, lock, queue, inbox, service, dpc, dlook, dcmd, dtimeout, reqs, resets>>

DClose ==
  /\ dpc = "close" \/ (dpc = "rewrite" /\ dcmds = << >>)
  /\ CloseFile
  /\ dpc' = "give"
  /\ UNCHANGED <<time, file, lock, queue, inbox, service, dlook, dcmd, dcmds, doff, dtimeout, reqs, resets>>

\* if (SchedLock) xSemaphoreGive(SchedLock): SchedLock is looked at again.
\* The kernel asserts that the holder of a mutex gives it, and ignores the
\* giving of a free one.
DGive ==
  /\ dpc = "give"
  /\ IF lock = "svc"
     THEN dpc' = "assert" /\ UNCHANGED <<lock, dwait>>
     ELSE /\ lock' = IF lock = "dmn" THEN "free" ELSE lock
          /\ dpc' = "receive" /\ dwait' = dtimeout
  /\ dcmd' = ZeroCmd /\ dcmds' = << >> /\ doff' = 1
  /\ UNCHANGED <<now, swait, storage, queue, inbox, service, dlook, dtimeout, bounds>>

DaemonProgress ==
  \/ DBoot \/ DReceive \/ DTakeTimeout \/ DOpenFails \/ DNothing \/ DTooEarly \/ DLook
  \/ DPrepare \/ DSend \/ DSendFails \/ DReply \/ DUpdate \/ DRewrite \/ DClose \/ DGive

Daemon == DTake \/ DaemonProgress

-----------------------------------------------------------------------------
(* The rest of the computer.                                               *)

\* A transaction point made by any other task: the logger's red_transact, a
\* file closed by the file transfer or the housekeeping service.
Transact ==
  /\ disk # file
  /\ disk' = file
  /\ UNCHANGED <<time, file, leaked, lock, queue, inbox, service, daemon, bounds>>

Reset == ResetTo(disk)

ServiceWaits ==
  \/ spc = "idle" /\ inbox = 0
  \/ spc = "take" /\ swait > 0 /\ ~Available
  \/ ~Scheduled

DaemonWaits ==
  \/ dpc \in {"boot", "fine", "await"} /\ dwait > 0
  \/ dpc = "receive" /\ queue = 0 /\ dwait > 0
  \/ dpc = "take" /\ lock \notin {"free", "absent"} /\ dwait > 0
  \/ dpc = "assert"

Less(t) == IF t > 0 THEN t - 1 ELSE 0

Tick ==
  /\ Prompt => ServiceWaits /\ DaemonWaits
  /\ now < Horizon \/ dwait > 0 \/ swait > 0
  /\ now' = IF now < Horizon THEN now + 1 ELSE now
  /\ dwait' = Less(dwait) /\ swait' = Less(swait)
  /\ UNCHANGED <<storage, lock, queue, inbox, service, daemon, bounds>>

-----------------------------------------------------------------------------
Init ==
  /\ now = 0
  /\ file = NoFile /\ disk = NoFile /\ leaked = FALSE
  /\ lock = "absent" /\ queue = 0 /\ inbox = 0
  /\ spc = "off" /\ sop = "none" /\ scmds = << >> /\ soff = 1 /\ swait = 0 /\ src = "ok"
  /\ dpc = "boot" /\ dlook = 0 /\ dcmd = ZeroCmd /\ dcmds = << >> /\ doff = 1 /\ dwait = BootDelay
  /\ dtimeout = 0
  /\ reqs = 0 /\ faults = {} /\ resets = 0

Next == Service \/ Ground \/ Daemon \/ Transact \/ Reset \/ Tick

Spec == Init /\ [][Next]_vars

\* The service and the daemon run when they can.  The daemon outranks the
\* service, so it gets the mutex when both want it: strong fairness.  Nothing
\* is fair about the ground, I/O errors, resets and other tasks' transactions.
Fairness ==
  /\ WF_vars(Service) /\ WF_vars(DaemonProgress) /\ SF_vars(DTake) /\ WF_vars(Tick)

FairSpec == Spec /\ Fairness
-----------------------------------------------------------------------------
(* Properties.                                                             *)

\* Every variable keeps its type: the records of the file are whole commands,
\* also where a write left a hole.
TypeOK ==
  /\ now \in Nat /\ dwait \in Nat /\ swait \in Nat
  /\ file \in File /\ disk \in File /\ leaked \in BOOLEAN
  /\ lock \in {"absent", "free", "svc", "dmn"}
  /\ queue \in 0 .. QueueLen /\ inbox \in 0 .. Backlog
  /\ spc \in {"off", "idle", "take", "open", "truncate", "write", "unlink", "read", "give",
              "notify", "reply"}
  /\ sop \in {"none", "set", "delete", "get"}
  /\ scmds \in Seq(Cmd) /\ soff \in Nat \ {0}
  /\ src \in {"ok", "nomem", "io", "lock"}
  /\ dpc \in {"boot", "receive", "take", "open", "prepare", "fine", "await", "update", "rewrite",
              "close", "give", "assert"}
  /\ dlook \in Nat /\ dcmd \in Cmd /\ dcmds \in Seq(Cmd) /\ doff \in Nat \ {0}
  /\ dtimeout \in Nat
  /\ reqs \in Nat /\ resets \in Nat
  /\ faults \subseteq {"memory", "open", "truncate", "write", "close", "unlink", "read"}

ServiceInside == spc \in {"open", "truncate", "write", "unlink", "read", "give"}
DaemonInside == dpc \in {"open", "prepare", "fine", "await", "update", "rewrite", "close", "give"}

\* SchedLock protects the file: the service and the daemon are never both
\* between its taking and its giving, and the daemon never gives it while the
\* service holds it, which the kernel answers with an endless loop.
LockExclusion == ~(ServiceInside /\ DaemonInside) /\ dpc # "assert"

\* Whatever the tasks were doing, once neither is inside, the schedule is
\* durable: a reset finds the file as they left it.  (An error of red_close,
\* which the code ignores, is the exception.)
CommittedWhenUnlocked ==
  ~ServiceInside /\ ~DaemonInside /\ "close" \notin faults => disk = file

\* The daemon looks only at the first record, so the file must be sorted at
\* every instant a reset or the other task can observe, half written or after
\* failed writes too.  (A failed red_ftruncate, which the code only logs,
\* leaves the old records behind the new ones.)
SortedFile == "truncate" \notin faults => IsSorted(file.cmds) /\ IsSorted(disk.cmds)

\* The command the daemon is about to send, or has sent and not yet retired,
\* is still the first of the schedule: no upload and no deletion took effect
\* in the seconds between its reading and its dispatch.
CommandStillScheduled ==
  dpc \in {"prepare", "fine", "await", "update"} =>
    file.exists /\ file.cmds # << >> /\ Head(file.cmds) = dcmd

\* A command is never sent a whole second before it is due, however long the
\* steps of the daemon take, although what passes while it prepares may be
\* subtracted twice (scheduler_task.c:117-127); and not an instant early when
\* they take no time.  (Not so a command 2^31 s ahead, whose wait is negative.
\* At the horizon of the model the clock stops.)
NeverEarly ==
  [][dpc = "fine" /\ dpc' \in {"await", "update"} =>
       \/ now + (IF Prompt THEN 0 ELSE Sec - 1) >= dcmd.next * Sec
       \/ Far(dcmd, dlook) \/ now = Horizon]_vars

\* No notification is lost: unless the service is changing the file or a
\* message is queued, a sleeping daemon wakes up before the first command of
\* the file is due.
NoOversleep ==
  (/\ dpc = "receive" /\ queue = 0 /\ ~ServiceInside /\ spc # "notify"
   /\ file.cmds # << >> /\ Head(file.cmds).next > Unix(now))
    => now + dwait <= Head(file.cmds).next * Sec

\* A command the daemon read before it was due is sent in the very second it
\* is due: while the daemon sleeps before the dispatch, it never sleeps past it.
OnTime == dpc = "fine" /\ dwait > 0 => now + dwait <= dcmd.next * Sec

\* Every command whose time comes is sent: once the ground is silent, nothing
\* overdue stays in the file.
EventuallyDrained == <>[](\A i \in DOMAIN file.cmds : file.cmds[i].next > Unix(now))

\* A command that is overdue is not kept waiting in the notification queue:
\* when the daemon goes to sleep behind schedule, the timeout is 0.
OverdueNotDelayed ==
  (/\ dpc = "receive" /\ queue = 0 /\ ~ServiceInside /\ spc # "notify"
   /\ file.cmds # << >> /\ Missed(Head(file.cmds), now))
    => dwait = 0

\* The daemon never keeps the mutex for good, although it waits, with the mutex
\* held, for a task that may itself be waiting for the mutex.
DaemonReleasesLock == lock = "dmn" ~> lock # "dmn"
=============================================================================
