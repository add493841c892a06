------------------------------- MODULE Logger -------------------------------
(***************************************************************************)
(* The system log.                                                         *)
(*                                                                         *)
(*  - Any task logs (sys_log): the message is queued, or dropped.          *)
(*  - The DAEMON (logger_daemon) writes the queued messages to syslog.log, *)
(*    each with a transaction of its own, and when it has written enough   *)
(*    reopens the file, which moves a long one to syslog.log.old.          *)
(*  - The logger SERVICE sets the size at which that happens and reads the *)
(*    two files for the ground.                                            *)
(*                                                                         *)
(* They share the volume and the file system's few handles with every      *)
(* other task.  A file with an open handle can be renamed but not removed  *)
(* or replaced.  Every message counts as one unit of length.               *)
(***************************************************************************)
EXTENDS Integers, Sequences

CONSTANTS
  QueueLen,   \* DEFAULT_INPUT_QUEUE_LEN, 10
  Default,    \* the initial next_swap, 10000
  FileSizes,  \* sizes the ground may set
  Handles,    \* REDCONF_HANDLE_COUNT, 10
  MaxOut      \* bound: messages written

ASSUME LoggerAssumption ==
  /\ QueueLen \in Nat \ {0} /\ MaxOut \in Nat /\ Handles \in Nat \ {0}
  /\ Default \in Nat \ {0} /\ FileSizes \subseteq Nat \ {0}

VARIABLES
  queue,      \* how many messages input_queue holds
  pc, then,   \* where the daemon is, and where init_logger_fs returns to
  fs_init, current_size, next_swap,
  own,        \* the daemon has a handle
  append,     \* opened with RED_O_APPEND
  pos,        \* else: where it writes
  svc,        \* the service's request
  disk,       \* the two files, the stored size (0: none), the last message
  safe,       \* the volume at its last transaction point
  leaked,     \* handles on the files that nobody will close
  others,     \* handles of other tasks
  spoilt      \* auxiliary: a file could not be opened or replaced

daemon == <<pc, then, fs_init, current_size, own, append, pos>>
vars == <<queue, daemon, next_swap, svc, disk, safe, leaked, others, spoilt>>

Names == {"cur", "old"}

Used == (IF own THEN 1 ELSE 0) + leaked["cur"] + leaked["old"] + others
Free == Used < Handles

\* A call with which the file system makes a transaction point.
Commit(d) == disk' = d /\ safe' = d

Goto(p) == pc' = p

-----------------------------------------------------------------------------
(* Logging.                                                                *)

\* Mutant of SysLog: the message is queued whether it fits or not.
SysLogWaits ==
  /\ queue' = queue + 1
  /\ UNCHANGED <<daemon, next_swap, svc, disk, safe, leaked, others, spoilt>>

\* A message that does not fit is dropped.
SysLog ==
  /\ queue' = IF queue < QueueLen THEN queue + 1 ELSE queue
  /\ UNCHANGED <<daemon, next_swap, svc, disk, safe, leaked, others, spoilt>>

-----------------------------------------------------------------------------
(* The stored size.                                                        *)

\* exists() creates what it looks for and removes it again; without a free
\* handle it removes the file that is there.
LoadSize ==
  IF Free
  THEN /\ next_swap' = IF disk.size = 0 THEN next_swap ELSE disk.size
       /\ UNCHANGED <<disk, safe, spoilt>>
  ELSE /\ Commit([disk EXCEPT !.size = 0]) /\ spoilt' = TRUE
       /\ UNCHANGED next_swap

-----------------------------------------------------------------------------
(* init_logger_fs.                                                         *)

DConfig ==
  /\ pc = "boot" /\ LoadSize
  /\ Goto("open") /\ then' = "wait"
  /\ UNCHANGED <<queue, fs_init, current_size, own, append, pos, svc, leaked, others>>

\* Mutant of DOpen: the file is opened without RED_O_APPEND.
DOpenAtStart ==
  /\ pc = "open"
  /\ IF "cur" \in disk.has /\ Free
     THEN own' = TRUE /\ append' = FALSE /\ pos' = 0 /\ Goto("stat") /\ UNCHANGED spoilt
     ELSE /\ spoilt' = (spoilt \/ "cur" \in disk.has)
          /\ Goto("create") /\ UNCHANGED <<own, append, pos>>
  /\ UNCHANGED <<queue, then, fs_init, current_size, next_swap, svc, disk, safe, leaked, others>>

DOpen ==
  /\ pc = "open"
  /\ IF "cur" \in disk.has /\ Free
     THEN own' = TRUE /\ append' = TRUE /\ pos' = 0 /\ Goto("stat") /\ UNCHANGED spoilt
     ELSE /\ spoilt' = (spoilt \/ "cur" \in disk.has)
          /\ Goto("create") /\ UNCHANGED <<own, append, pos>>
  /\ UNCHANGED <<queue, then, fs_init, current_size, next_swap, svc, disk, safe, leaked, others>>

\* Mutant of DStat: a long file is kept.
DStatKeeps ==
  /\ pc = "stat"
  /\ Goto(then) /\ fs_init' = TRUE /\ UNCHANGED <<own, disk, safe>>
  /\ UNCHANGED <<queue, then, current_size, next_swap, append, pos, svc, leaked, others, spoilt>>

\* A long file is closed and moved away.
DStat ==
  /\ pc = "stat"
  /\ IF Len(disk.cur) >= next_swap
     THEN own' = FALSE /\ Commit(disk) /\ Goto("rename") /\ UNCHANGED fs_init
     ELSE Goto(then) /\ fs_init' = TRUE /\ UNCHANGED <<own, disk, safe>>
  /\ UNCHANGED <<queue, then, current_size, next_swap, append, pos, svc, leaked, others, spoilt>>

\* A handle on the old file keeps it from being replaced, which is not
\* noticed.
DRename ==
  /\ pc = "rename" /\ Goto("create")
  /\ IF leaked["old"] = 0 /\ "cur" \in disk.has
     THEN /\ Commit([disk EXCEPT !.old = disk.cur, !.cur = <<>>,
                                 !.has = (@ \ {"cur"}) \cup {"old"}])
          /\ leaked' = [cur |-> 0, old |-> leaked["cur"]]
          /\ UNCHANGED spoilt
     ELSE spoilt' = TRUE /\ UNCHANGED <<disk, safe, leaked>>
  /\ UNCHANGED <<queue, then, fs_init, current_size, next_swap, own, append, pos, svc, others>>

\* The file is created, or opened at its beginning if it is there.
DCreate ==
  /\ pc = "create" /\ Goto(then)
  /\ IF Free
     THEN /\ Commit([disk EXCEPT !.has = @ \cup {"cur"}])
          /\ own' = TRUE /\ append' = FALSE /\ pos' = 0 /\ fs_init' = TRUE
          /\ UNCHANGED spoilt
     ELSE spoilt' = TRUE /\ UNCHANGED <<own, append, pos, fs_init, disk, safe>>
  /\ UNCHANGED <<queue, then, current_size, next_swap, svc, leaked, others>>

-----------------------------------------------------------------------------
(* The daemon.                                                             *)

DReceive ==
  /\ pc = "wait" /\ queue > 0 /\ queue' = queue - 1
  /\ disk.out < MaxOut
  /\ then' = "output" /\ Goto(IF fs_init THEN "output" ELSE "open")
  /\ UNCHANGED <<fs_init, current_size, next_swap, own, append, pos, svc, disk, safe, leaked, others, spoilt>>

\* do_output: current_size counts what was written since the file was opened,
\* not how long the file is.
DCount ==
  /\ pc = "output" /\ then' = "write"
  /\ IF current_size + 1 > next_swap
     THEN /\ current_size' = 1 /\ Goto("open")
          /\ own' = FALSE /\ fs_init' = FALSE
          /\ IF fs_init THEN Commit(disk) ELSE UNCHANGED <<disk, safe>>
     ELSE /\ current_size' = current_size + 1 /\ Goto("write")
          /\ UNCHANGED <<own, fs_init, disk, safe>>
  /\ UNCHANGED <<queue, next_swap, append, pos, svc, leaked, others, spoilt>>

Put(s, p, v) == IF p < Len(s) THEN [s EXCEPT ![p + 1] = v] ELSE Append(s, v)

DWrite ==
  /\ pc = "write"
  /\ IF fs_init
     THEN /\ disk' = [disk EXCEPT !.out = @ + 1,
                        !.cur = Put(@, IF append THEN Len(@) ELSE pos, disk.out + 1)]
          /\ pos' = IF append THEN pos ELSE pos + 1
          /\ Goto("commit")
     ELSE Goto("wait") /\ UNCHANGED <<disk, pos>>
  /\ UNCHANGED <<queue, then, fs_init, current_size, next_swap, own, append, svc, safe, leaked, others, spoilt>>

DCommit ==
  /\ pc = "commit" /\ Goto("wait") /\ Commit(disk)
  /\ UNCHANGED <<queue, then, fs_init, current_size, next_swap, own, append, pos, svc, leaked, others, spoilt>>

Daemon ==
  \/ DConfig \/ DOpen \/ DStat \/ DRename \/ DCreate
  \/ DReceive \/ DCount \/ DWrite \/ DCommit

-----------------------------------------------------------------------------
(* The service.                                                            *)

SetFileSize ==
  /\ svc.op = "none" /\ \E n \in FileSizes :
       /\ next_swap' = n
       /\ IF Free THEN Commit([disk EXCEPT !.size = n]) /\ UNCHANGED spoilt
          ELSE spoilt' = TRUE /\ UNCHANGED <<disk, safe>>
  /\ UNCHANGED <<queue, daemon, svc, leaked, others>>

\* GET_FILE_SIZE, and what GET_FILE and GET_OLD_FILE begin with.
GetFileSize ==
  /\ svc.op = "none" /\ LoadSize
  /\ \/ UNCHANGED svc
     \/ \E w \in Names : svc' = [op |-> "exists", name |-> w]
  /\ UNCHANGED <<queue, daemon, leaked, others>>

InUse(w) == leaked[w] > 0 \/ (w = "cur" /\ own)

\* file_exists: a file that is missing is created and keeps its handle; when
\* no handle is free the file is removed, unless it is in use.
FileExists ==
  /\ svc.op = "exists"
  /\ IF ~Free
     THEN /\ IF InUse(svc.name) THEN UNCHANGED <<disk, safe>>
             ELSE Commit([disk EXCEPT ![svc.name] = <<>>, !.has = @ \ {svc.name}])
          /\ spoilt' = TRUE /\ svc' = [svc EXCEPT !.op = "none"] /\ UNCHANGED leaked
     ELSE IF svc.name \in disk.has
     THEN svc' = [svc EXCEPT !.op = "read"] /\ UNCHANGED <<disk, safe, leaked, spoilt>>
     ELSE /\ Commit([disk EXCEPT !.has = @ \cup {svc.name}])
          /\ leaked' = [leaked EXCEPT ![svc.name] = @ + 1]
          /\ svc' = [svc EXCEPT !.op = "none"] /\ UNCHANGED spoilt
  /\ UNCHANGED <<queue, daemon, next_swap, others>>

\* get_file opens the file and never closes it.
ReadFile ==
  /\ svc.op = "read" /\ svc' = [svc EXCEPT !.op = "none"]
  /\ leaked' = IF Free /\ svc.name \in disk.has
               THEN [leaked EXCEPT ![svc.name] = @ + 1] ELSE leaked
  /\ UNCHANGED <<queue, daemon, next_swap, disk, safe, others, spoilt>>

Service == SetFileSize \/ GetFileSize \/ FileExists \/ ReadFile

-----------------------------------------------------------------------------
(* Other tasks and resets.                                                 *)

\* Another task opens a file, or closes it: a transaction point.
Other ==
  /\ \/ Free /\ others = 0 /\ others' = 1 /\ UNCHANGED <<disk, safe>>
     \/ others = 1 /\ others' = 0 /\ Commit(disk)
  /\ UNCHANGED <<queue, daemon, next_swap, svc, leaked, spoilt>>

\* RAM is lost and the volume mounted at its last transaction point.
Reset ==
  /\ queue' = 0 /\ pc' = "boot" /\ then' = "wait" /\ fs_init' = FALSE
  /\ current_size' = 0 /\ next_swap' = Default
  /\ own' = FALSE /\ append' = FALSE /\ pos' = 0
  /\ svc' = [op |-> "none", name |-> "cur"]
  /\ leaked' = [cur |-> 0, old |-> 0] /\ others' = 0
  /\ disk' = safe /\ UNCHANGED <<safe, spoilt>>

-----------------------------------------------------------------------------

Init ==
  /\ queue = 0 /\ pc = "boot" /\ then = "wait" /\ fs_init = FALSE
  /\ current_size = 0 /\ next_swap = Default
  /\ own = FALSE /\ append = FALSE /\ pos = 0
  /\ svc = [op |-> "none", name |-> "cur"]
  /\ leaked = [cur |-> 0, old |-> 0] /\ others = 0 /\ spoilt = FALSE
  /\ disk = [cur |-> <<>>, old |-> <<>>, has |-> {}, size |-> 0, out |-> 0]
  /\ safe = disk

Next == SysLog \/ Daemon \/ Service \/ Other \/ Reset

Spec == Init /\ [][Next]_vars

-----------------------------------------------------------------------------
(* Properties.                                                             *)

Swaps == FileSizes \cup {Default}

\* Type invariant (logger.c:38-52): never more handles than there are, a
\* queue within its length, and the size counted of the file.
TypeOK ==
  /\ queue \in 0..QueueLen
  /\ pc \in {"boot", "open", "stat", "rename", "create", "wait", "output", "write", "commit"}
  /\ then \in {"wait", "output", "write"}
  /\ fs_init \in BOOLEAN /\ own \in BOOLEAN /\ append \in BOOLEAN /\ spoilt \in BOOLEAN
  /\ fs_init => own
  /\ next_swap \in Swaps /\ current_size \in Nat /\ pos \in Nat
  /\ svc \in [op : {"none", "exists", "read"}, name : Names]
  /\ leaked \in [Names -> Nat] /\ others \in {0, 1} /\ Used <= Handles
  /\ {disk, safe} \subseteq [cur : Seq(Nat), old : Seq(Nat), has : SUBSET Names,
                             size : Swaps \cup {0}, out : 0..MaxOut]

\* Neither file is ever longer than twice the largest size that was set
\* (logger.c:182 counts what is written since the file was opened, 281 looks
\* at the length of the file), whatever is reset, leaked or refused.
SizeBounded ==
  \A n \in {Len(disk.cur), Len(disk.old)} :
    \E m \in Swaps : n < 2 * m

\* The old file and the file after it are the last messages written, none
\* lost, repeated or out of order, also after a reset at any moment, which
\* may only take the message that was being written (logger.c:188-191 and
\* 273-289).  It holds until a handle is missing or a leaked one (get_file)
\* keeps the old file from being replaced.
LogIsSuffix ==
  ~spoilt =>
    LET log == disk.old \o disk.cur
    IN log = [k \in 1..Len(log) |-> disk.out - Len(log) + k]
=============================================================================
