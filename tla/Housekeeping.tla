---------------------------- MODULE Housekeeping ----------------------------
(***************************************************************************)
(* The housekeeping records of the on-board computer.                      *)
(*                                                                         *)
(*  - The housekeeping DAEMON ("dmn", housekeeping_task.c) wakes up twice  *)
(*    a minute, writes one record into the next slot of a circular file    *)
(*    and saves where it is in a configuration file.                       *)
(*  - The housekeeping SERVICE ("svc", housekeeping_service.c) changes the *)
(*    number of slots and sends pages of records, newest first.            *)
(*                                                                         *)
(* They share the slot counter, an array with the time of each record and  *)
(* the two files, behind the mutex f_count_lock, which its first user      *)
(* creates; the sending of a page takes no mutex.  The tasks have the same *)
(* priority and share the processor: each may be preempted anywhere, also  *)
(* between finding no mutex, or no file, and acting on it.  Nothing in     *)
(* memory survives a reset: the configuration file brings the counter and  *)
(* the times back.  Both files live on the transactional volume described  *)
(* in module Scheduler.                                                    *)
(*                                                                         *)
(* A record is represented by its time, and 0 stands for no record: the    *)
(* hole of a file, or a time that was never set.                           *)
(***************************************************************************)
EXTENDS Integers, Sequences, FiniteSets

CONSTANTS
  TopMax,       \* 20160, the initial and the largest number of slots
  NewMaxes,     \* numbers of slots the ground may ask for
  Pages,        \* pages the ground may ask for
  Gaps,         \* how much later than the last the next record may be
  Threshold,    \* how near a time must be to the one searched for
  Words,        \* what uninitialised or foreign memory may hold
  TimeWrap,     \* width of a Unix time (2^32)
  Horizon,      \* bound: the time of the last record
  MaxRequests,  \* bound: requests of the ground
  MaxTroubles   \* bound: kinds of errors, a replaced mutex one of them, and resets

Slots == 1 .. TopMax
Page == [op : {"get"}, limit : Nat \ {0}, id : Nat, time : Nat]

ASSUME SlotsAssumption == TopMax \in Nat \ {0} /\ NewMaxes \subseteq Slots
ASSUME PagesAssumption == Pages \subseteq Page
ASSUME TimesAssumption ==
  /\ Gaps \subseteq Nat \ {0} /\ Threshold \in Nat /\ Words \subseteq Nat /\ Words # {}
  /\ TimeWrap \in Nat \ {0} /\ Horizon \in 0 .. TimeWrap
ASSUME LimitsAssumption ==
  MaxRequests \in Nat /\ MaxTroubles \in Nat

Task == {"dmn", "svc"}
Other(t) == IF t = "dmn" THEN "svc" ELSE "dmn"

VARIABLES
  now,      \* the time of the last record
  max,      \* MAX_FILES
  cur,      \* current_file, the slot of the next record
  loaded,   \* config_loaded
  arr,      \* timestamps and hk_timestamp_array_size
  lock,     \* f_count_lock: its holder, "free", or "absent" before its creation
  stale,    \* the task that uses a mutex which another has replaced, or "none"
  rec,      \* the record file
  cfg,      \* the configuration file
  disk,     \* both files at the last transaction point
  pc,       \* where each task is
  stamp,    \* the time of the record the daemon is storing
  all,      \* store_config rewrites all times
  req,      \* the request the service works on
  page,     \* where it is in the page it sends
  slack,    \* auxiliary: records the daemon may store before it reaches the page
  reqs, faults, resets   \* what is used of the bounds; faults is a set of kinds

ring == <<max, cur, loaded, arr>>
volume == <<rec, cfg, disk>>
sending == <<req, page>>
bounds == <<reqs, faults, resets>>
mutex == <<lock, stale>>
vars == <<now, max, cur, loaded, arr, lock, stale, rec, cfg, disk, pc, stamp, all, req, page, slack,
          reqs, faults, resets>>

-----------------------------------------------------------------------------
(* The two files.                                                          *)

NoRec == [exists |-> FALSE, at |-> << >>]
EmptyRec == [exists |-> TRUE, at |-> << >>]

\* max and cur are 0 when the file ends before them.
NoCfg == [exists |-> FALSE, max |-> 0, cur |-> 0, at |-> << >>]
EmptyCfg == [exists |-> TRUE, max |-> 0, cur |-> 0, at |-> << >>]

At(s, i) == IF i \in DOMAIN s THEN s[i] ELSE 0

\* The sequence s with the entry i set; a gap before it reads as zeros.
Put(s, i, v) ==
  [k \in 1 .. (IF i > Len(s) THEN i ELSE Len(s)) |-> IF k = i THEN v ELSE At(s, k)]

RecordAt(i) == At(rec.at, i)

Fault(kind) ==
  /\ kind \in faults \/ Cardinality(faults) + resets < MaxTroubles
  /\ faults' = faults \cup {kind}

Commit == disk' = [rec |-> rec', cfg |-> cfg']

\* red_close makes a transaction point, or fails and does not.
CloseFile ==
  /\ UNCHANGED <<rec, cfg>>
  /\ \/ Commit /\ UNCHANGED faults
     \/ Fault("close") /\ UNCHANGED disk

-----------------------------------------------------------------------------
(* The array of times.                                                     *)

NoArray == [ptr |-> "null", size |-> 0, at |-> [i \in Slots |-> 0]]

\* What the array handler leaves when it gets memory for n > 0 times: a larger
\* array keeps all the old times but the last, whose place is not
\* initialised, nor is anything in a smaller one.
Resized(n) ==
  LET larger == arr.size < n
  IN  IF n = arr.size THEN {arr}
      ELSE {[ptr |-> "live", size |-> n,
             at |-> [i \in Slots |->
                       IF i > n \/ i > arr.size THEN 0
                       ELSE IF larger /\ i < arr.size THEN arr.at[i] ELSE w]] : w \in Words}

\* The handler frees the old array of size > 0 only to make a larger one or
\* none at all, and keeps the pointer when it makes none.
Frees(n) == arr.ptr # "null" /\ (n = 0 \/ arr.size < n)
FreesTwice(n) == Frees(n) /\ arr.ptr = "freed"

\* Where the pointer may point once a block was freed twice without the
\* kernel noticing: the block had become somebody else's, or, if the handler
\* had just obtained it itself, its own new one.
Astray(n) == IF n = 0 THEN {"freed"} ELSE {"freed", "live"}

\* dynamic_timestamp_array_handler(n): succeeds, finds no memory, or stops in
\* the assertion of vPortFree.
Handled(n) ==
  LET done == IF n = 0 THEN {[arr EXCEPT !.ptr = IF @ = "null" THEN "null" ELSE "freed",
                                         !.size = 0, !.at = [i \in Slots |-> 0]]}
              ELSE Resized(n)
  IN  IF FreesTwice(n) THEN {[a EXCEPT !.ptr = p] : a \in done, p \in Astray(n)} ELSE done

\* The times as they read: those the array does not hold, or no longer holds,
\* are whatever is in memory.
Views ==
  {[i \in Slots |-> IF arr.ptr = "live" /\ i <= arr.size THEN arr.at[i] ELSE w] : w \in Words}
    \cup (IF arr.ptr = "freed" THEN {arr.at} ELSE {})

-----------------------------------------------------------------------------
(* The search for a time.                                                  *)

\* Unsigned: a - b wraps.
Near(a, b) == (a - b) % TimeWrap <= Threshold

\* Leftmost binary search for t in v[left - offset] .. v[right - offset].
Leftmost(v, left, right, offset, t) ==
  LET narrow[part \in Nat \X Nat] ==
        LET l == part[1]  r == part[2]
            middle == (l + r) \div 2
        IN  IF l >= r THEN l
            ELSE IF v[middle - offset] < t THEN narrow[<<middle + 1, r>>] ELSE narrow[<<l, middle>>]
  IN  narrow[<<left, right>>] - offset

\* The slot near which t lies, if its neighbour or itself is near enough.
Chosen(v, n, p, t) ==
  IF p > 1 /\ Near(t, v[p - 1]) THEN p - 1
  ELSE IF \/ Near(v[p], t)
          \/ p > 1 /\ p = n /\ t > v[p] /\ Near(t, v[p])
       THEN p ELSE 0

\* Mutant of FileIdFromTimestamp: slots not yet written are searched too.
SearchesAll(v, c, n, t) == IF n = 0 THEN 0 ELSE Chosen(v, n, Leftmost(v, 1, n, 0, t), t)

\* get_file_id_from_timestamp on the times v, the current slot c and n times.
FileIdFromTimestamp(v, c, n, t) ==
  IF v[c] = 0
  THEN IF c = 1 THEN 0 ELSE Chosen(v, n, Leftmost(v, 1, c - 1, 0, t), t)
  ELSE Chosen(v, n, Leftmost(v, c, c + n - 1, c - 1, t), t)

-----------------------------------------------------------------------------
(* f_count_lock.                                                           *)

Goto(t, where) == pc' = [pc EXCEPT ![t] = where]

Step(t, from, to) == pc[t] = from /\ Goto(t, to)

\* prv_get_lock: finds no mutex and makes one, or reads which one to take.
FindNoLock(t) ==
  /\ lock = "absent" /\ Step(t, "lock", "create")
  /\ UNCHANGED <<now, ring, mutex, volume, stamp, all, sending, slack, bounds>>

FindLock(t) ==
  /\ lock # "absent" /\ Step(t, "lock", "take")
  /\ UNCHANGED <<now, ring, mutex, volume, stamp, all, sending, slack, bounds>>

\* Between the taking and the giving of the mutex.
Inside(t) ==
  pc[t] \in {"load", "probe", "write", "close", "closelost", "array", "store", "putmax", "putcur",
             "putstamps", "closecfg", "advance", "give", "resize", "free", "search"}

\* The other task may have made a mutex since, and be using it: this one
\* replaces it.
CreateLock(t) ==
  /\ Step(t, "create", "lock")
  /\ lock' = "free"
  /\ IF pc[Other(t)] = "take" \/ Inside(Other(t))
     THEN stale' = Other(t) /\ Fault("mutex")
     ELSE UNCHANGED <<stale, faults>>
  /\ UNCHANGED <<now, ring, volume, stamp, all, sending, slack, reqs, resets>>

Locked(t) ==
  IF t = "dmn" THEN IF loaded THEN "write" ELSE "load"
  ELSE IF req.op = "set" THEN "resize" ELSE "search"

\* Mutant of TakeLock: the mutex is not waited for.
TakeAnyway(t) ==
  /\ Step(t, "take", Locked(t))
  /\ lock' = t
  /\ UNCHANGED <<now, ring, stale, volume, stamp, all, sending, slack, bounds>>

\* xSemaphoreTake, with no time limit.  Nobody else has a mutex that was
\* replaced.
TakeLock(t) ==
  /\ Step(t, "take", Locked(t))
  /\ \/ stale = t /\ UNCHANGED lock
     \/ stale # t /\ lock = "free" /\ lock' = t
  /\ UNCHANGED <<now, ring, stale, volume, stamp, all, sending, slack, bounds>>

\* xSemaphoreGive: the kernel asserts that the holder gives, and ignores the
\* giving of a free mutex.
GiveLock(t) ==
  /\ pc[t] = "give"
  /\ IF lock = Other(t)
     THEN Goto(t, "assert") /\ UNCHANGED <<mutex, req>>
     ELSE /\ lock' = "free" /\ stale' = IF stale = t THEN "none" ELSE stale
          /\ Goto(t, IF t = "dmn" THEN "sleep" ELSE IF req.op = "get" THEN "page" ELSE "idle")
          /\ req' = IF t = "svc" /\ req.op = "set" THEN [op |-> "none"] ELSE req
  /\ UNCHANGED <<now, ring, volume, stamp, all, page, slack, bounds>>

-----------------------------------------------------------------------------
(* store_config, by either task.                                           *)

AfterStore(t) == IF t = "dmn" THEN "advance" ELSE "give"

\* exists(hk_config), then red_open.  When exists cannot open the file for
\* another reason than that it exists, it deletes it.
OpenConfig(t) ==
  /\ pc[t] = "store"
  /\ \/ /\ cfg.exists
        /\ all' = (t = "svc") /\ Goto(t, "putmax")
        /\ UNCHANGED <<cfg, disk, faults>>
     \/ /\ IF cfg.exists THEN Fault("exists") ELSE UNCHANGED faults
        /\ cfg' = EmptyCfg /\ disk' = [rec |-> rec, cfg |-> EmptyCfg]
        /\ all' = TRUE /\ Goto(t, "putmax")
     \/ /\ Fault("open") /\ Goto(t, AfterStore(t))
        /\ UNCHANGED <<cfg, disk, all>>
  /\ UNCHANGED <<now, ring, mutex, rec, stamp, sending, slack, reqs, resets>>

\* A write that fails is not noticed; the device refuses the later ones too.
ConfigWrite(t, from, to, written) ==
  /\ pc[t] = from
  /\ \/ cfg' \in written /\ Goto(t, to) /\ UNCHANGED faults
     \/ Fault("write") /\ Goto(t, "closecfg") /\ UNCHANGED cfg
  /\ UNCHANGED <<now, ring, mutex, rec, disk, stamp, all, sending, slack, reqs, resets>>

PutMax(t) == ConfigWrite(t, "putmax", "putcur", {[cfg EXCEPT !.max = max]})

PutCur(t) == ConfigWrite(t, "putcur", "putstamps", {[cfg EXCEPT !.cur = cur]})

\* The first arr.size times, over what the file held, or that of this slot.
StampsWritten(v) ==
  IF all THEN [k \in 1 .. (IF arr.size > Len(cfg.at) THEN arr.size ELSE Len(cfg.at)) |->
                 IF k <= arr.size THEN v[k] ELSE cfg.at[k]]
  ELSE Put(cfg.at, cur, v[cur])

PutStamps(t) ==
  ConfigWrite(t, "putstamps", "closecfg", {[cfg EXCEPT !.at = StampsWritten(v)] : v \in Views})

CloseConfig(t) ==
  /\ Step(t, "closecfg", AfterStore(t))
  /\ CloseFile
  /\ UNCHANGED <<now, ring, mutex, stamp, all, sending, slack, reqs, resets>>

StoreConfig(t) == OpenConfig(t) \/ PutMax(t) \/ PutCur(t) \/ PutStamps(t) \/ CloseConfig(t)

-----------------------------------------------------------------------------
(* The daemon: populate_and_store_hk_data.                                 *)

\* Wakes up and collects a record.
DCollect ==
  /\ Step("dmn", "sleep", "lock")
  /\ \E g \in Gaps : now + g <= Horizon /\ now' = now + g
  /\ stamp' = now'
  /\ UNCHANGED <<ring, mutex, volume, all, sending, slack, bounds>>

NotLoaded == UNCHANGED <<max, cur, arr>> /\ loaded' = TRUE

\* exists(hk_config) creates the file to see whether it is there, and then
\* deletes it; or it deletes a file it could not open.
DLoadNothing ==
  /\ pc["dmn"] = "load"
  /\ NotLoaded
  /\ \/ ~cfg.exists /\ cfg' = EmptyCfg /\ Goto("dmn", "probe") /\ UNCHANGED faults
     \/ cfg.exists /\ Fault("exists") /\ cfg' = NoCfg /\ Goto("dmn", "write")
  /\ disk' = [rec |-> rec, cfg |-> cfg']
  /\ UNCHANGED <<now, mutex, rec, stamp, all, sending, slack, reqs, resets>>

DUnprobe ==
  /\ Step("dmn", "probe", "write")
  /\ cfg' = NoCfg /\ disk' = [rec |-> rec, cfg |-> NoCfg]
  /\ UNCHANGED <<now, ring, mutex, rec, stamp, all, sending, slack, bounds>>

DLoadOpenFails ==
  /\ cfg.exists /\ Step("dmn", "load", "write")
  /\ NotLoaded /\ Fault("open")
  /\ UNCHANGED <<now, mutex, volume, stamp, all, sending, slack, reqs, resets>>

\* A field the file does not hold, or that cannot be read, stays as it is.
MaxRead == IF cfg.max = 0 THEN max ELSE cfg.max
CurRead == IF cfg.cur = 0 THEN cur ELSE cfg.cur
StampsRead(a) ==
  [a EXCEPT !.at = [i \in Slots |-> IF i <= a.size /\ i <= Len(cfg.at) THEN cfg.at[i] ELSE a.at[i]]]

\* ++current_file; if (current_file > MAX_FILES) current_file = 1;
NextSlot(c, m) == IF c + 1 > m THEN 1 ELSE c + 1

\* Mutant of DLoad: the slot is not advanced.
DLoadStays ==
  /\ cfg.exists /\ Step("dmn", "load", "write")
  /\ loaded' = TRUE /\ max' = MaxRead /\ cur' = CurRead
  /\ arr' \in {StampsRead(a) : a \in Handled(MaxRead)}
  /\ UNCHANGED <<now, mutex, volume, stamp, all, sending, slack, bounds>>

\* load_config.  Without memory it returns before it advances the slot.
DLoad ==
  /\ cfg.exists /\ pc["dmn"] = "load"
  /\ loaded' = TRUE
  /\ \E m \in {MaxRead, max}, c \in {CurRead, cur}, short \in BOOLEAN :
       /\ IF m = MaxRead /\ c = CurRead /\ ~short THEN UNCHANGED faults ELSE Fault("read")
       /\ max' = m
       /\ \/ /\ \E a \in Handled(m) : arr' = IF short THEN a ELSE StampsRead(a)
             /\ cur' = NextSlot(c, m)
             /\ Goto("dmn", "write")
          \/ /\ FreesTwice(m)
             /\ cur' = c /\ UNCHANGED arr
             /\ Goto("dmn", "assert")
  /\ UNCHANGED <<now, mutex, volume, stamp, all, sending, slack, reqs, resets>>

DLoadNoMemory ==
  /\ cfg.exists /\ Step("dmn", "load", "write")
  /\ Fault("memory") /\ MaxRead # arr.size
  /\ loaded' = TRUE /\ max' = MaxRead /\ cur' = CurRead /\ UNCHANGED arr
  /\ UNCHANGED <<now, mutex, volume, stamp, all, sending, slack, reqs, resets>>

\* write_hk_to_file: a failed write may have written the record or not.
DWrite ==
  /\ pc["dmn"] = "write"
  /\ disk' = IF rec.exists THEN disk ELSE [rec |-> EmptyRec, cfg |-> cfg]
  /\ LET written == [exists |-> TRUE, at |-> Put(rec.at, cur, stamp)]
     IN  \/ rec' = written /\ Goto("dmn", "close") /\ UNCHANGED faults
         \/ /\ rec' \in {written, [rec EXCEPT !.exists = TRUE]}
            /\ Goto("dmn", "closelost") /\ Fault("write")
  /\ slack' = IF slack >= 0 THEN slack - 1 ELSE slack
  /\ UNCHANGED <<now, ring, mutex, cfg, stamp, all, sending, reqs, resets>>

DWriteOpenFails ==
  /\ Step("dmn", "write", "give")
  /\ Fault("open")
  /\ UNCHANGED <<now, ring, mutex, volume, stamp, all, sending, slack, reqs, resets>>

DClose ==
  /\ Step("dmn", "close", "array") \/ Step("dmn", "closelost", "give")
  /\ CloseFile
  /\ UNCHANGED <<now, ring, mutex, stamp, all, sending, slack, reqs, resets>>

\* timestamps[current_file] = ..., beyond the end of the array too.
Stamped(a) == IF cur <= a.size THEN [a EXCEPT !.at[cur] = stamp] ELSE a

\* Mutant of DArray: the time goes into the next place.
DArrayNext ==
  /\ Step("dmn", "array", "store")
  /\ arr' \in {IF NextSlot(cur, max) <= a.size THEN [a EXCEPT !.at[NextSlot(cur, max)] = stamp]
               ELSE a : a \in Handled(max)}
  /\ UNCHANGED <<now, max, cur, loaded, mutex, volume, stamp, all, sending, slack, bounds>>

DArray ==
  /\ pc["dmn"] = "array"
  /\ \/ /\ arr' \in {Stamped(a) : a \in Handled(max)}
        /\ Goto("dmn", "store") /\ UNCHANGED faults
     \/ /\ max # arr.size /\ Fault("memory")
        /\ Goto("dmn", "store") /\ UNCHANGED arr
     \/ /\ FreesTwice(max)
        /\ Goto("dmn", "assert") /\ UNCHANGED <<arr, faults>>
  /\ UNCHANGED <<now, max, cur, loaded, mutex, volume, stamp, all, sending, slack, reqs, resets>>

\* Mutant of DAdvance: the slot after the last is not the first.
DAdvanceUnwrapped ==
  /\ Step("dmn", "advance", "give")
  /\ cur' = cur + 1
  /\ UNCHANGED <<now, max, loaded, arr, mutex, volume, stamp, all, sending, slack, bounds>>

DAdvance ==
  /\ Step("dmn", "advance", "give")
  /\ cur' = NextSlot(cur, max)
  /\ UNCHANGED <<now, max, loaded, arr, mutex, volume, stamp, all, sending, slack, bounds>>

Daemon ==
  \/ DCollect \/ DLoadNothing \/ DUnprobe \/ DLoadOpenFails \/ DLoad \/ DLoadNoMemory
  \/ DWrite \/ DWriteOpenFails \/ DClose \/ DArray \/ DAdvance

-----------------------------------------------------------------------------
(* The service.                                                            *)

NoRequest == [op |-> "none"]
NoPage == [left |-> 0, id |-> 0, max |-> 0, prev |-> 0]

SAccept ==
  /\ Step("svc", "idle", "lock")
  /\ reqs < MaxRequests /\ reqs' = reqs + 1
  /\ req' \in [op : {"set"}, max : NewMaxes] \cup Pages
  /\ UNCHANGED <<now, ring, mutex, volume, stamp, all, page, slack, faults, resets>>

\* set_max_files to a larger number; no memory for a larger array is ignored.
SGrow ==
  /\ pc["svc"] = "resize" /\ max < req.max
  /\ max' = req.max
  /\ \/ arr' \in Handled(req.max) /\ Goto("svc", "give") /\ UNCHANGED faults
     \/ /\ req.max # arr.size /\ Fault("memory")
        /\ Goto("svc", "give") /\ UNCHANGED arr
     \/ FreesTwice(req.max) /\ Goto("svc", "assert") /\ UNCHANGED <<arr, faults>>
  /\ UNCHANGED <<now, cur, loaded, mutex, volume, stamp, all, sending, slack, reqs, resets>>

\* The daemon has the record file open.
RecordOpen == pc["dmn"] \in {"close", "closelost"}

\* Mutant of SShrink: the records stay.
SShrinkKeeps ==
  /\ Step("svc", "resize", "free") /\ max >= req.max
  /\ max' = req.max /\ cur' = 1
  /\ UNCHANGED <<now, loaded, arr, mutex, volume, stamp, all, sending, slack, bounds>>

\* set_max_files to the same or a smaller number: the record file goes.  A file
\* that is open is not deleted.
SShrink ==
  /\ Step("svc", "resize", "free") /\ max >= req.max
  /\ max' = req.max /\ cur' = 1
  /\ \/ /\ ~RecordOpen /\ UNCHANGED faults
        /\ rec' = NoRec /\ disk' = [rec |-> NoRec, cfg |-> cfg]
     \/ /\ rec.exists /\ UNCHANGED <<rec, disk>>
        /\ IF RecordOpen THEN UNCHANGED faults ELSE Fault("unlink")
  /\ UNCHANGED <<now, loaded, arr, mutex, cfg, stamp, all, sending, slack, reqs, resets>>

\* The array goes too; the pointer stays.
SFree ==
  /\ pc["svc"] = "free"
  /\ \/ arr' \in Handled(0) /\ Goto("svc", "store")
     \/ FreesTwice(0) /\ Goto("svc", "assert") /\ UNCHANGED arr
  /\ UNCHANGED <<now, max, cur, loaded, mutex, volume, stamp, all, sending, slack, bounds>>

\* fetch_historic_hk_and_transmit, up to the giving of the mutex.
SSearch ==
  /\ Step("svc", "search", "give")
  /\ \E v \in Views :
       page' = [NoPage EXCEPT !.max = max,
                              !.id = IF req.time = 0 THEN req.id
                                     ELSE IF arr.ptr = "null" THEN 0
                                     ELSE FileIdFromTimestamp(v, cur, arr.size, req.time)]
  /\ UNCHANGED <<now, ring, mutex, volume, stamp, all, req, slack, bounds>>

\* The records from the oldest to the newest: what the slots after the current
\* one hold, around to the one before it.
History == [k \in 1 .. max - 1 |-> RecordAt(((cur - 1 + k) % max) + 1)]

InOrder(h) == \A i, j \in DOMAIN h : i < j /\ h[i] # 0 /\ h[j] # 0 => h[i] < h[j]

Lesser(a, b) == IF a < b THEN a ELSE b

\* Where the daemon has written its record and will leave the slot.
Storing == {"close", "array", "store", "putmax", "putcur", "putstamps", "closecfg", "advance"}

\* The slot k before slot i, in a ring of m.
Back(i, k, m) == IF i > k THEN i - k ELSE i - k + m

\* How many records the daemon may store, from now, before a page of n records
\* that ends before slot i meets them; -1 when what the page would read now is
\* out of order already, or the size of the ring has changed since it was read.
Slack(i, n) ==
  LET room == IF i > cur THEN i - cur ELSE i - cur + max
      left == room - n - (IF pc["dmn"] \in Storing THEN 1 ELSE 0)
  IN  IF /\ loaded /\ page.max = max /\ cur <= max /\ left >= 0
         /\ InOrder([k \in 1 .. n |-> RecordAt(Back(i, n + 1 - k, max))])
      THEN left ELSE -1

\* Without a slot to begin before, the page begins before the current one.
SBegin ==
  /\ Step("svc", "page", "send")
  /\ LET id == IF page.id = 0 \/ page.id > page.max THEN cur ELSE page.id
         n == Lesser(req.limit, page.max)
     IN  /\ page' = [page EXCEPT !.id = id, !.left = n, !.prev = TimeWrap]
         /\ slack' = Slack(id, n)
  /\ UNCHANGED <<now, ring, mutex, volume, stamp, all, req, bounds>>

Before(i, m) == IF i = 1 THEN m ELSE i - 1

\* Mutant of SSend: the slot is left after its record is read, not before.
SSendThenStep ==
  /\ pc["svc"] = "send" /\ rec.exists /\ page.left > 0
  /\ page' = [page EXCEPT !.id = Before(@, page.max), !.left = @ - 1,
                          !.prev = IF RecordAt(page.id) = 0 THEN @ ELSE RecordAt(page.id)]
  /\ UNCHANGED <<now, ring, mutex, volume, pc, stamp, all, req, slack, bounds>>

\* Reads and sends the record before the last.
SSend ==
  /\ pc["svc"] = "send" /\ rec.exists /\ page.left > 0
  /\ LET i == Before(page.id, page.max)
     IN  page' = [page EXCEPT !.id = i, !.left = @ - 1,
                              !.prev = IF RecordAt(i) = 0 THEN @ ELSE RecordAt(i)]
  /\ UNCHANGED <<now, ring, mutex, volume, pc, stamp, all, req, slack, bounds>>

EndPage == req' = NoRequest /\ page' = NoPage /\ slack' = -1

\* The page is complete, or a record cannot be read or sent.
SEnd ==
  /\ Step("svc", "send", "idle")
  /\ EndPage
  /\ UNCHANGED <<now, ring, mutex, volume, stamp, all, bounds>>

\* exists(fileName) could not open the file and deletes it.
SDeletes ==
  /\ Step("svc", "send", "idle")
  /\ page.left > 0 /\ rec.exists /\ Fault("exists") /\ ~RecordOpen
  /\ rec' = NoRec /\ disk' = [rec |-> NoRec, cfg |-> cfg]
  /\ EndPage
  /\ UNCHANGED <<now, ring, mutex, cfg, stamp, all, reqs, resets>>

\* exists(fileName) creates the file, to see that there is none.
SProbe ==
  /\ Step("svc", "send", "fprobe")
  /\ page.left > 0 /\ ~rec.exists
  /\ rec' = EmptyRec /\ disk' = [rec |-> EmptyRec, cfg |-> cfg]
  /\ UNCHANGED <<now, ring, mutex, cfg, stamp, all, sending, slack, bounds>>

\* It deletes what it created; a file that is open is not deleted.
SUnprobe ==
  /\ Step("svc", "fprobe", "idle")
  /\ IF RecordOpen THEN UNCHANGED <<rec, disk>>
     ELSE rec' = NoRec /\ disk' = [rec |-> NoRec, cfg |-> cfg]
  /\ EndPage
  /\ UNCHANGED <<now, ring, mutex, cfg, stamp, all, bounds>>

Service ==
  \/ SAccept \/ SGrow \/ SShrink \/ SFree
  \/ SSearch \/ SBegin \/ SSend \/ SEnd \/ SDeletes \/ SProbe \/ SUnprobe

-----------------------------------------------------------------------------
(* The rest of the computer.                                               *)

\* Another task makes a transaction point.
Transact ==
  /\ disk # [rec |-> rec, cfg |-> cfg]
  /\ disk' = [rec |-> rec, cfg |-> cfg]
  /\ UNCHANGED <<now, ring, mutex, rec, cfg, pc, stamp, all, sending, slack, bounds>>

Reset ==
  /\ Cardinality(faults) + resets < MaxTroubles /\ resets' = resets + 1
  /\ rec' = disk.rec /\ cfg' = disk.cfg
  /\ max' = TopMax /\ cur' = 1 /\ loaded' = FALSE /\ arr' = NoArray
  /\ lock' = "absent" /\ stale' = "none"
  /\ pc' = [dmn |-> "sleep", svc |-> "idle"]
  /\ stamp' = 0 /\ all' = FALSE /\ req' = NoRequest /\ page' = NoPage /\ slack' = -1
  /\ UNCHANGED <<now, disk, reqs, faults>>

-----------------------------------------------------------------------------
Init ==
  /\ now = 0
  /\ max = TopMax /\ cur = 1 /\ loaded = FALSE /\ arr = NoArray
  /\ lock = "absent" /\ stale = "none"
  /\ rec = NoRec /\ cfg = NoCfg /\ disk = [rec |-> NoRec, cfg |-> NoCfg]
  /\ pc = [dmn |-> "sleep", svc |-> "idle"]
  /\ stamp = 0 /\ all = FALSE /\ req = NoRequest /\ page = NoPage /\ slack = -1
  /\ reqs = 0 /\ faults = {} /\ resets = 0

Shared(t) ==
  \/ FindNoLock(t) \/ FindLock(t) \/ CreateLock(t) \/ TakeLock(t) \/ GiveLock(t)
  \/ StoreConfig(t)

Next == Daemon \/ Service \/ (\E t \in Task : Shared(t)) \/ Transact \/ Reset

Spec == Init /\ [][Next]_vars
-----------------------------------------------------------------------------
(* Properties.                                                             *)

RecFile == [exists : BOOLEAN, at : Seq(Nat)]
CfgFile == [exists : BOOLEAN, max : 0 .. TopMax, cur : 0 .. TopMax, at : Seq(Nat)]

\* Every variable keeps its type; in particular the slot counter never leaves
\* the ring, whatever a torn configuration file held.
TypeOK ==
  /\ now \in Nat /\ stamp \in Nat /\ all \in BOOLEAN
  /\ max \in Slots /\ cur \in Slots /\ loaded \in BOOLEAN
  /\ arr \in [ptr : {"null", "live", "freed"}, size : 0 .. TopMax, at : [Slots -> Nat]]
  /\ lock \in {"absent", "free"} \cup Task /\ stale \in {"none"} \cup Task
  /\ rec \in RecFile /\ cfg \in CfgFile /\ disk \in [rec : RecFile, cfg : CfgFile]
  /\ pc["dmn"] \in {"sleep", "lock", "create", "take", "load", "probe", "write", "close", "closelost",
                    "array", "store", "putmax", "putcur", "putstamps", "closecfg", "advance",
                    "give", "assert"}
  /\ pc["svc"] \in {"idle", "lock", "create", "take", "resize", "free", "store", "putmax", "putcur",
                    "putstamps", "closecfg", "give", "search", "page", "send", "fprobe", "assert"}
  /\ DOMAIN pc = Task
  /\ req \in {NoRequest} \cup [op : {"set"}, max : NewMaxes] \cup Pages
  /\ page \in [left : Nat, id : Nat, max : 0 .. TopMax, prev : Nat]
  /\ slack \in Nat \cup {-1}
  /\ reqs \in Nat /\ resets \in Nat
  /\ faults \subseteq {"close", "exists", "open", "write", "read", "memory", "unlink", "mutex"}

\* f_count_lock protects the ring: the two tasks are both between its taking
\* and its giving only if each has a mutex of its own, because both found none
\* at first and the second to make one replaced the other's in use (prv_get_lock,
\* housekeeping_service.c:456-461); once the one with the replaced mutex gives,
\* that is over until a reset.
LockExclusion ==
  Inside("dmn") /\ Inside("svc") => \E t \in Task : stale = t /\ lock = Other(t)

\* Where the ring is, or will be found when the configuration is loaded.
Found ==
  IF loaded \/ ~cfg.exists THEN [max |-> max, cur |-> cur]
  ELSE [max |-> MaxRead, cur |-> NextSlot(CurRead, MaxRead)]

Stored == {RecordAt(i) : i \in (1 .. Found.max) \ {Found.cur}} \ {0}

Newer(t, S) == \A s \in S : s < t

\* The records that count, all but the one in the slot to be overwritten, are
\* lost one by one and only to newer ones, whatever the tasks do and wherever
\* a reset falls.  What deletes them is a request that does not increase the
\* number of slots, and the end of a page that began without a record file:
\* exists() takes no mutex and unlinks by name, so that what the daemon has
\* stored meanwhile goes too (lines 295-300).  (Errors excepted, and two
\* mutexes.)
NothingLost ==
  [][\/ faults' # {}
     \/ (pc["svc"] = "resize" /\ req.max <= max)
     \/ (pc["svc"] = "fprobe" /\ pc'["svc"] = "idle")
     \/ Stored \subseteq Stored'
     \/ \E new \in Stored' \ Stored, old \in Stored :
          Newer(new, Stored) /\ Stored \ {old} \subseteq Stored']_vars

\* The slots hold the records in the order of their times, from the one after
\* the current slot around to the one before it: the order in which a page
\* goes through them.  (Without errors and resets.)
Chronological == faults = {} /\ resets = 0 => InOrder(History)

\* A time kept in memory, unless it was never set, is not newer than the record
\* in its slot, and without resets it is that record's.  (Errors excepted.)
StampsMatchRecords ==
  faults = {} =>
    \A i \in Slots \ {cur} :
      arr.ptr = "live" /\ arr.at[i] \notin Words \cup {0} /\ RecordAt(i) # 0 =>
        arr.at[i] <= RecordAt(i) /\ (resets = 0 => arr.at[i] = RecordAt(i))

\* A page is newest first, although it is read without the mutex while the
\* daemon stores records, unless the daemon comes around to it.
NewestFirst ==
  [][pc["svc"] = "send" /\ slack >= 0 /\ page'.left < page.left /\ page'.id # 0
       => page'.prev <= page.prev]_vars

Unlocked == lock \in {"absent", "free"}

Finds(i) ==
  LET t == arr.at[i]
      r == FileIdFromTimestamp(arr.at, cur, arr.size, t)
  IN  r \in Slots /\ (Near(arr.at[r], t) \/ Near(t, arr.at[r]))

\* Until the ring is full, the search for the time of a record finds it, or one
\* as near as the threshold allows: whatever fails and is reset, as long as no
\* time before the current slot is one that was never set.  (Two mutexes
\* excepted.)
FindsBeforeWrap ==
  (/\ Unlocked /\ "mutex" \notin faults /\ arr.ptr = "live" /\ arr.at[cur] = 0
   /\ \A i \in 1 .. cur - 1 : arr.at[i] \notin Words \cup {0} /\ arr.at[i] = RecordAt(i))
    => \A i \in 1 .. cur - 1 : Finds(i)

\* The search for the time of a record finds it.
FindsStored ==
  Unlocked /\ arr.ptr = "live" /\ faults = {} /\ resets = 0 =>
    \A i \in 1 .. arr.size : i # cur /\ arr.at[i] # 0 /\ arr.at[i] = RecordAt(i) => Finds(i)

\* Memory is freed once: no task stops in the assertion of vPortFree, or in
\* that of xSemaphoreGive.
NoAssertion == \A t \in Task : pc[t] # "assert"
=============================================================================
