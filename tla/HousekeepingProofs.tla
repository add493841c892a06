------------------------- MODULE HousekeepingProofs -------------------------
(***************************************************************************)
(* The two housekeeping tasks exclude each other, for every number of      *)
(* slots, set of requests and pages, and any number of errors and resets,  *)
(* unless each has made a mutex of its own, and then no longer than until  *)
(* the one that was replaced is given; and the slot of the next record is  *)
(* one of the slots, whatever was read from a configuration file that a    *)
(* reset or an error cut short.  Without errors, no record is lost but to  *)
(* a newer one, or to a request that deletes the file, wherever resets     *)
(* fall; without resets too, the records are in order.                     *)
(*                                                                         *)
(* The mutex makes the records and the configuration file change by turns, *)
(* so that what the file says of the ring (Covers, Ahead) stays true of    *)
(* the records until the task that writes it is done.                      *)
(*                                                                         *)
(* The binary search is a recursive function: that it exists, stays in its *)
(* range and stops at the leftmost place follows from the shortest range   *)
(* on which it would not.  On it rest the types, and that the search finds *)
(* every record until the ring is full: the times before the current slot  *)
(* rise, here and at the transaction point, whatever fails (LapInv).  A    *)
(* page that is sent without the mutex stays ahead of the daemon           *)
(* (PageAhead), and the times fit the records (FitInv).                    *)
(***************************************************************************)
EXTENDS Housekeeping, SequenceTheorems, WellFoundedInduction, TLAPS

DaemonPlaces ==
  {"sleep", "lock", "create", "take", "load", "probe", "write", "close", "closelost", "array",
   "store", "putmax", "putcur", "putstamps", "closecfg", "advance", "give", "assert"}
ServicePlaces ==
  {"idle", "lock", "create", "take", "resize", "free", "store", "putmax", "putcur", "putstamps",
   "closecfg", "give", "search", "page", "send", "fprobe", "assert"}

\* A task in "assert" may have stopped with the mutex, or by giving it.
Places ==
  /\ pc \in [Task -> DaemonPlaces \cup ServicePlaces]
  /\ pc["dmn"] \in DaemonPlaces /\ pc["svc"] \in ServicePlaces

\* Whoever is inside has the mutex, or the one that it replaced.  That happens
\* once: the task that made the second is past making one, and only it takes
\* and gives the second until the other has given the first.
LockInv ==
  /\ lock \in {"absent", "free"} \cup Task /\ stale \in {"none"} \cup Task
  /\ \A t \in Task :
       /\ Inside(t) => lock = t \/ stale = t
       /\ pc[t] = "take" => lock # "absent"
       /\ pc[t] = "create" /\ pc[Other(t)] = "create" => lock = "absent"
       /\ stale = t => /\ pc[t] \in {"take", "assert"} \/ Inside(t)
                      /\ lock \in {"free", Other(t)} /\ pc[Other(t)] # "create"
  /\ stale # "none" => "mutex" \in faults

CfgSlots(c) ==
  c.max \in 0 .. TopMax /\ c.cur \in 0 .. TopMax /\ {"max", "cur"} \subseteq DOMAIN c

RequestInv ==
  /\ req \in {NoRequest} \cup [op : {"set"}, max : NewMaxes] \cup Pages
  /\ pc["svc"] \in {"resize", "free", "store"} => req.op = "set"

\* The slots are numbers of slots, in memory and in both versions of the file.
RingInv ==
  /\ max \in Slots /\ cur \in Slots
  /\ CfgSlots(cfg) /\ CfgSlots(disk.cfg)

LEMMA SlotNumbers ==
  /\ TopMax \in Nat /\ 1 \in Slots /\ TopMax \in Slots /\ 0 \in 0 .. TopMax
  /\ \A n \in Slots : n \in Nat /\ 1 <= n /\ n <= TopMax /\ n \in 0 .. TopMax
  /\ \A n \in 0 .. TopMax : n # 0 => n \in Slots
  /\ \A n \in NewMaxes : n \in Slots
  BY SlotsAssumption DEF Slots

\* The slot after a slot is a slot.
LEMMA NextIsSlot ==
  ASSUME NEW c \in Slots, NEW m \in Slots
  PROVE  NextSlot(c, m) \in Slots
  BY SlotsAssumption DEF Slots, NextSlot

\* What a configuration file brings, or leaves as it is, is a slot.
LEMMA ReadIsSlot ==
  ASSUME RingInv
  PROVE  MaxRead \in Slots /\ CurRead \in Slots
  BY SlotNumbers DEF RingInv, CfgSlots, MaxRead, CurRead

\* A step that leaves the request alone and does not bring the service to where
\* it resizes.
LEMMA RequestKept ==
  ASSUME RequestInv, req' = req,
         pc'["svc"] = pc["svc"] \/ pc'["svc"] \notin {"resize", "free", "store"}
  PROVE  RequestInv'
  BY DEF RequestInv, NoRequest

IInv == Places /\ LockInv /\ RequestInv /\ RingInv

LEMMA DCollectInv ==
  ASSUME IInv, DCollect
  PROVE  IInv'
<1>1. Places'
  BY DEF DCollect, ring, mutex, volume, sending, bounds, Goto, Step, IInv,
      Places, DaemonPlaces, ServicePlaces, RequestInv, Task
<1>2. LockInv'
  BY DEF DCollect, ring, mutex, volume, sending, bounds, Goto, Step, IInv,
      Places, LockInv, Inside, Other, Task
<1>3. RequestInv'
  BY DEF DCollect, ring, mutex, volume, sending, bounds, Goto, Step, IInv,
      Places, RequestInv, NoRequest
<1>4. RingInv'
  BY SlotsAssumption
  DEF DCollect, ring, mutex, volume, sending, bounds, Goto, Step, IInv,
      RingInv, CfgSlots, RequestInv, Places
<1> QED
  BY <1>1, <1>2, <1>3, <1>4 DEF IInv

LEMMA DLoadNothingInv ==
  ASSUME IInv, DLoadNothing
  PROVE  IInv'
<1>1. Places'
  BY DEF DLoadNothing, NotLoaded, ring, mutex, volume, sending, bounds, Goto, Step, IInv,
      Places, DaemonPlaces, ServicePlaces, RequestInv, Task
<1>2. LockInv'
  BY DEF DLoadNothing, NotLoaded, Fault, ring, mutex, volume, sending, bounds, Goto, Step, IInv,
      Places, LockInv, Inside, Other, Task
<1>3. RequestInv'
  <2>1. req' = req /\ pc'["svc"] = pc["svc"]
    BY DEF DLoadNothing, NotLoaded, sending, Goto, Step, IInv, Places, Task
  <2> QED
    BY <2>1, RequestKept DEF IInv
<1>4. RingInv'
  BY SlotNumbers
  DEF DLoadNothing, NotLoaded, ring, IInv, RingInv, CfgSlots, EmptyCfg, NoCfg
<1> QED
  BY <1>1, <1>2, <1>3, <1>4 DEF IInv

LEMMA DUnprobeInv ==
  ASSUME IInv, DUnprobe
  PROVE  IInv'
<1>1. Places'
  BY DEF DUnprobe, ring, mutex, volume, sending, bounds, Goto, Step, IInv,
      Places, DaemonPlaces, ServicePlaces, RequestInv, Task
<1>2. LockInv'
  BY DEF DUnprobe, ring, mutex, volume, sending, bounds, Goto, Step, IInv,
      Places, LockInv, Inside, Other, Task
<1>3. RequestInv'
  BY DEF DUnprobe, ring, mutex, volume, sending, bounds, Goto, Step, IInv,
      Places, RequestInv, NoRequest
<1>4. RingInv'
  BY SlotNumbers
  DEF DUnprobe, NotLoaded, ring, IInv, RingInv, CfgSlots, EmptyCfg, NoCfg
<1> QED
  BY <1>1, <1>2, <1>3, <1>4 DEF IInv

LEMMA DLoadOpenFailsInv ==
  ASSUME IInv, DLoadOpenFails
  PROVE  IInv'
<1>1. Places'
  BY DEF DLoadOpenFails, NotLoaded, ring, mutex, volume, sending, bounds, Goto, Step, IInv,
      Places, DaemonPlaces, ServicePlaces, RequestInv, Task
<1>2. LockInv'
  BY DEF DLoadOpenFails, NotLoaded, Fault, ring, mutex, volume, sending, bounds, Goto, Step, IInv,
      Places, LockInv, Inside, Other, Task
<1>3. RequestInv'
  BY DEF DLoadOpenFails, NotLoaded, ring, mutex, volume, sending, bounds, Goto, Step, IInv,
      Places, RequestInv, NoRequest
<1>4. RingInv'
  BY SlotsAssumption
  DEF DLoadOpenFails, NotLoaded, ring, mutex, volume, sending, bounds, Goto, Step, IInv,
      RingInv, CfgSlots, RequestInv, Places
<1> QED
  BY <1>1, <1>2, <1>3, <1>4 DEF IInv

LEMMA DLoadInv ==
  ASSUME IInv, DLoad
  PROVE  IInv'
<1>1. Places'
  BY DEF DLoad, MaxRead, CurRead, ring, mutex, volume, sending, bounds, Goto, Step, IInv,
      Places, DaemonPlaces, ServicePlaces, RequestInv, Task
<1>2. LockInv'
  BY DEF DLoad, MaxRead, CurRead, Fault, ring, mutex, volume, sending, bounds, Goto, Step, IInv,
      Places, LockInv, Inside, Other, Task
<1>3. RequestInv'
  <2>1. req' = req /\ pc'["svc"] = pc["svc"]
    BY DEF DLoad, MaxRead, CurRead, sending, Goto, Step, IInv, Places, Task
  <2> QED
    BY <2>1, RequestKept DEF IInv
<1>4. RingInv'
  <2>1. PICK m \in {MaxRead, max}, c \in {CurRead, cur} :
          max' = m /\ cur' \in {c, NextSlot(c, m)}
    BY DEF DLoad
  <2>2. m \in Slots /\ c \in Slots
    BY <2>1, ReadIsSlot DEF IInv, RingInv
  <2>3. cur' \in Slots
    BY <2>1, <2>2, NextIsSlot
  <2>4. cfg' = cfg /\ disk' = disk
    BY DEF DLoad, volume
  <2> QED
    BY <2>1, <2>2, <2>3, <2>4 DEF IInv, RingInv, CfgSlots
<1> QED
  BY <1>1, <1>2, <1>3, <1>4 DEF IInv

LEMMA DLoadNoMemoryInv ==
  ASSUME IInv, DLoadNoMemory
  PROVE  IInv'
<1>1. Places'
  BY DEF DLoadNoMemory, MaxRead, CurRead, ring, mutex, volume, sending, bounds, Goto, Step, IInv,
      Places, DaemonPlaces, ServicePlaces, RequestInv, Task
<1>2. LockInv'
  BY DEF DLoadNoMemory, MaxRead, CurRead, Fault, ring, mutex, volume, sending, bounds, Goto,
     Step, IInv,
      Places, LockInv, Inside, Other, Task
<1>3. RequestInv'
  BY DEF DLoadNoMemory, MaxRead, CurRead, ring, mutex, volume, sending, bounds, Goto, Step, IInv,
      Places, RequestInv, NoRequest
<1>4. RingInv'
  BY ReadIsSlot DEF DLoadNoMemory, volume, IInv, RingInv, CfgSlots
<1> QED
  BY <1>1, <1>2, <1>3, <1>4 DEF IInv

LEMMA DWriteInv ==
  ASSUME IInv, DWrite
  PROVE  IInv'
<1>1. Places'
  BY DEF DWrite, ring, mutex, volume, sending, bounds, Goto, Step, IInv,
      Places, DaemonPlaces, ServicePlaces, RequestInv, Task
<1>2. LockInv'
  BY DEF DWrite, Fault, ring, mutex, volume, sending, bounds, Goto, Step, IInv,
      Places, LockInv, Inside, Other, Task
<1>3. RequestInv'
  <2>1. req' = req /\ pc'["svc"] = pc["svc"]
    BY DEF DWrite, Goto, sending, Goto, Step, IInv, Places, Task
  <2> QED
    BY <2>1, RequestKept DEF IInv
<1>4. RingInv'
  BY SlotsAssumption
  DEF DWrite, ring, mutex, volume, sending, bounds, Goto, Step, IInv,
      RingInv, CfgSlots, RequestInv, Places
<1> QED
  BY <1>1, <1>2, <1>3, <1>4 DEF IInv

LEMMA DWriteOpenFailsInv ==
  ASSUME IInv, DWriteOpenFails
  PROVE  IInv'
<1>1. Places'
  BY DEF DWriteOpenFails, ring, mutex, volume, sending, bounds, Goto, Step, IInv,
      Places, DaemonPlaces, ServicePlaces, RequestInv, Task
<1>2. LockInv'
  BY DEF DWriteOpenFails, Fault, ring, mutex, volume, sending, bounds, Goto, Step, IInv,
      Places, LockInv, Inside, Other, Task
<1>3. RequestInv'
  BY DEF DWriteOpenFails, ring, mutex, volume, sending, bounds, Goto, Step, IInv,
      Places, RequestInv, NoRequest
<1>4. RingInv'
  BY SlotsAssumption
  DEF DWriteOpenFails, ring, mutex, volume, sending, bounds, Goto, Step, IInv,
      RingInv, CfgSlots, RequestInv, Places
<1> QED
  BY <1>1, <1>2, <1>3, <1>4 DEF IInv

LEMMA DCloseInv ==
  ASSUME IInv, DClose
  PROVE  IInv'
<1>1. Places'
  BY DEF DClose, CloseFile, Commit, ring, mutex, volume, sending, bounds, Goto, Step, IInv,
      Places, DaemonPlaces, ServicePlaces, RequestInv, Task
<1>2. LockInv'
  BY DEF DClose, CloseFile, Commit, Fault, ring, mutex, volume, sending, bounds, Goto, Step, IInv,
      Places, LockInv, Inside, Other, Task
<1>3. RequestInv'
  <2>1. req' = req /\ pc'["svc"] = pc["svc"]
    BY DEF DClose, CloseFile, Commit, sending, Goto, Step, IInv, Places, Task
  <2> QED
    BY <2>1, RequestKept DEF IInv
<1>4. RingInv'
  BY SlotsAssumption
  DEF DClose, CloseFile, Commit, ring, mutex, volume, sending, bounds, Goto, Step, IInv,
      RingInv, CfgSlots, RequestInv, Places
<1> QED
  BY <1>1, <1>2, <1>3, <1>4 DEF IInv

LEMMA DArrayInv ==
  ASSUME IInv, DArray
  PROVE  IInv'
<1>1. Places'
  BY DEF DArray, ring, mutex, volume, sending, bounds, Goto, Step, IInv,
      Places, DaemonPlaces, ServicePlaces, RequestInv, Task
<1>2. LockInv'
  BY DEF DArray, Fault, ring, mutex, volume, sending, bounds, Goto, Step, IInv,
      Places, LockInv, Inside, Other, Task
<1>3. RequestInv'
  <2>1. req' = req /\ pc'["svc"] = pc["svc"]
    BY DEF DArray, Goto, sending, Goto, Step, IInv, Places, Task
  <2> QED
    BY <2>1, RequestKept DEF IInv
<1>4. RingInv'
  BY SlotsAssumption
  DEF DArray, ring, mutex, volume, sending, bounds, Goto, Step, IInv,
      RingInv, CfgSlots, RequestInv, Places
<1> QED
  BY <1>1, <1>2, <1>3, <1>4 DEF IInv

LEMMA DAdvanceInv ==
  ASSUME IInv, DAdvance
  PROVE  IInv'
<1>1. Places'
  BY DEF DAdvance, ring, mutex, volume, sending, bounds, Goto, Step, IInv,
      Places, DaemonPlaces, ServicePlaces, RequestInv, Task
<1>2. LockInv'
  BY DEF DAdvance, ring, mutex, volume, sending, bounds, Goto, Step, IInv,
      Places, LockInv, Inside, Other, Task
<1>3. RequestInv'
  BY DEF DAdvance, ring, mutex, volume, sending, bounds, Goto, Step, IInv,
      Places, RequestInv, NoRequest
<1>4. RingInv'
  BY NextIsSlot DEF DAdvance, volume, IInv, RingInv, CfgSlots
<1> QED
  BY <1>1, <1>2, <1>3, <1>4 DEF IInv

LEMMA SAcceptInv ==
  ASSUME IInv, SAccept
  PROVE  IInv'
<1>1. Places'
  BY DEF SAccept, ring, mutex, volume, sending, bounds, Goto, Step, IInv,
      Places, DaemonPlaces, ServicePlaces, RequestInv, Task
<1>2. LockInv'
  BY DEF SAccept, ring, mutex, volume, sending, bounds, Goto, Step, IInv,
      Places, LockInv, Inside, Other, Task
<1>3. RequestInv'
  BY DEF SAccept, ring, mutex, volume, sending, bounds, Goto, Step, IInv,
      Places, RequestInv, NoRequest
<1>4. RingInv'
  BY SlotsAssumption
  DEF SAccept, ring, mutex, volume, sending, bounds, Goto, Step, IInv,
      RingInv, CfgSlots, RequestInv, Places
<1> QED
  BY <1>1, <1>2, <1>3, <1>4 DEF IInv

LEMMA SGrowInv ==
  ASSUME IInv, SGrow
  PROVE  IInv'
<1>1. Places'
  BY DEF SGrow, ring, mutex, volume, sending, bounds, Goto, Step, IInv,
      Places, DaemonPlaces, ServicePlaces, RequestInv, Task
<1>2. LockInv'
  BY DEF SGrow, Fault, ring, mutex, volume, sending, bounds, Goto, Step, IInv,
      Places, LockInv, Inside, Other, Task
<1>3. RequestInv'
  BY DEF SGrow, ring, mutex, volume, sending, bounds, Goto, Step, IInv,
      Places, RequestInv, NoRequest
<1>4. RingInv'
  <2>1. req.op = "set" /\ req.max \in NewMaxes
    <3>1. req.op = "set"
      BY DEF SGrow, Step, IInv, RequestInv
    <3>2. req \in [op : {"set"}, max : NewMaxes]
      BY <3>1, PagesAssumption DEF IInv, RequestInv, NoRequest, Page
    <3> QED
      BY <3>1, <3>2
  <2>2. max' \in Slots /\ cur' \in Slots
    BY <2>1, SlotNumbers DEF SGrow, IInv, RingInv
  <2>3. cfg' = cfg /\ (disk' = disk \/ disk'.cfg = cfg)
    BY DEF SGrow, volume
  <2> QED
    BY <2>2, <2>3 DEF IInv, RingInv, CfgSlots
<1> QED
  BY <1>1, <1>2, <1>3, <1>4 DEF IInv

LEMMA SShrinkInv ==
  ASSUME IInv, SShrink
  PROVE  IInv'
<1>1. Places'
  BY DEF SShrink, ring, mutex, volume, sending, bounds, Goto, Step, IInv,
      Places, DaemonPlaces, ServicePlaces, RequestInv, Task
<1>2. LockInv'
  BY DEF SShrink, Fault, ring, mutex, volume, sending, bounds, Goto, Step, IInv,
      Places, LockInv, Inside, Other, Task
<1>3. RequestInv'
  BY DEF SShrink, ring, mutex, volume, sending, bounds, Goto, Step, IInv,
      Places, RequestInv, NoRequest
<1>4. RingInv'
  <2>1. req.op = "set" /\ req.max \in NewMaxes
    <3>1. req.op = "set"
      BY DEF SShrink, Step, IInv, RequestInv
    <3>2. req \in [op : {"set"}, max : NewMaxes]
      BY <3>1, PagesAssumption DEF IInv, RequestInv, NoRequest, Page
    <3> QED
      BY <3>1, <3>2
  <2>2. max' \in Slots /\ cur' \in Slots
    BY <2>1, SlotNumbers DEF SShrink, IInv, RingInv
  <2>3. cfg' = cfg /\ (disk' = disk \/ disk'.cfg = cfg)
    BY DEF SShrink, volume
  <2> QED
    BY <2>2, <2>3 DEF IInv, RingInv, CfgSlots
<1> QED
  BY <1>1, <1>2, <1>3, <1>4 DEF IInv

LEMMA SFreeInv ==
  ASSUME IInv, SFree
  PROVE  IInv'
<1>1. Places'
  BY DEF SFree, ring, mutex, volume, sending, bounds, Goto, Step, IInv,
      Places, DaemonPlaces, ServicePlaces, RequestInv, Task
<1>2. LockInv'
  BY DEF SFree, ring, mutex, volume, sending, bounds, Goto, Step, IInv,
      Places, LockInv, Inside, Other, Task
<1>3. RequestInv'
  BY DEF SFree, ring, mutex, volume, sending, bounds, Goto, Step, IInv,
      Places, RequestInv, NoRequest
<1>4. RingInv'
  BY SlotsAssumption
  DEF SFree, ring, mutex, volume, sending, bounds, Goto, Step, IInv,
      RingInv, CfgSlots, RequestInv, Places
<1> QED
  BY <1>1, <1>2, <1>3, <1>4 DEF IInv

LEMMA SSearchInv ==
  ASSUME IInv, SSearch
  PROVE  IInv'
<1>1. Places'
  BY DEF SSearch, ring, mutex, volume, sending, bounds, Goto, Step, IInv,
      Places, DaemonPlaces, ServicePlaces, RequestInv, Task
<1>2. LockInv'
  BY DEF SSearch, ring, mutex, volume, sending, bounds, Goto, Step, IInv,
      Places, LockInv, Inside, Other, Task
<1>3. RequestInv'
  BY DEF SSearch, ring, mutex, volume, sending, bounds, Goto, Step, IInv,
      Places, RequestInv, NoRequest
<1>4. RingInv'
  BY SlotsAssumption
  DEF SSearch, ring, mutex, volume, sending, bounds, Goto, Step, IInv,
      RingInv, CfgSlots, RequestInv, Places
<1> QED
  BY <1>1, <1>2, <1>3, <1>4 DEF IInv

LEMMA SBeginInv ==
  ASSUME IInv, SBegin
  PROVE  IInv'
<1>1. Places'
  BY DEF SBegin, ring, mutex, volume, sending, bounds, Goto, Step, IInv,
      Places, DaemonPlaces, ServicePlaces, RequestInv, Task
<1>2. LockInv'
  BY DEF SBegin, ring, mutex, volume, sending, bounds, Goto, Step, IInv,
      Places, LockInv, Inside, Other, Task
<1>3. RequestInv'
  BY DEF SBegin, ring, mutex, volume, sending, bounds, Goto, Step, IInv,
      Places, RequestInv, NoRequest
<1>4. RingInv'
  BY SlotsAssumption
  DEF SBegin, ring, mutex, volume, sending, bounds, Goto, Step, IInv,
      RingInv, CfgSlots, RequestInv, Places
<1> QED
  BY <1>1, <1>2, <1>3, <1>4 DEF IInv

LEMMA SSendInv ==
  ASSUME IInv, SSend
  PROVE  IInv'
<1>1. Places'
  BY DEF SSend, ring, mutex, volume, sending, bounds, Goto, Step, IInv,
      Places, DaemonPlaces, ServicePlaces, RequestInv, Task
<1>2. LockInv'
  BY DEF SSend, ring, mutex, volume, sending, bounds, Goto, Step, IInv,
      Places, LockInv, Inside, Other, Task
<1>3. RequestInv'
  BY DEF SSend, ring, mutex, volume, sending, bounds, Goto, Step, IInv,
      Places, RequestInv, NoRequest
<1>4. RingInv'
  BY SlotsAssumption
  DEF SSend, ring, mutex, volume, sending, bounds, Goto, Step, IInv,
      RingInv, CfgSlots, RequestInv, Places
<1> QED
  BY <1>1, <1>2, <1>3, <1>4 DEF IInv

LEMMA SEndInv ==
  ASSUME IInv, SEnd
  PROVE  IInv'
<1>1. Places'
  BY DEF SEnd, EndPage, ring, mutex, volume, sending, bounds, Goto, Step, IInv,
      Places, DaemonPlaces, ServicePlaces, RequestInv, Task
<1>2. LockInv'
  BY DEF SEnd, EndPage, ring, mutex, volume, sending, bounds, Goto, Step, IInv,
      Places, LockInv, Inside, Other, Task
<1>3. RequestInv'
  BY DEF SEnd, EndPage, ring, mutex, volume, sending, bounds, Goto, Step, IInv,
      Places, RequestInv, NoRequest
<1>4. RingInv'
  BY SlotsAssumption
  DEF SEnd, EndPage, ring, mutex, volume, sending, bounds, Goto, Step, IInv,
      RingInv, CfgSlots, RequestInv, Places
<1> QED
  BY <1>1, <1>2, <1>3, <1>4 DEF IInv

LEMMA SDeletesInv ==
  ASSUME IInv, SDeletes
  PROVE  IInv'
<1>1. Places'
  BY DEF SDeletes, EndPage, ring, mutex, volume, sending, bounds, Goto, Step, IInv,
      Places, DaemonPlaces, ServicePlaces, RequestInv, Task
<1>2. LockInv'
  BY DEF SDeletes, EndPage, Fault, ring, mutex, volume, sending, bounds, Goto, Step, IInv,
      Places, LockInv, Inside, Other, Task
<1>3. RequestInv'
  BY DEF SDeletes, EndPage, ring, mutex, volume, sending, bounds, Goto, Step, IInv,
      Places, RequestInv, NoRequest
<1>4. RingInv'
  BY SlotsAssumption
  DEF SDeletes, EndPage, ring, mutex, volume, sending, bounds, Goto, Step, IInv,
      RingInv, CfgSlots, RequestInv, Places
<1> QED
  BY <1>1, <1>2, <1>3, <1>4 DEF IInv

LEMMA SProbeInv ==
  ASSUME IInv, SProbe
  PROVE  IInv'
<1>1. Places'
  BY DEF SProbe, ring, mutex, volume, sending, bounds, Goto, Step, IInv,
      Places, DaemonPlaces, ServicePlaces, RequestInv, Task
<1>2. LockInv'
  BY DEF SProbe, ring, mutex, volume, sending, bounds, Goto, Step, IInv,
      Places, LockInv, Inside, Other, Task
<1>3. RequestInv'
  BY DEF SProbe, ring, mutex, volume, sending, bounds, Goto, Step, IInv,
      Places, RequestInv, NoRequest
<1>4. RingInv'
  BY SlotsAssumption
  DEF SProbe, ring, mutex, volume, sending, bounds, Goto, Step, IInv,
      RingInv, CfgSlots, RequestInv, Places
<1> QED
  BY <1>1, <1>2, <1>3, <1>4 DEF IInv

LEMMA SUnprobeInv ==
  ASSUME IInv, SUnprobe
  PROVE  IInv'
<1>1. Places'
  BY DEF SUnprobe, EndPage, ring, mutex, volume, sending, bounds, Goto, Step, IInv,
      Places, DaemonPlaces, ServicePlaces, RequestInv, Task
<1>2. LockInv'
  BY DEF SUnprobe, EndPage, ring, mutex, volume, sending, bounds, Goto, Step, IInv,
      Places, LockInv, Inside, Other, Task
<1>3. RequestInv'
  BY DEF SUnprobe, EndPage, ring, mutex, volume, sending, bounds, Goto, Step, IInv,
      Places, RequestInv, NoRequest
<1>4. RingInv'
  BY SlotsAssumption
  DEF SUnprobe, EndPage, ring, mutex, volume, sending, bounds, Goto, Step, IInv,
      RingInv, CfgSlots, RequestInv, Places
<1> QED
  BY <1>1, <1>2, <1>3, <1>4 DEF IInv

LEMMA TransactInv ==
  ASSUME IInv, Transact
  PROVE  IInv'
<1>1. Places'
  BY DEF Transact, ring, mutex, volume, sending, bounds, Goto, Step, IInv,
      Places, DaemonPlaces, ServicePlaces, RequestInv, Task
<1>2. LockInv'
  BY DEF Transact, ring, mutex, volume, sending, bounds, Goto, Step, IInv,
      Places, LockInv, Inside, Other, Task
<1>3. RequestInv'
  BY DEF Transact, ring, mutex, volume, sending, bounds, Goto, Step, IInv,
      Places, RequestInv, NoRequest
<1>4. RingInv'
  BY SlotsAssumption
  DEF Transact, ring, mutex, volume, sending, bounds, Goto, Step, IInv,
      RingInv, CfgSlots, RequestInv, Places
<1> QED
  BY <1>1, <1>2, <1>3, <1>4 DEF IInv

LEMMA ResetInv ==
  ASSUME IInv, Reset
  PROVE  IInv'
<1>1. Places'
  BY DEF Reset, ring, mutex, volume, sending, bounds, Goto, Step, IInv,
      Places, DaemonPlaces, ServicePlaces, RequestInv, Task
<1>2. LockInv'
  BY DEF Reset, ring, mutex, volume, sending, bounds, Goto, Step, IInv,
      Places, LockInv, Inside, Other, Task
<1>3. RequestInv'
  BY DEF Reset, ring, mutex, volume, sending, bounds, Goto, Step, IInv,
      Places, RequestInv, NoRequest
<1>4. RingInv'
  BY SlotNumbers DEF Reset, IInv, RingInv, CfgSlots
<1> QED
  BY <1>1, <1>2, <1>3, <1>4 DEF IInv

LEMMA FindNoLockInv ==
  ASSUME IInv, NEW t \in Task, FindNoLock(t)
  PROVE  IInv'
<1>1. Places'
  BY DEF FindNoLock, FindLock, ring, mutex, volume, sending, bounds, Goto, Step, IInv,
      Places, DaemonPlaces, ServicePlaces, RequestInv, Task
<1>2. LockInv'
  BY DEF FindNoLock, FindLock, ring, mutex, volume, sending, bounds, Goto, Step, IInv,
      Places, LockInv, Inside, Other, Task
<1>3. RequestInv'
  BY DEF FindNoLock, FindLock, ring, mutex, volume, sending, bounds, Goto, Step, IInv,
      Places, RequestInv, NoRequest
<1>4. RingInv'
  BY SlotsAssumption
  DEF FindNoLock, FindLock, ring, mutex, volume, sending, bounds, Goto, Step, IInv,
      RingInv, CfgSlots, RequestInv, Places
<1> QED
  BY <1>1, <1>2, <1>3, <1>4 DEF IInv

LEMMA FindLockInv ==
  ASSUME IInv, NEW t \in Task, FindLock(t)
  PROVE  IInv'
<1>1. Places'
  BY DEF FindLock, ring, mutex, volume, sending, bounds, Goto, Step, IInv,
      Places, DaemonPlaces, ServicePlaces, RequestInv, Task
<1>2. LockInv'
  BY DEF FindLock, ring, mutex, volume, sending, bounds, Goto, Step, IInv,
      Places, LockInv, Inside, Other, Task
<1>3. RequestInv'
  BY DEF FindLock, ring, mutex, volume, sending, bounds, Goto, Step, IInv,
      Places, RequestInv, NoRequest
<1>4. RingInv'
  BY SlotsAssumption
  DEF FindLock, ring, mutex, volume, sending, bounds, Goto, Step, IInv,
      RingInv, CfgSlots, RequestInv, Places
<1> QED
  BY <1>1, <1>2, <1>3, <1>4 DEF IInv

LEMMA CreateLockInv ==
  ASSUME IInv, NEW t \in Task, CreateLock(t)
  PROVE  IInv'
<1>1. Places'
  BY DEF CreateLock, ring, mutex, volume, sending, bounds, Goto, Step, IInv,
      Places, DaemonPlaces, ServicePlaces, RequestInv, Task
<1>2. LockInv'
  BY DEF CreateLock, Fault, ring, mutex, volume, sending, bounds, Goto, Step, IInv,
      Places, LockInv, Inside, Other, Task
<1>3. RequestInv'
  BY DEF CreateLock, ring, mutex, volume, sending, bounds, Goto, Step, IInv,
      Places, RequestInv, NoRequest
<1>4. RingInv'
  BY SlotsAssumption
  DEF CreateLock, ring, mutex, volume, sending, bounds, Goto, Step, IInv,
      RingInv, CfgSlots, RequestInv, Places
<1> QED
  BY <1>1, <1>2, <1>3, <1>4 DEF IInv

LEMMA TakeLockInv ==
  ASSUME IInv, NEW t \in Task, TakeLock(t)
  PROVE  IInv'
<1>1. Places'
  BY DEF TakeLock, Locked, ring, mutex, volume, sending, bounds, Goto, Step, IInv,
      Places, DaemonPlaces, ServicePlaces, RequestInv, Task
<1>2. LockInv'
  BY DEF TakeLock, Locked, ring, mutex, volume, sending, bounds, Goto, Step, IInv,
      Places, LockInv, Inside, Other, Task
<1>3. RequestInv'
  BY DEF TakeLock, Locked, ring, mutex, volume, sending, bounds, Goto, Step, IInv,
      Places, RequestInv, NoRequest
<1>4. RingInv'
  BY SlotsAssumption
  DEF TakeLock, Locked, ring, mutex, volume, sending, bounds, Goto, Step, IInv,
      RingInv, CfgSlots, RequestInv, Places
<1> QED
  BY <1>1, <1>2, <1>3, <1>4 DEF IInv

LEMMA GiveLockInv ==
  ASSUME IInv, NEW t \in Task, GiveLock(t)
  PROVE  IInv'
<1>1. Places'
  BY DEF GiveLock, ring, mutex, volume, sending, bounds, Goto, Step, IInv,
      Places, DaemonPlaces, ServicePlaces, RequestInv, Task
<1>2. LockInv'
  BY DEF GiveLock, ring, mutex, volume, sending, bounds, Goto, Step, IInv,
      Places, LockInv, Inside, Other, Task
<1>3. RequestInv'
  <2>1. pc'["svc"] = pc["svc"] \/ pc'["svc"] \notin {"resize", "free", "store"}
    BY DEF GiveLock, Goto, IInv, Places, Task
  <2>2. CASE req' = req
    BY <2>1, <2>2, RequestKept DEF IInv
  <2>3. CASE req' # req
    <3>1. t = "svc" /\ req' = NoRequest /\ pc'["svc"] \in {"page", "idle"}
      BY <2>3 DEF GiveLock, Goto, IInv, Places, Task, NoRequest
    <3> QED
      BY <3>1 DEF RequestInv
  <2> QED
    BY <2>2, <2>3
<1>4. RingInv'
  BY SlotsAssumption
  DEF GiveLock, ring, mutex, volume, sending, bounds, Goto, Step, IInv,
      RingInv, CfgSlots, RequestInv, Places
<1> QED
  BY <1>1, <1>2, <1>3, <1>4 DEF IInv

LEMMA OpenConfigInv ==
  ASSUME IInv, NEW t \in Task, OpenConfig(t)
  PROVE  IInv'
<1>1. Places'
  BY DEF OpenConfig, AfterStore, EmptyCfg, ring, mutex, volume, sending, bounds, Goto, Step, IInv,
      Places, DaemonPlaces, ServicePlaces, RequestInv, Task
<1>2. LockInv'
  BY DEF OpenConfig, AfterStore, EmptyCfg, Fault, ring, mutex, volume, sending, bounds, Goto,
     Step, IInv,
      Places, LockInv, Inside, Other, Task
<1>3. RequestInv'
  <2>1. req' = req
    BY DEF OpenConfig, ConfigWrite, sending
  <2>2. pc'["svc"] = pc["svc"] \/ pc'["svc"] \notin {"resize", "free", "store"}
    BY DEF OpenConfig, ConfigWrite, AfterStore, Goto, IInv, Places, Task
  <2> QED
    BY <2>1, <2>2, RequestKept DEF IInv
<1>4. RingInv'
  BY SlotsAssumption
  DEF OpenConfig, AfterStore, EmptyCfg, ring, mutex, volume, sending, bounds, Goto, Step, IInv,
      RingInv, CfgSlots, RequestInv, Places
<1> QED
  BY <1>1, <1>2, <1>3, <1>4 DEF IInv

LEMMA PutMaxInv ==
  ASSUME IInv, NEW t \in Task, PutMax(t)
  PROVE  IInv'
<1>1. Places'
  BY DEF PutMax, ConfigWrite, ring, mutex, volume, sending, bounds, Goto, Step, IInv,
      Places, DaemonPlaces, ServicePlaces, RequestInv, Task
<1>2. LockInv'
  BY DEF PutMax, ConfigWrite, Fault, ring, mutex, volume, sending, bounds, Goto, Step, IInv,
      Places, LockInv, Inside, Other, Task
<1>3. RequestInv'
  <2>1. req' = req
    BY DEF PutMax, ConfigWrite, sending
  <2>2. pc'["svc"] = pc["svc"] \/ pc'["svc"] \notin {"resize", "free", "store"}
    BY DEF PutMax, ConfigWrite, AfterStore, Goto, IInv, Places, Task
  <2> QED
    BY <2>1, <2>2, RequestKept DEF IInv
<1>4. RingInv'
  <2>1. max' = max /\ cur' = cur /\ disk' = disk
    BY DEF PutMax, ConfigWrite, ring
  <2>2. cfg' = cfg \/ cfg' = [cfg EXCEPT !.max = max]
    BY DEF PutMax, ConfigWrite
  <2>3. CfgSlots(cfg')
    BY <2>2, SlotNumbers DEF IInv, RingInv, CfgSlots
  <2> QED
    BY <2>1, <2>3 DEF IInv, RingInv
<1> QED
  BY <1>1, <1>2, <1>3, <1>4 DEF IInv

LEMMA PutCurInv ==
  ASSUME IInv, NEW t \in Task, PutCur(t)
  PROVE  IInv'
<1>1. Places'
  BY DEF PutCur, ConfigWrite, ring, mutex, volume, sending, bounds, Goto, Step, IInv,
      Places, DaemonPlaces, ServicePlaces, RequestInv, Task
<1>2. LockInv'
  BY DEF PutCur, ConfigWrite, Fault, ring, mutex, volume, sending, bounds, Goto, Step, IInv,
      Places, LockInv, Inside, Other, Task
<1>3. RequestInv'
  <2>1. req' = req
    BY DEF PutCur, ConfigWrite, sending
  <2>2. pc'["svc"] = pc["svc"] \/ pc'["svc"] \notin {"resize", "free", "store"}
    BY DEF PutCur, ConfigWrite, AfterStore, Goto, IInv, Places, Task
  <2> QED
    BY <2>1, <2>2, RequestKept DEF IInv
<1>4. RingInv'
  <2>1. max' = max /\ cur' = cur /\ disk' = disk
    BY DEF PutCur, ConfigWrite, ring
  <2>2. cfg' = cfg \/ cfg' = [cfg EXCEPT !.cur = cur]
    BY DEF PutCur, ConfigWrite
  <2>3. CfgSlots(cfg')
    BY <2>2, SlotNumbers DEF IInv, RingInv, CfgSlots
  <2> QED
    BY <2>1, <2>3 DEF IInv, RingInv
<1> QED
  BY <1>1, <1>2, <1>3, <1>4 DEF IInv

LEMMA PutStampsInv ==
  ASSUME IInv, NEW t \in Task, PutStamps(t)
  PROVE  IInv'
<1>1. Places'
  BY DEF PutStamps, ConfigWrite, ring, mutex, volume, sending, bounds, Goto, Step, IInv,
      Places, DaemonPlaces, ServicePlaces, RequestInv, Task
<1>2. LockInv'
  BY DEF PutStamps, ConfigWrite, Fault, ring, mutex, volume, sending, bounds, Goto, Step, IInv,
      Places, LockInv, Inside, Other, Task
<1>3. RequestInv'
  <2>1. req' = req
    BY DEF PutStamps, ConfigWrite, sending
  <2>2. pc'["svc"] = pc["svc"] \/ pc'["svc"] \notin {"resize", "free", "store"}
    BY DEF PutStamps, ConfigWrite, AfterStore, Goto, IInv, Places, Task
  <2> QED
    BY <2>1, <2>2, RequestKept DEF IInv
<1>4. RingInv'
  <2>1. max' = max /\ cur' = cur /\ disk' = disk
    BY DEF PutStamps, ConfigWrite, ring
  <2>2. cfg' = cfg \/ \E v : cfg' = [cfg EXCEPT !.at = v]
    BY DEF PutStamps, ConfigWrite
  <2>3. CfgSlots(cfg')
    BY <2>2, SlotNumbers DEF IInv, RingInv, CfgSlots
  <2> QED
    BY <2>1, <2>3 DEF IInv, RingInv
<1> QED
  BY <1>1, <1>2, <1>3, <1>4 DEF IInv

LEMMA CloseConfigInv ==
  ASSUME IInv, NEW t \in Task, CloseConfig(t)
  PROVE  IInv'
<1>1. Places'
  BY DEF CloseConfig, CloseFile, Commit, AfterStore, ring, mutex, volume, sending, bounds, Goto,
     Step,
     IInv,
      Places, DaemonPlaces, ServicePlaces, RequestInv, Task
<1>2. LockInv'
  BY DEF CloseConfig, CloseFile, Commit, AfterStore, Fault, ring, mutex, volume, sending, bounds,
     Goto, Step,
     IInv,
      Places, LockInv, Inside, Other, Task
<1>3. RequestInv'
  BY DEF CloseConfig, CloseFile, Commit, AfterStore, ring, mutex, volume, sending, bounds, Goto,
     Step,
     IInv,
      Places, RequestInv, NoRequest
<1>4. RingInv'
  BY SlotsAssumption
  DEF CloseConfig, CloseFile, Commit, AfterStore, ring, mutex, volume, sending, bounds, Goto,
  Step, IInv,
      RingInv, CfgSlots, RequestInv, Places
<1> QED
  BY <1>1, <1>2, <1>3, <1>4 DEF IInv

LEMMA InvInit == Init => IInv
<1> SUFFICES ASSUME Init PROVE IInv
  OBVIOUS
<1>1. Places /\ LockInv
  BY DEF Init, Places, DaemonPlaces, ServicePlaces, LockInv, Inside, Task
<1>2. RequestInv
  BY DEF Init, RequestInv, NoRequest
<1>3. RingInv
  BY SlotNumbers DEF Init, RingInv, CfgSlots, NoCfg
<1> QED
  BY <1>1, <1>2, <1>3 DEF IInv

LEMMA InvStep ==
  ASSUME IInv, [Next]_vars
  PROVE  IInv'
<1>1. CASE Daemon
  BY <1>1, DCollectInv, DLoadNothingInv, DUnprobeInv, DLoadOpenFailsInv, DLoadInv,
     DLoadNoMemoryInv, DWriteInv, DWriteOpenFailsInv, DCloseInv, DArrayInv, DAdvanceInv
  DEF Daemon
<1>2. CASE Service
  BY <1>2, SAcceptInv, SGrowInv, SShrinkInv, SFreeInv, SSearchInv, SBeginInv, SSendInv, SEndInv,
     SDeletesInv, SProbeInv, SUnprobeInv
  DEF Service
<1>3. ASSUME NEW t \in Task, Shared(t) PROVE IInv'
  <2>1. CASE StoreConfig(t)
    BY <2>1, OpenConfigInv, PutMaxInv, PutCurInv, PutStampsInv, CloseConfigInv DEF StoreConfig
  <2> QED
    BY <1>3, <2>1, FindNoLockInv, FindLockInv, CreateLockInv, TakeLockInv, GiveLockInv DEF Shared
<1>4. CASE Transact \/ Reset
  BY <1>4, TransactInv, ResetInv
<1>5. CASE UNCHANGED vars
  BY <1>5 DEF vars, IInv, Places, LockInv, Inside, RequestInv, RingInv, CfgSlots
<1> QED
  BY <1>1, <1>2, <1>3, <1>4, <1>5 DEF Next

-----------------------------------------------------------------------------

\* f_count_lock protects the ring and the two files: the tasks are both between
\* its taking and its giving only if each found none and made one
\* (prv_get_lock, housekeeping_service.c:456-461), and the second to do so
\* replaced the one in use; whatever fails and is reset.
THEOREM MutualExclusion ==
  Spec => []LockExclusion
<1>1. IInv => LockExclusion
  BY DEF IInv, LockInv, LockExclusion, Task
<1>2. IInv /\ [Next]_vars => IInv'
  BY InvStep
<1> QED
  BY <1>1, <1>2, InvInit, PTL DEF Spec

\* current_file is always the number of a slot and MAX_FILES a number of slots
\* (housekeeping_service.c:518-560), also after a configuration file that was
\* only written in part was loaded.
SlotInRing == cur \in Slots /\ max \in Slots

THEOREM SlotStaysInRing ==
  Spec => []SlotInRing
<1>1. IInv => SlotInRing
  BY DEF IInv, RingInv, SlotInRing
<1>2. IInv /\ [Next]_vars => IInv'
  BY InvStep
<1> QED
  BY <1>1, <1>2, InvInit, PTL DEF Spec

-----------------------------------------------------------------------------
(* The records and the configuration file that describes them.             *)

\* Where the daemon is with a record it has not written, and with one whose
\* slot the configuration file already names.
Collected == {"lock", "create", "take", "load", "probe", "write"}
Saved == {"putstamps", "closecfg", "advance"}

\* Where the service is after it deleted the records.
Resizing == {"free", "store", "putmax", "putcur", "putstamps", "closecfg"}

Empty == \A i \in Slots : RecordAt(i) = 0
NoOther == \A i \in Slots \ {cur} : RecordAt(i) = 0

\* Nothing is stored beyond the ring or later than the last record; the slot
\* that is being written is the only one in which memory and the transaction
\* point may differ, and it holds the newest record until the slot is left,
\* unless the end of a page deleted all of them.
RecordsInv ==
  /\ rec.at \in Seq(Nat) /\ disk.rec.at \in Seq(Nat) /\ stamp \in Nat /\ now \in Nat
  /\ ~rec.exists => Empty
  /\ pc["dmn"] # "closelost"
  /\ \/ disk.rec = rec
     \/ /\ pc["dmn"] = "close" /\ disk.rec.exists
        /\ \A i \in Slots \ {cur} : At(disk.rec.at, i) = RecordAt(i)
  /\ stamp <= now /\ \A i \in Slots : RecordAt(i) <= now /\ At(disk.rec.at, i) <= now
  /\ pc["dmn"] \in Collected => \A i \in Slots : RecordAt(i) < stamp
  /\ pc["dmn"] \in Storing =>
       /\ stamp > 0 /\ (Empty \/ RecordAt(cur) = stamp)
       /\ \A i \in Slots \ {cur} : RecordAt(i) < stamp
  /\ pc["dmn"] \in {"probe", "write"} \cup Storing => loaded
  /\ pc["dmn"] = "load" => ~loaded
  /\ cur <= max \/ pc["dmn"] = "assert"
  /\ pc["svc"] \in Resizing => Empty /\ cur = 1
  /\ \A i \in Slots : RecordAt(i) # 0 => i <= Found.max

\* The ring that loading the file c after a reset would give.
FoundMax(c) == IF c.max = 0 THEN TopMax ELSE c.max
FoundCur(c) == IF c.exists THEN NextSlot(IF c.cur = 0 THEN 1 ELSE c.cur, FoundMax(c)) ELSE 1

\* The ring found in c has a place for every record, and would overwrite none
\* but the one in the current slot.
Covers(c) ==
  /\ cur <= FoundMax(c)
  /\ \/ NoOther
     \/ /\ FoundMax(c) <= max
        /\ \A i \in Slots \ {cur} : RecordAt(i) # 0 => i <= FoundMax(c) /\ i # FoundCur(c)

\* c names the current slot as the one last written.
Ahead(c) == c.exists /\ c.max = max /\ c.cur = cur

\* The file, in both versions, covers the records, until the daemon, which has
\* stored a record, has named its slot in it.
ConfigInv ==
  /\ disk.cfg = cfg \/ \E t \in Task : pc[t] \in {"putcur", "putstamps", "closecfg"}
  /\ disk.cfg.exists = cfg.exists
  /\ "exists" \in DOMAIN cfg /\ "exists" \in DOMAIN disk.cfg
  /\ ~cfg.exists => cfg.max = 0
  /\ ~disk.cfg.exists => disk.cfg.max = 0
  /\ loaded /\ pc["dmn"] \notin Saved =>
       \/ Covers(cfg) /\ Covers(disk.cfg)
       \/ pc["dmn"] = "assert" /\ Empty
  /\ pc["dmn"] \in Saved => Ahead(cfg) /\ (Covers(disk.cfg) \/ Ahead(disk.cfg))
  /\ \A t \in Task : pc[t] \in {"putmax", "putcur", "putstamps", "closecfg"} => cfg.exists
  /\ pc["dmn"] = "putcur" => cfg.max = max
  /\ ~loaded => cur = 1 /\ (Empty \/ (max = TopMax /\ arr.ptr = "null"))
  /\ ~cfg.exists \/ pc["dmn"] = "probe" => cur = 1 /\ NoOther

\* Without errors nothing fails.
LEMMA Faultless ==
  ASSUME faults' = {}, NEW kind
  PROVE  ~Fault(kind)
BY DEF Fault

\* The places of the tasks, and those of one where the other goes.
LEMMA Exclusive ==
  ASSUME IInv
  PROVE  /\ pc["dmn"] \in DaemonPlaces /\ pc["svc"] \in ServicePlaces /\ DOMAIN pc = Task
         /\ \A t \in Task : \A where :
              [pc EXCEPT ![t] = where]["dmn"] = (IF t = "dmn" THEN where ELSE pc["dmn"])
         /\ \A t \in Task : \A where :
              [pc EXCEPT ![t] = where]["svc"] = (IF t = "svc" THEN where ELSE pc["svc"])
         /\ "dmn" \in Task /\ "svc" \in Task
BY DEF IInv, Places, Task

\* What the mutual exclusion says of them.
LEMMA Excluded ==
  ASSUME IInv, "mutex" \notin faults
  PROVE  Inside("dmn") => ~Inside("svc")
BY DEF IInv, LockInv, Task

\* The numbers of slots are numbers of slots.
LEMMA Numbers ==
  ASSUME IInv
  PROVE  /\ max \in Slots /\ cur \in Slots /\ 1 \in Slots
         /\ FoundMax(cfg) \in Slots /\ FoundMax(disk.cfg) \in Slots
         /\ \A n \in Slots : n \in Nat /\ 1 <= n /\ n <= TopMax /\ n # 0
         /\ \A c \in Slots, m \in Slots : NextSlot(c, m) \in Slots /\ NextSlot(c, m) <= m
<1>1. \A c \in Slots, m \in Slots : NextSlot(c, m) \in Slots /\ NextSlot(c, m) <= m
  BY SlotsAssumption DEF Slots, NextSlot
<1> QED
  BY <1>1, SlotNumbers DEF IInv, RingInv, CfgSlots, FoundMax

\* Where the daemon is, the service is not.
LEMMA Alone ==
  ASSUME IInv, "mutex" \notin faults
  PROVE  /\ pc["dmn"] \in {"load", "probe", "write"} \cup Storing
              => pc["svc"] \notin Resizing /\ pc["svc"] # "resize"
         /\ pc["svc"] \in Resizing \cup {"resize"}
              => pc["dmn"] \notin {"load", "probe", "write"} \cup Storing
BY Excluded DEF Inside, Storing, Resizing

\* What follows of the records from where the tasks are.
LEMMA RecordsAre ==
  ASSUME RecordsInv
  PROVE  /\ pc["dmn"] \in {"probe", "write"} \cup Storing => loaded
         /\ pc["dmn"] \in Storing => Empty \/ RecordAt(cur) # 0
         /\ pc["svc"] \in Resizing => Empty /\ cur = 1
         /\ loaded => \A i \in Slots : RecordAt(i) # 0 => i <= max
         /\ \A i \in Slots \ {cur} : At(disk.rec.at, i) = RecordAt(i)
         /\ pc["dmn"] # "close" => disk.rec = rec
         /\ \A i \in Slots : RecordAt(i) \in Nat /\ At(disk.rec.at, i) \in Nat
<1>1. \A i \in Slots : RecordAt(i) \in Nat /\ At(disk.rec.at, i) \in Nat
  BY ElementOfSeq, LenProperties DEF RecordsInv, RecordAt, At
<1> QED
  BY <1>1 DEF RecordsInv, Found, RecordAt

\* Put sets one entry and leaves the others as they read.
LEMMA PutIs ==
  ASSUME NEW s \in Seq(Nat), NEW i \in Slots, NEW v \in Nat
  PROVE  /\ Put(s, i, v) \in Seq(Nat)
         /\ \A k \in Slots : At(Put(s, i, v), k) = (IF k = i THEN v ELSE At(s, k))
<1> DEFINE n == IF i > Len(s) THEN i ELSE Len(s)
<1>1. /\ i \in Nat /\ 1 <= i /\ Len(s) \in Nat /\ DOMAIN s = 1 .. Len(s)
      /\ \A k \in 1 .. Len(s) : s[k] \in Nat
      /\ \A k \in Slots : k \in Nat /\ 1 <= k
  BY SlotNumbers, LenProperties, ElementOfSeq
<1>2. n \in Nat /\ i <= n /\ Len(s) <= n
  BY <1>1
<1>3. Put(s, i, v) = [k \in 1 .. n |-> IF k = i THEN v ELSE At(s, k)]
  BY DEF Put
<1> HIDE DEF n
<1>4. \A k \in 1 .. n : At(s, k) \in Nat
  BY <1>1 DEF At
<1>5. Put(s, i, v) \in [1 .. n -> Nat]
  BY <1>3, <1>4
<1>6. ASSUME NEW k \in Slots PROVE At(Put(s, i, v), k) = (IF k = i THEN v ELSE At(s, k))
  <2>1. CASE k \in 1 .. n
    BY <1>3, <2>1 DEF At
  <2>2. CASE k \notin 1 .. n
    <3>1. k # i /\ k \notin 1 .. Len(s)
      BY <1>1, <1>2, <2>2
    <3> QED
      BY <1>1, <1>3, <2>2, <3>1 DEF At
  <2> QED
    BY <2>1, <2>2
<1>7. Put(s, i, v) \in Seq(Nat)
  BY <1>2, <1>5, SeqDef
<1> QED
  BY <1>6, <1>7

\* A task that waits for the mutex, takes it or gives it, and a request that is
\* accepted or a page that is sent, change neither the ring nor the files.
LEMMA QuietKept ==
  ASSUME RecordsInv, ConfigInv,
         UNCHANGED <<now, stamp, max, cur, loaded, arr, rec, cfg, disk>>,
         \/ pc'["dmn"] = pc["dmn"]
         \/ /\ pc["dmn"] \in {"lock", "create", "take"}
            /\ pc'["dmn"] \in {"lock", "create", "take", IF loaded THEN "write" ELSE "load"}
         \/ pc["dmn"] = "give" /\ pc'["dmn"] = "sleep",
         \/ pc'["svc"] = pc["svc"]
         \/ pc["svc"] \notin Resizing /\ pc'["svc"] \notin Resizing
  PROVE  RecordsInv' /\ ConfigInv'
<1>1. Empty' = Empty /\ NoOther' = NoOther /\ \A i \in Slots : RecordAt(i)' = RecordAt(i)
  BY DEF Empty, NoOther, RecordAt
<1>2. RecordsInv'
  <2>1. Found'.max = Found.max
    BY DEF Found, MaxRead
  <2>2. /\ pc'["dmn"] \in Collected => pc["dmn"] \in Collected
        /\ pc'["dmn"] \in Storing => pc["dmn"] \in Storing
        /\ pc["dmn"] \in {"close", "assert"} => pc'["dmn"] = pc["dmn"]
        /\ pc'["dmn"] = "closelost" => pc["dmn"] = "closelost"
        /\ pc'["dmn"] \in {"probe", "write"} => loaded \/ pc["dmn"] \in {"probe", "write"}
        /\ pc'["dmn"] = "load" => ~loaded \/ pc["dmn"] = "load"
    BY DEF Collected, Storing
  <2>3. /\ rec'.at \in Seq(Nat) /\ disk'.rec.at \in Seq(Nat) /\ stamp' \in Nat /\ now' \in Nat
        /\ ~rec'.exists => Empty'
        /\ stamp' <= now' /\ \A i \in Slots : RecordAt(i)' <= now' /\ At(disk'.rec.at, i) <= now'
        /\ \A i \in Slots : RecordAt(i)' # 0 => i <= Found'.max
    BY <1>1, <2>1 DEF RecordsInv
  <2>4. /\ pc'["dmn"] # "closelost"
        /\ pc'["dmn"] \in {"probe", "write"} \cup Storing => loaded'
        /\ pc'["dmn"] = "load" => ~loaded'
        /\ cur' <= max' \/ pc'["dmn"] = "assert"
    BY <2>2 DEF RecordsInv
  <2>5. /\ pc'["dmn"] \in Collected => \A i \in Slots : RecordAt(i)' < stamp'
        /\ pc'["dmn"] \in Storing =>
             /\ stamp' > 0 /\ (Empty' \/ RecordAt(cur)' = stamp')
             /\ \A i \in Slots \ {cur} : RecordAt(i)' < stamp'
    BY <1>1, <2>2 DEF RecordsInv, RecordAt
  <2>6. pc'["svc"] \in Resizing => Empty' /\ cur' = 1
    BY <1>1 DEF RecordsInv
  <2>7. \/ disk'.rec = rec'
        \/ /\ pc'["dmn"] = "close" /\ disk'.rec.exists
           /\ \A i \in Slots \ {cur} : At(disk'.rec.at, i) = RecordAt(i)
    BY <2>2 DEF RecordsInv
  <2> QED
    BY <1>1, <2>3, <2>4, <2>5, <2>6, <2>7 DEF RecordsInv
<1>3. /\ Covers(cfg)' = Covers(cfg) /\ Covers(disk.cfg)' = Covers(disk.cfg)
      /\ Ahead(cfg)' = Ahead(cfg) /\ Ahead(disk.cfg)' = Ahead(disk.cfg)
  BY <1>1 DEF Covers, Ahead, NoOther, FoundMax, FoundCur, RecordAt
<1>4. ConfigInv'
  BY <1>1, <1>3 DEF ConfigInv, Saved, Resizing, Task
<1> QED
  BY <1>2, <1>4

LEMMA FindNoLockKept ==
  ASSUME IInv, RecordsInv, ConfigInv, NEW t \in Task, FindNoLock(t)
  PROVE  RecordsInv' /\ ConfigInv'
  BY Exclusive, QuietKept DEF FindNoLock, FindLock, Step, Goto, ring, mutex, volume, Resizing, Task

LEMMA FindLockKept ==
  ASSUME IInv, RecordsInv, ConfigInv, NEW t \in Task, FindLock(t)
  PROVE  RecordsInv' /\ ConfigInv'
  BY Exclusive, QuietKept DEF FindLock, FindLock, Step, Goto, ring, mutex, volume, Resizing, Task

LEMMA CreateLockKept ==
  ASSUME IInv, RecordsInv, ConfigInv, NEW t \in Task, CreateLock(t)
  PROVE  RecordsInv' /\ ConfigInv'
  BY Exclusive, QuietKept DEF CreateLock, Step, Goto, ring, mutex, volume, Resizing, Task

LEMMA TakeLockKept ==
  ASSUME IInv, RecordsInv, ConfigInv, NEW t \in Task, TakeLock(t)
  PROVE  RecordsInv' /\ ConfigInv'
  BY Exclusive, QuietKept DEF TakeLock, Step, Goto, ring, mutex, volume, Resizing, Task, Locked

LEMMA GiveLockKept ==
  ASSUME IInv, RecordsInv, ConfigInv, faults = {}, NEW t \in Task, GiveLock(t)
  PROVE  RecordsInv' /\ ConfigInv'
  BY Exclusive, QuietKept DEF GiveLock, Step, Goto, ring, mutex, volume, Resizing, Task, Other,
     LockInv,
     Inside, IInv

LEMMA SAcceptKept ==
  ASSUME IInv, RecordsInv, ConfigInv, SAccept
  PROVE  RecordsInv' /\ ConfigInv'
  BY Exclusive, QuietKept DEF SAccept, Step, Goto, ring, mutex, volume, Resizing, Task

LEMMA SSearchKept ==
  ASSUME IInv, RecordsInv, ConfigInv, SSearch
  PROVE  RecordsInv' /\ ConfigInv'
  BY Exclusive, QuietKept DEF SSearch, Step, Goto, ring, mutex, volume, Resizing, Task

LEMMA SBeginKept ==
  ASSUME IInv, RecordsInv, ConfigInv, SBegin
  PROVE  RecordsInv' /\ ConfigInv'
  BY Exclusive, QuietKept DEF SBegin, Step, Goto, ring, mutex, volume, Resizing, Task

LEMMA SSendKept ==
  ASSUME IInv, RecordsInv, ConfigInv, SSend
  PROVE  RecordsInv' /\ ConfigInv'
  BY Exclusive, QuietKept DEF SSend, Step, Goto, ring, mutex, volume, Resizing, Task

LEMMA SEndKept ==
  ASSUME IInv, RecordsInv, ConfigInv, SEnd
  PROVE  RecordsInv' /\ ConfigInv'
  BY Exclusive, QuietKept DEF SEnd, Step, Goto, ring, mutex, volume, Resizing, Task

LEMMA DCollectKept ==
  ASSUME IInv, IInv', RecordsInv, ConfigInv, faults = {}, faults' = {}, DCollect
  PROVE  RecordsInv' /\ ConfigInv'
<1>1. RecordsInv'
  <2>1. now' \in Nat /\ now < now' /\ stamp' = now'
    BY TimesAssumption DEF DCollect, RecordsInv
  <2>2. \A i \in Slots : RecordAt(i) < now' /\ At(disk.rec.at, i) < now'
    <3>1. ASSUME NEW n \in Nat, n <= now PROVE n < now'
      BY <2>1, <3>1 DEF RecordsInv
    <3> QED
      BY <3>1, RecordsAre DEF RecordsInv
  <2>3. /\ pc["dmn"] = "sleep" /\ pc'["dmn"] = "lock" /\ pc'["svc"] = pc["svc"]
        /\ UNCHANGED <<max, cur, loaded, rec, cfg, disk>>
    BY Exclusive DEF DCollect, Step, Goto, ring, mutex, volume
  <2>4. \A i \in Slots : RecordAt(i)' <= now' /\ At(disk'.rec.at, i) <= now' /\ RecordAt(i)' < now'
    <3>1. ASSUME NEW n \in Nat, n < now' PROVE n <= now'
      BY <2>1, <3>1
    <3> QED
      BY <2>2, <2>3, <3>1, RecordsAre DEF RecordAt
  <2>5. now' <= now'
    BY <2>1
  <2> QED
    BY <2>1, <2>3, <2>4, <2>5 DEF RecordsInv, Step, Goto, ring, mutex, volume, Collected, Storing,
       Resizing, Empty, NoOther, RecordAt, Found, MaxRead, Task
<1>2. ConfigInv'
  BY Exclusive DEF ConfigInv, DCollect, Step, Goto, ring, mutex, volume, Saved, Empty, NoOther,
     RecordAt, Covers, FoundMax, FoundCur, Ahead, Task
<1> QED
  BY <1>1, <1>2

LEMMA DArrayKept ==
  ASSUME IInv, IInv', RecordsInv, ConfigInv, faults = {}, faults' = {}, DArray
  PROVE  RecordsInv' /\ ConfigInv'
<1>1. RecordsInv'
  BY Exclusive, Faultless DEF RecordsInv, DArray, Step, Goto, ring, mutex, volume, Collected,
     Storing, Resizing, Empty, NoOther, RecordAt, Found, MaxRead, Task
<1>2. ConfigInv'
  <2>1. loaded
    BY RecordsAre DEF DArray, Storing
  <2>2. /\ pc["dmn"] = "array" /\ pc'["dmn"] \in {"store", "assert"} /\ pc'["svc"] = pc["svc"]
        /\ UNCHANGED <<max, cur, loaded, rec, cfg, disk>>
    BY Exclusive, Faultless DEF DArray, Goto, volume
  <2> QED
    BY <2>1, <2>2 DEF ConfigInv, Step, Goto, ring, mutex, volume, Saved, Empty, NoOther, RecordAt,
       Covers, FoundMax, FoundCur, Ahead, Task
<1> QED
  BY <1>1, <1>2

LEMMA SFreeKept ==
  ASSUME IInv, IInv', RecordsInv, ConfigInv, faults = {}, faults' = {}, SFree
  PROVE  RecordsInv' /\ ConfigInv'
<1>1. RecordsInv'
  BY Exclusive DEF RecordsInv, SFree, Step, Goto, ring, mutex, volume, Collected, Storing,
     Resizing, Empty, NoOther, RecordAt, Found, MaxRead, Task
<1>2. ConfigInv'
  <2>1. Empty
    BY RecordsAre DEF SFree, Resizing
  <2>2. /\ pc["svc"] = "free" /\ pc'["svc"] \in {"store", "assert"} /\ pc'["dmn"] = pc["dmn"]
        /\ UNCHANGED <<max, cur, loaded, rec, cfg, disk>>
    BY Exclusive DEF SFree, Goto, volume
  <2> QED
    BY <2>1, <2>2 DEF ConfigInv, Step, Goto, ring, mutex, volume, Saved, Empty, NoOther, RecordAt,
       Covers, FoundMax, FoundCur, Ahead, Task
<1> QED
  BY <1>1, <1>2

LEMMA DUnprobeKept ==
  ASSUME IInv, IInv', RecordsInv, ConfigInv, faults = {}, faults' = {}, DUnprobe
  PROVE  RecordsInv' /\ ConfigInv'
<1>1. RecordsInv'
  BY Exclusive DEF RecordsInv, DUnprobe, NoCfg, Step, Goto, ring, mutex, volume, Collected,
     Storing, Resizing, Empty, NoOther, RecordAt, Found, MaxRead, Task
<1>2. ConfigInv'
  <2>1. /\ pc["dmn"] = "probe" /\ pc'["dmn"] = "write" /\ pc'["svc"] = pc["svc"]
        /\ cfg' = NoCfg /\ disk'.cfg = NoCfg
        /\ UNCHANGED <<max, cur, loaded, rec>>
    BY Exclusive DEF DUnprobe, Step, Goto, ring
  <2>2. loaded /\ cur = 1 /\ NoOther
    BY <2>1, RecordsAre DEF ConfigInv
  <2>3. Covers(NoCfg)'
    BY <2>1, <2>2, Numbers DEF Covers, NoCfg, FoundMax, NoOther, RecordAt
  <2> QED
    BY <2>1, <2>2, <2>3, Alone DEF ConfigInv, NoCfg, NoOther, RecordAt, Saved, Resizing, Task
<1> QED
  BY <1>1, <1>2

LEMMA DLoadNothingKept ==
  ASSUME IInv, IInv', RecordsInv, ConfigInv, faults = {}, faults' = {}, DLoadNothing
  PROVE  RecordsInv' /\ ConfigInv'
<1>1. RecordsInv'
  BY Exclusive, Faultless DEF RecordsInv, DLoadNothing, NotLoaded, EmptyCfg, Step, Goto,
     ring, mutex, volume, Collected, Storing, Resizing, Empty, NoOther, RecordAt, Found, MaxRead,
     Task
<1>2. ConfigInv'
  <2>1. /\ pc["dmn"] = "load" /\ pc'["dmn"] = "probe" /\ pc'["svc"] = pc["svc"]
        /\ ~cfg.exists /\ cfg' = EmptyCfg /\ disk'.cfg = EmptyCfg
        /\ loaded' /\ UNCHANGED <<max, cur, rec>>
    BY Exclusive, Faultless DEF DLoadNothing, NotLoaded, Goto
  <2>2. cur = 1 /\ NoOther
    BY <2>1 DEF ConfigInv
  <2>3. Covers(EmptyCfg)'
    BY <2>1, <2>2, Numbers DEF Covers, EmptyCfg, FoundMax, NoOther, RecordAt
  <2> QED
    BY <2>1, <2>2, <2>3 DEF ConfigInv, EmptyCfg, NoOther, RecordAt, Saved
<1> QED
  BY <1>1, <1>2

LEMMA DCloseKept ==
  ASSUME IInv, IInv', RecordsInv, ConfigInv, faults = {}, faults' = {}, DClose
  PROVE  RecordsInv' /\ ConfigInv'
<1>1. RecordsInv'
  BY Exclusive, Faultless DEF RecordsInv, DClose, CloseFile, Commit, Step, Goto, ring,
     volume, Collected, Storing, Resizing, Empty, NoOther, RecordAt, Found, MaxRead, Task
<1>2. ConfigInv'
  BY Exclusive, Faultless DEF ConfigInv, DClose, CloseFile, Commit, Step, Goto, ring,
     volume, Saved, Empty, NoOther, RecordAt, Covers, FoundMax, FoundCur, Ahead, Task
<1> QED
  BY <1>1, <1>2

LEMMA DAdvanceKept ==
  ASSUME IInv, IInv', RecordsInv, ConfigInv, faults = {}, faults' = {}, DAdvance
  PROVE  RecordsInv' /\ ConfigInv'
<1>1. /\ pc["dmn"] = "advance" /\ pc'["dmn"] = "give" /\ pc'["svc"] = pc["svc"]
      /\ cur' = NextSlot(cur, max)
      /\ UNCHANGED <<now, stamp, max, loaded, rec, cfg, disk>>
  BY Exclusive DEF DAdvance, Step, Goto, volume
<1>2. loaded /\ pc["svc"] \notin Resizing /\ disk.rec = rec
  BY <1>1, RecordsAre, Alone DEF Storing
<1>3. RecordsInv'
  <2>1. cur' <= max
    BY <1>1, Numbers
  <2> QED
    BY <1>1, <1>2, <2>1 DEF RecordsInv, Collected, Storing, Empty, RecordAt, Found, MaxRead
<1>4. ConfigInv'
  <2>1. disk.cfg = cfg /\ Ahead(cfg)
    BY <1>1, <1>2, Exclusive DEF ConfigInv, Saved, Resizing, Task
  <2>2. FoundMax(cfg) = max /\ FoundCur(cfg) = cur' /\ cur' <= max
    BY <1>1, <2>1, Numbers DEF FoundMax, FoundCur, Ahead
  <2>3. \A i \in Slots : RecordAt(i) # 0 => i <= max
    BY <1>2, RecordsAre
  <2>4. FoundMax(cfg)' = max /\ FoundCur(cfg)' = cur'
    BY <1>1, <2>2 DEF FoundMax, FoundCur
  <2>5. Covers(cfg)'
    BY <1>1, <2>2, <2>3, <2>4, Numbers DEF Covers, RecordAt
  <2> QED
    BY <1>1, <1>2, <2>1, <2>5 DEF ConfigInv, Ahead, Saved
<1> QED
  BY <1>3, <1>4

LEMMA SGrowKept ==
  ASSUME IInv, IInv', RecordsInv, ConfigInv, faults = {}, faults' = {}, SGrow
  PROVE  RecordsInv' /\ ConfigInv'
<1>1. /\ pc["svc"] = "resize" /\ pc'["svc"] \in {"give", "assert"} /\ pc'["dmn"] = pc["dmn"]
      /\ max < req.max /\ max' = req.max
      /\ UNCHANGED <<now, stamp, cur, loaded, rec, cfg, disk>>
  BY Exclusive, Faultless DEF SGrow, Goto, volume
<1>2. req.max \in Slots /\ max \in Slots
  BY <1>1, SlotsAssumption DEF IInv, RingInv, RequestInv, NoRequest, PagesAssumption
<1>3. ~loaded => Empty
  BY <1>1, <1>2, Numbers DEF ConfigInv
<1>4. pc["dmn"] \notin {"load", "probe", "write"} \cup Storing
  BY <1>1, Alone
<1>5. RecordsInv'
  <2>1. \A i \in Slots : RecordAt(i) # 0 => i <= max'
    BY <1>1, <1>2, <1>3, RecordsAre, Numbers DEF Empty
  <2>2. loaded => Found'.max = max'
    BY <1>1 DEF Found
  <2>3. \A i \in Slots : RecordAt(i)' # 0 => i <= Found'.max
    BY <1>1, <1>3, <2>1, <2>2 DEF Empty, RecordAt
  <2>4. cur <= max' \/ pc'["dmn"] = "assert"
    BY <1>1, <1>2, Numbers DEF RecordsInv
  <2> QED
    BY <1>1, <1>4, <2>3, <2>4 DEF RecordsInv, Collected, Storing, Resizing, Empty, RecordAt
<1>6. ConfigInv'
  <2>1. ASSUME NEW c, Covers(c), FoundMax(c) \in Slots
        PROVE  Covers(c)'
    <3>1. FoundMax(c)' = FoundMax(c) /\ FoundCur(c)' = FoundCur(c)
      BY DEF FoundMax, FoundCur
    <3>2. FoundMax(c) <= max => FoundMax(c) <= max'
      BY <1>1, <1>2, <2>1, Numbers
    <3> QED
      BY <1>1, <2>1, <3>1, <3>2 DEF Covers, NoOther, RecordAt
  <2>2. loaded => \/ Covers(cfg) /\ Covers(disk.cfg)
                  \/ pc["dmn"] = "assert" /\ Empty
    BY <1>4 DEF ConfigInv, Saved, Storing
  <2>3. loaded => \/ Covers(cfg)' /\ Covers(disk.cfg)'
                  \/ pc["dmn"] = "assert" /\ Empty
    BY <1>1, <2>1, <2>2, Numbers DEF Covers, FoundMax, FoundCur, NoOther, RecordAt
  <2> QED
    BY <1>1, <1>3, <1>4, <2>3, Exclusive DEF ConfigInv, Saved, Storing, Empty, NoOther, RecordAt,
       Task
<1> QED
  BY <1>5, <1>6

\* The service, inside, finds the record file closed.
LEMMA ShrinksUnopened ==
  ASSUME IInv, RecordsInv, faults = {}, SShrink
  PROVE  ~RecordOpen
BY Alone DEF SShrink, Step, RecordOpen, RecordsInv, Storing

LEMMA SShrinkKept ==
  ASSUME IInv, IInv', RecordsInv, ConfigInv, faults = {}, faults' = {}, SShrink
  PROVE  RecordsInv' /\ ConfigInv'
<1>1. /\ pc["svc"] = "resize" /\ pc'["svc"] = "free" /\ pc'["dmn"] = pc["dmn"]
      /\ max' = req.max /\ cur' = 1 /\ rec' = NoRec /\ disk' = [rec |-> NoRec, cfg |-> cfg]
      /\ UNCHANGED <<now, stamp, loaded, cfg>>
  BY Exclusive, Faultless, ShrinksUnopened DEF SShrink, Step, Goto
<1>2. pc["dmn"] \notin {"load", "probe", "write"} \cup Storing
  BY <1>1, Alone
<1>3. Empty' /\ NoOther' /\ \A i \in Slots : At(NoRec.at, i) = 0
  BY <1>1 DEF Empty, NoOther, RecordAt, At, NoRec
<1>4. RecordsInv'
  <2>1. NoRec.at \in Seq(Nat)
    BY EmptySeq DEF NoRec
  <2>2. pc["dmn"] \in Collected => \A i \in Slots : RecordAt(i) \in Nat /\ RecordAt(i) < stamp
    BY RecordsAre DEF RecordsInv
  <2>3. pc["dmn"] \in Collected => 0 < stamp
    BY <2>2, Numbers DEF RecordsInv
  <2>4. req.max \in Slots
    BY <1>1, SlotsAssumption, PagesAssumption DEF IInv, RequestInv, NoRequest, Page
  <2>5. cur' <= max'
    BY <1>1, <2>4, Numbers
  <2> QED
    BY <1>1, <1>2, <1>3, <2>1, <2>3, <2>5 DEF RecordsInv, Collected, Storing, Resizing, Empty,
       RecordAt
<1>5. ConfigInv'
  <2>1. Covers(cfg)'
    BY <1>1, <1>3, Numbers DEF Covers, FoundMax
  <2> QED
    BY <1>1, <1>2, <1>3, <2>1 DEF ConfigInv, Saved, Storing, Task
<1> QED
  BY <1>4, <1>5

LEMMA SProbeKept ==
  ASSUME IInv, IInv', RecordsInv, ConfigInv, faults = {}, faults' = {}, SProbe
  PROVE  RecordsInv' /\ ConfigInv'
<1>1. /\ pc["svc"] = "send" /\ pc'["svc"] = "fprobe" /\ pc'["dmn"] = pc["dmn"] /\ ~rec.exists
      /\ rec' = EmptyRec /\ disk' = [rec |-> EmptyRec, cfg |-> cfg]
      /\ UNCHANGED <<now, stamp, max, cur, loaded, cfg, arr>>
  BY Exclusive DEF SProbe, Step, Goto, ring
<1>2. Empty
  BY <1>1 DEF RecordsInv
<1>3. Empty' /\ \A i \in Slots : RecordAt(i)' = 0 /\ At(EmptyRec.at, i) = 0
  BY <1>1 DEF Empty, RecordAt, At, EmptyRec
<1>4. RecordsInv'
  <2>1. EmptyRec.at \in Seq(Nat)
    BY EmptySeq DEF EmptyRec
  <2>2. pc["dmn"] \in Storing => \A i \in Slots \ {cur} : RecordAt(i)' < stamp
    BY <1>2, <1>3 DEF RecordsInv, Empty
  <2> QED
    BY <1>1, <1>2, <1>3, <2>1, <2>2 DEF RecordsInv, Collected, Resizing, Empty, EmptyRec
<1>5. ConfigInv'
  <2>1. /\ Covers(cfg) => Covers(cfg)'
        /\ Ahead(cfg) => Ahead(cfg)'
    BY <1>1, <1>3 DEF Covers, Ahead, FoundMax, NoOther
  <2> QED
    BY <1>1, <1>2, <1>3, <2>1 DEF ConfigInv, Saved, NoOther, Empty, Task
<1> QED
  BY <1>4, <1>5

\* What the daemon has stored and closed since the page found no file goes too.
LEMMA SUnprobeKept ==
  ASSUME IInv, IInv', RecordsInv, ConfigInv, faults = {}, faults' = {}, SUnprobe
  PROVE  RecordsInv' /\ ConfigInv'
<1>1. /\ pc["svc"] = "fprobe" /\ pc'["svc"] = "idle" /\ pc'["dmn"] = pc["dmn"]
      /\ UNCHANGED <<now, stamp, max, cur, loaded, cfg, arr>>
  BY Exclusive DEF SUnprobe, Step, Goto, ring
<1>2. CASE RecordOpen
  BY <1>1, <1>2, QuietKept DEF SUnprobe, Resizing
<1>3. CASE ~RecordOpen
  <2>1. rec' = NoRec /\ disk' = [rec |-> NoRec, cfg |-> cfg]
    BY <1>3 DEF SUnprobe
  <2>2. Empty' /\ \A i \in Slots : RecordAt(i)' = 0 /\ At(NoRec.at, i) = 0
    BY <2>1 DEF Empty, RecordAt, At, NoRec
  <2>3. RecordsInv'
    <3>1. NoRec.at \in Seq(Nat)
      BY EmptySeq DEF NoRec
    <3>2. pc["dmn"] \in Collected \cup Storing => 0 < stamp
      BY RecordsAre, Numbers DEF RecordsInv
    <3>3. /\ pc["dmn"] \in Collected => \A i \in Slots : RecordAt(i)' < stamp
          /\ pc["dmn"] \in Storing =>
               stamp > 0 /\ \A i \in Slots \ {cur} : RecordAt(i)' < stamp
      BY <2>2, <3>2 DEF RecordsInv
    <3>4. \A i \in Slots : RecordAt(i)' <= now /\ At(NoRec.at, i) <= now
      BY <2>2 DEF RecordsInv
    <3>5. pc["svc"] \in Resizing => cur = 1
      BY DEF RecordsInv
    <3> QED
      BY <1>1, <2>1, <2>2, <3>1, <3>3, <3>4, <3>5 DEF RecordsInv, Resizing
  <2>4. ConfigInv'
    <3>1. /\ Covers(cfg) => Covers(cfg)'
          /\ Ahead(cfg) => Ahead(cfg)'
      BY <1>1, <2>2 DEF Covers, Ahead, FoundMax, NoOther
    <3> QED
      BY <1>1, <2>1, <2>2, <3>1 DEF ConfigInv, Saved, NoOther, Empty, Task
  <2> QED
    BY <2>3, <2>4
<1> QED
  BY <1>2, <1>3

LEMMA OpenConfigKept ==
  ASSUME IInv, IInv', RecordsInv, ConfigInv, faults = {}, faults' = {}, NEW t \in Task,
         OpenConfig(t)
  PROVE  RecordsInv' /\ ConfigInv'
<1>1. /\ pc[t] = "store" /\ pc' = [pc EXCEPT ![t] = "putmax"]
      /\ \/ cfg.exists /\ UNCHANGED <<cfg, disk>>
         \/ ~cfg.exists /\ cfg' = EmptyCfg /\ disk' = [rec |-> rec, cfg |-> EmptyCfg]
      /\ UNCHANGED <<now, stamp, max, cur, loaded, rec, arr>>
  BY Faultless DEF OpenConfig, Goto, ring
<1>2. RecordsInv'
  BY <1>1, Exclusive DEF RecordsInv, EmptyCfg, Step, Goto, ring, mutex, volume, Collected, Storing,
     Resizing, Empty, NoOther, RecordAt, Found, MaxRead, Task
<1>3. /\ pc["dmn"] \notin Saved /\ pc'["dmn"] \notin Saved \cup {"putcur", "probe"}
      /\ pc'["dmn"] = "assert" <=> pc["dmn"] = "assert"
      /\ \A u \in Task : pc'[u] = pc[u] \/ (pc[u] = "store" /\ pc'[u] = "putmax")
  <2>1. t = "dmn" => pc'["dmn"] = "putmax" /\ pc["dmn"] = "store"
    BY <1>1, Exclusive
  <2>2. t = "svc" => pc'["dmn"] = pc["dmn"] /\ ~Inside("dmn")
    BY <1>1, Exclusive, Excluded DEF Inside
  <2>3. ~Inside("dmn") => pc["dmn"] \notin Saved \cup {"putcur", "probe"}
    BY DEF Inside, Saved
  <2>4. \A u \in Task : pc'[u] = pc[u] \/ (pc[u] = "store" /\ pc'[u] = "putmax")
    BY <1>1, Exclusive
  <2> QED
    BY <2>1, <2>2, <2>3, <2>4, Exclusive DEF Saved, Task
<1>4. ConfigInv'
  <2>1. CASE cfg.exists
    <3>1. /\ UNCHANGED <<cfg, disk>>
          /\ Covers(cfg) => Covers(cfg)'
          /\ Covers(disk.cfg) => Covers(disk.cfg)'
      BY <1>1, <2>1 DEF Covers, NoOther, RecordAt, FoundMax, FoundCur
    <3>2. Empty' = Empty
      BY <1>1 DEF Empty, RecordAt
    <3> QED
      BY <1>1, <1>3, <2>1, <3>1, <3>2 DEF ConfigInv
  <2>2. CASE ~cfg.exists
    <3>1. cur = 1 /\ NoOther /\ cfg' = EmptyCfg /\ disk'.cfg = EmptyCfg
      BY <1>1, <2>2 DEF ConfigInv
    <3>2. Covers(EmptyCfg)'
      BY <1>1, <3>1, Numbers DEF Covers, EmptyCfg, FoundMax, NoOther, RecordAt
    <3> QED
      BY <1>1, <1>3, <2>2, <3>1, <3>2
      DEF ConfigInv, EmptyCfg, NoOther, Empty, RecordAt
  <2> QED
    BY <2>1, <2>2
<1> QED
  BY <1>2, <1>4

LEMMA PutMaxKept ==
  ASSUME IInv, IInv', RecordsInv, ConfigInv, faults = {}, faults' = {}, NEW t \in Task, PutMax(t)
  PROVE  RecordsInv' /\ ConfigInv'
<1>1. /\ pc[t] = "putmax" /\ pc' = [pc EXCEPT ![t] = "putcur"]
      /\ cfg' = [cfg EXCEPT !.max = max]
      /\ UNCHANGED <<now, stamp, max, cur, loaded, rec, disk, arr>>
  BY Faultless DEF PutMax, ConfigWrite, Goto, ring
<1>2. cfg'.exists = cfg.exists /\ cfg'.max = max /\ cfg'.cur = cfg.cur /\ DOMAIN cfg' = DOMAIN cfg
  BY <1>1 DEF ConfigInv, IInv, RingInv, CfgSlots
<1>3. /\ t = "svc" => /\ Empty /\ cur = 1
                      /\ pc'["dmn"] = pc["dmn"] /\ pc["dmn"] \notin {"probe"} \cup Storing
      /\ t = "dmn" => /\ loaded /\ pc["dmn"] = "putmax" /\ pc'["dmn"] = "putcur"
                      /\ pc'["svc"] = pc["svc"] /\ pc["svc"] \notin Resizing
      /\ t = "svc" => pc'["svc"] = "putcur"
  BY <1>1, Exclusive, Alone, RecordsAre DEF Resizing, Storing
<1>4. RecordsInv'
  <2>1. ASSUME loaded PROVE Found' = Found
    BY <1>1, <2>1 DEF Found
  <2>2. \A i \in Slots : RecordAt(i)' = RecordAt(i)
    BY <1>1 DEF RecordAt
  <2>3. \A i \in Slots : RecordAt(i)' # 0 => i <= Found'.max
    <3>1. CASE loaded
      BY <2>1, <2>2, <3>1 DEF RecordsInv
    <3>2. CASE Empty
      BY <2>2, <3>2 DEF Empty
    <3> QED
      BY <1>3, <3>1, <3>2 DEF Task
  <2> QED
    BY <1>1, <1>3, <2>2, <2>3, Exclusive DEF RecordsInv, Empty, RecordAt, Collected, Storing,
       Resizing, Task
<1>5. Covers(cfg) /\ loaded => Covers(cfg)'
  <2> SUFFICES ASSUME Covers(cfg), loaded PROVE Covers(cfg)'
    OBVIOUS
  <2> DEFINE c == IF cfg.cur = 0 THEN 1 ELSE cfg.cur
  <2>1. FoundMax(cfg)' = max /\ max # 0 /\ cur <= max /\ max \in Slots /\ c \in Slots
    <3>1. FoundMax(cfg)' = max /\ max # 0 /\ max \in Slots /\ c \in Slots
      BY <1>2, Numbers, SlotNumbers DEF FoundMax, IInv, RingInv, CfgSlots
    <3>2. cur <= max
      BY <1>1, <1>3, Numbers DEF RecordsInv, Task
    <3> QED
      BY <3>1, <3>2
  <2>2. CASE NoOther
    BY <1>1, <2>1, <2>2 DEF Covers, NoOther, RecordAt
  <2>3. CASE ~NoOther
    <3>1. FoundMax(cfg) <= max /\ cfg.exists
      BY <2>3 DEF Covers, ConfigInv
    <3>2. FoundCur(cfg) = NextSlot(c, FoundMax(cfg)) /\ FoundCur(cfg)' = NextSlot(c, max)
      BY <1>2, <2>1, <3>1 DEF FoundCur
    <3>3. ASSUME NEW i \in Slots \ {cur}, RecordAt(i) # 0
          PROVE  i <= max /\ i # NextSlot(c, max)
      <4>1. i <= FoundMax(cfg) /\ i # NextSlot(c, FoundMax(cfg)) /\ i <= max
        BY <2>3, <3>2, <3>3, RecordsAre DEF Covers
      <4> QED
        BY <2>1, <3>1, <4>1, Numbers DEF NextSlot
    <3>4. max <= max
      BY <2>1, Numbers
    <3> QED
      BY <1>1, <2>1, <3>2, <3>3, <3>4 DEF Covers, RecordAt
  <2> QED
    BY <2>2, <2>3
<1>6. ConfigInv'
  <2>1. /\ pc["dmn"] \notin Saved /\ pc'["dmn"] \notin Saved
        /\ pc'["dmn"] = "assert" <=> pc["dmn"] = "assert"
    BY <1>3, Exclusive DEF Saved, Storing, Task
  <2>2. \E u \in Task : pc'[u] \in {"putcur", "putstamps", "closecfg"}
    BY <1>1, Exclusive
  <2>4. Covers(disk.cfg) => Covers(disk.cfg)'
    BY <1>1 DEF Covers, NoOther, RecordAt, FoundMax, FoundCur
  <2>6. cfg.exists
    BY <1>1 DEF ConfigInv
  <2>7. pc'["dmn"] # "probe"
    BY <1>3 DEF Task
  <2> QED
    BY <1>1, <1>2, <1>3, <1>5, <2>1, <2>2, <2>4, <2>6, <2>7 DEF ConfigInv, Empty, RecordAt, Task
<1> QED
  BY <1>4, <1>6

LEMMA PutCurKept ==
  ASSUME IInv, IInv', RecordsInv, ConfigInv, faults = {}, faults' = {}, NEW t \in Task, PutCur(t)
  PROVE  RecordsInv' /\ ConfigInv'
<1>1. /\ pc[t] = "putcur" /\ pc' = [pc EXCEPT ![t] = "putstamps"]
      /\ cfg' = [cfg EXCEPT !.cur = cur]
      /\ UNCHANGED <<now, stamp, max, cur, loaded, rec, disk, arr>>
  BY Faultless DEF PutCur, ConfigWrite, Goto, ring
<1>2. cfg'.exists = cfg.exists /\ cfg'.max = cfg.max /\ cfg'.cur = cur /\ DOMAIN cfg' = DOMAIN cfg
  BY <1>1 DEF ConfigInv, IInv, RingInv, CfgSlots
<1>3. /\ t = "svc" => /\ Empty /\ cur = 1
                      /\ pc'["dmn"] = pc["dmn"] /\ pc["dmn"] \notin {"probe"} \cup Storing
      /\ t = "dmn" => /\ loaded /\ pc["dmn"] = "putcur" /\ pc'["dmn"] = "putstamps"
                      /\ pc'["svc"] = pc["svc"] /\ pc["svc"] \notin Resizing
      /\ t = "svc" => pc'["svc"] = "putstamps"
  BY <1>1, Exclusive, Alone, RecordsAre DEF Resizing, Storing
<1>4. RecordsInv'
  <2>1. ASSUME loaded PROVE Found' = Found
    BY <1>1, <2>1 DEF Found
  <2>2. \A i \in Slots : RecordAt(i)' = RecordAt(i)
    BY <1>1 DEF RecordAt
  <2>3. \A i \in Slots : RecordAt(i)' # 0 => i <= Found'.max
    <3>1. CASE loaded
      BY <2>1, <2>2, <3>1 DEF RecordsInv
    <3>2. CASE Empty
      BY <2>2, <3>2 DEF Empty
    <3> QED
      BY <1>3, <3>1, <3>2 DEF Task
  <2> QED
    BY <1>1, <1>3, <2>2, <2>3, Exclusive DEF RecordsInv, Empty, RecordAt, Collected, Storing,
       Resizing, Task
<1>5. cfg.exists
  BY <1>1 DEF ConfigInv
<1>6. \E u \in Task : pc'[u] \in {"putcur", "putstamps", "closecfg"}
  BY <1>1, Exclusive
<1>7. Covers(disk.cfg) => Covers(disk.cfg)'
  BY <1>1 DEF Covers, NoOther, RecordAt, FoundMax, FoundCur
<1>8. ConfigInv'
  <2>1. CASE t = "dmn"
    <3>1. Ahead(cfg)' /\ Covers(disk.cfg)
      BY <1>1, <1>2, <1>3, <1>5, <2>1 DEF ConfigInv, Ahead, Saved
    <3> QED
      BY <1>1, <1>2, <1>3, <1>5, <1>6, <1>7, <2>1, <3>1 DEF ConfigInv, Saved
  <2>2. CASE t = "svc"
    <3>1. Covers(cfg) => Covers(cfg)'
      BY <1>1, <1>2, <1>3, <2>2 DEF Covers, Empty, NoOther, RecordAt, FoundMax
    <3>2. pc["dmn"] \notin Saved /\ Empty'
      BY <1>1, <1>3, <2>2 DEF Saved, Storing, Empty, RecordAt
    <3> QED
      BY <1>1, <1>2, <1>3, <1>5, <1>6, <1>7, <2>2, <3>1, <3>2 DEF ConfigInv, Saved, Storing
  <2> QED
    BY <2>1, <2>2 DEF Task
<1> QED
  BY <1>4, <1>8

LEMMA PutStampsKept ==
  ASSUME IInv, IInv', RecordsInv, ConfigInv, faults = {}, faults' = {}, NEW t \in Task, PutStamps(t)
  PROVE  RecordsInv' /\ ConfigInv'
<1>1. /\ pc[t] = "putstamps" /\ pc' = [pc EXCEPT ![t] = "closecfg"]
      /\ \E v : cfg' = [cfg EXCEPT !.at = v]
      /\ UNCHANGED <<now, stamp, max, cur, loaded, rec, disk, arr>>
  BY Faultless DEF PutStamps, ConfigWrite, Goto, ring
<1>2. /\ cfg'.exists = cfg.exists /\ cfg'.max = cfg.max /\ cfg'.cur = cfg.cur
      /\ DOMAIN cfg' = DOMAIN cfg
  BY <1>1 DEF ConfigInv, IInv, RingInv, CfgSlots
<1>3. RecordsInv'
  <2>1. Found' = Found
    BY <1>1, <1>2 DEF Found, MaxRead, CurRead
  <2> QED
    BY <1>1, <2>1, Exclusive DEF RecordsInv, Empty, RecordAt, Collected, Storing, Resizing, Task
<1>4. \E u \in Task : pc'[u] \in {"putcur", "putstamps", "closecfg"}
  BY <1>1, Exclusive
<1>5. /\ Covers(disk.cfg) => Covers(disk.cfg)'
      /\ Covers(cfg) => Covers(cfg)'
      /\ Ahead(disk.cfg) => Ahead(disk.cfg)'
      /\ Ahead(cfg) => Ahead(cfg)'
  BY <1>1, <1>2 DEF Covers, Ahead, NoOther, RecordAt, FoundMax, FoundCur
<1>6. /\ pc'["dmn"] \in Saved <=> pc["dmn"] \in Saved
      /\ pc'["dmn"] # pc["dmn"] => pc["dmn"] = "putstamps" /\ pc'["dmn"] = "closecfg"
      /\ \A u \in Task : pc'[u] # pc[u] => pc[u] = "putstamps"
  BY <1>1, Exclusive DEF Saved
<1>7. ConfigInv'
  BY <1>1, <1>2, <1>4, <1>5, <1>6 DEF ConfigInv, Empty, NoOther, RecordAt
<1> QED
  BY <1>3, <1>7

LEMMA CloseConfigKept ==
  ASSUME IInv, IInv', RecordsInv, ConfigInv, faults = {}, faults' = {}, NEW t \in Task,
         CloseConfig(t)
  PROVE  RecordsInv' /\ ConfigInv'
<1>1. RecordsInv'
  BY Exclusive, Faultless DEF RecordsInv, CloseConfig, CloseFile, Commit, AfterStore, Step, Goto,
     ring, mutex, volume, Collected, Storing, Resizing, Empty, NoOther, RecordAt, Found, MaxRead,
     Task
<1>2. ConfigInv'
  BY Exclusive, Faultless DEF ConfigInv, CloseConfig, CloseFile, Commit, AfterStore, Step, Goto,
     ring, mutex, volume, Saved, Empty, NoOther, RecordAt, Covers, FoundMax, FoundCur, Ahead, Task
<1> QED
  BY <1>1, <1>2

LEMMA TransactKept ==
  ASSUME IInv, IInv', RecordsInv, ConfigInv, faults = {}, faults' = {}, Transact
  PROVE  RecordsInv' /\ ConfigInv'
<1>1. RecordsInv'
  BY Exclusive, Faultless DEF RecordsInv, Transact, Step, Goto, ring, mutex, volume, Collected,
     Storing, Resizing, Empty, NoOther, RecordAt, Found, MaxRead, Task
<1>2. ConfigInv'
  BY Exclusive, Faultless DEF ConfigInv, Transact, Step, Goto, ring, mutex, volume, Saved, Empty,
     NoOther, RecordAt, Covers, FoundMax, FoundCur, Ahead, Task
<1> QED
  BY <1>1, <1>2

LEMMA ResetKept ==
  ASSUME IInv, IInv', RecordsInv, ConfigInv, faults = {}, faults' = {}, Reset
  PROVE  RecordsInv' /\ ConfigInv'
<1>1. /\ rec' = disk.rec /\ cfg' = disk.cfg /\ disk' = disk /\ ~loaded'
      /\ max' = TopMax /\ cur' = 1 /\ arr'.ptr = "null" /\ stamp' = 0 /\ now' = now
      /\ pc' = [dmn |-> "sleep", svc |-> "idle"]
  BY DEF Reset, NoArray
<1>2. \A i \in Slots : /\ RecordAt(i)' = At(disk.rec.at, i)
                       /\ i # cur => RecordAt(i)' = RecordAt(i)
  BY <1>1, RecordsAre DEF RecordAt
<1>3. Found'.max = FoundMax(disk.cfg)
  BY <1>1 DEF Found, FoundMax, MaxRead, ConfigInv
<1>4. \/ Covers(disk.cfg)
      \/ pc["dmn"] = "assert" /\ Empty
      \/ Ahead(disk.cfg) /\ pc["dmn"] \in Saved
      \/ ~loaded
  <2>1. CASE pc["dmn"] \in Saved
    BY <2>1 DEF ConfigInv
  <2>2. CASE pc["dmn"] \notin Saved /\ loaded
    BY <2>2 DEF ConfigInv
  <2> QED
    BY <2>1, <2>2
<1>5. \A i \in Slots : RecordAt(i)' # 0 => i <= FoundMax(disk.cfg)
  <2>1. CASE Covers(disk.cfg)
    BY <1>2, <2>1 DEF Covers, NoOther
  <2>2. CASE pc["dmn"] = "assert" /\ Empty
    BY <1>2, <2>2, RecordsAre DEF Empty, RecordAt
  <2>3. CASE Ahead(disk.cfg) /\ pc["dmn"] \in Saved
    <3>1. FoundMax(disk.cfg) = max /\ loaded /\ disk.rec = rec
      BY <2>3, Numbers, RecordsAre DEF Ahead, FoundMax, Saved, Storing
    <3> QED
      BY <1>2, <3>1, RecordsAre DEF RecordAt
  <2>4. CASE ~loaded
    <3>1. disk.rec = rec
      BY <2>4, RecordsAre DEF Storing
    <3>2. CASE Empty
      BY <1>2, <3>1, <3>2 DEF Empty, RecordAt
    <3>3. CASE ~Empty
      <4>1. disk.cfg = cfg /\ max = TopMax
        BY <2>4, <3>3, Exclusive, RecordsAre DEF ConfigInv, Storing, Resizing, Task
      <4>2. FoundMax(disk.cfg) = Found.max
        BY <2>4, <4>1 DEF FoundMax, Found, MaxRead, ConfigInv
      <4> QED
        BY <1>2, <3>1, <4>2 DEF RecordsInv, RecordAt
    <3> QED
      BY <3>2, <3>3
  <2> QED
    BY <1>4, <2>1, <2>2, <2>3, <2>4
<1>6. RecordsInv'
  <2>1. disk.rec.at \in Seq(Nat) /\ now \in Nat /\ 0 <= now /\ 1 <= TopMax
    BY Numbers, SlotNumbers DEF RecordsInv
  <2>2. ~disk.rec.exists => \A i \in Slots : At(disk.rec.at, i) = 0
    BY DEF RecordsInv, Empty, RecordAt
  <2>3. \A i \in Slots : RecordAt(i)' <= now
    BY <1>2 DEF RecordsInv
  <2> QED
    BY <1>1, <1>2, <1>3, <1>5, <2>1, <2>2, <2>3 DEF RecordsInv, Collected, Storing, Resizing, Empty
<1>7. ConfigInv'
  <2>1. ~disk.cfg.exists => NoOther'
    BY <1>1, <1>2 DEF ConfigInv, NoOther
  <2> QED
    BY <1>1, <2>1 DEF ConfigInv, Saved, Task
<1> QED
  BY <1>6, <1>7

LEMMA DLoadKept ==
  ASSUME IInv, IInv', RecordsInv, ConfigInv, faults = {}, faults' = {}, DLoad
  PROVE  RecordsInv' /\ ConfigInv'
<1>1. /\ pc["dmn"] = "load" /\ pc'["svc"] = pc["svc"] /\ cfg.exists /\ loaded' /\ max' = MaxRead
      /\ \/ pc'["dmn"] = "write" /\ cur' = NextSlot(CurRead, MaxRead)
         \/ pc'["dmn"] = "assert" /\ FreesTwice(MaxRead) /\ cur' = CurRead
      /\ UNCHANGED <<now, stamp, rec, cfg, disk>>
  BY Exclusive, Faultless DEF DLoad, Goto, volume
<1>2. ~loaded /\ cur = 1 /\ pc["svc"] \notin Resizing /\ disk.cfg = cfg /\ disk.rec = rec
  BY <1>1, Alone, RecordsAre, Exclusive DEF ConfigInv, RecordsInv, Resizing, Task
<1>3. Empty \/ (max = TopMax /\ ~FreesTwice(MaxRead))
  BY <1>2 DEF ConfigInv, FreesTwice, Frees
<1>4. MaxRead \in Slots /\ CurRead \in Slots
  BY ReadIsSlot DEF IInv
<1>5. Found.max = MaxRead
  BY <1>1, <1>2 DEF Found
<1>6. /\ pc'["dmn"] = "write" => cur' <= max' /\ cur' <= FoundMax(cfg)
      /\ ~Empty => pc'["dmn"] = "write" /\ FoundMax(cfg) = max' /\ FoundCur(cfg) = cur'
  <2>1. ~Empty => FoundMax(cfg) = MaxRead
    BY <1>3 DEF FoundMax, MaxRead
  <2>2. MaxRead <= FoundMax(cfg)
    BY <1>4, Numbers DEF FoundMax, MaxRead
  <2>3. FoundCur(cfg) = NextSlot(CurRead, FoundMax(cfg))
    BY <1>1, <1>2 DEF FoundCur, CurRead
  <2>4. pc'["dmn"] = "write" => cur' <= max' /\ cur' \in Slots
    BY <1>1, <1>4, Numbers
  <2> QED
    BY <1>1, <1>3, <1>4, <2>1, <2>2, <2>3, <2>4, Numbers
<1>7. RecordsInv'
  <2>1. \A i \in Slots : RecordAt(i)' = RecordAt(i)
    BY <1>1 DEF RecordAt
  <2>2. \A i \in Slots : RecordAt(i)' # 0 => i <= Found'.max
    BY <1>1, <1>5, <2>1 DEF RecordsInv, Found
  <2> QED
    BY <1>1, <1>2, <1>6, <2>1, <2>2 DEF RecordsInv, Collected, Storing, Empty
<1>8. ConfigInv'
  <2>1. Empty' <=> Empty
    BY <1>1 DEF Empty, RecordAt
  <2>2. pc'["dmn"] = "write" => Covers(cfg)'
    <3> SUFFICES ASSUME pc'["dmn"] = "write" PROVE Covers(cfg)'
      OBVIOUS
    <3>1. FoundMax(cfg)' = FoundMax(cfg) /\ FoundCur(cfg)' = FoundCur(cfg) /\ cur' <= FoundMax(cfg)
      BY <1>1, <1>6 DEF FoundMax, FoundCur
    <3>2. CASE Empty
      BY <2>1, <3>1, <3>2 DEF Covers, Empty, NoOther
    <3>3. CASE ~Empty
      <4>1. FoundMax(cfg) = max' /\ FoundCur(cfg) = cur' /\ max' <= max' /\ cur' \in Slots
        BY <1>1, <1>4, <1>6, <3>3, Numbers
      <4>2. \A i \in Slots : RecordAt(i)' # 0 => i <= max'
        BY <1>1, <1>7, RecordsAre DEF RecordsInv, Found
      <4> QED
        BY <3>1, <4>1, <4>2 DEF Covers
    <3> QED
      BY <3>2, <3>3
  <2>3. pc'["dmn"] \in {"write", "assert"} /\ (pc'["dmn"] = "assert" => Empty)
    BY <1>1, <1>3
  <2> QED
    BY <1>1, <1>2, <2>1, <2>2, <2>3, Exclusive DEF ConfigInv, Saved, Task
<1> QED
  BY <1>7, <1>8

LEMMA DWriteKept ==
  ASSUME IInv, IInv', RecordsInv, ConfigInv, faults = {}, faults' = {}, DWrite
  PROVE  RecordsInv' /\ ConfigInv'
<1>1. /\ pc["dmn"] = "write" /\ pc'["dmn"] = "close" /\ pc'["svc"] = pc["svc"]
      /\ rec' = [exists |-> TRUE, at |-> Put(rec.at, cur, stamp)]
      /\ disk' = (IF rec.exists THEN disk ELSE [rec |-> EmptyRec, cfg |-> cfg])
      /\ UNCHANGED <<now, stamp, max, cur, loaded, cfg, arr>>
  BY Exclusive, Faultless DEF DWrite, Goto, ring
<1>2. loaded /\ pc["svc"] \notin Resizing /\ disk.rec = rec
  BY <1>1, RecordsAre, Alone DEF DWrite, Other
<1>3. rec'.exists /\ rec'.at \in Seq(Nat)
      /\ \A i \in Slots : RecordAt(i)' = (IF i = cur THEN stamp ELSE RecordAt(i))
  <2>1. rec'.exists /\ rec'.at = Put(rec.at, cur, stamp)
    BY <1>1
  <2>2. rec.at \in Seq(Nat) /\ stamp \in Nat /\ cur \in Slots
    BY Numbers DEF RecordsInv
  <2>3. /\ Put(rec.at, cur, stamp) \in Seq(Nat)
        /\ \A k \in Slots :
             At(Put(rec.at, cur, stamp), k) = (IF k = cur THEN stamp ELSE At(rec.at, k))
    BY <2>2, PutIs
  <2> QED
    BY <2>1, <2>3 DEF RecordAt
<1>4. disk'.rec.exists /\ \A i \in Slots : At(disk'.rec.at, i) = RecordAt(i)
  BY <1>1, <1>2 DEF RecordsInv, RecordAt, At, EmptyRec, Empty
<1>5. /\ cur \in Slots /\ cur <= max
      /\ \A i \in Slots : RecordAt(i) < stamp /\ RecordAt(i) <= stamp /\ RecordAt(i) \in Nat
  <2>1. cur <= max
    BY <1>1 DEF RecordsInv
  <2>2. \A i \in Slots : RecordAt(i) < stamp /\ RecordAt(i) \in Nat
    BY <1>1, RecordsAre DEF RecordsInv, Collected
  <2> QED
    BY <2>1, <2>2, Numbers DEF RecordsInv
<1>6. stamp > 0 /\ stamp # 0
  BY <1>5 DEF RecordsInv
<1>7. RecordsInv'
  <2>1. disk'.rec.at \in Seq(Nat)
    BY <1>1, EmptySeq DEF RecordsInv, EmptyRec
  <2>2. \A i \in Slots : RecordAt(i)' <= now /\ At(disk'.rec.at, i) <= now
    BY <1>3, <1>4 DEF RecordsInv
  <2>3. \A i \in Slots : RecordAt(i)' # 0 => i <= max
    BY <1>2, <1>3, <1>5, RecordsAre
  <2>4. Found'.max = max
    BY <1>1, <1>2 DEF Found
  <2> QED
    BY <1>1, <1>2, <1>3, <1>4, <1>5, <1>6, <2>1, <2>2, <2>3, <2>4
    DEF RecordsInv, Collected, Storing, Resizing
<1>8. ConfigInv'
  <2>1. NoOther' <=> NoOther
    BY <1>1, <1>3 DEF NoOther
  <2>2. cfg' = cfg /\ disk.cfg = cfg /\ (disk.cfg)' = cfg
    BY <1>1, <1>2, Exclusive DEF ConfigInv, Resizing, Task
  <2>3. Covers(cfg)
    BY <1>1, <1>2 DEF ConfigInv, Saved
  <2>4. Covers(cfg)' /\ Covers(disk.cfg)'
    BY <1>1, <1>3, <2>1, <2>2, <2>3 DEF Covers, FoundMax, FoundCur
  <2> QED
    BY <1>1, <1>2, <1>3, <2>1, <2>2, <2>4, Exclusive DEF ConfigInv, Saved, Task
<1> QED
  BY <1>7, <1>8

-----------------------------------------------------------------------------
(* Without errors.                                                         *)

KeptInv == faults = {} => RecordsInv /\ ConfigInv

\* An error is never forgotten.
LEMMA FaultsStay ==
  ASSUME [Next]_vars
  PROVE  faults \subseteq faults'
<1>1. ASSUME Daemon PROVE faults \subseteq faults'
  BY <1>1 DEF Daemon, DCollect, DLoadNothing, DUnprobe, DLoadOpenFails, DLoad, DLoadNoMemory,
     DWrite,
      DWriteOpenFails, DClose, DArray, DAdvance, CloseFile, Fault, bounds
<1>2. ASSUME Service PROVE faults \subseteq faults'
  BY <1>2 DEF Service, SAccept, SGrow, SShrink, SFree, SSearch, SBegin, SSend, SEnd, SDeletes,
     SProbe,
      SUnprobe, Fault, bounds
<1>3. ASSUME NEW t \in Task, Shared(t) PROVE faults \subseteq faults'
  BY <1>3 DEF Shared, StoreConfig, FindNoLock, FindLock, CreateLock, TakeLock, GiveLock,
     OpenConfig, PutMax,
      PutCur, PutStamps, ConfigWrite, CloseConfig, CloseFile, Fault, bounds
<1>4. ASSUME Transact \/ Reset \/ UNCHANGED vars PROVE faults \subseteq faults'
  BY <1>4 DEF Transact, Reset, vars, bounds
<1> QED
  BY <1>1, <1>2, <1>3, <1>4 DEF Next

LEMMA FaultsGrow ==
  ASSUME [Next]_vars, faults' = {}
  PROVE  faults = {}
BY FaultsStay

\* The steps that are errors as a whole.
LEMMA NoErrorSteps ==
  ASSUME faults' = {}
  PROVE  ~DLoadOpenFails /\ ~DLoadNoMemory /\ ~DWriteOpenFails /\ ~SDeletes
BY Faultless DEF DLoadOpenFails, DLoadNoMemory, DWriteOpenFails, SDeletes

LEMMA KeptInit == Init => KeptInv
<1> SUFFICES ASSUME Init PROVE RecordsInv /\ ConfigInv
  BY DEF KeptInv
<1>1. /\ now = 0 /\ stamp = 0 /\ max = TopMax /\ cur = 1 /\ ~loaded /\ arr.ptr = "null"
      /\ rec = NoRec /\ cfg = NoCfg /\ disk.rec = NoRec /\ disk.cfg = NoCfg
      /\ pc["dmn"] = "sleep" /\ pc["svc"] = "idle"
  BY DEF Init, NoArray
<1>2. NoRec.at \in Seq(Nat) /\ \A i \in Slots : RecordAt(i) = 0 /\ At(NoRec.at, i) = 0
  BY <1>1, EmptySeq DEF NoRec, RecordAt, At
<1>3. Empty /\ NoOther
  BY <1>2 DEF Empty, NoOther
<1>4. 1 \in Slots /\ 1 <= TopMax
  BY SlotNumbers
<1>5. RecordsInv
  BY <1>1, <1>2, <1>3, <1>4 DEF RecordsInv, NoRec, Collected, Storing, Resizing
<1>6. ConfigInv
  BY <1>1, <1>3 DEF ConfigInv, NoCfg, Saved, Task
<1> QED
  BY <1>5, <1>6

LEMMA KeptStep ==
  ASSUME IInv, KeptInv, [Next]_vars
  PROVE  KeptInv'
<1> SUFFICES ASSUME faults' = {}
             PROVE  RecordsInv' /\ ConfigInv'
  BY DEF KeptInv
<1> USE FaultsGrow, InvStep
<1>a. faults = {} /\ IInv' /\ RecordsInv /\ ConfigInv
  BY DEF KeptInv
<1>1. CASE Daemon
  BY <1>a, <1>1, NoErrorSteps, DCollectKept, DLoadNothingKept, DUnprobeKept, DLoadKept,
     DWriteKept, DCloseKept,
     DArrayKept, DAdvanceKept
  DEF Daemon
<1>2. CASE Service
  BY <1>a, <1>2, NoErrorSteps, SAcceptKept, SGrowKept, SShrinkKept, SFreeKept, SSearchKept,
     SBeginKept,
     SSendKept, SEndKept, SProbeKept, SUnprobeKept
  DEF Service
<1>3. ASSUME NEW t \in Task, Shared(t) PROVE RecordsInv' /\ ConfigInv'
  <2>1. CASE StoreConfig(t)
    BY <1>a, <2>1, OpenConfigKept, PutMaxKept, PutCurKept, PutStampsKept, CloseConfigKept DEF
       StoreConfig
  <2> QED
    BY <1>a, <1>3, <2>1, FindNoLockKept, FindLockKept, CreateLockKept, TakeLockKept,
       GiveLockKept DEF Shared
<1>4. CASE Transact \/ Reset
  BY <1>a, <1>4, TransactKept, ResetKept
<1>5. CASE UNCHANGED vars
  BY <1>a, <1>5 DEF vars, RecordsInv, ConfigInv, Empty, NoOther, RecordAt, Found, MaxRead,
     CurRead, Covers, Ahead,
     FoundMax, FoundCur
<1> QED
  BY <1>1, <1>2, <1>3, <1>4, <1>5 DEF Next

-----------------------------------------------------------------------------
(* What is stored.                                                         *)

LEMMA FoundIsSlot ==
  ASSUME IInv
  PROVE  Found.max \in Slots /\ Found.cur \in Slots
  BY ReadIsSlot, NextIsSlot DEF IInv, RingInv, Found

\* All the records but the one in the slot to be overwritten.
AllStored ==
  Found.cur \in Slots /\ Stored = {RecordAt(i) : i \in Slots \ {Found.cur}} \ {0}

LEMMA StoredIs == IInv /\ RecordsInv => AllStored
<1> SUFFICES ASSUME IInv, RecordsInv PROVE AllStored
  OBVIOUS
<1>1. \A i \in Slots : i <= Found.max <=> i \in 1 .. Found.max
  BY FoundIsSlot, SlotNumbers
<1>2. \A i \in 1 .. Found.max : i \in Slots
  BY FoundIsSlot, SlotNumbers DEF Slots
<1> QED
  BY <1>1, <1>2, FoundIsSlot DEF RecordsInv, Stored, AllStored

LEMMA StoredIsNext == (IInv /\ RecordsInv => AllStored)'
  BY StoredIs, PTL

\* When the ring is empty, or will be found so.
LEMMA NothingStored ==
  ASSUME IInv, RecordsInv, ConfigInv,
         Empty \/ (NoOther /\ loaded) \/ (~loaded /\ ~cfg.exists)
  PROVE  Stored = {}
<1>1. Empty \/ (NoOther /\ Found.cur = cur)
  BY DEF ConfigInv, Found
<1> QED
  BY <1>1, StoredIs DEF AllStored, Empty, NoOther

\* The two ways in which a step may treat what is stored.
KeepsAll == Stored \subseteq Stored'
Replaces ==
  \E new \in Stored' \ Stored, old \in Stored :
    Newer(new, Stored) /\ Stored \ {old} \subseteq Stored'

\* The slot to be overwritten stays the same, or there is none that counts.
LEMMA SlotStays ==
  ASSUME IInv, IInv', RecordsInv, RecordsInv', ConfigInv,
         \/ Stored = {}
         \/ /\ Found'.cur = Found.cur
            /\ \A i \in Slots \ {Found.cur} : RecordAt(i)' = RecordAt(i)
  PROVE  KeepsAll
<1>1. CASE Stored = {}
  BY <1>1 DEF KeepsAll
<1>2. CASE Found'.cur = Found.cur /\ \A i \in Slots \ {Found.cur} : RecordAt(i)' = RecordAt(i)
  <2>1. Stored' = {RecordAt(i)' : i \in Slots \ {Found'.cur}} \ {0}
    BY StoredIsNext DEF AllStored
  <2> QED
    BY <1>2, <2>1, StoredIs DEF KeepsAll, AllStored
<1> QED
  BY <1>1, <1>2

\* The daemon passes from the slot of the newest record to the next.
LEMMA SlotPasses ==
  ASSUME IInv, IInv', RecordsInv, RecordsInv', loaded, pc["dmn"] \in Storing,
         \A i \in Slots : RecordAt(i)' = RecordAt(i)
  PROVE  KeepsAll \/ Replaces
<1> DEFINE next == Found'.cur
<1>0. CASE Empty
  <2>1. Stored = {}
    BY <1>0, StoredIs DEF AllStored, Empty
  <2> QED
    BY <2>1 DEF KeepsAll
<1>1. Stored = {RecordAt(i) : i \in Slots \ {cur}} \ {0}
  BY StoredIs DEF Found, AllStored
<1>2. Stored' = {RecordAt(i) : i \in Slots \ {next}} \ {0}
  <2>1. Stored' = {RecordAt(i)' : i \in Slots \ {next}} \ {0}
    BY StoredIsNext DEF AllStored
  <2> QED
    BY <2>1
<1>3. next \in Slots /\ cur \in Slots
  BY StoredIsNext DEF AllStored, IInv, RingInv
<1> HIDE DEF next
<1>4. CASE next = cur \/ RecordAt(next) = 0
  BY <1>1, <1>2, <1>4 DEF KeepsAll
<1>5. CASE ~Empty /\ next # cur /\ RecordAt(next) # 0
  <2>1. /\ RecordAt(cur) = stamp /\ stamp # 0
        /\ \A i \in Slots \ {cur} : RecordAt(i) < stamp /\ RecordAt(i) # stamp
    BY RecordsAre, <1>3, <1>5 DEF RecordsInv
  <2>2. stamp \in Stored' \ Stored
    BY <1>1, <1>2, <1>3, <1>5, <2>1
  <2>3. RecordAt(next) \in Stored
    BY <1>1, <1>3, <1>5
  <2>4. Newer(stamp, Stored)
    BY <1>1, <2>1 DEF Newer
  <2>5. Stored \ {RecordAt(next)} \subseteq Stored'
    BY <1>1, <1>2
  <2> QED
    BY <2>2, <2>3, <2>4, <2>5 DEF Replaces
<1> QED
  BY <1>0, <1>4, <1>5

\* The step does not touch what is stored, or nothing is.
Untouched ==
  \/ Stored = {}
  \/ UNCHANGED <<rec, cur, loaded>> /\ (loaded \/ UNCHANGED <<max, cfg>>)

LEMMA UntouchedKeeps ==
  ASSUME IInv, IInv', RecordsInv, RecordsInv', ConfigInv, Untouched
  PROVE  KeepsAll
<1>1. CASE Stored = {}
  BY <1>1 DEF KeepsAll
<1>2. CASE UNCHANGED <<rec, cur, loaded>> /\ (loaded \/ UNCHANGED <<max, cfg>>)
  <2>1. Found'.cur = Found.cur
    <3>1. CASE loaded
      BY <1>2, <3>1 DEF Found
    <3>2. CASE ~loaded
      BY <1>2, <3>2 DEF Found, MaxRead, CurRead
    <3> QED
      BY <3>1, <3>2
  <2>2. \A i \in Slots : RecordAt(i)' = RecordAt(i)
    BY <1>2 DEF RecordAt
  <2> QED
    BY <2>1, <2>2, SlotStays
<1> QED
  BY <1>1, <1>2 DEF Untouched

LEMMA DaemonUntouched ==
  ASSUME IInv, RecordsInv, ConfigInv, faults' = {},
         DCollect \/ DLoadNothing \/ DUnprobe \/ DClose \/ DArray
  PROVE  Untouched
<1>1. CASE DCollect
  BY <1>1 DEF DCollect, Untouched, ring, mutex, volume
<1>2. CASE DLoadNothing
  <2>1. ~loaded /\ ~cfg.exists
    BY <1>2, Faultless DEF DLoadNothing, RecordsInv
  <2> QED
    BY <2>1, NothingStored DEF Untouched
<1>3. CASE DUnprobe
  BY <1>3, RecordsAre DEF DUnprobe, Untouched, Step, ring
<1>4. CASE DClose
  BY <1>4 DEF DClose, CloseFile, Untouched, ring
<1>5. CASE DArray
  BY <1>5 DEF DArray, Untouched, volume
<1> QED
  BY <1>1, <1>2, <1>3, <1>4, <1>5

LEMMA ServiceUntouched ==
  ASSUME IInv, RecordsInv, ConfigInv, faults' = {}, Service, ~SShrink, ~SUnprobe
  PROVE  Untouched
<1>1. CASE SAccept \/ SFree \/ SSearch \/ SBegin \/ SSend \/ SEnd
  BY <1>1 DEF SAccept, SFree, SSearch, SBegin, SSend, SEnd, Untouched, ring, mutex, volume
<1>2. CASE SGrow
  <2>1. UNCHANGED <<rec, cur, loaded, cfg>> /\ max < req.max /\ max \in Slots /\ max' = req.max
    BY <1>2 DEF SGrow, volume, IInv, RingInv
  <2>2. ~loaded => Empty
    <3>1. req.max \in Slots
      <4>1. req.op = "set" /\ req.max \in NewMaxes
        BY <1>2, PagesAssumption DEF SGrow, IInv, RequestInv, NoRequest, Page
      <4> QED
        BY <4>1, SlotNumbers
    <3>2. max # TopMax
      <4>1. req.max \in Nat /\ req.max <= TopMax /\ TopMax \in Nat
        BY <3>1, SlotNumbers
      <4> QED
        BY <2>1, <4>1
    <3> QED
      BY <3>2 DEF ConfigInv
  <2> QED
    BY <2>1, <2>2, NothingStored DEF Untouched
<1>3. CASE SProbe
  <2>1. Empty
    BY <1>3 DEF SProbe, RecordsInv
  <2> QED
    BY <2>1, NothingStored DEF Untouched
<1> QED
  BY <1>1, <1>2, <1>3, NoErrorSteps DEF Service

LEMMA SharedUntouched ==
  ASSUME IInv, RecordsInv, ConfigInv, faults' = {}, NEW t \in Task, Shared(t)
  PROVE  Untouched
<1>1. CASE FindNoLock(t) \/ FindLock(t) \/ CreateLock(t) \/ TakeLock(t) \/ GiveLock(t) \/
CloseConfig(t)
  BY <1>1 DEF FindNoLock, FindLock, CreateLock, TakeLock, GiveLock, CloseConfig, CloseFile,
     Untouched, ring,
     volume
<1>2. CASE OpenConfig(t)
  <2>1. UNCHANGED <<rec, max, cur, loaded>> /\ (cfg.exists => UNCHANGED cfg)
    BY <1>2, Faultless DEF OpenConfig, ring
  <2> QED
    BY <2>1, NothingStored DEF Untouched
<1>3. CASE PutMax(t) \/ PutCur(t) \/ PutStamps(t)
  <2>1. UNCHANGED <<rec, cur, loaded>> /\ pc[t] \in {"putmax", "putcur", "putstamps"}
    BY <1>3 DEF PutMax, PutCur, PutStamps, ConfigWrite, ring
  <2>2. loaded \/ Empty
    BY <2>1, RecordsAre DEF Task, Storing, Resizing
  <2> QED
    BY <2>1, <2>2, NothingStored DEF Untouched
<1> QED
  BY <1>1, <1>2, <1>3 DEF Shared, StoreConfig

LEMMA DLoadKeeps ==
  ASSUME IInv, IInv', RecordsInv, RecordsInv', ConfigInv, faults' = {}, DLoad
  PROVE  KeepsAll
<1>1. /\ ~loaded /\ cfg.exists /\ loaded' /\ max' = MaxRead /\ rec' = rec
      /\ cur' = NextSlot(CurRead, MaxRead) \/ FreesTwice(MaxRead)
  BY Faultless DEF DLoad, RecordsInv, volume
<1>2. Empty \/ ~FreesTwice(MaxRead)
  BY <1>1 DEF ConfigInv, FreesTwice, Frees
<1>3. CASE Empty
  BY <1>3, NothingStored, SlotStays
<1>4. CASE ~FreesTwice(MaxRead)
  <2>1. Found'.cur = Found.cur
    BY <1>1, <1>4 DEF Found
  <2> QED
    BY <1>1, <2>1, SlotStays DEF RecordAt
<1> QED
  BY <1>2, <1>3, <1>4

LEMMA DWriteKeeps ==
  ASSUME IInv, IInv', RecordsInv, RecordsInv', ConfigInv, faults' = {}, DWrite
  PROVE  KeepsAll
<1>1. /\ loaded /\ loaded' /\ cur' = cur
      /\ rec'.at = Put(rec.at, cur, stamp)
  BY RecordsAre, Faultless DEF DWrite, ring
<1>2. rec.at \in Seq(Nat) /\ stamp \in Nat /\ cur \in Slots
  BY DEF RecordsInv, IInv, RingInv
<1>3. \A i \in Slots : At(Put(rec.at, cur, stamp), i) = (IF i = cur THEN stamp ELSE At(rec.at, i))
  BY <1>2, PutIs
<1>4. Found'.cur = cur /\ Found.cur = cur /\ \A i \in Slots \ {cur} : RecordAt(i)' = RecordAt(i)
  BY <1>1, <1>3 DEF RecordAt, Found
<1> QED
  BY <1>4, SlotStays

LEMMA DAdvanceKeeps ==
  ASSUME IInv, IInv', RecordsInv, RecordsInv', DAdvance
  PROVE  KeepsAll \/ Replaces
<1>1. pc["dmn"] \in Storing /\ rec' = rec
  BY DEF DAdvance, Step, Storing, mutex, volume
<1> QED
  BY <1>1, RecordsAre, SlotPasses DEF RecordAt

LEMMA ResetKeeps ==
  ASSUME IInv, IInv', RecordsInv, RecordsInv', ConfigInv, Reset
  PROVE  KeepsAll \/ Replaces
<1>1. rec' = disk.rec /\ cfg' = disk.cfg /\ ~loaded' /\ max' = TopMax /\ cur' = 1
  BY DEF Reset
<1>2. Found'.cur = FoundCur(disk.cfg)
  BY <1>1 DEF Found, FoundCur, FoundMax, MaxRead, CurRead, ConfigInv
<1>3. \A i \in Slots : /\ RecordAt(i)' = At(disk.rec.at, i)
                       /\ i # cur => RecordAt(i)' = RecordAt(i)
  BY <1>1, RecordsAre DEF RecordAt
<1>4. CASE pc["dmn"] \in Saved /\ ~Covers(disk.cfg)
  <2>1. loaded /\ disk.rec = rec /\ pc["dmn"] \in Storing
    BY <1>4, RecordsAre DEF Saved, Storing
  <2> QED
    BY <1>3, <2>1, SlotPasses DEF RecordAt
<1>5. CASE loaded /\ Covers(disk.cfg)
  <2>1. CASE NoOther
    BY <1>5, <2>1, NothingStored, SlotStays
  <2>2. CASE ~NoOther
    <3>1. Stored = {RecordAt(i) : i \in Slots \ {cur}} \ {0}
      BY <1>5, StoredIs DEF AllStored, Found
    <3>2. Stored' = {RecordAt(i)' : i \in Slots \ {FoundCur(disk.cfg)}} \ {0}
      BY <1>2, StoredIsNext DEF AllStored
    <3>3. \A i \in Slots \ {cur} : RecordAt(i) # 0 => i # FoundCur(disk.cfg)
      BY <1>5, <2>2 DEF Covers
    <3> QED
      BY <1>3, <3>1, <3>2, <3>3 DEF KeepsAll
  <2> QED
    BY <2>1, <2>2
<1>6. CASE loaded /\ ~Covers(disk.cfg) /\ pc["dmn"] \notin Saved
  BY <1>6, NothingStored, SlotStays DEF ConfigInv
<1>7. CASE ~loaded
  <2>1. cur = 1 /\ (Empty \/ max = TopMax)
    BY <1>7 DEF ConfigInv
  <2>2. CASE Empty \/ ~cfg.exists
    BY <1>7, <2>2, NothingStored, SlotStays
  <2>3. CASE ~Empty /\ cfg.exists
    <3>1. disk.cfg = cfg /\ disk.rec = rec
      BY <1>7, <2>3, RecordsAre DEF ConfigInv, Storing, Resizing, Task
    <3>2. Found.cur = FoundCur(disk.cfg)
      BY <1>7, <2>1, <2>3, <3>1 DEF Found, FoundCur, FoundMax, MaxRead, CurRead
    <3> QED
      BY <1>2, <1>3, <3>1, <3>2, SlotStays DEF RecordAt
  <2> QED
    BY <2>2, <2>3
<1> QED
  BY <1>4, <1>5, <1>6, <1>7

\* The records that count are lost one by one and only to newer ones, wherever a
\* reset falls, unless the ground asks for no more slots than there are
\* (housekeeping_service.c:518, 1016), or a page ends that found no record file:
\* what the daemon has stored since is then deleted (lines 295-300).
THEOREM RecordsAreKept ==
  Spec => NothingLost
<1> DEFINE Kept == \/ faults' # {} \/ (pc["svc"] = "resize" /\ req.max <= max)
                   \/ (pc["svc"] = "fprobe" /\ pc'["svc"] = "idle")
                   \/ Stored \subseteq Stored'
                   \/ \E new \in Stored' \ Stored, old \in Stored :
                        Newer(new, Stored) /\ Stored \ {old} \subseteq Stored'
<1>1. IInv /\ KeptInv /\ [Next]_vars => Kept
  <2> SUFFICES ASSUME IInv, KeptInv, [Next]_vars, faults' = {},
                      ~(pc["svc"] = "resize" /\ req.max <= max),
                      ~(pc["svc"] = "fprobe" /\ pc'["svc"] = "idle")
               PROVE  KeepsAll \/ Replaces
    BY DEF KeepsAll, Replaces
  <2>1. IInv' /\ RecordsInv /\ ConfigInv /\ RecordsInv'
    BY FaultsGrow, InvStep, KeptStep DEF KeptInv
  <2>2. CASE Daemon
    BY <2>1, <2>2, NoErrorSteps, DaemonUntouched, UntouchedKeeps, DLoadKeeps, DWriteKeeps,
       DAdvanceKeeps
    DEF Daemon
  <2>3. CASE Service
    <3>1. ~SShrink
      <4>1. ASSUME SShrink PROVE FALSE
        <5>1. pc["svc"] = "resize" /\ max >= req.max
          BY <4>1 DEF SShrink, Step
        <5>2. max \in Slots /\ req.max \in NewMaxes
          BY <5>1, PagesAssumption DEF IInv, RingInv, RequestInv, NoRequest, Page
        <5> QED
          BY <5>1, <5>2, SlotNumbers
      <4> QED
        BY <4>1
    <3>2. ~SUnprobe
      BY Exclusive DEF SUnprobe, Step, Goto
    <3> QED
      BY <2>1, <2>3, <3>1, <3>2, ServiceUntouched, UntouchedKeeps
  <2>4. CASE \E t \in Task : Shared(t)
    BY <2>1, <2>4, SharedUntouched, UntouchedKeeps
  <2>5. CASE Transact
    BY <2>1, <2>5, UntouchedKeeps DEF Transact, Untouched, ring
  <2>6. CASE Reset
    BY <2>1, <2>6, ResetKeeps
  <2>7. CASE UNCHANGED vars
    BY <2>1, <2>7, UntouchedKeeps DEF vars, Untouched
  <2> QED
    BY <2>2, <2>3, <2>4, <2>5, <2>6, <2>7 DEF Next
<1>2. IInv /\ KeptInv /\ [Next]_vars => IInv' /\ KeptInv'
  BY InvStep, KeptStep
<1> QED
  BY <1>1, <1>2, InvInit, KeptInit, PTL DEF Spec, NothingLost

-----------------------------------------------------------------------------
(* The order of the records.                                               *)

\* Slot i comes before slot j on the way from the current slot around to it.
Earlier(i, j) == (i > cur /\ j < cur) \/ (i > cur /\ i < j) \/ (j < cur /\ i < j)

Ordered ==
  \A i, j \in Slots \ {cur} :
    RecordAt(i) # 0 /\ RecordAt(j) # 0 /\ Earlier(i, j) => RecordAt(i) < RecordAt(j)

OrderInv ==
  /\ resets \in Nat
  /\ faults = {} /\ resets = 0 => (~loaded => Empty) /\ Ordered

LEMMA EmptyIsOrdered ==
  ASSUME Empty'
  PROVE  Ordered'
BY DEF Empty, Ordered, RecordAt

LEMMA SameOrder ==
  ASSUME cur' = cur, \A i \in Slots \ {cur} : RecordAt(i)' = RecordAt(i), Ordered
  PROVE  Ordered'
BY DEF Ordered, Earlier

\* What the daemon leaves behind is the newest, so it may come last.
LEMMA PassedInOrder ==
  ASSUME IInv, RecordsInv, Ordered, DAdvance
  PROVE  Ordered'
<1>1. /\ loaded /\ pc["dmn"] \in Storing /\ cur' = NextSlot(cur, max) /\ cur <= max
      /\ \A i \in Slots : RecordAt(i)' = RecordAt(i)
  BY RecordsAre DEF DAdvance, Step, Storing, RecordAt, RecordsInv, volume
<1>2. /\ cur \in Slots /\ max \in Slots /\ cur \in Nat /\ max \in Nat
      /\ \A i \in Slots : i \in Nat /\ 1 <= i
      /\ \A i \in Slots : RecordAt(i) \in Nat
  BY SlotNumbers, RecordsAre DEF IInv, RingInv
<1>4. \A i \in Slots : RecordAt(i) # 0 => i <= max
  BY <1>1, RecordsAre
<1> SUFFICES ASSUME NEW i \in Slots \ {cur'}, NEW j \in Slots \ {cur'},
                    RecordAt(i) # 0, RecordAt(j) # 0,
                    Earlier(i, j)'
             PROVE  RecordAt(i) < RecordAt(j)
  BY <1>1 DEF Ordered
<1>3. RecordAt(cur) = stamp /\ \A k \in Slots \ {cur} : RecordAt(k) < stamp
  BY <1>1 DEF RecordsInv, Empty
<1>5. i \in Nat /\ j \in Nat /\ 1 <= i /\ 1 <= j /\ i <= max /\ j <= max
  BY <1>2, <1>4
<1>6. CASE cur + 1 <= max
  <2>1. cur' = cur + 1
    BY <1>1, <1>2, <1>6 DEF NextSlot
  <2>2. i # cur
    BY <1>2, <1>5, <2>1 DEF Earlier
  <2>3. j # cur => Earlier(i, j)
    BY <1>2, <1>5, <2>1, <2>2 DEF Earlier
  <2> QED
    BY <1>3, <2>2, <2>3 DEF Ordered
<1>7. CASE ~(cur + 1 <= max)
  <2>1. cur' = 1 /\ cur = max
    BY <1>1, <1>2, <1>7 DEF NextSlot
  <2>2. i < j
    BY <1>2, <1>5, <2>1 DEF Earlier
  <2>3. i # cur
    BY <1>2, <1>5, <2>1, <2>2
  <2>4. j # cur => Earlier(i, j)
    BY <1>2, <1>5, <2>1, <2>2 DEF Earlier
  <2> QED
    BY <1>3, <2>3, <2>4 DEF Ordered
<1> QED
  BY <1>6, <1>7

\* The step leaves the order as it is, or nothing to order.
Unmoved ==
  \/ Empty'
  \/ /\ cur' = cur /\ \A i \in Slots \ {cur} : RecordAt(i)' = RecordAt(i)
     /\ loaded' = loaded \/ loaded'
     /\ ~loaded /\ Empty => Empty'

LEMMA DaemonUnmoved ==
  ASSUME IInv, RecordsInv, ~loaded => Empty, faults' = {}, Daemon, ~DAdvance
  PROVE  Unmoved
<1>1. CASE DCollect \/ DLoadNothing \/ DUnprobe \/ DClose \/ DArray
  BY <1>1 DEF DCollect, DLoadNothing, NotLoaded, DUnprobe, DClose, CloseFile, DArray, Unmoved,
     Empty, RecordAt,
              ring, mutex, volume
<1>2. CASE DLoad
  BY <1>2 DEF DLoad, RecordsInv, Unmoved, Empty, RecordAt, volume
<1>3. CASE DWrite
  <2>1. /\ loaded /\ loaded' /\ cur' = cur /\ rec'.at = Put(rec.at, cur, stamp)
    BY <1>3, RecordsAre, Faultless DEF DWrite, ring
  <2>2. rec.at \in Seq(Nat) /\ stamp \in Nat /\ cur \in Slots
    BY DEF RecordsInv, IInv, RingInv
  <2>3. \A i \in Slots : At(Put(rec.at, cur, stamp), i) = (IF i = cur THEN stamp ELSE At(rec.at, i))
    BY <2>2, PutIs
  <2> QED
    BY <2>1, <2>3 DEF Unmoved, RecordAt
<1> QED
  BY <1>1, <1>2, <1>3, NoErrorSteps DEF Daemon

LEMMA ServiceUnmoved ==
  ASSUME IInv, RecordsInv, faults = {}, faults' = {}, Service
  PROVE  Unmoved
<1>1. CASE SAccept \/ SGrow \/ SFree \/ SSearch \/ SBegin \/ SSend \/ SEnd
  BY <1>1 DEF SAccept, SGrow, SFree, SSearch, SBegin, SSend, SEnd, Unmoved, Empty, RecordAt, ring,
     volume
<1>2. CASE SShrink
  BY <1>2, Faultless, ShrinksUnopened DEF SShrink, Unmoved, Empty, RecordAt, At, NoRec
<1>3. CASE SProbe
  BY <1>3 DEF SProbe, Unmoved, Empty, RecordAt, At, EmptyRec
<1>4. CASE SUnprobe
  <2>1. CASE RecordOpen
    BY <1>4, <2>1 DEF SUnprobe, Unmoved, Empty, RecordAt, ring
  <2>2. CASE ~RecordOpen
    BY <1>4, <2>2 DEF SUnprobe, Unmoved, Empty, RecordAt, At, NoRec
  <2> QED
    BY <2>1, <2>2
<1> QED
  BY <1>1, <1>2, <1>3, <1>4, NoErrorSteps DEF Service

LEMMA SharedUnmoved ==
  ASSUME NEW t \in Task, Shared(t)
  PROVE  Unmoved
<1>1. UNCHANGED <<cur, loaded, rec>>
  BY DEF Shared, StoreConfig, FindNoLock, FindLock, CreateLock, TakeLock, GiveLock, OpenConfig,
     PutMax,
     PutCur, PutStamps,
         ConfigWrite, CloseConfig, CloseFile, ring, mutex, volume
<1> QED
  BY <1>1 DEF Unmoved, Empty, RecordAt

LEMMA OrderInit == Init => OrderInv
BY SlotNumbers DEF Init, OrderInv, Ordered, Empty, RecordAt, At, NoRec

\* Only a reset counts as one.
LEMMA ResetsCount ==
  ASSUME [Next]_vars
  PROVE  resets' = resets \/ (Reset /\ resets' = resets + 1)
<1>1. ASSUME Daemon PROVE resets' = resets
  BY <1>1 DEF Daemon, DCollect, DLoadNothing, DUnprobe, DLoadOpenFails, DLoad, DLoadNoMemory,
     DWrite,
      DWriteOpenFails, DClose, DArray, DAdvance, bounds
<1>2. ASSUME Service PROVE resets' = resets
  BY <1>2 DEF Service, SAccept, SGrow, SShrink, SFree, SSearch, SBegin, SSend, SEnd, SDeletes,
     SProbe,
      SUnprobe, bounds
<1>3. ASSUME NEW t \in Task, Shared(t) PROVE resets' = resets
  BY <1>3 DEF Shared, StoreConfig, FindNoLock, FindLock, CreateLock, TakeLock, GiveLock,
     OpenConfig, PutMax,
      PutCur, PutStamps, ConfigWrite, CloseConfig, bounds
<1>4. ASSUME Transact \/ UNCHANGED vars PROVE resets' = resets
  BY <1>4 DEF Transact, vars, bounds
<1>5. ASSUME Reset PROVE resets' = resets + 1
  BY <1>5 DEF Reset
<1> QED
  BY <1>1, <1>2, <1>3, <1>4, <1>5 DEF Next

LEMMA OrderStep ==
  ASSUME IInv, KeptInv, OrderInv, [Next]_vars
  PROVE  OrderInv'
<1>1. resets' \in Nat
  BY ResetsCount DEF OrderInv
<1> SUFFICES ASSUME faults' = {}, resets' = 0
             PROVE  (~loaded' => Empty') /\ Ordered'
  BY <1>1 DEF OrderInv
<1>2. /\ faults = {} /\ RecordsInv /\ (~loaded => Empty) /\ Ordered
      /\ ~Reset
  <2>1. resets = 0 /\ ~Reset
    <3>1. Reset => resets' = resets + 1
      BY DEF Reset
    <3>2. resets \in Nat
      BY DEF OrderInv
    <3> QED
      BY <3>1, <3>2, ResetsCount
  <2> QED
    BY <2>1, FaultsGrow DEF KeptInv, OrderInv
<1>3. CASE DAdvance
  BY <1>2, <1>3, RecordsAre, PassedInOrder DEF DAdvance, Step, Storing
<1>4. CASE Unmoved
  BY <1>2, <1>4, EmptyIsOrdered, SameOrder DEF Unmoved
<1>5. CASE Transact \/ UNCHANGED vars
  BY <1>2, <1>4, <1>5 DEF Transact, vars, ring, Unmoved, Empty, RecordAt
<1> QED
  BY <1>2, <1>3, <1>4, <1>5, DaemonUnmoved, ServiceUnmoved, SharedUnmoved DEF Next

-----------------------------------------------------------------------------
\* The slot k places after the current one.
Place(k) == ((cur - 1 + k) % max) + 1

\* The remainder of a number of less than two rounds.
LEMMA Modulo ==
  ASSUME NEW m \in Nat \ {0}, NEW a \in Nat
  PROVE  /\ a % m \in 0 .. m - 1
         /\ a < m => a % m = a
         /\ m <= a /\ a < m + m => a % m = a - m
<1>1. a % m \in 0 .. m - 1
  OBVIOUS
<1>2. a < m => a % m = a
  OBVIOUS
<1>3. m <= a /\ a < m + m => a % m = a - m
  OBVIOUS
<1> QED
  BY <1>1, <1>2, <1>3

\* Going around the ring of m slots from slot c.
LEMMA PlacesAre ==
  ASSUME NEW m \in Nat \ {0}, NEW c \in Nat, 1 <= c, NEW k \in 1 .. m - 1
  PROVE  /\ ((c - 1 + k) % m) + 1 \in 1 .. m
         /\ c <= m => ((c - 1 + k) % m) + 1 = (IF c + k <= m THEN c + k ELSE c + k - m)
<1> DEFINE a == c - 1 + k
<1>1. a \in Nat
  OBVIOUS
<1>2. a % m \in 0 .. m - 1 /\ (a < m => a % m = a) /\ (m <= a /\ a < m + m => a % m = a - m)
  BY <1>1, Modulo
<1>3. c <= m => a < m + m
  OBVIOUS
<1>4. (a < m <=> c + k <= m) /\ (a < m \/ m <= a)
  OBVIOUS
<1> QED
  BY <1>1, <1>2, <1>3, <1>4

\* Going around from the current slot meets earlier slots first.
LEMMA HistoryInOrder ==
  ASSUME IInv, RecordsInv, ConfigInv, ~loaded => Empty, Ordered
  PROVE  InOrder(History)
<1>1. cur \in Nat /\ 1 <= cur /\ max \in Nat \ {0} /\ \A n \in 1 .. max : n \in Slots
  BY SlotNumbers DEF IInv, RingInv, Slots
<1>2. DOMAIN History = 1 .. max - 1 /\ \A k \in 1 .. max - 1 : History[k] = RecordAt(Place(k))
  BY DEF History, Place
<1> SUFFICES ASSUME NEW i \in 1 .. max - 1, NEW j \in 1 .. max - 1, i < j,
                    RecordAt(Place(i)) # 0, RecordAt(Place(j)) # 0
             PROVE  RecordAt(Place(i)) < RecordAt(Place(j))
  BY <1>2 DEF InOrder
<1>3. Place(i) \in Slots /\ Place(j) \in Slots /\ Place(i) <= max /\ Place(j) <= max
  BY <1>1, PlacesAre DEF Place
<1>4. cur <= max
  <2>1. CASE cur <= max
    BY <2>1
  <2>2. CASE ~(cur <= max)
    <3>1. Place(i) # cur
      BY <1>1, <1>3, <2>2
    <3>2. ~NoOther /\ ~Empty /\ loaded /\ pc["dmn"] \notin Saved
      BY <1>3, <2>2, <3>1 DEF NoOther, Empty, RecordsInv, Saved
    <3>3. cur <= FoundMax(cfg) /\ FoundMax(cfg) <= max
      BY <3>2 DEF ConfigInv, Covers
    <3>4. FoundMax(cfg) \in Nat
      BY Numbers
    <3> QED
      BY <1>1, <3>3, <3>4
  <2> QED
    BY <2>1, <2>2
<1>5. /\ Place(i) = (IF cur + i <= max THEN cur + i ELSE cur + i - max)
      /\ Place(j) = (IF cur + j <= max THEN cur + j ELSE cur + j - max)
  BY <1>1, <1>4, PlacesAre DEF Place
<1>6. Place(i) # cur /\ Place(j) # cur /\ Earlier(Place(i), Place(j))
  BY <1>1, <1>4, <1>5 DEF Earlier
<1> QED
  BY <1>3, <1>6 DEF Ordered

\* The slots hold the records in the order of their times, from the one after
\* the current slot around to the one before it, so that a page, which goes
\* backwards from the current slot (housekeeping_service.c:1016), goes from
\* newer records to older ones.
THEOREM RecordsInOrder ==
  Spec => []Chronological
<1>1. IInv /\ KeptInv /\ OrderInv => Chronological
  BY HistoryInOrder DEF KeptInv, OrderInv, Chronological
<1>2. IInv /\ KeptInv /\ OrderInv /\ [Next]_vars => IInv' /\ KeptInv' /\ OrderInv'
  BY InvStep, KeptStep, OrderStep
<1> QED
  BY <1>1, <1>2, InvInit, KeptInit, OrderInit, PTL DEF Spec

-----------------------------------------------------------------------------
(* The binary search.                                                      *)

\* A set of numbers that is not empty has a least one.
LEMMA Least ==
  ASSUME NEW T, T \subseteq Nat, T # {}
  PROVE  \E m \in T : \A k \in T : m <= k
<1> DEFINE R == {p \in Nat \X Nat : p[1] < p[2]}
<1>1. IsWellFoundedOn(R, Nat)
  BY NatLessThanWellFounded DEF OpToRel
<1>2. \A x \in T, y \in T : ~(<<y, x>> \in R) => x <= y
  OBVIOUS
<1>3. \E x \in T : \A y \in T : ~(<<y, x>> \in R)
  <2> HIDE DEF R
  <2> QED
    BY <1>1, IsWellFoundedOnSubset, WFMin
<1> HIDE DEF R
<1> QED
  BY <1>2, <1>3

\* The place between two others, as the search computes it.
Middle(l, r) == (l + r) \div 2

\* It is one of them or between, and not the last.
LEMMA MiddleIs ==
  ASSUME NEW l \in Nat, NEW r \in Nat, l < r
  PROVE  Middle(l, r) \in Nat /\ l <= Middle(l, r) /\ Middle(l, r) < r
BY DEF Middle

\* One step of the search on l .. r, with f for what the next ones find and low
\* for the places of the times before the one searched for.
Halve(f, low, l, r) ==
  IF l >= r THEN l
  ELSE IF Middle(l, r) \in low THEN f[<<Middle(l, r) + 1, r>>] ELSE f[<<l, Middle(l, r)>>]

\* f is the search on every range of fewer than n + 1 places.
Solves(f, n, low) == \A l, r \in Nat : r < l + n => f[<<l, r>>] = Halve(f, low, l, r)

\* How much is left to search.
Width(l, r) == IF l < r THEN r - l ELSE 0

\* Two functions that search agree: where they first differ, in the narrowest
\* range, they would differ in a narrower one.
LEMMA OneSolution ==
  ASSUME NEW low, NEW n \in Nat, NEW f, NEW h, Solves(f, n, low), Solves(h, n, low),
         NEW l \in Nat, NEW r \in Nat, r < l + n
  PROVE  f[<<l, r>>] = h[<<l, r>>]
<1> DEFINE Differ(a, b) == b < a + n /\ f[<<a, b>>] # h[<<a, b>>]
           T == {w \in Nat : \E a, b \in Nat : w = Width(a, b) /\ Differ(a, b)}
<1> SUFFICES ASSUME Differ(l, r) PROVE FALSE
  OBVIOUS
<1>1. T # {} /\ T \subseteq Nat
  <2>1. Width(l, r) \in Nat
    BY DEF Width
  <2> QED
    BY <2>1
<1>2. PICK w \in T : \A k \in T : w <= k
  BY <1>1, Least
<1>3. PICK a \in Nat, b \in Nat : w = Width(a, b) /\ Differ(a, b)
  BY <1>2
<1>4. ASSUME NEW c \in Nat, NEW d \in Nat, Width(c, d) < Width(a, b), d < c + n
      PROVE  f[<<c, d>>] = h[<<c, d>>]
  <2>1. Width(c, d) \in Nat /\ w \in Nat
    BY <1>2 DEF Width
  <2>2. Width(c, d) \notin T
    BY <1>2, <1>3, <1>4, <2>1
  <2> QED
    BY <1>4, <2>1, <2>2
<1>5. f[<<a, b>>] = Halve(f, low, a, b) /\ h[<<a, b>>] = Halve(h, low, a, b)
  BY <1>3 DEF Solves
<1>6. a < b
  BY <1>3, <1>5 DEF Halve
<1> DEFINE m == Middle(a, b)
<1>7. m \in Nat /\ a <= m /\ m < b
  BY <1>6, MiddleIs
<1>8. f[<<m + 1, b>>] = h[<<m + 1, b>>]
  <2> HIDE DEF m
  <2>1. m + 1 \in Nat /\ Width(m + 1, b) < Width(a, b) /\ b < m + 1 + n
    BY <1>3, <1>6, <1>7 DEF Width
  <2> QED
    BY <1>4, <2>1
<1>9. f[<<a, m>>] = h[<<a, m>>]
  <2> HIDE DEF m
  <2>1. Width(a, m) < Width(a, b) /\ m < a + n
    BY <1>3, <1>6, <1>7 DEF Width
  <2> QED
    BY <1>4, <1>7, <2>1
<1> QED
  BY <1>3, <1>5, <1>8, <1>9 DEF Halve

\* One step of the search added to a function that searches narrow ranges
\* searches wider ones.
LEMMA WiderSolution ==
  ASSUME NEW low, NEW n \in Nat, NEW f, Solves(f, n, low)
  PROVE  \E h : Solves(h, n + 1, low)
<1> DEFINE h == [part \in Nat \X Nat |-> Halve(f, low, part[1], part[2])]
<1>1. \A a, b \in Nat : h[<<a, b>>] = Halve(f, low, a, b)
  OBVIOUS
<1>2. \A a, b \in Nat : b < a + n => h[<<a, b>>] = f[<<a, b>>]
  BY <1>1 DEF Solves
<1> HIDE DEF h
<1>3. ASSUME NEW l \in Nat, NEW r \in Nat, r < l + (n + 1)
      PROVE  Halve(f, low, l, r) = Halve(h, low, l, r)
  <2>1. CASE l >= r
    BY <2>1 DEF Halve
  <2>2. CASE l < r
    <3> DEFINE m == Middle(l, r)
    <3>1. m \in Nat /\ l <= m /\ m < r
      BY <2>2, MiddleIs
    <3>2. h[<<m + 1, r>>] = f[<<m + 1, r>>] /\ h[<<l, m>>] = f[<<l, m>>]
      <4> HIDE DEF m
      <4>1. m + 1 \in Nat /\ r < m + 1 + n /\ m < l + n
        BY <1>3, <3>1
      <4> QED
        BY <1>2, <3>1, <4>1
    <3> QED
      BY <2>2, <3>2 DEF Halve
  <2> QED
    BY <2>1, <2>2
<1>4. Solves(h, n + 1, low)
  BY <1>1, <1>3 DEF Solves
<1> QED
  BY <1>4

\* So there is one for ranges of any width: there is no least width without.
LEMMA SomeSolution ==
  ASSUME NEW low, NEW n \in Nat
  PROVE  \E f : Solves(f, n, low)
<1> DEFINE T == {k \in Nat : ~ \E f : Solves(f, k, low)}
<1> SUFFICES ASSUME T # {} PROVE FALSE
  OBVIOUS
<1>1. PICK k \in T : \A j \in T : k <= j
  BY Least
<1>2. k # 0
  <2> DEFINE f == [part \in Nat \X Nat |-> part[1]]
  <2>1. \A l, r \in Nat : f[<<l, r>>] = l
    OBVIOUS
  <2> HIDE DEF f
  <2>2. \A l, r \in Nat : r < l + 0 => f[<<l, r>>] = Halve(f, low, l, r)
    BY <2>1 DEF Halve
  <2>3. Solves(f, 0, low)
    BY <2>2 DEF Solves
  <2> QED
    BY <1>1, <2>3
<1>3. k - 1 \in Nat /\ k - 1 \notin T /\ (k - 1) + 1 = k
  BY <1>1, <1>2
<1>4. \E f : Solves(f, k, low)
  BY <1>3, WiderSolution
<1> QED
  BY <1>1, <1>4

\* The search on every range.
Searches(f, low) == \A l, r \in Nat : f[<<l, r>>] = Halve(f, low, l, r)

\* And, because they agree, one for all ranges: the recursive definition of the
\* search defines a function.
LEMMA Searchable ==
  ASSUME NEW low
  PROVE  \E f : f = [part \in Nat \X Nat |-> Halve(f, low, part[1], part[2])]
<1> DEFINE sol[n \in Nat] == CHOOSE f : Solves(f, n, low)
           f == [part \in Nat \X Nat |-> sol[part[2] + 1][part]]
<1>1. \A n \in Nat : Solves(sol[n], n, low)
  BY SomeSolution
<1>2. \A l, r \in Nat : f[<<l, r>>] = sol[r + 1][<<l, r>>]
  OBVIOUS
<1>3. f = [part \in Nat \X Nat |-> f[<<part[1], part[2]>>]]
  OBVIOUS
<1> HIDE DEF f, sol
<1>4. ASSUME NEW l \in Nat, NEW r \in Nat, NEW n \in Nat, r < l + n
      PROVE  f[<<l, r>>] = sol[n][<<l, r>>]
  <2>1. CASE n <= r + 1
    <3>1. Solves(sol[n], n, low) /\ Solves(sol[r + 1], n, low)
      BY <1>1, <2>1 DEF Solves
    <3>2. sol[n][<<l, r>>] = sol[r + 1][<<l, r>>]
      <4> DEFINE a == sol[n]  b == sol[r + 1]
      <4>1. Solves(a, n, low) /\ Solves(b, n, low)
        BY <3>1
      <4> HIDE DEF a, b
      <4>2. a[<<l, r>>] = b[<<l, r>>]
        BY <1>4, <4>1, OneSolution
      <4> QED
        BY <4>2 DEF a, b
    <3> QED
      BY <1>2, <3>2
  <2>2. CASE r + 1 <= n
    <3>1. /\ Solves(sol[n], r + 1, low) /\ Solves(sol[r + 1], r + 1, low)
          /\ r + 1 \in Nat /\ r < l + (r + 1)
      BY <1>1, <2>2 DEF Solves
    <3>2. sol[n][<<l, r>>] = sol[r + 1][<<l, r>>]
      <4> DEFINE a == sol[n]  b == sol[r + 1]  size == r + 1
      <4>1. Solves(a, size, low) /\ Solves(b, size, low) /\ size \in Nat /\ r < l + size
        BY <3>1
      <4> HIDE DEF a, b, size
      <4>2. a[<<l, r>>] = b[<<l, r>>]
        BY <4>1, OneSolution
      <4> QED
        BY <4>2 DEF a, b
    <3> QED
      BY <1>2, <3>2
  <2> QED
    BY <2>1, <2>2
<1>5. ASSUME NEW l \in Nat, NEW r \in Nat PROVE f[<<l, r>>] = Halve(f, low, l, r)
  <2>1. f[<<l, r>>] = Halve(sol[r + 1], low, l, r)
    BY <1>1, <1>2 DEF Solves
  <2>2. CASE l >= r
    BY <2>1, <2>2 DEF Halve
  <2>3. CASE l < r
    <3> DEFINE m == Middle(l, r)
    <3>1. m \in Nat /\ l <= m /\ m < r
      BY <2>3, MiddleIs
    <3>2. /\ f[<<m + 1, r>>] = sol[r + 1][<<m + 1, r>>]
          /\ f[<<l, m>>] = sol[r + 1][<<l, m>>]
      <4> HIDE DEF m
      <4> QED
        BY <1>4, <3>1
    <3> QED
      BY <2>1, <2>3, <3>2 DEF Halve
  <2> QED
    BY <2>2, <2>3
<1>6. f = [part \in Nat \X Nat |-> Halve(f, low, part[1], part[2])]
  BY <1>3, <1>5
<1> QED
  BY <1>6

\* The places, from the offset on, whose times are before t.
Low(v, offset, t) == {m \in Nat : v[m - offset] < t}

\* The search is what its recursive definition says.
LEMMA LeftmostSearches ==
  ASSUME NEW v, NEW offset, NEW t
  PROVE  \E f : /\ Searches(f, Low(v, offset, t))
                /\ \A l, r : Leftmost(v, l, r, offset, t) = f[<<l, r>>] - offset
<1> DEFINE low == Low(v, offset, t)
           narrow == CHOOSE narrow :
             narrow = [part \in Nat \X Nat |->
                LET l == part[1]  r == part[2]
                    middle == (l + r) \div 2
                IN  IF l >= r THEN l
                    ELSE IF v[middle - offset] < t THEN narrow[<<middle + 1, r>>]
                         ELSE narrow[<<l, middle>>]]
<1>1. \A l, r : Leftmost(v, l, r, offset, t) = narrow[<<l, r>>] - offset
  BY DEF Leftmost
<1>2. PICK f : f = [part \in Nat \X Nat |-> Halve(f, low, part[1], part[2])]
  BY Searchable
<1>3. ASSUME NEW l \in Nat, NEW r \in Nat, NEW g
      PROVE  Halve(g, low, l, r) =
                (IF l >= r THEN l
                 ELSE IF v[((l + r) \div 2) - offset] < t THEN g[<<((l + r) \div 2) + 1, r>>]
                      ELSE g[<<l, (l + r) \div 2>>])
  <2>1. CASE l >= r
    BY <2>1 DEF Halve
  <2>2. CASE l < r
    BY <2>2, MiddleIs DEF Halve, Low, Middle
  <2> QED
    BY <2>1, <2>2
<1>4. f = [part \in Nat \X Nat |->
             LET l == part[1]  r == part[2]
                 middle == (l + r) \div 2
             IN  IF l >= r THEN l
                 ELSE IF v[middle - offset] < t THEN f[<<middle + 1, r>>]
                      ELSE f[<<l, middle>>]]
  BY <1>2, <1>3
<1>5. narrow = [part \in Nat \X Nat |->
                LET l == part[1]  r == part[2]
                    middle == (l + r) \div 2
                IN  IF l >= r THEN l
                    ELSE IF v[middle - offset] < t THEN narrow[<<middle + 1, r>>]
                         ELSE narrow[<<l, middle>>]]
  BY <1>4
<1> HIDE DEF narrow
<1>6. ASSUME NEW l \in Nat, NEW r \in Nat
      PROVE  narrow[<<l, r>>] = Halve(narrow, low, l, r)
  <2>1. narrow[<<l, r>>] =
          (IF l >= r THEN l
           ELSE IF v[((l + r) \div 2) - offset] < t THEN narrow[<<((l + r) \div 2) + 1, r>>]
                ELSE narrow[<<l, (l + r) \div 2>>])
    <3>1. <<l, r>> \in Nat \X Nat /\ <<l, r>>[1] = l /\ <<l, r>>[2] = r
      OBVIOUS
    <3> QED
      BY <1>5, <3>1, Zenon
  <2> QED
    BY <1>3, <2>1
<1> QED
  BY <1>1, <1>6 DEF Searches

\* The search stays in its range, and finds the first place that is not low if
\* the low ones come first.
LEMMA SearchFinds ==
  ASSUME NEW low, NEW f, Searches(f, low), NEW l \in Nat, NEW r \in Nat, l <= r
  PROVE  /\ f[<<l, r>>] \in l .. r
         /\ (\A j, k \in l .. r : j < k /\ k < r /\ k \in low => j \in low) =>
              /\ \A k \in l .. r : k < f[<<l, r>>] => k \in low
              /\ f[<<l, r>>] < r => f[<<l, r>>] \notin low
<1> DEFINE Sorted(a, b) == \A j, k \in a .. b : j < k /\ k < b /\ k \in low => j \in low
           First(a, b) == /\ \A k \in a .. b : k < f[<<a, b>>] => k \in low
                          /\ f[<<a, b>>] < b => f[<<a, b>>] \notin low
           Good(a, b) == f[<<a, b>>] \in a .. b /\ (Sorted(a, b) => First(a, b))
           T == {w \in Nat : \E a, b \in Nat : a <= b /\ w = b - a /\ ~Good(a, b)}
<1> SUFFICES ASSUME ~Good(l, r) PROVE FALSE
  OBVIOUS
<1>1. T # {} /\ T \subseteq Nat
  <2>1. r - l \in Nat
    OBVIOUS
  <2> QED
    BY <2>1
<1>2. PICK w \in T : \A k \in T : w <= k
  BY <1>1, Least
<1>3. PICK a \in Nat, b \in Nat : a <= b /\ w = b - a /\ ~Good(a, b)
  BY <1>2
<1>4. ASSUME NEW c \in Nat, NEW d \in Nat, c <= d, d - c < b - a
      PROVE  Good(c, d)
  <2>1. d - c \in Nat /\ w \in Nat /\ d - c \notin T
    <3> HIDE DEF Good
    <3>1. d - c \in Nat /\ w \in Nat
      BY <1>2, <1>4
    <3>2. ~(w <= d - c)
      BY <1>3, <1>4, <3>1
    <3> QED
      BY <1>2, <3>1, <3>2
  <2> QED
    BY <1>4, <2>1
<1>5. f[<<a, b>>] = Halve(f, low, a, b)
  BY DEF Searches
<1>6. a < b
  <2>1. a = b => f[<<a, b>>] = a
    BY <1>5 DEF Halve
  <2>2. a = b => Good(a, b)
    BY <2>1
  <2> QED
    BY <1>3, <2>2
<1> DEFINE m == Middle(a, b)
<1>7. m \in Nat /\ a <= m /\ m < b
  BY <1>6, MiddleIs
<1>8. CASE m \in low
  <2>1. f[<<a, b>>] = f[<<m + 1, b>>]
    BY <1>5, <1>6, <1>8 DEF Halve
  <2> HIDE DEF m, Good
  <2>2. Good(m + 1, b)
    BY <1>4, <1>7
  <2> USE DEF Good
  <2>3. f[<<a, b>>] \in a .. b
    BY <1>7, <2>1, <2>2
  <2>4. ASSUME Sorted(a, b) PROVE First(a, b)
    <3>1. Sorted(m + 1, b)
      BY <1>7, <2>4
    <3>2. \A k \in a .. b : k <= m => k \in low
      BY <1>7, <1>8, <2>4
    <3>3. First(m + 1, b)
      BY <2>2, <3>1
    <3>4. \A k \in a .. b : k <= m \/ k \in m + 1 .. b
      BY <1>7
    <3> QED
      BY <2>1, <3>2, <3>3, <3>4
  <2> QED
    BY <1>3, <2>3, <2>4
<1>9. CASE m \notin low
  <2>1. f[<<a, b>>] = f[<<a, m>>]
    BY <1>5, <1>6, <1>9 DEF Halve
  <2> HIDE DEF m, Good
  <2>2. Good(a, m)
    BY <1>4, <1>7
  <2> USE DEF Good
  <2>3. f[<<a, b>>] \in a .. m /\ f[<<a, b>>] \in a .. b
    BY <1>7, <2>1, <2>2
  <2>4. ASSUME Sorted(a, b) PROVE First(a, b)
    <3>1. Sorted(a, m)
      BY <1>7, <2>4
    <3>2. First(a, m)
      BY <2>2, <3>1
    <3>3. \A k \in a .. b : k < f[<<a, b>>] => k \in a .. m
      BY <1>7, <2>3
    <3>4. f[<<a, b>>] < m \/ f[<<a, b>>] = m
      BY <1>7, <2>3
    <3> QED
      BY <1>9, <2>1, <3>2, <3>3, <3>4
  <2> QED
    BY <1>3, <2>3, <2>4
<1> QED
  BY <1>8, <1>9

\* The search of get_file_id_from_timestamp on l .. r: it stays in its range, so
\* no other memory is read, and if the times before t come first it stops at the
\* first place whose time is not before t, or at the last place.
THEOREM LeftmostIs ==
  ASSUME NEW v, NEW o \in Nat, NEW t, NEW l \in Nat, NEW r \in Nat, o < l, l <= r
  PROVE  /\ Leftmost(v, l, r, o, t) \in l - o .. r - o
         /\ (\A j, k \in l - o .. r - o : j < k /\ k < r - o /\ v[k] < t => v[j] < t) =>
              /\ \A k \in l - o .. r - o : k < Leftmost(v, l, r, o, t) => v[k] < t
              /\ Leftmost(v, l, r, o, t) < r - o => ~(v[Leftmost(v, l, r, o, t)] < t)
<1> DEFINE low == Low(v, o, t)
<1>1. PICK f : Searches(f, low) /\ \A a, b : Leftmost(v, a, b, o, t) = f[<<a, b>>] - o
  BY LeftmostSearches
<1> DEFINE q == f[<<l, r>>]
<1>2. Leftmost(v, l, r, o, t) = q - o
  BY <1>1
<1>3. \A m \in l .. r : m \in Nat /\ (m \in low <=> v[m - o] < t)
  BY DEF Low
<1> HIDE DEF low
<1>4. /\ q \in l .. r
      /\ (\A j, k \in l .. r : j < k /\ k < r /\ k \in low => j \in low) =>
              /\ \A k \in l .. r : k < q => k \in low
              /\ q < r => q \notin low
  BY <1>1, SearchFinds
<1> HIDE DEF q
<1>5. q - o \in l - o .. r - o
  BY <1>4
<1>6. ASSUME \A j, k \in l - o .. r - o : j < k /\ k < r - o /\ v[k] < t => v[j] < t
      PROVE  /\ \A k \in l - o .. r - o : k < q - o => v[k] < t
             /\ q - o < r - o => ~(v[q - o] < t)
  <2>1. ASSUME NEW j \in l .. r, NEW k \in l .. r, j < k, k < r, k \in low PROVE j \in low
    <3>1. /\ j - o \in l - o .. r - o /\ k - o \in l - o .. r - o
          /\ j - o < k - o /\ k - o < r - o
      BY <2>1
    <3>2. v[k - o] < t
      BY <1>3, <2>1
    <3>3. v[j - o] < t
      BY <1>6, <3>1, <3>2
    <3> QED
      BY <1>3, <2>1, <3>3
  <2>2. (\A k \in l .. r : k < q => k \in low) /\ (q < r => q \notin low)
    BY <1>4, <2>1
  <2>3. ASSUME NEW k \in l - o .. r - o, k < q - o PROVE v[k] < t
    <3>1. k + o \in l .. r /\ k + o < q /\ (k + o) - o = k
      BY <1>4, <2>3
    <3>2. k + o \in low
      BY <2>2, <3>1
    <3> QED
      BY <1>3, <3>1, <3>2
  <2>4. q - o < r - o => ~(v[q - o] < t)
    BY <1>3, <1>4, <2>2
  <2> QED
    BY <2>3, <2>4
<1> QED
  BY <1>2, <1>5, <1>6

\* The search gives a slot, or 0.
LEMMA FoundInArray ==
  ASSUME NEW v, NEW c \in Slots, NEW n \in 0 .. TopMax, NEW t
  PROVE  FileIdFromTimestamp(v, c, n, t) \in 0 .. TopMax
<1>1. /\ c \in Nat /\ 1 <= c /\ c <= TopMax /\ n \in Nat /\ n <= TopMax
      /\ TopMax \in Nat /\ 1 <= TopMax
  BY SlotNumbers
<1>2. ASSUME NEW p \in 1 .. TopMax
      PROVE  Chosen(v, n, p, t) \in 0 .. TopMax
  BY <1>1 DEF Chosen
<1>3. CASE v[c] = 0
  <2>1. c # 1 => Leftmost(v, 1, c - 1, 0, t) \in 1 - 0 .. c - 1 - 0
    <3>1. c # 1 => c - 1 \in Nat /\ 1 <= c - 1
      BY <1>1
    <3> QED
      BY <3>1, LeftmostIs
  <2>2. c # 1 => Leftmost(v, 1, c - 1, 0, t) \in 1 .. TopMax
    BY <1>1, <2>1
  <2> QED
    BY <1>1, <1>2, <1>3, <2>2 DEF FileIdFromTimestamp
<1>4. CASE v[c] # 0
  <2>1. Leftmost(v, c, c + n - 1, c - 1, t) \in 1 .. TopMax
    <3>1. CASE n = 0
      <4>1. PICK f : /\ Searches(f, Low(v, c - 1, t))
                     /\ \A a, b : Leftmost(v, a, b, c - 1, t) = f[<<a, b>>] - (c - 1)
        BY LeftmostSearches
      <4>2. f[<<c, c + n - 1>>] = c
        <5>1. c + n - 1 \in Nat /\ c >= c + n - 1
          BY <1>1, <3>1
        <5>2. f[<<c, c + n - 1>>] = Halve(f, Low(v, c - 1, t), c, c + n - 1)
          BY <1>1, <4>1, <5>1 DEF Searches
        <5> QED
          BY <5>1, <5>2 DEF Halve
      <4> QED
        BY <1>1, <4>1, <4>2
    <3>2. CASE n # 0
      <4>1. Leftmost(v, c, c + n - 1, c - 1, t) \in c - (c - 1) .. (c + n - 1) - (c - 1)
        BY <1>1, <3>2, LeftmostIs
      <4> QED
        BY <1>1, <4>1
    <3> QED
      BY <3>1, <3>2
  <2> QED
    BY <1>2, <1>4, <2>1 DEF FileIdFromTimestamp
<1> QED
  BY <1>3, <1>4

-----------------------------------------------------------------------------
(* The types, whatever fails and is reset.                                 *)

\* What can fail.
Kinds == {"close", "exists", "open", "write", "read", "memory", "unlink", "mutex"}

\* The truth values, apart because the provers treat them apart.
FlagsInv == all \in BOOLEAN /\ loaded \in BOOLEAN

\* Times and counts.
CountsInv ==
  /\ now \in Nat /\ stamp \in Nat /\ reqs \in Nat /\ resets \in Nat /\ faults \subseteq Kinds
  /\ stamp <= now /\ now <= Horizon

\* The program starts with truth values and counts.
LEMMA CountsInit == Init => FlagsInv /\ CountsInv
<1>1. 0 <= Horizon
  BY TimesAssumption
<1>2. Init => CountsInv
  BY <1>1 DEF Init, CountsInv
<1>3. Init => FlagsInv
  BY Zenon DEF Init, FlagsInv
<1> QED
  BY <1>2, <1>3

\* Every step sets a flag to a truth value or leaves it.
LEMMA FlagsStep ==
  ASSUME FlagsInv, [Next]_vars
  PROVE  FlagsInv'
<1>1. all' = all \/ (\E t \in Task : all' = (t = "svc")) \/ all' = TRUE \/ all' = FALSE
  BY ZenonT(60) DEF Next, Daemon, DCollect, DLoadNothing, DUnprobe, DLoadOpenFails, DLoad,
     DLoadNoMemory, DWrite,
     DWriteOpenFails, DClose, DArray, DAdvance, Service, SAccept, SGrow, SShrink, SFree, SSearch,
     SBegin, SSend, SEnd, SDeletes, SProbe, SUnprobe, Shared, StoreConfig, FindNoLock, FindLock,
     CreateLock,
     TakeLock, GiveLock, OpenConfig, PutMax, PutCur, PutStamps, ConfigWrite, CloseConfig, Transact,
     Reset, vars, sending
<1>2. loaded' = loaded \/ loaded' = TRUE \/ loaded' = FALSE
  BY ZenonT(60) DEF Next, Daemon, DCollect, DLoadNothing, DUnprobe, DLoadOpenFails, DLoad,
     DLoadNoMemory, DWrite,
     DWriteOpenFails, DClose, DArray, DAdvance, NotLoaded, Service, SAccept, SGrow, SShrink, SFree,
     SSearch,
     SBegin, SSend, SEnd, SDeletes, SProbe, SUnprobe, Shared, StoreConfig, FindNoLock, FindLock,
     CreateLock,
     TakeLock, GiveLock, OpenConfig, PutMax, PutCur, PutStamps, ConfigWrite, CloseConfig, Transact,
     Reset, vars, ring
<1> QED
  BY <1>1, <1>2, Zenon DEF FlagsInv

\* Times and counts stay numbers, and no time passes the horizon.
LEMMA CountsStep ==
  ASSUME CountsInv, [Next]_vars
  PROVE  CountsInv'
<1>1. CASE Daemon
  <2>1. CASE DCollect
    BY <2>1, TimesAssumption DEF DCollect, CountsInv, bounds
  <2>2. CASE DLoadNothing \/ DUnprobe \/ DLoadOpenFails \/ DLoad \/ DLoadNoMemory
    BY <2>2 DEF DLoadNothing, DUnprobe, DLoadOpenFails, DLoad, DLoadNoMemory,
       CountsInv, Kinds, Fault, bounds
  <2>3. CASE DWrite \/ DWriteOpenFails \/ DClose \/ DArray \/ DAdvance
    BY <2>3 DEF DWrite, DWriteOpenFails, DClose, CloseFile, DArray, DAdvance, CountsInv, Kinds,
       Fault, bounds
  <2> QED
    BY <1>1, <2>1, <2>2, <2>3 DEF Daemon
<1>2. CASE Service
  <2>1. CASE SAccept
    BY <2>1 DEF SAccept, CountsInv
  <2>2. CASE SGrow \/ SShrink \/ SFree \/ SDeletes
    BY <2>2 DEF SGrow, SShrink, SFree, SDeletes, CountsInv, Kinds, Fault, bounds
  <2>3. CASE SSearch \/ SBegin \/ SSend \/ SEnd \/ SProbe \/ SUnprobe
    BY <2>3 DEF SSearch, SBegin, SSend, SEnd, SProbe, SUnprobe, CountsInv, bounds
  <2> QED
    BY <1>2, <2>1, <2>2, <2>3 DEF Service
<1>3. CASE \E t \in Task : Shared(t)
  BY <1>3 DEF Shared, StoreConfig, FindNoLock, FindLock, CreateLock, TakeLock, GiveLock,
     OpenConfig, PutMax,
     PutCur, PutStamps, ConfigWrite, CloseConfig, CloseFile, CountsInv, Kinds, Fault, bounds
<1>4. CASE Transact \/ UNCHANGED vars
  BY <1>4 DEF Transact, vars, CountsInv, bounds
<1>5. CASE Reset
  BY <1>5 DEF Reset, CountsInv
<1> QED
  BY <1>1, <1>2, <1>3, <1>4, <1>5 DEF Next

-----------------------------------------------------------------------------
\* The array of times, whatever is in memory.
Times == [ptr : {"null", "live", "freed"}, size : 0 .. TopMax, at : [Slots -> Nat]]

\* What the array handler leaves is an array of times.
LEMMA HandledIs ==
  ASSUME arr \in Times, NEW n \in 0 .. TopMax, NEW a \in Handled(n)
  PROVE  a \in Times
<1> DEFINE done == IF n = 0 THEN {[arr EXCEPT !.ptr = IF @ = "null" THEN "null" ELSE "freed",
                                         !.size = 0, !.at = [i \in Slots |-> 0]]}
              ELSE Resized(n)
<1>1. ASSUME NEW b \in done PROVE b \in Times
  <2>1. CASE n = 0
    <3>1. b = [arr EXCEPT !.ptr = IF @ = "null" THEN "null" ELSE "freed",
                          !.size = 0, !.at = [i \in Slots |-> 0]]
      BY <1>1, <2>1
    <3> QED
      BY <3>1, SlotNumbers DEF Times
  <2>2. CASE n # 0
    BY <1>1, <2>2, TimesAssumption DEF Resized, Times
  <2> QED
    BY <2>1, <2>2
<1>2. a \in done \/ \E b \in done : \E p \in Astray(n) : a = [b EXCEPT !.ptr = p]
  BY DEF Handled
<1> HIDE DEF done
<1>3. \A p \in Astray(n) : p \in {"freed", "live"}
  BY DEF Astray
<1> QED
  BY <1>1, <1>2, <1>3 DEF Times

\* The times as they read are times.
LEMMA ViewsAre ==
  ASSUME arr \in Times, NEW v \in Views
  PROVE  v \in [Slots -> Nat]
BY TimesAssumption DEF Times, Views

\* An entry set in a file of times leaves a file of times.
LEMMA PutIsSeq ==
  ASSUME NEW s \in Seq(Nat), NEW i \in Nat, NEW v \in Nat
  PROVE  Put(s, i, v) \in Seq(Nat)
<1> DEFINE n == IF i > Len(s) THEN i ELSE Len(s)
<1>1. n \in Nat /\ \A k \in 1 .. n : At(s, k) \in Nat
  BY LenProperties, ElementOfSeq DEF At
<1>2. Put(s, i, v) = [k \in 1 .. n |-> IF k = i THEN v ELSE At(s, k)]
  BY DEF Put
<1> HIDE DEF n
<1> QED
  BY <1>1, <1>2, SeqDef

\* The array, the two files and what is at the transaction point.
FilesInv ==
  /\ arr \in Times
  /\ rec \in RecFile /\ cfg \in CfgFile /\ disk \in [rec : RecFile, cfg : CfgFile]

\* So are files that do not exist or are empty.
LEMMA NoFiles ==
  NoRec \in RecFile /\ EmptyRec \in RecFile /\ NoCfg \in CfgFile /\ EmptyCfg \in CfgFile
BY EmptySeq, SlotNumbers DEF NoRec, EmptyRec, NoCfg, EmptyCfg, RecFile, CfgFile

\* The configuration file holds times after they are written, all or one.
LEMMA StampsWrittenAre ==
  ASSUME FilesInv, cur \in Slots, NEW v \in Views
  PROVE  StampsWritten(v) \in Seq(Nat)
<1>1. v \in [Slots -> Nat] /\ cur \in Nat /\ cfg.at \in Seq(Nat) /\ arr.size \in 0 .. TopMax
  BY ViewsAre, SlotNumbers DEF FilesInv, CfgFile, Times
<1>2. CASE ~all
  BY <1>1, <1>2, PutIsSeq DEF StampsWritten
<1>3. CASE all
  <2> DEFINE n == IF arr.size > Len(cfg.at) THEN arr.size ELSE Len(cfg.at)
             f == [k \in 1 .. n |-> IF k <= arr.size THEN v[k] ELSE cfg.at[k]]
  <2>1. n \in Nat /\ StampsWritten(v) = f
    BY <1>1, <1>3, LenProperties, SlotNumbers DEF StampsWritten
  <2>2. \A k \in 1 .. n : (IF k <= arr.size THEN v[k] ELSE cfg.at[k]) \in Nat
    <3> SUFFICES ASSUME NEW k \in 1 .. n PROVE (IF k <= arr.size THEN v[k] ELSE cfg.at[k]) \in Nat
      OBVIOUS
    <3>1. CASE k <= arr.size
      <4>1. k \in Slots
        BY <1>1, <2>1, <3>1, SlotNumbers DEF Slots
      <4> QED
        BY <1>1, <3>1, <4>1
    <3>2. CASE ~(k <= arr.size)
      <4>1. k \in 1 .. Len(cfg.at)
        BY <1>1, <2>1, <3>2, LenProperties, SlotNumbers
      <4> QED
        BY <1>1, <3>2, <4>1, ElementOfSeq
    <3> QED
      BY <3>1, <3>2
  <2>3. f \in [1 .. n -> Nat]
    BY <2>2
  <2> QED
    BY <2>1, <2>3, SeqDef
<1> QED
  BY <1>2, <1>3

\* An array filled from the configuration file is an array of times.
LEMMA StampsReadAre ==
  ASSUME FilesInv, NEW a \in Times
  PROVE  StampsRead(a) \in Times
<1>1. cfg.at \in Seq(Nat)
  BY DEF FilesInv, CfgFile
<1>2. \A i \in Slots : i <= Len(cfg.at) => cfg.at[i] \in Nat
  BY <1>1, SlotNumbers, ElementOfSeq
<1> QED
  BY <1>2 DEF StampsRead, Times

\* The program starts with them.
LEMMA FilesInit == Init => FilesInv
BY NoFiles, SlotNumbers DEF Init, FilesInv, Times, NoArray

\* The daemon leaves files and an array of times.
LEMMA DaemonFiles ==
  ASSUME IInv, CountsInv, FilesInv, Daemon
  PROVE  FilesInv'
<1>1. max \in Slots /\ cur \in Slots /\ cur \in Nat /\ stamp \in Nat /\ max \in 0 .. TopMax
      /\ MaxRead \in 0 .. TopMax /\ \A m \in {MaxRead, max} : m \in 0 .. TopMax
  BY ReadIsSlot, SlotNumbers DEF IInv, RingInv, CountsInv
<1>2. CASE DCollect \/ DUnprobe \/ DLoadOpenFails \/ DWriteOpenFails \/ DAdvance \/ DLoadNoMemory
  BY <1>2, NoFiles DEF DCollect, DUnprobe, DLoadOpenFails, DWriteOpenFails, DAdvance,
     DLoadNoMemory, NotLoaded, FilesInv, ring, mutex, volume
<1>3. CASE DLoadNothing \/ DClose
  BY <1>3, NoFiles DEF DLoadNothing, NotLoaded, DClose, CloseFile, Commit, FilesInv, ring, mutex,
     volume
<1>4. CASE DLoad
  <2>1. UNCHANGED <<rec, cfg, disk>>
    BY <1>4 DEF DLoad, volume
  <2>2. \A m \in {MaxRead, max} : \A a \in Handled(m) : a \in Times /\ StampsRead(a) \in Times
    BY <1>1, HandledIs, StampsReadAre DEF FilesInv
  <2>3. arr' \in Times
    BY <1>4, <2>2 DEF DLoad, FilesInv
  <2> QED
    BY <2>1, <2>3 DEF FilesInv
<1>5. CASE DWrite
  <2>1. Put(rec.at, cur, stamp) \in Seq(Nat)
    BY <1>1, PutIsSeq DEF FilesInv, RecFile
  <2>2. rec' \in RecFile
    <3>1. [exists |-> TRUE, at |-> Put(rec.at, cur, stamp)] \in RecFile
          /\ [rec EXCEPT !.exists = TRUE] \in RecFile
      BY <2>1 DEF FilesInv, RecFile
    <3> QED
      BY <1>5, <3>1 DEF DWrite
  <2> QED
    BY <1>5, <2>2, NoFiles DEF DWrite, FilesInv, ring
<1>6. CASE DArray
  <2>1. \A a \in Handled(max) : a \in Times /\ Stamped(a) \in Times
    BY <1>1, HandledIs DEF FilesInv, Stamped, Times
  <2> QED
    BY <1>6, <2>1 DEF DArray, FilesInv, volume
<1> QED
  BY <1>2, <1>3, <1>4, <1>5, <1>6 DEF Daemon

\* So does the service.
LEMMA ServiceFiles ==
  ASSUME IInv, FilesInv, Service
  PROVE  FilesInv'
<1>1. CASE SAccept \/ SSearch \/ SBegin \/ SSend \/ SEnd
  BY <1>1 DEF SAccept, SSearch, SBegin, SSend, SEnd, FilesInv, ring, mutex, volume
<1>2. CASE SDeletes \/ SProbe \/ SUnprobe \/ SShrink
  BY <1>2, NoFiles DEF SDeletes, SProbe, SUnprobe, SShrink, FilesInv, ring
<1>3. CASE SFree
  <2>1. 0 \in 0 .. TopMax /\ UNCHANGED <<rec, cfg, disk>>
    BY <1>3, SlotNumbers DEF SFree, volume
  <2> QED
    BY <1>3, <2>1, HandledIs DEF SFree, FilesInv
<1>4. CASE SGrow
  <2>1. req.max \in 0 .. TopMax
    <3>1. req.op = "set" /\ req.max \in NewMaxes
      BY <1>4, PagesAssumption DEF SGrow, IInv, RequestInv, NoRequest, Page
    <3> QED
      BY <3>1, SlotNumbers
  <2>2. UNCHANGED <<rec, cfg, disk>>
    BY <1>4 DEF SGrow, volume
  <2> QED
    BY <1>4, <2>1, <2>2, HandledIs DEF SGrow, FilesInv
<1> QED
  BY <1>1, <1>2, <1>3, <1>4 DEF Service

\* So does what both of them do.
LEMMA SharedFiles ==
  ASSUME IInv, FilesInv, NEW t \in Task, Shared(t)
  PROVE  FilesInv'
<1>1. CASE FindNoLock(t) \/ FindLock(t) \/ CreateLock(t) \/ TakeLock(t) \/ GiveLock(t)
  BY <1>1 DEF FindNoLock, FindLock, CreateLock, TakeLock, GiveLock, FilesInv, ring, mutex, volume
<1>2. CASE OpenConfig(t) \/ CloseConfig(t)
  BY <1>2, NoFiles DEF OpenConfig, CloseConfig, CloseFile, Commit, FilesInv, ring
<1>3. CASE PutMax(t) \/ PutCur(t) \/ PutStamps(t)
  <2>1. max \in 0 .. TopMax /\ cur \in 0 .. TopMax /\ cur \in Slots
    BY SlotNumbers DEF IInv, RingInv
  <2>2. [cfg EXCEPT !.max = max] \in CfgFile /\ [cfg EXCEPT !.cur = cur] \in CfgFile
    BY <2>1 DEF FilesInv, CfgFile
  <2>3. \A v \in Views : [cfg EXCEPT !.at = StampsWritten(v)] \in CfgFile
    <3>1. \A v \in Views : StampsWritten(v) \in Seq(Nat)
      BY <2>1, StampsWrittenAre
    <3> QED
      BY <3>1 DEF FilesInv, CfgFile
  <2>4. cfg' \in CfgFile
    BY <1>3, <2>2, <2>3 DEF PutMax, PutCur, PutStamps, ConfigWrite, FilesInv
  <2> QED
    BY <1>3, <2>4 DEF PutMax, PutCur, PutStamps, ConfigWrite, FilesInv, ring
<1> QED
  BY <1>1, <1>2, <1>3 DEF Shared, StoreConfig

\* Every step does, a reset too.
LEMMA FilesStep ==
  ASSUME IInv, CountsInv, FilesInv, [Next]_vars
  PROVE  FilesInv'
<1>1. CASE Transact
  BY <1>1 DEF Transact, FilesInv, ring
<1>2. CASE Reset
  BY <1>2, SlotNumbers DEF Reset, FilesInv, NoArray, Times
<1>3. CASE UNCHANGED vars
  BY <1>3 DEF vars, FilesInv
<1> QED
  BY <1>1, <1>2, <1>3, DaemonFiles, ServiceFiles, SharedFiles DEF Next

\* The page that is read has slots, and begins at one of them; the service is
\* where its request brought it.
PageInv ==
  /\ page \in [left : Nat, id : Nat, max : 0 .. TopMax, prev : Nat]
  /\ slack \in Nat \cup {-1}
  /\ pc["svc"] # "idle" => req.op \in {"set", "get"}
  /\ pc["svc"] \in {"search", "page", "send"} => req.op = "get"
  /\ pc["svc"] \in Resizing => req.op = "set"
  /\ pc["svc"] \in {"page", "send"} \/ (pc["svc"] = "give" /\ req.op = "get") => page.max \in Slots
  /\ pc["svc"] = "send" => page.id \in Slots

\* There is no page at first.
LEMMA PageInit == Init => PageInv
BY SlotNumbers DEF Init, PageInv, NoPage, Resizing

\* A request or a page in the hands of the service stays as it is.
LEMMA PageKept ==
  ASSUME PageInv, req' = req, page' = page, slack' \in Nat \cup {-1}, pc'["svc"] = pc["svc"]
  PROVE  PageInv'
BY DEF PageInv, Resizing

\* The daemon leaves the page alone.
LEMMA DaemonPage ==
  ASSUME IInv, PageInv, Daemon
  PROVE  PageInv'
<1>1. req' = req /\ page' = page
  BY DEF Daemon, DCollect, DLoadNothing, DUnprobe, DLoadOpenFails, DLoad, DLoadNoMemory, DWrite,
     DWriteOpenFails, DClose, DArray, DAdvance, sending
<1>2. slack' \in Nat \cup {-1}
  <2>1. CASE DWrite
    BY <2>1 DEF DWrite, PageInv
  <2>2. CASE ~DWrite
    <3>1. slack' = slack
      BY <2>2 DEF Daemon, DCollect, DLoadNothing, DUnprobe, DLoadOpenFails, DLoad, DLoadNoMemory,
         DWriteOpenFails, DClose, DArray, DAdvance
    <3> QED
      BY <3>1 DEF PageInv
  <2> QED
    BY <2>1, <2>2
<1>3. pc'["svc"] = pc["svc"]
  BY Exclusive DEF Daemon, DCollect, DLoadNothing, DUnprobe, DLoadOpenFails, DLoad, DLoadNoMemory,
     DWrite, DWriteOpenFails, DClose, DArray, DAdvance, Step, Goto
<1> QED
  BY <1>1, <1>2, <1>3, PageKept

\* The mutex and the configuration file bring a service to where its request
\* may be.
LEMMA SharedPage ==
  ASSUME IInv, PageInv, NEW t \in Task, Shared(t)
  PROVE  PageInv'
<1>1. page' = page /\ slack' = slack
  BY DEF Shared, StoreConfig, FindNoLock, FindLock, CreateLock, TakeLock, GiveLock, OpenConfig,
     PutMax,
     PutCur, PutStamps, ConfigWrite, CloseConfig, sending
<1>2. t = "dmn" \/ t = "svc"
  BY DEF Task
<1>3. CASE t = "dmn"
  <2>1. req' = req /\ pc'["svc"] = pc["svc"]
    BY <1>3, Exclusive DEF Shared, StoreConfig, FindNoLock, FindLock, CreateLock, TakeLock,
       GiveLock,
       OpenConfig, PutMax, PutCur, PutStamps, ConfigWrite, CloseConfig, sending, Step, Goto
  <2>2. slack' \in Nat \cup {-1}
    BY <1>1 DEF PageInv
  <2> QED
    BY <1>1, <2>1, <2>2, PageKept
<1>4. CASE t = "svc"
  <2>1. CASE FindNoLock(t) \/ FindLock(t) \/ CreateLock(t) \/ TakeLock(t)
    <3>1. req' = req /\ pc'["svc"] \in {"lock", "create", "take", "resize",
    "search"} /\ pc["svc"] # "idle"
          /\ (pc'["svc"] = "search" => req.op # "set")
      BY <1>4, <2>1, Exclusive DEF FindNoLock, FindLock, CreateLock, TakeLock, Locked, sending,
         Step, Goto
    <3> QED
      BY <1>1, <3>1 DEF PageInv, Resizing
  <2>2. CASE GiveLock(t)
    <3>1. /\ pc["svc"] = "give"
          /\ \/ pc'["svc"] = "assert" /\ req' = req
             \/ pc'["svc"] = "page" /\ req.op = "get" /\ req' = req
             \/ pc'["svc"] = "idle"
      BY <1>4, <2>2, Exclusive DEF GiveLock, Goto, Other
    <3> QED
      BY <1>1, <3>1 DEF PageInv, Resizing
  <2>3. CASE StoreConfig(t)
    <3>1. req' = req /\ pc["svc"] \in Resizing /\ pc'["svc"] \in Resizing \cup {"give"}
      BY <1>4, <2>3, Exclusive DEF StoreConfig, OpenConfig, PutMax, PutCur, PutStamps, ConfigWrite,
         CloseConfig, AfterStore, sending, Step, Goto, Resizing
    <3>2. req.op = "set" /\ pc'["svc"] \notin {"idle", "search", "page", "send"}
      BY <3>1 DEF PageInv, Resizing
    <3> QED
      BY <1>1, <3>1, <3>2 DEF PageInv
  <2> QED
    BY <2>1, <2>2, <2>3 DEF Shared
<1> QED
  BY <1>2, <1>3, <1>4

\* The service searches, begins and sends a page of slots.
LEMMA ServicePage ==
  ASSUME IInv, FilesInv, PageInv, Service
  PROVE  PageInv'
<1>1. CASE SAccept
  <2>1. /\ UNCHANGED <<page, slack>> /\ pc'["svc"] = "lock"
        /\ req' \in [op : {"set"}, max : NewMaxes] \cup Pages
    BY <1>1, Exclusive DEF SAccept, Step, Goto
  <2>2. req'.op \in {"set", "get"}
    BY <2>1, PagesAssumption DEF Page
  <2> QED
    BY <2>1, <2>2 DEF PageInv, Resizing
<1>2. CASE SGrow \/ SShrink \/ SFree
  <2>1. UNCHANGED <<page, slack, req>> /\ pc["svc"] \in {"resize", "free"}
        /\ pc'["svc"] \in {"give", "free", "store", "assert"}
    BY <1>2, Exclusive DEF SGrow, SShrink, SFree, Step, Goto, sending
  <2>2. req.op = "set"
    BY <2>1 DEF IInv, RequestInv
  <2> QED
    BY <2>1, <2>2 DEF PageInv
<1>3. CASE SSearch
  <2>1. UNCHANGED <<req, slack>> /\ pc["svc"] = "search" /\ pc'["svc"] = "give"
    BY <1>3, Exclusive DEF SSearch, Step, Goto
  <2>2. req \in Pages
    BY <2>1 DEF PageInv, IInv, RequestInv, NoRequest
  <2>3. req.id \in Nat /\ 0 \in Nat /\ 0 .. TopMax \subseteq Nat
    BY <2>2, PagesAssumption DEF Page
  <2>4. \A v \in Views : FileIdFromTimestamp(v, cur, arr.size, req.time) \in 0 .. TopMax
    BY FoundInArray DEF IInv, RingInv, FilesInv, Times
  <2>5. max \in Slots /\ max \in 0 .. TopMax
    BY SlotNumbers DEF IInv, RingInv
  <2>6. \E id \in Nat : page' = [left |-> 0, id |-> id, max |-> max, prev |-> 0]
    BY <1>3, <2>3, <2>4 DEF SSearch, NoPage
  <2> QED
    BY <2>1, <2>5, <2>6 DEF PageInv, Resizing
<1>4. CASE SBegin
  <2>1. req' = req /\ pc["svc"] = "page" /\ pc'["svc"] = "send"
    BY <1>4, Exclusive DEF SBegin, Step, Goto
  <2>2. req \in Pages /\ page.max \in Slots /\ req.op = "get"
    BY <2>1 DEF PageInv, IInv, RequestInv, NoRequest
  <2>3. req.limit \in Nat
    BY <2>2, PagesAssumption DEF Page
  <2> DEFINE id == IF page.id = 0 \/ page.id > page.max THEN cur ELSE page.id
             n == Lesser(req.limit, page.max)
  <2>4. id \in Slots /\ n \in Nat
    BY <2>2, <2>3, SlotNumbers DEF PageInv, Lesser, IInv, RingInv, Slots
  <2>5. page' = [page EXCEPT !.id = id, !.left = n, !.prev = TimeWrap] /\ slack' = Slack(id, n)
    BY <1>4 DEF SBegin
  <2>6. Slack(id, n) \in Nat \cup {-1}
    <3> HIDE DEF id, n
    <3>1. id \in Nat /\ cur \in Nat /\ max \in Nat
      BY <2>4, SlotNumbers DEF IInv, RingInv
    <3> QED
      BY <2>4, <3>1 DEF Slack
  <2> HIDE DEF id, n
  <2>7. page' \in [left : Nat, id : Nat, max : 0 .. TopMax, prev : Nat]
        /\ page'.id = id /\ page'.max = page.max
    BY <2>4, <2>5, SlotNumbers, TimesAssumption DEF PageInv
  <2> QED
    BY <2>1, <2>2, <2>4, <2>5, <2>6, <2>7 DEF PageInv, Resizing
<1>5. CASE SSend
  <2>1. UNCHANGED <<req, slack, pc>> /\ pc["svc"] = "send" /\ page.left > 0
    BY <1>5 DEF SSend
  <2>2. page.max \in Slots /\ page.id \in Slots
    BY <2>1 DEF PageInv
  <2> DEFINE i == Before(page.id, page.max)
             p == IF RecordAt(i) = 0 THEN page.prev ELSE RecordAt(i)
  <2>3. i \in Slots /\ i \in Nat
    BY <2>2, SlotNumbers DEF Before, Slots
  <2>4. RecordAt(i) \in Nat
    BY ElementOfSeq, LenProperties DEF RecordAt, At, FilesInv, RecFile
  <2>5. page' = [page EXCEPT !.id = i, !.left = @ - 1, !.prev = p]
    BY <1>5 DEF SSend
  <2>6. p \in Nat
    BY <2>4 DEF PageInv
  <2> HIDE DEF i, p
  <2>7. page.left - 1 \in Nat /\ page \in [left : Nat, id : Nat, max : 0 .. TopMax, prev : Nat]
    BY <2>1 DEF PageInv
  <2>8. page' \in [left : Nat, id : Nat, max : 0 .. TopMax, prev : Nat]
        /\ page'.id = i /\ page'.max = page.max
    BY <2>3, <2>5, <2>6, <2>7
  <2> QED
    BY <2>1, <2>2, <2>3, <2>8 DEF PageInv, Resizing
<1>6. CASE SEnd \/ SDeletes \/ SUnprobe
  <2>1. pc'["svc"] = "idle" /\ page' = NoPage /\ slack' = -1
    BY <1>6, Exclusive DEF SEnd, SDeletes, SUnprobe, EndPage, Step, Goto
  <2> QED
    BY <2>1, SlotNumbers DEF PageInv, NoPage, Resizing
<1>7. CASE SProbe
  <2>1. UNCHANGED <<req, page, slack>> /\ pc["svc"] = "send" /\ pc'["svc"] = "fprobe"
    BY <1>7, Exclusive DEF SProbe, Step, Goto, sending
  <2> QED
    BY <2>1 DEF PageInv, Resizing
<1> QED
  BY <1>1, <1>2, <1>3, <1>4, <1>5, <1>6, <1>7 DEF Service

\* Every step keeps the page.
LEMMA PageStep ==
  ASSUME IInv, FilesInv, PageInv, [Next]_vars
  PROVE  PageInv'
<1>1. CASE Transact \/ UNCHANGED vars
  <2>1. UNCHANGED <<req, page, slack, pc>>
    BY <1>1 DEF Transact, sending, vars
  <2>2. slack' \in Nat \cup {-1}
    BY <2>1 DEF PageInv
  <2> QED
    BY <2>1, <2>2, PageKept
<1>2. CASE Reset
  BY <1>2, SlotNumbers DEF Reset, PageInv, NoPage, Resizing
<1> QED
  BY <1>1, <1>2, DaemonPage, ServicePage, SharedPage DEF Next

\* The types, but for what IInv says.
TypeInv == FlagsInv /\ CountsInv /\ FilesInv /\ PageInv

\* The types at first.
LEMMA TypeInit == Init => TypeInv
BY CountsInit, FilesInit, PageInit DEF TypeInv

\* Every step keeps the types.
LEMMA TypeStep ==
  ASSUME IInv, TypeInv, [Next]_vars
  PROVE  TypeInv'
BY FlagsStep, CountsStep, FilesStep, PageStep DEF TypeInv

\* Every variable keeps its type whatever fails and whenever the computer is
\* reset: load_config and set_max_files, torn configuration files and foreign
\* memory included, never leave a slot, a size or a page outside of its range.
THEOREM TypesKept ==
  Spec => []TypeOK
<1>1. IInv /\ TypeInv => TypeOK
  <2> SUFFICES ASSUME IInv, TypeInv PROVE TypeOK
    OBVIOUS
  <2>1. all \in BOOLEAN /\ loaded \in BOOLEAN
    BY DEF TypeInv, FlagsInv
  <2>2. /\ now \in Nat /\ stamp \in Nat /\ reqs \in Nat /\ resets \in Nat
        /\ faults \subseteq {"close", "exists", "open", "write", "read", "memory", "unlink",
                           "mutex"}
    BY DEF TypeInv, CountsInv, Kinds
  <2>3. /\ arr \in [ptr : {"null", "live", "freed"}, size : 0 .. TopMax, at : [Slots -> Nat]]
        /\ rec \in RecFile /\ cfg \in CfgFile /\ disk \in [rec : RecFile, cfg : CfgFile]
    BY DEF TypeInv, FilesInv, Times
  <2>4. page \in [left : Nat, id : Nat, max : 0 .. TopMax, prev : Nat] /\ slack \in Nat \cup {-1}
    BY DEF TypeInv, PageInv
  <2>5. /\ max \in Slots /\ cur \in Slots /\ lock \in {"absent", "free"} \cup Task
        /\ stale \in {"none"} \cup Task
        /\ req \in {NoRequest} \cup [op : {"set"}, max : NewMaxes] \cup Pages
        /\ DOMAIN pc = Task
    BY DEF IInv, RingInv, LockInv, RequestInv, Places
  <2>6. pc["dmn"] \in DaemonPlaces /\ pc["svc"] \in ServicePlaces
    BY DEF IInv, Places
  <2> QED
    BY <2>1, <2>2, <2>3, <2>4, <2>5, <2>6, Zenon DEF TypeOK, DaemonPlaces, ServicePlaces
<1>2. IInv /\ TypeInv /\ [Next]_vars => IInv' /\ TypeInv'
  BY InvStep, TypeStep
<1> QED
  BY <1>1, <1>2, InvInit, TypeInit, PTL DEF Spec

-----------------------------------------------------------------------------
(* A page read while the daemon stores records.                            *)

\* No record is later than the last one collected, in memory or at the last
\* transaction point.
BoundInv == \A i \in Slots : At(rec.at, i) <= now /\ At(disk.rec.at, i) <= now

\* Where the contents of the record file come from.
LEMMA RecordsCome ==
  ASSUME FilesInv, FilesInv', [Next]_vars
  PROVE  /\ \/ rec'.at \in {rec.at, disk.rec.at, << >>}
            \/ DWrite /\ rec'.at = Put(rec.at, cur, stamp)
         /\ disk'.rec.at \in {disk.rec.at, rec.at, rec'.at, << >>}
<1>1. CASE Daemon
  <2>1. CASE DWrite
    <3>1. [rec EXCEPT !.exists = TRUE].at = rec.at
      BY DEF FilesInv, RecFile
    <3>2. rec'.at \in {rec.at, Put(rec.at, cur, stamp)}
      <4>1. \/ rec' = [exists |-> TRUE, at |-> Put(rec.at, cur, stamp)]
            \/ rec' = [rec EXCEPT !.exists = TRUE]
        BY <2>1 DEF DWrite
      <4>2. [exists |-> TRUE, at |-> Put(rec.at, cur, stamp)].at = Put(rec.at, cur, stamp)
        OBVIOUS
      <4>3. rec'.at = Put(rec.at, cur, stamp) \/ rec'.at = rec.at
        BY <3>1, <4>1, <4>2, Zenon
      <4> QED
        BY <4>3
    <3>3. disk'.rec.at \in {disk.rec.at, << >>}
      BY <2>1 DEF DWrite, EmptyRec
    <3> QED
      BY <2>1, <3>2, <3>3
  <2>2. CASE ~DWrite
    BY <1>1, <2>2 DEF Daemon, DCollect, DLoadNothing, DUnprobe, DLoadOpenFails, DLoad,
       DLoadNoMemory, DWriteOpenFails, DClose, CloseFile, Commit, DArray, DAdvance, volume
  <2> QED
    BY <2>1, <2>2
<1>2. CASE Service
  <2>1. CASE SShrink \/ SDeletes \/ SProbe \/ SUnprobe
    BY <2>1 DEF SShrink, SDeletes, SProbe, SUnprobe, NoRec, EmptyRec
  <2>2. CASE SAccept \/ SGrow \/ SFree \/ SSearch \/ SBegin \/ SSend \/ SEnd
    BY <2>2 DEF SAccept, SGrow, SFree, SSearch, SBegin, SSend, SEnd, volume
  <2> QED
    BY <1>2, <2>1, <2>2 DEF Service
<1>3. CASE \E t \in Task : Shared(t)
  BY <1>3 DEF Shared, StoreConfig, FindNoLock, FindLock, CreateLock, TakeLock, GiveLock,
     OpenConfig, PutMax,
     PutCur, PutStamps, ConfigWrite, CloseConfig, CloseFile, Commit, volume
<1>4. CASE Transact \/ Reset \/ UNCHANGED vars
  BY <1>4 DEF Transact, Reset, vars
<1> QED
  BY <1>1, <1>2, <1>3, <1>4 DEF Next

\* Time does not go back.
LEMMA TimePasses ==
  ASSUME CountsInv, [Next]_vars
  PROVE  now' \in Nat /\ now <= now'
<1>1. CASE DCollect
  BY <1>1, TimesAssumption DEF DCollect, CountsInv
<1>2. CASE ~DCollect
  <2>1. now' = now
    BY <1>2 DEF Next, Daemon, DLoadNothing, DUnprobe, DLoadOpenFails, DLoad, DLoadNoMemory, DWrite,
     DWriteOpenFails, DClose, DArray, DAdvance, Service, SAccept, SGrow, SShrink, SFree, SSearch,
     SBegin, SSend, SEnd, SDeletes, SProbe, SUnprobe, Shared, StoreConfig, FindNoLock, FindLock,
     CreateLock,
     TakeLock, GiveLock, OpenConfig, PutMax, PutCur, PutStamps, ConfigWrite, CloseConfig, Transact,
     Reset, vars
  <2> QED
    BY <2>1 DEF CountsInv
<1> QED
  BY <1>1, <1>2

\* The record that is written is in its slot, the others where they were.
LEMMA PutRecord ==
  ASSUME rec.at \in Seq(Nat), cur \in Slots, stamp \in Nat
  PROVE  \A i \in Slots :
           At(Put(rec.at, cur, stamp), i) = (IF i = cur THEN stamp ELSE At(rec.at, i))
BY PutIs

\* There are no records at first.
LEMMA BoundInit == Init => BoundInv
BY DEF Init, BoundInv, NoRec, At

\* No step makes a record of a later time than the last collected.
LEMMA BoundStep ==
  ASSUME IInv, TypeInv, TypeInv', BoundInv, [Next]_vars
  PROVE  BoundInv'
<1>1. /\ rec.at \in Seq(Nat) /\ disk.rec.at \in Seq(Nat)
      /\ stamp \in Nat /\ stamp <= now /\ now \in Nat
      /\ FilesInv /\ FilesInv' /\ CountsInv /\ cur \in Slots
  BY DEF TypeInv, FilesInv, RecFile, CountsInv, IInv, RingInv
<1>2. \A s \in Seq(Nat) : \A i \in Slots : At(s, i) \in Nat
  BY ElementOfSeq, LenProperties DEF At
<1>3. now' \in Nat /\ now <= now'
  BY <1>1, TimePasses
<1>4. \A i \in Slots : At(rec'.at, i) <= now
  <2>1. CASE rec'.at \in {rec.at, disk.rec.at, << >>}
    BY <1>1, <2>1 DEF BoundInv, At
  <2>2. CASE rec'.at = Put(rec.at, cur, stamp)
    <3>1. \A i \in Slots :
            At(Put(rec.at, cur, stamp), i) = (IF i = cur THEN stamp ELSE At(rec.at, i))
      BY <1>1, PutRecord
    <3> QED
      BY <1>1, <2>2, <3>1 DEF BoundInv
  <2> QED
    BY <1>1, <2>1, <2>2, RecordsCome
<1>5. \A i \in Slots : At(disk'.rec.at, i) <= now
  <2>1. disk'.rec.at \in {disk.rec.at, rec.at, rec'.at, << >>}
    BY <1>1, RecordsCome
  <2>2. \A i \in Slots : At(<< >>, i) <= now
    BY <1>1 DEF At
  <2> QED
    BY <1>4, <2>1, <2>2 DEF BoundInv
<1>6. \A i \in Slots : At(rec'.at, i) \in Nat /\ At(disk'.rec.at, i) \in Nat
  BY <1>1, <1>2 DEF FilesInv, RecFile
<1> QED
  BY <1>1, <1>3, <1>4, <1>5, <1>6 DEF BoundInv

-----------------------------------------------------------------------------
\* Going back from a slot of the ring gives a slot of the ring, one by one.
LEMMA BackIs ==
  ASSUME NEW m \in Nat, NEW i \in 1 .. m, NEW k \in 1 .. m
  PROVE  /\ Back(i, k, m) \in 1 .. m
         /\ Before(i, m) \in 1 .. m /\ Back(i, 1, m) = Before(i, m)
         /\ k + 1 <= m => Back(Before(i, m), k, m) = Back(i, k + 1, m)
         /\ \A c \in 1 .. m : Back(i, k, m) = c => k = (IF i > c THEN i - c ELSE i - c + m)
BY DEF Back, Before

\* How many slots back from slot i the current one is.
Room(i) == IF i > cur THEN i - cur ELSE i - cur + max

\* The slot is left once more before the daemon writes the next.
Pending == IF pc["dmn"] \in Storing THEN 1 ELSE 0

\* What is left of the page is in order, not newer than what was sent, and out
\* of reach of the records that may still be stored.
PageAhead ==
  /\ loaded /\ page.max = max /\ cur <= max /\ page.id <= max
  /\ page.left + slack + Pending <= Room(page.id)
  /\ \A k \in 1 .. page.left :
       RecordAt(Back(page.id, k, max)) # 0 => RecordAt(Back(page.id, k, max)) <= page.prev
  /\ \A j, k \in 1 .. page.left :
       /\ j < k /\ RecordAt(Back(page.id, j, max)) # 0 /\ RecordAt(Back(page.id, k, max)) # 0
       => RecordAt(Back(page.id, k, max)) < RecordAt(Back(page.id, j, max))

\* A page is guarded as long as its slack lasts.
SendInv ==
  /\ pc["dmn"] = "load" => ~loaded
  /\ pc["svc"] = "send" /\ slack >= 0 => PageAhead

\* No page is sent at first.
LEMMA SendInit == Init => SendInv
BY DEF Init, SendInv

\* The numbers of a page that is read.
LEMMA PageNumbers ==
  ASSUME IInv, TypeInv, pc["svc"] = "send"
  PROVE  /\ max \in Nat /\ cur \in Nat /\ 1 <= cur /\ page.id \in Nat /\ 1 <= page.id
         /\ page.left \in Nat /\ page.prev \in Nat /\ slack \in Nat \cup {-1}
         /\ 1 .. max \subseteq Slots
         /\ \A i \in Slots : RecordAt(i) \in Nat
<1>1. /\ page.id \in Slots /\ page.left \in Nat /\ page.prev \in Nat /\ slack \in Nat \cup {-1}
  BY DEF TypeInv, PageInv
<1>2. \A i \in Slots : RecordAt(i) \in Nat
  BY ElementOfSeq, LenProperties DEF TypeInv, FilesInv, RecFile, RecordAt, At
<1>3. max \in Slots /\ cur \in Slots
  BY DEF IInv, RingInv
<1> QED
  BY <1>1, <1>2, <1>3, SlotNumbers DEF Slots

\* A step that leaves the ring, the records and the page alone, and writes no
\* record.
LEMMA AheadKept ==
  ASSUME IInv, TypeInv, pc["svc"] = "send", PageAhead,
         UNCHANGED <<max, cur, loaded, page, slack>>, rec'.at = rec.at, Pending' \in {0, Pending}
  PROVE  PageAhead'
<1>1. page.left + slack + Pending' <= Room(page.id)
  BY PageNumbers DEF PageAhead, Room, Pending
<1>2. Room(page.id)' = Room(page.id) /\ \A i : RecordAt(i)' = RecordAt(i)
  BY DEF Room, RecordAt
<1> QED
  BY <1>1, <1>2 DEF PageAhead

\* A record stored out of reach of the page uses one of the slack.
LEMMA WriteAhead ==
  ASSUME IInv, TypeInv, PageAhead, pc["svc"] = "send", slack >= 0, DWrite, slack' >= 0
  PROVE  PageAhead'
<1>1. /\ UNCHANGED <<max, cur, loaded, page>> /\ slack' = slack - 1 /\ slack >= 1
      /\ Pending = 0 /\ Pending' \in {0, 1}
      /\ slack \in Nat
  BY PageNumbers DEF DWrite, ring, sending, Pending, Storing
<1>2. \A i \in Slots \ {cur} : RecordAt(i)' = RecordAt(i)
  <2>1. rec'.at = rec.at \/ rec'.at = Put(rec.at, cur, stamp)
    BY DEF DWrite, TypeInv, FilesInv, RecFile
  <2>2. rec.at \in Seq(Nat) /\ cur \in Slots /\ stamp \in Nat
    BY DEF TypeInv, FilesInv, RecFile, CountsInv, IInv, RingInv
  <2>3. \A i \in Slots : At(Put(rec.at, cur, stamp), i) = (IF i = cur THEN stamp ELSE At(rec.at, i))
    BY <2>2, PutRecord
  <2> QED
    BY <2>1, <2>3 DEF RecordAt
<1>3. /\ page.left < Room(page.id) /\ page.left + slack' + Pending' <= Room(page.id)
      /\ Room(page.id) <= max
  BY <1>1, PageNumbers DEF PageAhead, Room
<1>4. \A k \in 1 .. page.left : Back(page.id, k, max) \in Slots \ {cur}
  <2> SUFFICES ASSUME NEW k \in 1 .. page.left PROVE Back(page.id, k, max) \in Slots \ {cur}
    OBVIOUS
  <2>1. k \in 1 .. max /\ page.id \in 1 .. max /\ cur \in 1 .. max /\ k # Room(page.id)
    BY <1>3, PageNumbers DEF PageAhead, Room
  <2>2. max \in Nat /\ 1 .. max \subseteq Slots
    BY PageNumbers
  <2>3. Back(page.id, k, max) \in 1 .. max /\ (Back(page.id, k, max) = cur => k = Room(page.id))
    <3>1. /\ Back(page.id, k, max) \in 1 .. max
          /\ \A c \in 1 .. max :
               Back(page.id, k, max) = c
                 => k = (IF page.id > c THEN page.id - c ELSE page.id - c + max)
      BY <2>1, <2>2, BackIs
    <3> QED
      BY <2>1, <3>1 DEF Room
  <2> QED
    BY <2>1, <2>2, <2>3
<1>5. \A k \in 1 .. page.left : RecordAt(Back(page.id, k, max))' = RecordAt(Back(page.id, k, max))
  BY <1>1, <1>2, <1>4 DEF RecordAt
<1>6. Room(page.id)' = Room(page.id)
  BY <1>1 DEF Room
<1> QED
  BY <1>1, <1>3, <1>5, <1>6 DEF PageAhead

\* The slot that is left comes no nearer to the page than was counted.
LEMMA AdvanceAhead ==
  ASSUME IInv, TypeInv, PageAhead, pc["svc"] = "send", slack >= 0, DAdvance
  PROVE  PageAhead'
<1>1. /\ UNCHANGED <<max, loaded, page, slack, rec>> /\ cur' = NextSlot(cur, max)
      /\ Pending = 1 /\ Pending' = 0
  BY Exclusive DEF DAdvance, Step, Goto, sending, volume, Pending, Storing
<1>2. cur' \in Nat /\ 1 <= cur' /\ cur' <= max
  BY <1>1, PageNumbers DEF PageAhead, NextSlot
<1>3. page.left + slack <= Room(page.id)'
  BY <1>1, <1>2, PageNumbers DEF PageAhead, Room, NextSlot
<1>4. page'.left + slack' + Pending' <= Room(page.id)'
  BY <1>1, <1>3, PageNumbers
<1>5. \A i : RecordAt(i)' = RecordAt(i)
  BY <1>1 DEF RecordAt
<1> QED
  BY <1>1, <1>2, <1>4, <1>5 DEF PageAhead, Room

\* What is sent is not newer than what was, and leaves the rest in order.
LEMMA SendAhead ==
  ASSUME IInv, TypeInv, PageAhead, pc["svc"] = "send", slack >= 0, SSend
  PROVE  PageAhead' /\ page'.prev <= page.prev
<1> DEFINE i == Before(page.id, page.max)
<1>1. /\ UNCHANGED <<max, cur, loaded, slack, rec, pc>> /\ page.left > 0
      /\ page' = [page EXCEPT !.id = i, !.left = @ - 1,
                              !.prev = IF RecordAt(i) = 0 THEN @ ELSE RecordAt(i)]
  BY DEF SSend, ring, mutex, volume
<1>2. /\ page'.id = i /\ page'.left = page.left - 1 /\ page'.max = page.max
      /\ page'.prev = IF RecordAt(i) = 0 THEN page.prev ELSE RecordAt(i)
  BY <1>1 DEF TypeInv, PageInv
<1>3. /\ page.id \in 1 .. max /\ page.max = max /\ page.left \in 1 .. max /\ max \in Nat
      /\ i \in 1 .. max /\ i = Back(page.id, 1, max)
  BY <1>1, PageNumbers, BackIs DEF PageAhead, Room, Pending
<1>4. \A k \in 1 .. page.left - 1 :
        /\ k + 1 \in 1 .. page.left /\ Back(i, k, max) = Back(page.id, k + 1, max)
        /\ Back(page.id, k + 1, max) \in Slots
  <2> SUFFICES ASSUME NEW k \in 1 .. page.left - 1
               PROVE  /\ k + 1 \in 1 .. page.left /\ Back(i, k, max) = Back(page.id, k + 1, max)
                      /\ Back(page.id, k + 1, max) \in Slots
    OBVIOUS
  <2>1. k \in 1 .. max /\ k + 1 <= max /\ k + 1 \in 1 .. max /\ k + 1 \in 1 .. page.left
    BY <1>3
  <2>2. Back(i, k, max) = Back(page.id, k + 1, max)
    <3>1. Back(Before(page.id, max), k, max) = Back(page.id, k + 1, max)
      <4> DEFINE a == page.id
      <4>1. a \in 1 .. max /\ max \in Nat
        BY <1>3
      <4> HIDE DEF a
      <4>2. Back(Before(a, max), k, max) = Back(a, k + 1, max)
        BY <2>1, <4>1, BackIs
      <4> QED
        BY <4>2 DEF a
    <3> QED
      BY <1>3, <3>1
  <2>3. Back(page.id, k + 1, max) \in 1 .. max
    BY <1>3, <2>1, BackIs
  <2> QED
    BY <2>1, <2>2, <2>3, PageNumbers
<1>5. page.left - 1 + slack + Pending <= Room(i)
  BY <1>3, PageNumbers DEF PageAhead, Room, Pending, Before
<1>6. Room(page.id)' = Room(i) /\ Pending' = Pending /\ \A k : RecordAt(k)' = RecordAt(k)
  BY <1>1, <1>2 DEF Room, Pending, RecordAt
<1>7. RecordAt(i) # 0 => RecordAt(i) <= page.prev
  <2>1. 1 \in 1 .. page.left
    BY <1>3
  <2> QED
    BY <1>3, <2>1 DEF PageAhead
<1>8. ASSUME NEW k \in 1 .. page.left - 1, RecordAt(Back(i, k, max)) # 0
      PROVE  RecordAt(Back(i, k, max)) <= page'.prev
  <2>1. 1 \in 1 .. page.left /\ 1 < k + 1
    BY <1>3, <1>8
  <2>2. RecordAt(i) # 0 => RecordAt(Back(i, k, max)) < RecordAt(i)
    BY <1>3, <1>4, <1>8, <2>1 DEF PageAhead
  <2>3. RecordAt(Back(i, k, max)) <= page.prev
    BY <1>4, <1>8 DEF PageAhead
  <2>4. RecordAt(i) \in Nat /\ RecordAt(Back(i, k, max)) \in Nat
    BY <1>3, <1>4, PageNumbers
  <2> QED
    BY <1>2, <2>2, <2>3, <2>4
<1>9. ASSUME NEW j \in 1 .. page.left - 1, NEW k \in 1 .. page.left - 1, j < k,
             RecordAt(Back(i, j, max)) # 0, RecordAt(Back(i, k, max)) # 0
      PROVE  RecordAt(Back(i, k, max)) < RecordAt(Back(i, j, max))
  <2>1. j + 1 < k + 1
    BY <1>9
  <2> QED
    BY <1>4, <1>9, <2>1 DEF PageAhead
<1> HIDE DEF i
<1>10. page'.prev <= page.prev
  BY <1>2, <1>7, PageNumbers
<1>11. page'.id <= max' /\ page'.left + slack' + Pending' <= Room(page.id)'
  BY <1>1, <1>2, <1>3, <1>5, <1>6
<1>12. PageAhead'
  BY <1>1, <1>2, <1>3, <1>6, <1>8, <1>9, <1>11 DEF PageAhead
<1> QED
  BY <1>10, <1>12

\* A page that begins with slack is in order and out of reach.
LEMMA BeginAhead ==
  ASSUME IInv, TypeInv, BoundInv, SBegin, slack' >= 0
  PROVE  PageAhead'
<1> DEFINE i == IF page.id = 0 \/ page.id > page.max THEN cur ELSE page.id
           n == Lesser(req.limit, page.max)
           left == Room(i) - n - Pending
           h == [k \in 1 .. n |-> RecordAt(Back(i, n + 1 - k, max))]
<1>1. /\ UNCHANGED <<max, cur, loaded, rec>> /\ pc'["dmn"] = pc["dmn"] /\ pc["svc"] = "page"
      /\ page' = [page EXCEPT !.id = i, !.left = n, !.prev = TimeWrap]
      /\ slack' = Slack(i, n)
  BY Exclusive DEF SBegin, Step, Goto, ring, mutex, volume
<1>2. /\ loaded /\ page.max = max /\ cur <= max /\ slack' = left /\ InOrder(h)
  BY <1>1 DEF Slack, Room, Pending
<1>3. /\ max \in Nat /\ cur \in 1 .. max /\ i \in 1 .. max /\ n \in Nat /\ n <= max
      /\ 1 .. max \subseteq Slots
  <2>1. req \in Pages
    BY <1>1 DEF TypeInv, PageInv, IInv, RequestInv, NoRequest
  <2>2. req.limit \in Nat
    BY <2>1, PagesAssumption DEF Page
  <2>3. max \in Slots /\ cur \in Slots /\ page.id \in Nat
    BY DEF IInv, RingInv, TypeInv, PageInv
  <2> QED
    BY <1>2, <2>2, <2>3, SlotNumbers DEF Lesser, Slots
<1>4. page'.id = i /\ page'.left = n /\ page'.prev = TimeWrap /\ page'.max = max
  BY <1>1, <1>2 DEF TypeInv, PageInv
<1> HIDE DEF i, n
<1>5. \A k \in 1 .. n : Back(i, k, max) \in Slots
  <2> SUFFICES ASSUME NEW k \in 1 .. n PROVE Back(i, k, max) \in Slots
    OBVIOUS
  <2>1. k \in 1 .. max
    BY <1>3
  <2> QED
    BY <1>3, <2>1, BackIs
<1>6. \A k \in Slots : RecordAt(k) <= TimeWrap
  <2>1. \A k \in Slots : RecordAt(k) \in Nat /\ RecordAt(k) <= now
    BY ElementOfSeq, LenProperties DEF TypeInv, FilesInv, RecFile, RecordAt, At, BoundInv
  <2> QED
    BY <2>1, TimesAssumption DEF TypeInv, CountsInv
<1>7. ASSUME NEW j \in 1 .. n, NEW k \in 1 .. n, j < k,
             RecordAt(Back(i, j, max)) # 0, RecordAt(Back(i, k, max)) # 0
      PROVE  RecordAt(Back(i, k, max)) < RecordAt(Back(i, j, max))
  <2>1. /\ n + 1 - k \in 1 .. n /\ n + 1 - j \in 1 .. n /\ n + 1 - k < n + 1 - j
        /\ n + 1 - (n + 1 - k) = k /\ n + 1 - (n + 1 - j) = j
    BY <1>3, <1>7
  <2>2. /\ h[n + 1 - k] = RecordAt(Back(i, k, max)) /\ h[n + 1 - j] = RecordAt(Back(i, j, max))
        /\ DOMAIN h = 1 .. n
    BY <2>1
  <2> HIDE DEF h
  <2> QED
    BY <1>2, <1>7, <2>1, <2>2 DEF InOrder
<1>8. n + slack' + Pending <= Room(i)
  BY <1>2, <1>3 DEF Room, Pending
<1>9. Room(page.id)' = Room(i) /\ Pending' = Pending /\ \A k : RecordAt(k)' = RecordAt(k)
  BY <1>1, <1>4 DEF Room, Pending, RecordAt
<1>10. page'.id <= max' /\ page'.left + slack' + Pending' <= Room(page.id)'
  BY <1>1, <1>3, <1>4, <1>8, <1>9
<1> QED
  BY <1>1, <1>2, <1>3, <1>4, <1>5, <1>6, <1>7, <1>9, <1>10 DEF PageAhead

\* Every step keeps the page guarded.
LEMMA SendStep ==
  ASSUME IInv, TypeInv, BoundInv, SendInv, [Next]_vars
  PROVE  SendInv'
<1>1. pc'["dmn"] = "load" => ~loaded'
  <2>1. CASE Daemon
    BY <2>1, Exclusive DEF Daemon, DCollect, DLoadNothing, DUnprobe, DLoadOpenFails, DLoad,
       DLoadNoMemory, DWrite, DWriteOpenFails, DClose, DArray, DAdvance, Step, Goto
  <2>2. CASE Service
    <3>1. pc'["dmn"] = pc["dmn"] /\ loaded' = loaded
      BY <2>2, Exclusive DEF Service, SAccept, SGrow, SShrink, SFree, SSearch, SBegin, SSend, SEnd,
         SDeletes, SProbe, SUnprobe, Step, Goto, ring
    <3> QED
      BY <3>1 DEF SendInv
  <2>3. ASSUME NEW t \in Task, Shared(t) PROVE pc'["dmn"] = "load" => ~loaded'
    <3>1. loaded' = loaded
      BY <2>3 DEF Shared, StoreConfig, FindNoLock, FindLock, CreateLock, TakeLock, GiveLock,
         OpenConfig,
         PutMax, PutCur, PutStamps, ConfigWrite, CloseConfig, ring
    <3>2. CASE TakeLock(t)
      BY <3>1, <3>2, Exclusive DEF TakeLock, Locked, Step, Goto, SendInv, Task
    <3>3. CASE ~TakeLock(t)
      <4>1. pc'["dmn"] = "load" => pc["dmn"] = "load"
        BY <2>3, <3>3, Exclusive DEF Shared, StoreConfig, FindNoLock, FindLock, CreateLock,
           GiveLock,
           OpenConfig, PutMax, PutCur, PutStamps, ConfigWrite, CloseConfig, AfterStore, Step, Goto,
           Task
      <4> QED
        BY <3>1, <4>1 DEF SendInv
    <3> QED
      BY <3>2, <3>3
  <2>4. CASE Transact \/ Reset \/ UNCHANGED vars
    BY <2>4 DEF Transact, Reset, vars, ring, SendInv
  <2> QED
    BY <2>1, <2>2, <2>3, <2>4 DEF Next
<1>2. ASSUME pc'["svc"] = "send", slack' >= 0 PROVE PageAhead'
  <2>1. CASE SBegin
    BY <1>2, <2>1, BeginAhead
  <2>2. CASE SSend
    <3>1. pc["svc"] = "send" /\ slack >= 0
      BY <1>2, <2>2 DEF SSend
    <3> QED
      BY <2>2, <3>1, SendAhead DEF SendInv
  <2>3. CASE Service /\ ~SBegin /\ ~SSend
    <3>1. pc'["svc"] # "send"
      BY <2>3, Exclusive DEF Service, SAccept, SGrow, SShrink, SFree, SSearch, SEnd, SDeletes,
         SProbe, SUnprobe, Step, Goto
    <3> QED
      BY <1>2, <3>1
  <2>4. CASE Daemon
    <3>1. pc["svc"] = "send" /\ slack \in Nat /\ PageAhead /\ loaded /\ pc["dmn"] # "load"
      <4>1. pc["svc"] = "send"
        BY <1>2, <2>4, Exclusive DEF Daemon, DCollect, DLoadNothing, DUnprobe, DLoadOpenFails,
           DLoad, DLoadNoMemory, DWrite, DWriteOpenFails, DClose, DArray, DAdvance, Step, Goto
      <4>2. slack \in Nat
        <5>1. slack' = slack \/ slack' = (IF slack >= 0 THEN slack - 1 ELSE slack)
          BY <2>4 DEF Daemon, DCollect, DLoadNothing, DUnprobe, DLoadOpenFails,
             DLoad, DLoadNoMemory, DWrite, DWriteOpenFails, DClose, DArray, DAdvance
        <5>2. slack \in Nat \cup {-1}
          BY DEF TypeInv, PageInv
        <5> QED
          BY <1>2, <5>1, <5>2
      <4> QED
        BY <4>1, <4>2 DEF SendInv, PageAhead
    <3>2. CASE DWrite
      BY <1>2, <3>1, <3>2, WriteAhead
    <3>3. CASE DAdvance
      BY <3>1, <3>3, AdvanceAhead
    <3>4. CASE DCollect \/ DUnprobe \/ DWriteOpenFails \/ DClose \/ DArray
      <4>1. UNCHANGED <<max, cur, loaded, page, slack>> /\ rec'.at = rec.at
        BY <3>4 DEF DCollect, DUnprobe, DWriteOpenFails, DClose, CloseFile, DArray, ring, mutex,
           volume,
           sending
      <4>2. Pending' \in {0, Pending}
        <5>1. CASE DClose
          <6>1. \/ pc["dmn"] = "close" /\ pc'["dmn"] = "array"
                \/ pc'["dmn"] = "give"
            BY <5>1, Exclusive DEF DClose, Step, Goto
          <6> QED
            BY <6>1 DEF Pending, Storing
        <5>2. CASE DArray
          <6>1. pc["dmn"] = "array"
            BY <5>2 DEF DArray
          <6> QED
            BY <6>1 DEF Pending, Storing
        <5>3. CASE DCollect \/ DUnprobe \/ DWriteOpenFails
          <6>1. pc'["dmn"] \in {"lock", "write", "give"}
            BY <5>3, Exclusive DEF DCollect, DUnprobe, DWriteOpenFails, Step, Goto
          <6> QED
            BY <6>1 DEF Pending, Storing
        <5> QED
          BY <3>4, <5>1, <5>2, <5>3
      <4> QED
        BY <3>1, <4>1, <4>2, AheadKept
    <3>5. ~DLoadNothing /\ ~DLoadOpenFails /\ ~DLoad /\ ~DLoadNoMemory
      BY <3>1 DEF DLoadNothing, DLoadOpenFails, DLoad, DLoadNoMemory, Step
    <3> QED
      BY <2>4, <3>2, <3>3, <3>4, <3>5 DEF Daemon
  <2>5. ASSUME NEW t \in Task, Shared(t) PROVE PageAhead'
    <3>1. UNCHANGED <<max, cur, loaded, page, slack>> /\ rec'.at = rec.at
      BY <2>5 DEF Shared, StoreConfig, FindNoLock, FindLock, CreateLock, TakeLock, GiveLock,
         OpenConfig,
         PutMax, PutCur, PutStamps, ConfigWrite, CloseConfig, CloseFile, ring, mutex, volume,
         sending
    <3>2. pc["svc"] = "send" /\ Pending' = Pending
      BY <1>2, <2>5, Exclusive DEF Shared, StoreConfig, FindNoLock, FindLock, CreateLock,
         TakeLock, Locked,
         GiveLock, OpenConfig, PutMax, PutCur, PutStamps, ConfigWrite, CloseConfig, AfterStore,
         Step, Goto, Pending, Storing, Task
    <3> QED
      BY <1>2, <3>1, <3>2, AheadKept DEF SendInv
  <2>6. CASE Transact \/ UNCHANGED vars
    <3>1. UNCHANGED <<max, cur, loaded, page, slack, pc>> /\ rec'.at = rec.at
      BY <2>6 DEF Transact, vars, ring, sending
    <3> QED
      BY <1>2, <3>1, AheadKept DEF SendInv, Pending
  <2>7. CASE Reset
    BY <1>2, <2>7 DEF Reset
  <2> QED
    BY <2>1, <2>2, <2>3, <2>4, <2>5, <2>6, <2>7 DEF Next
<1> QED
  BY <1>1, <1>2 DEF SendInv

\* A page that fetch_historic_hk_and_transmit sends without the mutex is newest
\* first, whatever fails and is reset, until the daemon has stored more records
\* than its slack.
THEOREM PagesInOrder ==
  Spec => NewestFirst
<1> DEFINE Sent == pc["svc"] = "send" /\ slack >= 0 /\ page'.left < page.left /\ page'.id # 0
                     => page'.prev <= page.prev
<1>1. IInv /\ TypeInv /\ SendInv /\ [Next]_vars => Sent
  <2> SUFFICES ASSUME IInv, TypeInv, SendInv, [Next]_vars, pc["svc"] = "send", slack >= 0,
                      page'.left < page.left, page'.id # 0
               PROVE  page'.prev <= page.prev
    OBVIOUS
  <2>1. CASE SSend
    BY <2>1, SendAhead DEF SendInv
  <2>2. CASE ~SSend
    <3>1. page' \in {page, NoPage}
      <4>1. ~SSearch /\ ~SBegin
        BY DEF SSearch, SBegin, Step
      <4>2. CASE Service
        BY <2>2, <4>1, <4>2 DEF Service, SAccept, SGrow, SShrink, SFree, SEnd, SDeletes, SProbe,
           SUnprobe, EndPage, sending
      <4>3. CASE Daemon
        BY <4>3 DEF Daemon, DCollect, DLoadNothing, DUnprobe, DLoadOpenFails, DLoad, DLoadNoMemory,
           DWrite, DWriteOpenFails, DClose, DArray, DAdvance, sending
      <4>4. ASSUME NEW t \in Task, Shared(t) PROVE page' = page
        BY <4>4 DEF Shared, StoreConfig, FindNoLock, FindLock, CreateLock, TakeLock, GiveLock,
           OpenConfig,
           PutMax, PutCur, PutStamps, ConfigWrite, CloseConfig, sending
      <4>5. CASE Transact \/ Reset \/ UNCHANGED vars
        BY <4>5 DEF Transact, Reset, vars, sending
      <4> QED
        BY <4>2, <4>3, <4>4, <4>5 DEF Next
    <3>2. page' # NoPage
      BY DEF NoPage
    <3>3. page.left \in Nat
      BY DEF TypeInv, PageInv
    <3> QED
      BY <3>1, <3>2, <3>3
  <2> QED
    BY <2>1, <2>2
<1>2. IInv /\ TypeInv /\ BoundInv /\ SendInv /\ [Next]_vars
        => IInv' /\ TypeInv' /\ BoundInv' /\ SendInv'
  BY InvStep, TypeStep, BoundStep, SendStep
<1> QED
  BY <1>1, <1>2, InvInit, TypeInit, BoundInit, SendInit, PTL DEF Spec, NewestFirst

-----------------------------------------------------------------------------
(* The times in memory and in the configuration file.                      *)

\* No time, or what was in memory before.
Unset(x) == x \in Words \cup {0}

\* Where the daemon has put the time of its record into the array.
Recorded == {"store", "putmax", "putcur", "putstamps", "closecfg", "advance"}

\* The record in the daemon's hands is the last one collected.
FreshInv == pc["dmn"] \in Collected \cup Storing => stamp = now

\* The time x is not newer than the record r.
Fits(x, r) == Unset(x) \/ (x <= now /\ (r = 0 \/ x <= r))

\* Memory and file fit the records, and so they do at the transaction point.
FitInv ==
  \A i \in Slots :
    /\ Fits(arr.at[i], RecordAt(i)) /\ Fits(At(cfg.at, i), RecordAt(i))
    /\ Fits(At(disk.cfg.at, i), At(disk.rec.at, i))

\* Without resets the times in memory are those of the records, once the one of
\* the current slot is there.
EqualInv ==
  resets = 0 =>
    \A i \in Slots : i # cur \/ pc["dmn"] \in Recorded =>
      Unset(arr.at[i]) \/ RecordAt(i) = 0 \/ arr.at[i] = RecordAt(i)

\* Without errors, all of it.
StampInv == faults = {} => FreshInv /\ FitInv /\ EqualInv

\* There are no times at first.
LEMMA StampInit == Init => StampInv
<1> SUFFICES ASSUME Init PROVE FreshInv /\ FitInv /\ EqualInv
  BY DEF StampInv
<1>1. /\ stamp = now
      /\ \A i \in Slots : arr.at[i] = 0 /\ At(cfg.at, i) = 0 /\ At(disk.cfg.at, i) = 0
  BY DEF Init, NoArray, NoCfg, At
<1> QED
  BY <1>1 DEF FreshInv, FitInv, EqualInv, Fits, Unset

\* A new record is collected only when the last one is done.
LEMMA FreshStep ==
  ASSUME IInv, FreshInv, [Next]_vars
  PROVE  FreshInv'
<1>1. CASE DCollect
  BY <1>1 DEF DCollect, FreshInv
<1>2. CASE Daemon /\ ~DCollect
  <2>1. stamp' = stamp /\ now' = now
    BY <1>2 DEF Daemon, DLoadNothing, DUnprobe, DLoadOpenFails, DLoad,
       DLoadNoMemory, DWrite, DWriteOpenFails, DClose, DArray, DAdvance
  <2>2. pc'["dmn"] \in Collected \cup Storing => pc["dmn"] \in Collected \cup Storing
    BY <1>2, Exclusive DEF Daemon, DLoadNothing, DUnprobe, DLoadOpenFails, DLoad,
       DLoadNoMemory, DWrite, DWriteOpenFails, DClose, DArray, DAdvance, Step, Goto, Collected,
       Storing
  <2> QED
    BY <2>1, <2>2 DEF FreshInv
<1>3. CASE Service \/ Transact \/ UNCHANGED vars
  <2>1. stamp' = stamp /\ now' = now
    BY <1>3 DEF Service, SAccept, SGrow, SShrink, SFree, SSearch, SBegin, SSend, SEnd, SDeletes,
       SProbe, SUnprobe, Transact, vars
  <2>2. pc'["dmn"] = pc["dmn"]
    BY <1>3, Exclusive DEF Service, SAccept, SGrow, SShrink, SFree, SSearch, SBegin, SSend, SEnd,
       SDeletes, SProbe, SUnprobe, Transact, vars, Step, Goto
  <2> QED
    BY <2>1, <2>2 DEF FreshInv
<1>4. ASSUME NEW t \in Task, Shared(t) PROVE FreshInv'
  <2>1. stamp' = stamp /\ now' = now
    BY <1>4 DEF Shared, StoreConfig, FindNoLock, FindLock, CreateLock, TakeLock, GiveLock,
       OpenConfig,
       PutMax, PutCur, PutStamps, ConfigWrite, CloseConfig
  <2>2. pc'["dmn"] \in Collected \cup Storing => pc["dmn"] \in Collected \cup Storing
    BY <1>4, Exclusive DEF Shared, StoreConfig, FindNoLock, FindLock, CreateLock, TakeLock,
       Locked, GiveLock,
       OpenConfig, PutMax, PutCur, PutStamps, ConfigWrite, CloseConfig, AfterStore, Step, Goto,
       Collected, Storing, Task
  <2> QED
    BY <2>1, <2>2 DEF FreshInv
<1>5. CASE Reset
  BY <1>5 DEF Reset, FreshInv, Collected, Storing
<1> QED
  BY <1>1, <1>2, <1>3, <1>4, <1>5 DEF Next

-----------------------------------------------------------------------------
\* What the array handler leaves was there, or was never set; its size is what
\* was asked for.
LEMMA HandledFrom ==
  ASSUME arr \in Times, NEW n \in Nat, NEW a \in Handled(n)
  PROVE  /\ \A i \in Slots : a.at[i] = arr.at[i] \/ Unset(a.at[i])
         /\ a.size = n
<1> DEFINE done == IF n = 0 THEN {[arr EXCEPT !.ptr = IF @ = "null" THEN "null" ELSE "freed",
                                         !.size = 0, !.at = [i \in Slots |-> 0]]}
              ELSE Resized(n)
           Good(b) == b.size = n /\ \A i \in Slots : b.at[i] = arr.at[i] \/ Unset(b.at[i])
<1>1. ASSUME NEW b \in done
      PROVE  Good(b) /\ b \in [ptr : {"null", "live", "freed"}, size : Nat, at : [Slots -> Nat]]
  <2>1. CASE n = 0
    <3>1. b = [arr EXCEPT !.ptr = IF @ = "null" THEN "null" ELSE "freed",
                          !.size = 0, !.at = [i \in Slots |-> 0]]
      BY <1>1, <2>1
    <3> QED
      BY <2>1, <3>1 DEF Times, Unset
  <2>2. CASE n # 0 /\ n = arr.size
    <3>1. b = arr
      BY <1>1, <2>2 DEF Resized
    <3> QED
      BY <2>2, <3>1 DEF Times
  <2>3. CASE n # 0 /\ n # arr.size
    <3>1. PICK w \in Words :
            b = [ptr |-> "live", size |-> n,
                 at |-> [i \in Slots |->
                       IF i > n \/ i > arr.size THEN 0
                       ELSE IF arr.size < n /\ i < arr.size THEN arr.at[i] ELSE w]]
      BY <1>1, <2>3 DEF Resized
    <3> QED
      BY <3>1, TimesAssumption DEF Unset, Times
  <2> QED
    BY <2>1, <2>2, <2>3
<1>2. a \in done \/ \E b \in done : \E p \in Astray(n) : a = [b EXCEPT !.ptr = p]
  BY DEF Handled
<1> HIDE DEF done
<1> QED
  BY <1>1, <1>2

\* A time that reads as set is in the array.
LEMMA ViewsFrom ==
  ASSUME NEW v \in Views, NEW i \in Slots
  PROVE  v[i] = arr.at[i] \/ Unset(v[i])
BY DEF Views, Unset

\* Put, one entry at a time.
LEMMA PutReads ==
  ASSUME NEW s \in Seq(Nat), NEW c \in Slots, NEW w \in Nat, NEW k \in Slots
  PROVE  At(Put(s, c, w), k) = (IF k = c THEN w ELSE At(s, k))
<1>1. k = c => At(Put(s, c, w), k) = w
  BY PutIs
<1>2. k # c => At(Put(s, c, w), k) = At(s, k)
  BY PutIs
<1> QED
  BY <1>1, <1>2

\* What is written to the configuration file is in memory or was in it.
LEMMA WrittenFrom ==
  ASSUME FilesInv, cur \in Slots, NEW v \in Views, NEW i \in Slots
  PROVE  At(StampsWritten(v), i) \in {0, v[i], At(cfg.at, i)}
<1>1. v \in [Slots -> Nat] /\ cfg.at \in Seq(Nat) /\ arr.size \in 0 .. TopMax
  BY ViewsAre DEF FilesInv, CfgFile, Times
<1>2. CASE ~all
  <2>1. v[cur] \in Nat
    BY <1>1
  <2>2. At(Put(cfg.at, cur, v[cur]), i) = (IF i = cur THEN v[cur] ELSE At(cfg.at, i))
    <3> QED
      BY <1>1, <2>1, PutReads
  <2> QED
    BY <1>2, <2>2 DEF StampsWritten
<1>3. CASE all
  <2> DEFINE n == IF arr.size > Len(cfg.at) THEN arr.size ELSE Len(cfg.at)
  <2>1. StampsWritten(v) = [k \in 1 .. n |-> IF k <= arr.size THEN v[k] ELSE cfg.at[k]]
    BY <1>3 DEF StampsWritten
  <2>2. i \in 1 .. n /\ ~(i <= arr.size) => i \in DOMAIN cfg.at
    BY <1>1, LenProperties, SlotNumbers
  <2>3. CASE i \in 1 .. n
    <3>1. At(StampsWritten(v), i) = IF i <= arr.size THEN v[i] ELSE cfg.at[i]
      BY <2>1, <2>3 DEF At
    <3> QED
      BY <2>2, <2>3, <3>1 DEF At
  <2>4. CASE i \notin 1 .. n
    BY <2>1, <2>4 DEF At
  <2> QED
    BY <2>3, <2>4
<1> QED
  BY <1>2, <1>3

\* Where the times in memory come from.
LEMMA ArrayComes ==
  ASSUME IInv, TypeInv, [Next]_vars, ~Reset, NEW i \in Slots
  PROVE  \/ arr'.at[i] = arr.at[i] \/ Unset(arr'.at[i])
         \/ DLoad /\ arr'.at[i] = At(cfg.at, i)
         \/ DArray /\ i = cur /\ arr'.at[i] = stamp
<1> DEFINE From(a) == a.at[i] = arr.at[i] \/ Unset(a.at[i])
<1>1. /\ arr \in Times /\ max \in Nat /\ MaxRead \in Nat /\ 0 \in Nat /\ cfg.at \in Seq(Nat)
      /\ cur \in Slots
  BY SlotNumbers, ReadIsSlot DEF TypeInv, FilesInv, CfgFile, IInv, RingInv
<1>2. \A n \in Nat : \A a \in Handled(n) : From(a)
  BY <1>1, HandledFrom
<1>3. CASE DLoad
  <2>1. PICK m \in {MaxRead, max}, c \in {CurRead, cur}, short \in BOOLEAN :
          \/ \E a \in Handled(m) : arr' = IF short THEN a ELSE StampsRead(a)
          \/ UNCHANGED arr
    BY <1>3 DEF DLoad
  <2>2. CASE UNCHANGED arr
    BY <2>2
  <2>3. ASSUME NEW a \in Handled(m), arr' = (IF short THEN a ELSE StampsRead(a))
        PROVE  From(arr') \/ arr'.at[i] = At(cfg.at, i)
    <3>1. From(a) /\ m \in 0 .. TopMax
      BY <1>1, <1>2, <2>1, ReadIsSlot, SlotNumbers DEF IInv, RingInv
    <3>2. a \in Times
      BY <1>1, <3>1, HandledIs
    <3>3. StampsRead(a).at[i] = IF i <= a.size /\ i <= Len(cfg.at) THEN cfg.at[i] ELSE a.at[i]
      BY <3>2 DEF StampsRead, Times
    <3>4. i <= Len(cfg.at) => cfg.at[i] = At(cfg.at, i)
      BY <1>1, LenProperties, SlotNumbers DEF At
    <3> QED
      BY <2>3, <3>1, <3>3, <3>4
  <2> QED
    BY <1>3, <2>1, <2>2, <2>3
<1>4. CASE DArray
  <2>1. UNCHANGED arr \/ \E a \in Handled(max) : arr' = Stamped(a)
    BY <1>4 DEF DArray
  <2>2. ASSUME NEW a \in Handled(max), arr' = Stamped(a)
        PROVE  From(arr') \/ (i = cur /\ arr'.at[i] = stamp)
    <3>1. From(a) /\ max \in 0 .. TopMax
      BY <1>1, <1>2, SlotNumbers DEF IInv, RingInv
    <3>2. a \in Times
      BY <1>1, <3>1, HandledIs
    <3>3. Stamped(a).at[i] = a.at[i] \/ (i = cur /\ Stamped(a).at[i] = stamp)
      BY <3>2 DEF Stamped, Times
    <3> QED
      BY <2>2, <3>1, <3>3
  <2> QED
    BY <1>4, <2>1, <2>2
<1>5. CASE SGrow \/ SFree
  <2>1. UNCHANGED arr \/ arr' \in Handled(0) \/ (SGrow /\ arr' \in Handled(req.max))
    BY <1>5 DEF SGrow, SFree
  <2>2. SGrow => req.max \in Nat
    <3>1. SGrow => req.op = "set" /\ req.max \in NewMaxes
      BY PagesAssumption DEF SGrow, IInv, RequestInv, NoRequest, Page
    <3> QED
      BY <3>1, SlotNumbers
  <2> QED
    BY <1>1, <1>2, <2>1, <2>2
<1>6. CASE ~DLoad /\ ~DArray /\ ~SGrow /\ ~SFree
  <2>1. arr' = arr
    <3>1. CASE Daemon
      BY <1>6, <3>1 DEF Daemon, DCollect, DLoadNothing, NotLoaded, DUnprobe, DLoadOpenFails,
         DLoadNoMemory, DWrite, DWriteOpenFails, DClose, DAdvance, ring
    <3>2. CASE Service
      BY <1>6, <3>2 DEF Service, SAccept, SShrink, SSearch, SBegin, SSend, SEnd, SDeletes, SProbe,
         SUnprobe, ring
    <3>3. ASSUME NEW t \in Task, Shared(t) PROVE arr' = arr
      BY <3>3 DEF Shared, StoreConfig, FindNoLock, FindLock, CreateLock, TakeLock, GiveLock,
         OpenConfig,
         PutMax, PutCur, PutStamps, ConfigWrite, CloseConfig, ring
    <3>4. CASE Transact \/ UNCHANGED vars
      BY <3>4 DEF Transact, vars, ring
    <3> QED
      BY <3>1, <3>2, <3>3, <3>4 DEF Next
  <2> QED
    BY <2>1
<1> QED
  BY <1>3, <1>4, <1>5, <1>6

\* Where the times in the configuration file come from.
LEMMA ConfigComes ==
  ASSUME IInv, TypeInv, [Next]_vars, ~Reset, NEW i \in Slots
  PROVE  At(cfg'.at, i) \in {At(cfg.at, i), arr.at[i]} \/ Unset(At(cfg'.at, i))
<1>1. /\ FilesInv /\ cur \in Slots
  BY DEF TypeInv, IInv, RingInv
<1>2. At(NoCfg.at, i) = 0 /\ At(EmptyCfg.at, i) = 0
  BY DEF At, NoCfg, EmptyCfg
<1>3. CASE Daemon
  <2>1. cfg' \in {cfg, NoCfg, EmptyCfg}
    BY <1>3 DEF Daemon, DCollect, DLoadNothing, DUnprobe, DLoadOpenFails, DLoad, DLoadNoMemory,
       DWrite, DWriteOpenFails, DClose, CloseFile, DArray, DAdvance, volume
  <2> QED
    BY <1>2, <2>1 DEF Unset
<1>4. CASE Service \/ Transact \/ UNCHANGED vars
  <2>1. cfg' = cfg
    BY <1>4 DEF Service, SAccept, SGrow, SShrink, SFree, SSearch, SBegin, SSend, SEnd, SDeletes,
       SProbe, SUnprobe, Transact, vars, volume
  <2> QED
    BY <2>1
<1>5. ASSUME NEW t \in Task, Shared(t)
      PROVE  At(cfg'.at, i) \in {At(cfg.at, i), arr.at[i]} \/ Unset(At(cfg'.at, i))
  <2>1. CASE FindNoLock(t) \/ FindLock(t) \/ CreateLock(t) \/ TakeLock(t) \/ GiveLock(t) \/
  OpenConfig(t)
             \/ CloseConfig(t)
    <3>1. cfg' \in {cfg, EmptyCfg}
      BY <2>1 DEF FindNoLock, FindLock, CreateLock, TakeLock, GiveLock, OpenConfig, CloseConfig,
         CloseFile,
         volume
    <3> QED
      BY <1>2, <3>1 DEF Unset
  <2>2. CASE PutMax(t) \/ PutCur(t)
    <3>1. cfg' \in {cfg, [cfg EXCEPT !.max = max], [cfg EXCEPT !.cur = cur]}
      BY <2>2 DEF PutMax, PutCur, ConfigWrite
    <3>2. cfg'.at = cfg.at
      BY <1>1, <3>1 DEF FilesInv, CfgFile
    <3> QED
      BY <3>2
  <2>3. CASE PutStamps(t)
    <3>1. cfg' = cfg \/ \E v \in Views : cfg' = [cfg EXCEPT !.at = StampsWritten(v)]
      BY <2>3 DEF PutStamps, ConfigWrite
    <3>2. ASSUME NEW v \in Views, cfg' = [cfg EXCEPT !.at = StampsWritten(v)]
          PROVE  At(cfg'.at, i) \in {At(cfg.at, i), arr.at[i]} \/ Unset(At(cfg'.at, i))
      <4>1. cfg'.at = StampsWritten(v)
        BY <1>1, <3>2 DEF FilesInv, CfgFile
      <4> QED
        BY <1>1, <4>1, ViewsFrom, WrittenFrom DEF Unset
    <3> QED
      BY <3>1, <3>2
  <2> QED
    BY <1>5, <2>1, <2>2, <2>3 DEF Shared, StoreConfig
<1> QED
  BY <1>3, <1>4, <1>5 DEF Next

\* A transaction point holds what the files hold.
LEMMA DiskComes ==
  ASSUME [Next]_vars
  PROVE  \/ disk' = disk
         \/ disk'.rec = rec' /\ disk'.cfg = cfg'
         \/ disk'.rec.at = << >> /\ disk'.cfg = cfg /\ cfg' = cfg
<1>1. CASE Daemon
  <2>1. CASE DWrite
    BY <2>1 DEF DWrite, EmptyRec
  <2>2. CASE ~DWrite
    BY <1>1, <2>2 DEF Daemon, DCollect, DLoadNothing, DUnprobe, DLoadOpenFails, DLoad,
       DLoadNoMemory, DWriteOpenFails, DClose, CloseFile, Commit, DArray, DAdvance, volume
  <2> QED
    BY <2>1, <2>2
<1>2. CASE Service
  <2>1. CASE SShrink \/ SDeletes \/ SProbe \/ SUnprobe
    BY <2>1 DEF SShrink, SDeletes, SProbe, SUnprobe
  <2>2. CASE SAccept \/ SGrow \/ SFree \/ SSearch \/ SBegin \/ SSend \/ SEnd
    BY <2>2 DEF SAccept, SGrow, SFree, SSearch, SBegin, SSend, SEnd, volume
  <2> QED
    BY <1>2, <2>1, <2>2 DEF Service
<1>3. CASE \E t \in Task : Shared(t)
  BY <1>3 DEF Shared, StoreConfig, FindNoLock, FindLock, CreateLock, TakeLock, GiveLock,
     OpenConfig, PutMax,
     PutCur, PutStamps, ConfigWrite, CloseConfig, CloseFile, Commit, volume
<1>4. CASE Transact \/ Reset \/ UNCHANGED vars
  BY <1>4 DEF Transact, Reset, vars
<1> QED
  BY <1>1, <1>2, <1>3, <1>4 DEF Next

\* Times and records are numbers.
LEMMA TimesAre ==
  ASSUME TypeInv, NEW i \in Slots
  PROVE  /\ arr.at[i] \in Nat /\ At(cfg.at, i) \in Nat /\ At(disk.cfg.at, i) \in Nat
         /\ RecordAt(i) \in Nat /\ At(disk.rec.at, i) \in Nat
         /\ stamp \in Nat /\ now \in Nat /\ stamp <= now
<1>1. \A s \in Seq(Nat) : At(s, i) \in Nat
  BY ElementOfSeq, LenProperties DEF At
<1> QED
  BY <1>1 DEF TypeInv, FilesInv, CfgFile, RecFile, Times, RecordAt, CountsInv

\* A record changes when it is written or its file deleted.
LEMMA RecordFrom ==
  ASSUME IInv, TypeInv, [Next]_vars, ~Reset, NEW i \in Slots
  PROVE  \/ RecordAt(i)' = RecordAt(i)
         \/ RecordAt(i)' = 0
         \/ DWrite /\ i = cur /\ RecordAt(i)' = stamp
<1>1. At(<< >>, i) = 0
  BY DEF At
<1>2. CASE DWrite
  <2>1. rec'.at = rec.at \/ rec'.at = Put(rec.at, cur, stamp)
    BY <1>2 DEF DWrite, TypeInv, FilesInv, RecFile
  <2>2. rec.at \in Seq(Nat) /\ cur \in Slots /\ stamp \in Nat
    BY DEF TypeInv, FilesInv, RecFile, CountsInv, IInv, RingInv
  <2>3. At(Put(rec.at, cur, stamp), i) = (IF i = cur THEN stamp ELSE At(rec.at, i))
    BY <2>2, PutReads
  <2> QED
    BY <1>2, <2>1, <2>3 DEF RecordAt
<1>3. CASE ~DWrite
  <2>1. rec'.at = rec.at \/ rec'.at = << >>
    <3>1. CASE Daemon
      BY <1>3, <3>1 DEF Daemon, DCollect, DLoadNothing, DUnprobe, DLoadOpenFails, DLoad,
         DLoadNoMemory, DWriteOpenFails, DClose, CloseFile, DArray, DAdvance, volume
    <3>2. CASE Service
      <4>1. CASE SShrink \/ SDeletes \/ SProbe \/ SUnprobe
        BY <4>1 DEF SShrink, SDeletes, SProbe, SUnprobe, NoRec, EmptyRec
      <4>2. CASE SAccept \/ SGrow \/ SFree \/ SSearch \/ SBegin \/ SSend \/ SEnd
        BY <4>2 DEF SAccept, SGrow, SFree, SSearch, SBegin, SSend, SEnd, volume
      <4> QED
        BY <3>2, <4>1, <4>2 DEF Service
    <3>3. ASSUME NEW t \in Task, Shared(t) PROVE rec' = rec
      BY <3>3 DEF Shared, StoreConfig, FindNoLock, FindLock, CreateLock, TakeLock, GiveLock,
         OpenConfig,
         PutMax, PutCur, PutStamps, ConfigWrite, CloseConfig, CloseFile, volume
    <3>4. CASE Transact \/ UNCHANGED vars
      BY <3>4 DEF Transact, vars
    <3> QED
      BY <3>1, <3>2, <3>3, <3>4 DEF Next
  <2> QED
    BY <1>1, <2>1 DEF RecordAt
<1> QED
  BY <1>2, <1>3

\* Without errors, no step makes a time newer than its record.
LEMMA FitStep ==
  ASSUME IInv, TypeInv, TypeInv', RecordsInv, FreshInv, FitInv, [Next]_vars,
         faults' = {}
  PROVE  FitInv'
<1>1. now \in Nat /\ now' \in Nat /\ now <= now'
  BY TimePasses DEF TypeInv, CountsInv
<1>2. CASE Reset
  <2>1. /\ rec' = disk.rec /\ cfg' = disk.cfg /\ disk' = disk /\ now' = now
        /\ \A i \in Slots : arr'.at[i] = 0
    BY <1>2 DEF Reset, NoArray
  <2> QED
    BY <2>1 DEF FitInv, Fits, Unset, RecordAt
<1>3. CASE ~Reset
  <2> SUFFICES ASSUME NEW i \in Slots
               PROVE  /\ Fits(arr.at[i], RecordAt(i))' /\ Fits(At(cfg.at, i), RecordAt(i))'
                      /\ Fits(At(disk.cfg.at, i), At(disk.rec.at, i))'
    BY DEF FitInv
  <2> DEFINE r == RecordAt(i)
             Suits(x) == Unset(x) \/ (x <= now' /\ (r' = 0 \/ x <= r'))
  <2>1. /\ arr.at[i] \in Nat /\ At(cfg.at, i) \in Nat /\ At(disk.cfg.at, i) \in Nat
        /\ r \in Nat /\ r' \in Nat /\ stamp \in Nat /\ stamp <= now
    <3>1. RecordAt(i)' \in Nat
      BY ElementOfSeq, LenProperties DEF TypeInv, FilesInv, RecFile, RecordAt, At
    <3> QED
      BY <3>1, TimesAre
  <2>2. r' = r \/ r' = 0 \/ (DWrite /\ i = cur /\ r' = stamp)
    BY <1>3, RecordFrom
  <2>3. DWrite => stamp = now /\ now' = now
    BY DEF DWrite, FreshInv, Collected
  <2>4. \A x \in Nat : Fits(x, r) => Suits(x)
    <3> HIDE DEF r
    <3> SUFFICES ASSUME NEW x \in Nat, Fits(x, r), ~Unset(x)
                 PROVE  x <= now' /\ (r' = 0 \/ x <= r')
      BY DEF Fits
    <3>1. x <= now /\ (r = 0 \/ x <= r)
      BY DEF Fits
    <3>2. r = 0 /\ r' = r => r' = 0
      OBVIOUS
    <3> QED
      BY <1>1, <2>1, <2>2, <2>3, <3>1, <3>2
  <2>5. Suits(arr.at[i]) /\ Suits(At(cfg.at, i))
    BY <2>1, <2>4 DEF FitInv
  <2>6. Suits(arr'.at[i])
    <3>1. CASE DArray /\ i = cur /\ arr'.at[i] = stamp
      <4>1. r' = stamp \/ r' = 0
        BY <3>1 DEF DArray, RecordsInv, Storing, Empty, RecordAt, volume
      <4> QED
        BY <1>1, <2>1, <3>1, <4>1
    <3> QED
      BY <1>3, <2>5, <3>1, ArrayComes
  <2>7. Suits(At(cfg'.at, i))
    BY <1>3, <2>5, ConfigComes
  <2>8. Fits(At(disk.cfg.at, i), At(disk.rec.at, i))'
    <3>1. CASE disk' = disk
      <4>1. Fits(At(disk.cfg.at, i), At(disk.rec.at, i))
        BY DEF FitInv
      <4> QED
        BY <1>1, <2>1, <3>1, <4>1 DEF Fits, Unset
    <3>2. CASE disk'.rec = rec' /\ disk'.cfg = cfg'
      BY <2>7, <3>2 DEF Fits, RecordAt, Unset
    <3>3. CASE disk'.rec.at = << >> /\ disk'.cfg = cfg /\ cfg' = cfg
      <4>1. At(disk'.rec.at, i) = 0
        BY <3>3 DEF At
      <4> QED
        BY <2>7, <3>3, <4>1 DEF Fits, Unset
    <3> QED
      BY <3>1, <3>2, <3>3, DiskComes
  <2>9. Fits(arr.at[i], RecordAt(i))' /\ Fits(At(cfg.at, i), RecordAt(i))'
    BY <2>6, <2>7 DEF Fits, Unset
  <2> QED
    BY <2>8, <2>9
<1> QED
  BY <1>2, <1>3

\* Without errors and resets, no step makes it another.
LEMMA EqualStep ==
  ASSUME IInv, TypeInv, TypeInv', RecordsInv, OrderInv, EqualInv, [Next]_vars,
         faults = {}, faults' = {}
  PROVE  EqualInv'
<1> SUFFICES ASSUME resets' = 0, NEW i \in Slots, i # cur' \/ pc'["dmn"] \in Recorded
             PROVE  Unset(arr'.at[i]) \/ RecordAt(i)' = 0 \/ arr'.at[i] = RecordAt(i)'
  BY DEF EqualInv, Unset
<1>1. ~Reset /\ resets = 0 /\ (~loaded => Empty)
  <2>1. Reset => resets' = resets + 1
    BY DEF Reset
  <2>2. resets \in Nat
    BY DEF OrderInv
  <2>3. ~Reset /\ resets = 0
    BY <2>1, <2>2, ResetsCount
  <2> QED
    BY <2>3 DEF OrderInv
<1>2. \/ RecordAt(i)' = RecordAt(i) \/ RecordAt(i)' = 0
      \/ DWrite /\ i = cur /\ RecordAt(i)' = stamp
  BY <1>1, RecordFrom
<1>3. \/ arr'.at[i] = arr.at[i] \/ Unset(arr'.at[i])
      \/ DLoad /\ arr'.at[i] = At(cfg.at, i)
      \/ DArray /\ i = cur /\ arr'.at[i] = stamp
  BY <1>1, ArrayComes
<1>4. CASE DWrite
  <2>1. cur' = cur /\ pc'["dmn"] \in {"close", "closelost"}
    BY <1>4, Exclusive DEF DWrite, Goto, ring
  <2>2. i # cur
    BY <2>1 DEF Recorded
  <2>3. arr' = arr
    BY <1>4 DEF DWrite, ring
  <2> QED
    BY <1>1, <1>2, <2>2, <2>3 DEF EqualInv
<1>5. CASE DLoad
  <2>1. Empty /\ rec' = rec
    BY <1>1, <1>5 DEF DLoad, RecordsInv, volume
  <2> QED
    BY <2>1 DEF Empty, RecordAt
<1>6. CASE DArray
  <2>1. cur' = cur /\ rec' = rec /\ pc["dmn"] = "array"
    BY <1>6 DEF DArray, volume
  <2>2. CASE i = cur
    <3>1. RecordAt(i) \in {0, stamp} /\ cur <= max
      BY <2>1, <2>2 DEF RecordsInv, Storing, Empty
    <3>2. pc'["dmn"] \in {"store", "assert"} /\ pc'["dmn"] # "assert"
      BY <1>6, <2>1, <2>2, Exclusive DEF DArray, Goto, Recorded
    <3>3. \E a \in Handled(max) : arr' = Stamped(a)
      BY <1>6, <3>2, Faultless, Exclusive DEF DArray, Goto
    <3>4. PICK a \in Handled(max) : arr' = Stamped(a)
      BY <3>3
    <3>5. max \in Nat /\ arr \in Times /\ max \in 0 .. TopMax
      BY SlotNumbers DEF IInv, RingInv, TypeInv, FilesInv
    <3>6. a.size = max /\ a \in Times
      BY <3>4, <3>5, HandledFrom, HandledIs
    <3>7. arr'.at[i] = stamp
      BY <2>2, <3>1, <3>4, <3>6 DEF Stamped, Times
    <3> QED
      BY <2>1, <3>1, <3>7 DEF RecordAt
  <2>3. CASE i # cur
    <3>1. ~DLoad
      BY <2>1 DEF DLoad
    <3>2. arr'.at[i] = arr.at[i] \/ Unset(arr'.at[i])
      BY <1>3, <2>3, <3>1
    <3>3. RecordAt(i)' = RecordAt(i)
      BY <2>1 DEF RecordAt
    <3> QED
      BY <1>1, <2>3, <3>2, <3>3 DEF EqualInv
  <2> QED
    BY <2>2, <2>3
<1>7. CASE ~DWrite /\ ~DLoad /\ ~DArray
  <2>1. /\ RecordAt(i)' = RecordAt(i) \/ RecordAt(i)' = 0
        /\ arr'.at[i] = arr.at[i] \/ Unset(arr'.at[i])
    BY <1>2, <1>3, <1>7
  <2>2. CASE i # cur \/ pc["dmn"] \in Recorded
    BY <1>1, <2>1, <2>2 DEF EqualInv
  <2>3. CASE i = cur /\ pc["dmn"] \notin Recorded
    <3>1. CASE SShrink
      BY <3>1, Faultless, ShrinksUnopened DEF SShrink, RecordAt, At, NoRec
    <3>2. CASE ~SShrink
      <4>1. cur' = cur
        <5>1. ~DAdvance
          BY <2>3 DEF DAdvance, Step, Recorded
        <5> QED
          BY <1>1, <1>7, <3>2, <5>1, NoErrorSteps DEF Next, Daemon, DCollect, DLoadNothing,
             NotLoaded, DUnprobe,
             DClose, Service, SAccept, SGrow, SFree, SSearch, SBegin, SSend, SEnd,
             SProbe, SUnprobe, Shared, StoreConfig, FindNoLock, FindLock, CreateLock, TakeLock,
             GiveLock,
             OpenConfig,
             PutMax, PutCur, PutStamps, ConfigWrite, CloseConfig, Transact, vars, ring
      <4>2. pc'["dmn"] \in Recorded
        BY <2>3, <4>1
      <4>3. pc["dmn"] \in Recorded
        <5>1. CASE Daemon
          BY <1>7, <4>2, <5>1, Exclusive DEF Daemon, DCollect, DLoadNothing, DUnprobe,
             DLoadOpenFails,
             DLoadNoMemory, DWriteOpenFails, DClose, DAdvance, Step, Goto, Recorded
        <5>2. CASE Service \/ Transact \/ UNCHANGED vars
          BY <4>2, <5>2, Exclusive DEF Service, SAccept, SGrow, SShrink, SFree, SSearch, SBegin,
             SSend,
             SEnd, SDeletes, SProbe, SUnprobe, Transact, vars, Step, Goto
        <5>3. ASSUME NEW t \in Task, Shared(t) PROVE pc["dmn"] \in Recorded
          BY <4>2, <5>3, Exclusive DEF Shared, StoreConfig, FindNoLock, FindLock, CreateLock,
             TakeLock,
             Locked,
             GiveLock, OpenConfig, PutMax, PutCur, PutStamps, ConfigWrite, CloseConfig, AfterStore,
             Step, Goto, Recorded, Task
        <5> QED
          BY <1>1, <5>1, <5>2, <5>3 DEF Next
      <4> QED
        BY <2>3, <4>3
    <3> QED
      BY <3>1, <3>2
  <2> QED
    BY <2>2, <2>3
<1> QED
  BY <1>4, <1>5, <1>6, <1>7

\* Every step keeps the times with their records.
LEMMA StampStep ==
  ASSUME IInv, KeptInv, OrderInv, TypeInv, StampInv, [Next]_vars
  PROVE  StampInv'
<1> SUFFICES ASSUME faults' = {} PROVE FreshInv' /\ FitInv' /\ EqualInv'
  BY DEF StampInv
<1>1. faults = {} /\ FreshInv /\ FitInv /\ EqualInv /\ RecordsInv /\ TypeInv'
  BY FaultsGrow, TypeStep DEF StampInv, KeptInv
<1> QED
  BY <1>1, FreshStep, FitStep, EqualStep

\* Without errors, a time in memory that was set is not newer than the record in
\* its slot, and without resets it is that record's: what load_config reads back
\* after a reset may be older than the record, never newer, and the array that
\* set_max_files moves keeps the times with their slots.
THEOREM TimesMatch ==
  Spec => []StampsMatchRecords
<1>1. StampInv => StampsMatchRecords
  <2> SUFFICES ASSUME StampInv, faults = {}, NEW i \in Slots \ {cur},
                      arr.at[i] \notin Words \cup {0}, RecordAt(i) # 0
               PROVE  arr.at[i] <= RecordAt(i) /\ (resets = 0 => arr.at[i] = RecordAt(i))
    BY DEF StampsMatchRecords
  <2> QED
    BY DEF StampInv, FitInv, Fits, EqualInv, Unset
<1>2. IInv /\ KeptInv /\ OrderInv /\ TypeInv /\ StampInv /\ [Next]_vars
        => IInv' /\ KeptInv' /\ OrderInv' /\ TypeInv' /\ StampInv'
  BY InvStep, KeptStep, OrderStep, TypeStep, StampStep
<1> QED
  BY <1>1, <1>2, InvInit, KeptInit, OrderInit, TypeInit, StampInit, PTL DEF Spec

-----------------------------------------------------------------------------
(* The slots before the current one, whatever fails and is reset.          *)

\* A time that was set is one that was, and is before that of a record that has
\* been collected and not yet written.
Old(x) == Unset(x) \/ (x <= now /\ (pc["dmn"] \in Collected => x < now))

\* So are the records and the times, in memory and at the transaction point.
AgeInv ==
  \A i \in Slots :
    /\ Old(RecordAt(i)) /\ Old(At(disk.rec.at, i))
    /\ Old(arr.at[i]) /\ Old(At(cfg.at, i)) /\ Old(At(disk.cfg.at, i))

\* While the daemon stores a record, it is the newest.
NewestInv ==
  pc["dmn"] \in Storing =>
    \A i \in Slots :
      Unset(RecordAt(i)) \/ (IF i = cur THEN RecordAt(i) = stamp ELSE RecordAt(i) < stamp)

\* Before the configuration is loaded no time is set; a service that stores the
\* configuration does so for the first slot; times are stored after the slot.
StartInv ==
  /\ ~loaded => /\ cur = 1 /\ \A i \in Slots : Unset(arr.at[i])
                /\ pc["dmn"] \in {"sleep", "lock", "create", "take", "load"}
  /\ pc["dmn"] = "load" => ~loaded
  /\ pc["svc"] \in Resizing => cur = 1
  /\ \A t \in Task : pc[t] = "putstamps" => cfg.cur = cur

\* The file of times c, or memory too, has the time of the record of slot i.
Sure(r, c, i) == ~Unset(At(r.at, i)) /\ At(c.at, i) = At(r.at, i)
Known(i) == ~Unset(RecordAt(i)) /\ (arr.at[i] = RecordAt(i) \/ At(cfg.at, i) = RecordAt(i))

\* Of the records up to the slot that c names, those c has times of rise.
Rising(r, c) ==
  \A i, j \in Slots :
    i < j /\ j <= c.cur /\ Sure(r, c, i) /\ Sure(r, c, j) => At(r.at, i) < At(r.at, j)

\* So do those before the current slot of which memory or the file has a time.
RisingHere ==
  \A i, j \in Slots : i < j /\ j < cur /\ Known(i) /\ Known(j) => RecordAt(i) < RecordAt(j)

\* All three, here and at the transaction point.
LapInv == RisingHere /\ Rising(rec, cfg) /\ Rising(disk.rec, disk.cfg)

\* There is nothing at first.
LEMMA LapInit == Init => AgeInv /\ NewestInv /\ StartInv /\ LapInv
<1> SUFFICES ASSUME Init PROVE AgeInv /\ NewestInv /\ StartInv /\ LapInv
  OBVIOUS
<1>1. \A i \in Slots : /\ RecordAt(i) = 0 /\ At(disk.rec.at, i) = 0 /\ arr.at[i] = 0
                       /\ At(cfg.at, i) = 0 /\ At(disk.cfg.at, i) = 0
  BY DEF Init, NoArray, NoCfg, NoRec, RecordAt, At
<1>2. cur = 1 /\ pc["dmn"] = "sleep" /\ pc["svc"] = "idle"
  BY DEF Init
<1>3. AgeInv /\ LapInv
  BY <1>1 DEF AgeInv, Old, LapInv, RisingHere, Rising, Known, Sure, Unset, RecordAt
<1>4. NewestInv /\ StartInv
  BY <1>1, <1>2 DEF NewestInv, StartInv, Storing, Resizing, Task, Unset
<1> QED
  BY <1>3, <1>4

\* A record waits to be written from its collection on.
LEMMA Collecting ==
  ASSUME IInv, CountsInv, [Next]_vars, ~Reset
  PROVE  /\ now' = now /\ (pc'["dmn"] \in Collected => pc["dmn"] \in Collected)
         \/ now < now'
<1>1. CASE DCollect
  BY <1>1, TimesAssumption DEF DCollect, CountsInv
<1>2. CASE Daemon /\ ~DCollect
  BY <1>2, Exclusive DEF Daemon, DLoadNothing, DUnprobe, DLoadOpenFails, DLoad,
     DLoadNoMemory, DWrite, DWriteOpenFails, DClose, DArray, DAdvance, Step, Goto, Collected
<1>3. CASE Service \/ Transact \/ UNCHANGED vars
  BY <1>3, Exclusive DEF Service, SAccept, SGrow, SShrink, SFree, SSearch, SBegin, SSend, SEnd,
     SDeletes, SProbe, SUnprobe, Transact, vars, Step, Goto
<1>4. ASSUME NEW t \in Task, Shared(t)
      PROVE  now' = now /\ (pc'["dmn"] \in Collected => pc["dmn"] \in Collected)
  BY <1>4, Exclusive DEF Shared, StoreConfig, FindNoLock, FindLock, CreateLock, TakeLock, Locked,
     GiveLock,
     OpenConfig, PutMax, PutCur, PutStamps, ConfigWrite, CloseConfig, AfterStore, Step, Goto,
     Collected, Task
<1> QED
  BY <1>1, <1>2, <1>3, <1>4 DEF Next

\* No step makes a time or a record later than the last collected.
LEMMA AgeStep ==
  ASSUME IInv, TypeInv, TypeInv', FreshInv, AgeInv, [Next]_vars
  PROVE  AgeInv'
<1>1. CASE Reset
  <2>1. /\ rec' = disk.rec /\ cfg' = disk.cfg /\ disk' = disk /\ now' = now
        /\ pc'["dmn"] = "sleep" /\ \A i \in Slots : arr'.at[i] = 0
    BY <1>1 DEF Reset, NoArray
  <2> QED
    BY <2>1 DEF AgeInv, Old, Unset, RecordAt, Collected
<1>2. CASE ~Reset
  <2> SUFFICES ASSUME NEW i \in Slots
               PROVE  /\ Old(RecordAt(i))' /\ Old(At(disk.rec.at, i))'
                      /\ Old(arr.at[i])' /\ Old(At(cfg.at, i))' /\ Old(At(disk.cfg.at, i))'
    BY DEF AgeInv
  <2> DEFINE OldNext(x) == Unset(x) \/ (x <= now' /\ (pc'["dmn"] \in Collected => x < now'))
  <2>1. \A x \in Nat : Old(x) => OldNext(x)
    <3>1. /\ now \in Nat /\ now' \in Nat
          /\ \/ now' = now /\ (pc'["dmn"] \in Collected => pc["dmn"] \in Collected)
             \/ now < now'
      BY <1>2, Collecting DEF TypeInv, CountsInv
    <3> SUFFICES ASSUME NEW x \in Nat, Old(x), ~Unset(x)
                 PROVE  x <= now' /\ (pc'["dmn"] \in Collected => x < now')
      OBVIOUS
    <3> QED
      BY <3>1 DEF Old
  <2>2. /\ OldNext(RecordAt(i)) /\ OldNext(At(disk.rec.at, i)) /\ OldNext(arr.at[i])
        /\ OldNext(At(cfg.at, i)) /\ OldNext(At(disk.cfg.at, i))
    BY <2>1, TimesAre DEF AgeInv
  <2>3. DWrite \/ DArray => OldNext(stamp)
    <3>1. DWrite \/ DArray => now' = now /\ pc'["dmn"] \notin Collected
      BY Exclusive DEF DWrite, DArray, Goto, Collected
    <3> QED
      BY <3>1, TimesAre
  <2>4. OldNext(0)
    BY DEF Unset
  <2> HIDE DEF OldNext
  <2>5. OldNext(RecordAt(i)')
    BY <1>2, <2>2, <2>3, <2>4, RecordFrom
  <2>6. \A x : Unset(x) => OldNext(x)
    BY DEF OldNext
  <2>7. OldNext(arr'.at[i])
    BY <1>2, <2>2, <2>3, <2>6, ArrayComes
  <2>8. OldNext(At(cfg'.at, i))
    BY <1>2, <2>2, <2>6, ConfigComes
  <2>9. OldNext(At(disk'.rec.at, i)) /\ OldNext(At(disk'.cfg.at, i))
    <3>1. CASE disk' = disk
      BY <2>2, <3>1
    <3>2. CASE disk'.rec = rec' /\ disk'.cfg = cfg'
      BY <2>5, <2>8, <3>2 DEF RecordAt
    <3>3. CASE disk'.rec.at = << >> /\ disk'.cfg = cfg /\ cfg' = cfg
      BY <2>2, <2>4, <3>3 DEF At
    <3> QED
      BY <3>1, <3>2, <3>3, DiskComes
  <2> QED
    BY <2>5, <2>7, <2>8, <2>9 DEF OldNext, Old, Unset, RecordAt
<1> QED
  BY <1>1, <1>2

\* The current slot is left by the task that has the mutex.
LEMMA SlotKept ==
  ASSUME IInv, [Next]_vars, ~Reset, ~DAdvance, ~DLoad, ~DLoadNoMemory, ~SShrink
  PROVE  cur' = cur
BY DEF Next, Daemon, DCollect, DLoadNothing, NotLoaded, DUnprobe, DLoadOpenFails, DWrite,
   DWriteOpenFails, DClose, DArray, Service, SAccept, SGrow, SFree, SSearch, SBegin, SSend, SEnd,
   SDeletes, SProbe, SUnprobe, Shared, StoreConfig, FindNoLock, FindLock, CreateLock, TakeLock,
   GiveLock,
   OpenConfig, PutMax, PutCur, PutStamps, ConfigWrite, CloseConfig, Transact, vars, ring

\* The record that is stored stays the newest until its slot is left.
LEMMA NewestStep ==
  ASSUME IInv, TypeInv, FreshInv, AgeInv, NewestInv, "mutex" \notin faults, [Next]_vars
  PROVE  NewestInv'
<1> SUFFICES ASSUME pc'["dmn"] \in Storing, NEW i \in Slots
             PROVE  \/ Unset(RecordAt(i)')
                    \/ IF i = cur' THEN RecordAt(i)' = stamp' ELSE RecordAt(i)' < stamp'
  BY DEF NewestInv, Unset
<1>1. ~Reset
  BY DEF Reset, Storing
<1>2. CASE DWrite
  <2>1. stamp' = stamp /\ cur' = cur /\ stamp = now /\ pc["dmn"] \in Collected
    BY <1>2 DEF DWrite, ring, FreshInv, Collected
  <2>2. CASE i # cur
    <3>1. Unset(RecordAt(i)) \/ RecordAt(i) < now
      BY <2>1 DEF AgeInv, Old
    <3>2. RecordAt(i)' = RecordAt(i) \/ RecordAt(i)' = 0
      BY <1>1, <2>2, RecordFrom
    <3> QED
      BY <2>1, <2>2, <3>1, <3>2 DEF Unset
  <2>3. CASE i = cur
    <3>1. pc'["dmn"] = "close"
      BY <1>2, Exclusive DEF DWrite, Goto, Storing
    <3>2. rec' = [exists |-> TRUE, at |-> Put(rec.at, cur, stamp)]
      <4>1. "close" # "closelost"
        OBVIOUS
      <4> QED
        BY <1>2, <3>1, <4>1, Exclusive DEF DWrite, Goto
    <3>3. rec.at \in Seq(Nat) /\ cur \in Slots /\ stamp \in Nat
      BY DEF TypeInv, FilesInv, RecFile, CountsInv, IInv, RingInv
    <3>4. At(Put(rec.at, cur, stamp), i) = stamp
      BY <2>3, <3>3, PutReads
    <3> QED
      BY <2>1, <2>3, <3>2, <3>4 DEF RecordAt
  <2> QED
    BY <2>2, <2>3
<1>3. CASE ~DWrite
  <2>1. stamp' = stamp /\ pc["dmn"] \in Storing
    <3>1. CASE Daemon
      BY <1>3, <3>1, Exclusive DEF Daemon, DCollect, DLoadNothing, DUnprobe, DLoadOpenFails, DLoad,
         DLoadNoMemory, DWriteOpenFails, DClose, DArray, DAdvance, Step, Goto, Storing
    <3>2. CASE Service \/ Transact \/ UNCHANGED vars
      BY <3>2, Exclusive DEF Service, SAccept, SGrow, SShrink, SFree, SSearch, SBegin, SSend, SEnd,
         SDeletes, SProbe, SUnprobe, Transact, vars, Step, Goto
    <3>3. ASSUME NEW t \in Task, Shared(t) PROVE stamp' = stamp /\ pc["dmn"] \in Storing
      BY <3>3, Exclusive DEF Shared, StoreConfig, FindNoLock, FindLock, CreateLock, TakeLock,
         Locked,
         GiveLock,
         OpenConfig, PutMax, PutCur, PutStamps, ConfigWrite, CloseConfig, AfterStore, Step, Goto,
         Storing, Task
    <3> QED
      BY <1>1, <3>1, <3>2, <3>3 DEF Next
  <2>2. cur' = cur
    <3>1. ~DLoad /\ ~DLoadNoMemory
      BY <2>1 DEF DLoad, DLoadNoMemory, Step, Storing
    <3>2. ~SShrink
      BY <2>1, Alone DEF SShrink, Step, Resizing
    <3>3. ~DAdvance
      BY Exclusive DEF DAdvance, Step, Goto, Storing
    <3> QED
      BY <1>1, <3>1, <3>2, <3>3, SlotKept
  <2>3. RecordAt(i)' = RecordAt(i) \/ RecordAt(i)' = 0
    BY <1>1, <1>3, RecordFrom
  <2>4. Unset(RecordAt(i)) \/ (IF i = cur THEN RecordAt(i) = stamp ELSE RecordAt(i) < stamp)
    BY <2>1 DEF NewestInv
  <2>5. RecordAt(i)' = 0 => Unset(RecordAt(i)')
    BY DEF Unset
  <2> QED
    BY <2>1, <2>2, <2>3, <2>4, <2>5
<1> QED
  BY <1>2, <1>3

\* Every step keeps what holds before the configuration is loaded, and while it
\* is stored.
LEMMA StartStep ==
  ASSUME IInv, TypeInv, StartInv, "mutex" \notin faults, [Next]_vars
  PROVE  StartInv'
<1>1. CASE Reset
  <2>1. /\ cur' = 1 /\ pc'["dmn"] = "sleep" /\ pc'["svc"] = "idle"
        /\ \A i \in Slots : arr'.at[i] = 0
    BY <1>1 DEF Reset, NoArray
  <2> QED
    BY <2>1 DEF StartInv, Resizing, Task, Unset
<1>2. CASE ~Reset
  <2>1. pc'["dmn"] = "load" => ~loaded'
    <3>1. CASE Daemon
      BY <3>1, Exclusive DEF Daemon, DCollect, DLoadNothing, DUnprobe, DLoadOpenFails, DLoad,
         DLoadNoMemory, DWrite, DWriteOpenFails, DClose, DArray, DAdvance, Step, Goto
    <3>2. CASE Service \/ Transact \/ UNCHANGED vars
      <4>1. pc'["dmn"] = pc["dmn"] /\ loaded' = loaded
        BY <3>2, Exclusive DEF Service, SAccept, SGrow, SShrink, SFree, SSearch, SBegin, SSend,
           SEnd,
           SDeletes, SProbe, SUnprobe, Transact, vars, Step, Goto, ring
      <4> QED
        BY <4>1 DEF StartInv
    <3>3. ASSUME NEW t \in Task, Shared(t) PROVE pc'["dmn"] = "load" => ~loaded'
      <4>1. loaded' = loaded
        BY <3>3 DEF Shared, StoreConfig, FindNoLock, FindLock, CreateLock, TakeLock, GiveLock,
           OpenConfig,
           PutMax, PutCur, PutStamps, ConfigWrite, CloseConfig, ring
      <4>2. pc'["dmn"] = "load" => pc["dmn"] = "load" \/ ~loaded
        BY <3>3, Exclusive DEF Shared, StoreConfig, FindNoLock, FindLock, CreateLock, TakeLock,
           Locked,
           GiveLock, OpenConfig, PutMax, PutCur, PutStamps, ConfigWrite, CloseConfig, AfterStore,
           Step, Goto, Task
      <4> QED
        BY <4>1, <4>2 DEF StartInv
    <3> QED
      BY <1>2, <3>1, <3>2, <3>3 DEF Next
  <2>2. ~loaded' => ~loaded /\ ~DLoad /\ ~DLoadNoMemory
    BY <1>2, ZenonT(60) DEF Next, Daemon, DCollect, DLoadNothing, NotLoaded, DUnprobe,
       DLoadOpenFails,
       DLoad, DLoadNoMemory, DWrite, DWriteOpenFails, DClose, DArray, DAdvance, Service, SAccept,
       SGrow, SShrink, SFree, SSearch, SBegin, SSend, SEnd, SDeletes, SProbe, SUnprobe, Shared,
       StoreConfig, FindNoLock, FindLock, CreateLock, TakeLock, GiveLock, OpenConfig, PutMax,
       PutCur,
       PutStamps, ConfigWrite, CloseConfig, Transact, vars, ring
  <2>3. ~loaded' => pc'["dmn"] \in {"sleep", "lock", "create", "take", "load"}
    <3> SUFFICES ASSUME ~loaded' PROVE pc'["dmn"] \in {"sleep", "lock", "create", "take", "load"}
      OBVIOUS
    <3>1. ~loaded /\ pc["dmn"] \in {"sleep", "lock", "create", "take",
    "load"} /\ ~DLoad /\ ~DLoadNoMemory
      BY <2>2 DEF StartInv
    <3>2. CASE Daemon
      <4>1. ~DLoadNothing /\ ~DLoadOpenFails
        BY Zenon DEF DLoadNothing, DLoadOpenFails, NotLoaded
      <4>2. DCollect
        BY <3>1, <3>2, <4>1 DEF Daemon, DUnprobe, DWrite, DWriteOpenFails, DClose, DArray,
           DAdvance, Step
      <4> QED
        BY <4>2, Exclusive DEF DCollect, Step, Goto
    <3>3. CASE Service \/ Transact \/ UNCHANGED vars
      <4>1. pc'["dmn"] = pc["dmn"]
        BY <3>3, Exclusive DEF Service, SAccept, SGrow, SShrink, SFree, SSearch, SBegin, SSend,
           SEnd,
           SDeletes, SProbe, SUnprobe, Transact, vars, Step, Goto
      <4> QED
        BY <3>1, <4>1
    <3>4. ASSUME NEW t \in Task, Shared(t) PROVE pc'["dmn"] \in {"sleep", "lock", "create",
    "take", "load"}
      BY <3>1, <3>4, Exclusive DEF Shared, StoreConfig, FindNoLock, FindLock, CreateLock,
         TakeLock, Locked,
         GiveLock, OpenConfig, PutMax, PutCur, PutStamps, ConfigWrite, CloseConfig, AfterStore,
         Step, Goto, Task
    <3> QED
      BY <1>2, <3>2, <3>3, <3>4 DEF Next
  <2>4. pc'["svc"] \in Resizing => pc["svc"] \in Resizing \/ SShrink
    <3>1. CASE Daemon \/ Transact \/ UNCHANGED vars
      BY <3>1, Exclusive DEF Daemon, DCollect, DLoadNothing, DUnprobe, DLoadOpenFails, DLoad,
         DLoadNoMemory, DWrite, DWriteOpenFails, DClose, DArray, DAdvance, Step, Goto, Transact,
         vars
    <3>2. CASE Service
      BY <3>2, Exclusive DEF Service, SAccept, SGrow, SShrink, SFree, SSearch, SBegin, SSend, SEnd,
         SDeletes, SProbe, SUnprobe, Step, Goto, Resizing
    <3>3. ASSUME NEW t \in Task, Shared(t) PROVE pc'["svc"] \in Resizing => pc["svc"] \in Resizing
      BY <3>3, Exclusive DEF Shared, StoreConfig, FindNoLock, FindLock, CreateLock, TakeLock,
         Locked,
         GiveLock, OpenConfig, PutMax, PutCur, PutStamps, ConfigWrite, CloseConfig, AfterStore,
         Step, Goto, Task, Resizing
    <3> QED
      BY <1>2, <3>1, <3>2, <3>3 DEF Next
  <2>5. DAdvance \/ DLoad \/ DLoadNoMemory \/ SShrink => cur' = cur \/ cur' = 1 \/ loaded'
    <3>1. DLoad \/ DLoadNoMemory => loaded'
      BY Zenon DEF DLoad, DLoadNoMemory
    <3>2. SShrink => cur' = 1
      BY DEF SShrink
    <3>3. DAdvance => loaded \/ loaded'
      BY DEF DAdvance, Step, StartInv
    <3>4. DAdvance => loaded' = loaded
      BY DEF DAdvance
    <3> QED
      BY <3>1, <3>2, <3>3, <3>4, Zenon
  <2>6. ~loaded' => cur' = 1
    BY <1>2, <2>2, <2>5, SlotKept DEF StartInv
  <2>7. ASSUME ~loaded', NEW i \in Slots PROVE Unset(arr'.at[i])
    <3>1. ~loaded /\ ~DLoad /\ Unset(arr.at[i]) /\ pc["dmn"] # "array"
      BY <2>2, <2>7 DEF StartInv
    <3>2. ~DArray
      BY <3>1 DEF DArray
    <3>3. arr'.at[i] = arr.at[i] \/ Unset(arr'.at[i])
      BY <1>2, <3>1, <3>2, ArrayComes
    <3> QED
      BY <3>1, <3>3
  <2>8. pc'["svc"] \in Resizing => cur' = 1
    <3>1. CASE SShrink
      BY <3>1 DEF SShrink
    <3>2. CASE pc["svc"] \in Resizing /\ ~SShrink
      <4>1. ~DAdvance /\ ~DLoad /\ ~DLoadNoMemory
        BY <3>2, Alone DEF DAdvance, DLoad, DLoadNoMemory, Step, Storing
      <4> QED
        BY <1>2, <3>2, <4>1, SlotKept DEF StartInv
    <3> QED
      BY <2>4, <3>1, <3>2
  <2>9. ASSUME NEW t \in Task, pc'[t] = "putstamps" PROVE cfg'.cur = cur'
    <3>1. CASE PutCur(t)
      <4>1. cfg' = [cfg EXCEPT !.cur = cur] /\ cur' = cur
        BY <2>9, <3>1, Exclusive DEF PutCur, ConfigWrite, Goto, ring, Task
      <4> QED
        BY <4>1 DEF TypeInv, FilesInv, CfgFile
    <3>2. CASE ~PutCur(t)
      <4> DEFINE u == Other(t)
      <4>0. u \in Task /\ u # t /\ Task = {t, u}
        BY DEF Task, Other
      <4>1. pc[t] = "putstamps" /\ ~PutStamps(t)
        <5>1. CASE Daemon
          BY <2>9, <3>2, <5>1, Exclusive DEF Daemon, DCollect, DLoadNothing, DUnprobe,
             DLoadOpenFails, DLoad,
             DLoadNoMemory, DWrite, DWriteOpenFails, DClose, DArray, DAdvance, Step, Goto, Task,
             PutStamps, ConfigWrite
        <5>2. CASE Service \/ Transact \/ UNCHANGED vars
          BY <2>9, <3>2, <5>2, Exclusive DEF Service, SAccept, SGrow, SShrink, SFree, SSearch,
             SBegin, SSend,
             SEnd, SDeletes, SProbe, SUnprobe, Transact, vars, Step, Goto, Task, PutStamps,
             ConfigWrite
        <5>3. ASSUME NEW s \in Task, Shared(s) PROVE pc[t] = "putstamps" /\ ~PutStamps(t)
          BY <2>9, <3>2, <5>3, Exclusive DEF Shared, StoreConfig, FindNoLock, FindLock,
             CreateLock, TakeLock,
             Locked, GiveLock, OpenConfig, PutMax, PutCur, PutStamps, ConfigWrite, CloseConfig,
             AfterStore, Step, Goto, Task
        <5> QED
          BY <1>2, <5>1, <5>2, <5>3 DEF Next
      <4>2. ~Inside(u) /\ Inside(t)
        BY <4>0, <4>1, Excluded DEF Inside, Task
      <4>3. cur' = cur
        <5>1. ~DAdvance /\ ~DLoad /\ ~DLoadNoMemory /\ ~SShrink
          BY <4>0, <4>1, <4>2 DEF DAdvance, DLoad, DLoadNoMemory, SShrink, Step, Inside, Task
        <5> QED
          BY <1>2, <5>1, SlotKept
      <4>4. cfg' = cfg
        <5>1. CASE Daemon
          <6>1. ~DLoadNothing /\ ~DUnprobe
            BY <4>0, <4>1, <4>2 DEF DLoadNothing, DUnprobe, Step, Inside, Task
          <6> QED
            BY <5>1, <6>1 DEF Daemon, DCollect, DLoadOpenFails, DLoad,
               DLoadNoMemory, DWrite, DWriteOpenFails, DClose, CloseFile, DArray, DAdvance, volume
        <5>2. CASE Service \/ Transact \/ UNCHANGED vars
          BY <5>2 DEF Service, SAccept, SGrow, SShrink, SFree, SSearch, SBegin, SSend, SEnd,
             SDeletes, SProbe, SUnprobe, Transact, vars, volume
        <5>3. ASSUME NEW s \in Task, Shared(s) PROVE cfg' = cfg
          <6>1. ~OpenConfig(s) /\ ~PutMax(s) /\ ~PutCur(s) /\ ~PutStamps(s)
            BY <4>0, <4>1, <4>2, <3>2, <5>3 DEF OpenConfig, PutMax, PutCur, PutStamps, ConfigWrite,
               Inside
          <6> QED
            BY <5>3, <6>1 DEF Shared, StoreConfig, FindNoLock, FindLock, CreateLock, TakeLock,
               GiveLock,
               CloseConfig, CloseFile, volume
        <5> QED
          BY <1>2, <5>1, <5>2, <5>3 DEF Next
      <4> QED
        BY <4>1, <4>3, <4>4 DEF StartInv
    <3> QED
      BY <3>1, <3>2
  <2> QED
    BY <2>1, <2>3, <2>6, <2>7, <2>8, <2>9 DEF StartInv, Unset
<1> QED
  BY <1>1, <1>2

\* The records that the file or memory has times of are, but for the current
\* slot and the loading of the file, those they had.
LEMMA KnownFrom ==
  ASSUME IInv, TypeInv, [Next]_vars, ~Reset, ~DLoad, NEW i \in Slots, i # cur, Known(i)'
  PROVE  Known(i) /\ RecordAt(i)' = RecordAt(i)
<1>1. ~Unset(RecordAt(i)') /\ (arr'.at[i] = RecordAt(i)' \/ At(cfg'.at, i) = RecordAt(i)')
  BY DEF Known, Unset
<1>2. RecordAt(i)' = RecordAt(i)
  BY <1>1, RecordFrom DEF Unset
<1>3. arr'.at[i] = arr.at[i] \/ Unset(arr'.at[i])
  BY ArrayComes
<1>4. At(cfg'.at, i) \in {At(cfg.at, i), arr.at[i]} \/ Unset(At(cfg'.at, i))
  BY ConfigComes
<1> QED
  BY <1>1, <1>2, <1>3, <1>4 DEF Known

\* What the file has a time of is known.
LEMMA SureIsKnown ==
  ASSUME NEW i, Sure(rec, cfg, i)
  PROVE  Known(i)
BY DEF Sure, Known, RecordAt

\* The records before the current slot rise, also after the configuration is
\* loaded and the slot is the one after that which the file names.
LEMMA HereStep ==
  ASSUME IInv, TypeInv, NewestInv, StartInv, LapInv, [Next]_vars
  PROVE  RisingHere'
<1> SUFFICES ASSUME NEW i \in Slots, NEW j \in Slots, i < j, j < cur', Known(i)', Known(j)'
             PROVE  RecordAt(i)' < RecordAt(j)'
  BY DEF RisingHere
<1>1. i \in Nat /\ j \in Nat /\ 1 <= i /\ 1 < j /\ cur \in Nat /\ max \in Nat
  BY SlotNumbers DEF IInv, RingInv
<1>2. cur' # 1
  BY <1>1
<1>3. ~Reset /\ ~SShrink
  BY <1>2 DEF Reset, SShrink
<1>4. CASE DLoad \/ DLoadNoMemory
  <2>1. ~loaded /\ cur = 1 /\ Unset(arr.at[i]) /\ Unset(arr.at[j]) /\ rec' = rec /\ cfg' = cfg
    BY <1>4 DEF DLoad, DLoadNoMemory, Step, StartInv, volume
  <2>2. PICK c \in {CurRead, cur} : cur' = c \/ \E m : cur' = NextSlot(c, m)
    BY <1>4 DEF DLoad, DLoadNoMemory
  <2>3. c = cfg.cur /\ cfg.cur \in Nat
    <3>1. CurRead = cur \/ CurRead = cfg.cur
      BY DEF CurRead
    <3>2. c # 1
      BY <1>1, <2>2 DEF NextSlot
    <3>3. cfg.cur \in Nat
      BY SlotNumbers DEF TypeInv, FilesInv, CfgFile
    <3> QED
      BY <2>1, <3>1, <3>2, <3>3
  <2>4. j <= cfg.cur
    BY <1>1, <2>2, <2>3 DEF NextSlot
  <2>5. ASSUME NEW k \in Slots, Known(k)', Unset(arr.at[k]) PROVE Sure(rec, cfg, k)
    <3>1. ~Unset(RecordAt(k)) /\ (arr'.at[k] = RecordAt(k) \/ At(cfg.at, k) = RecordAt(k))
      BY <2>1, <2>5 DEF Known, RecordAt, Unset
    <3>2. arr'.at[k] = arr.at[k] \/ Unset(arr'.at[k]) \/ arr'.at[k] = At(cfg.at, k)
      <4>1. ~DArray
        BY <1>4 DEF DArray, DLoad, DLoadNoMemory, Step
      <4> QED
        BY <1>3, <4>1, ArrayComes
    <3> QED
      BY <2>5, <3>1, <3>2 DEF Sure, RecordAt
  <2>6. Sure(rec, cfg, i) /\ Sure(rec, cfg, j)
    BY <2>1, <2>5
  <2>7. At(rec.at, i) < At(rec.at, j)
    BY <2>4, <2>6 DEF LapInv, Rising
  <2> QED
    BY <2>1, <2>7 DEF RecordAt
<1>5. CASE DAdvance
  <2>1. cur' = cur + 1
    BY <1>2, <1>5 DEF DAdvance, NextSlot
  <2>2. i # cur /\ i < cur /\ (j = cur \/ j < cur)
    BY <1>1, <2>1
  <2>3. UNCHANGED <<rec, cfg, arr>> /\ pc["dmn"] = "advance"
    BY <1>5 DEF DAdvance, Step, volume
  <2>4. Known(i) /\ Known(j) /\ RecordAt(i)' = RecordAt(i) /\ RecordAt(j)' = RecordAt(j)
    BY <2>3 DEF Known, RecordAt, Unset
  <2>5. CASE j < cur
    BY <2>4, <2>5 DEF LapInv, RisingHere
  <2>6. CASE j = cur
    <3>1. RecordAt(j) = stamp /\ RecordAt(i) < stamp
      BY <2>2, <2>3, <2>4, <2>6 DEF NewestInv, Storing, Known
    <3> QED
      BY <2>4, <3>1
  <2> QED
    BY <2>2, <2>5, <2>6
<1>6. CASE ~DLoad /\ ~DLoadNoMemory /\ ~DAdvance
  <2>1. cur' = cur
    BY <1>3, <1>6, SlotKept
  <2>2. i # cur /\ j # cur
    BY <1>1, <2>1
  <2>3. Known(i) /\ Known(j) /\ RecordAt(i)' = RecordAt(i) /\ RecordAt(j)' = RecordAt(j)
    BY <1>3, <1>6, <2>2, KnownFrom
  <2> QED
    BY <2>1, <2>3 DEF LapInv, RisingHere
<1> QED
  BY <1>4, <1>5, <1>6

\* The file, once it names the slot: its records rise to the newest.
LEMMA NamedRises ==
  ASSUME IInv, TypeInv, NewestInv, LapInv, [Next]_vars, ~Reset, ~DLoad, pc["dmn"] \in Storing,
         cfg'.cur = cur, rec' = rec
  PROVE  Rising(rec, cfg)'
<1> SUFFICES ASSUME NEW i \in Slots, NEW j \in Slots, i < j, j <= cur,
                    Sure(rec, cfg, i)', Sure(rec, cfg, j)'
             PROVE  At(rec'.at, i) < At(rec'.at, j)
  BY DEF Rising
<1>1. i \in Nat /\ j \in Nat /\ cur \in Nat
  BY SlotNumbers DEF IInv, RingInv
<1>2. Known(i)' /\ ~Unset(RecordAt(j)) /\ RecordAt(j)' = RecordAt(j)
  BY DEF Sure, Known, RecordAt, Unset
<1>3. i # cur /\ Known(i) /\ RecordAt(i)' = RecordAt(i)
  BY <1>1, <1>2, KnownFrom
<1>4. CASE j = cur
  BY <1>2, <1>3, <1>4 DEF NewestInv, Known, RecordAt
<1>5. CASE j # cur
  <2>1. Known(j)'
    BY DEF Sure, Known, RecordAt, Unset
  <2>2. Known(j) /\ j < cur
    BY <1>1, <1>5, <2>1, KnownFrom
  <2> QED
    BY <1>2, <1>3, <2>2 DEF LapInv, RisingHere, RecordAt
<1> QED
  BY <1>4, <1>5

\* Nothing rises to the first slot.
LEMMA FirstRises ==
  ASSUME NEW r, NEW c, c.cur \in {0, 1}
  PROVE  Rising(r, c)
BY SlotNumbers DEF Rising

\* The records up to the slot that the file names rise, also when its fields are
\* written one by one and the writing stops between them.
LEMMA RisingStep ==
  ASSUME IInv, TypeInv, FreshInv, AgeInv, NewestInv, StartInv, LapInv, [Next]_vars, ~Reset
  PROVE  Rising(rec, cfg)'
<1>1. CASE cfg'.at = cfg.at /\ cfg'.cur = cfg.cur
  <2> SUFFICES ASSUME NEW i \in Slots, Sure(rec, cfg, i)'
               PROVE  Sure(rec, cfg, i) /\ At(rec'.at, i) = At(rec.at, i)
    BY <1>1 DEF LapInv, Rising
  <2>1. ~Unset(RecordAt(i)') /\ At(cfg.at, i) = RecordAt(i)'
    BY <1>1 DEF Sure, Unset, RecordAt
  <2>2. CASE DWrite /\ i = cur /\ RecordAt(i)' = stamp
    <3>1. stamp = now /\ pc["dmn"] = "write"
      BY <2>2 DEF DWrite, FreshInv, Collected
    <3>2. At(cfg.at, i) < now /\ now \in Nat /\ At(cfg.at, i) \in Nat
      BY <2>1, <3>1, TimesAre DEF AgeInv, Old, Collected
    <3> QED
      BY <2>1, <2>2, <3>1, <3>2
  <2>3. CASE RecordAt(i)' = RecordAt(i)
    BY <2>1, <2>3 DEF Sure, RecordAt
  <2>4. RecordAt(i)' # 0
    BY <2>1 DEF Unset
  <2> QED
    BY <2>2, <2>3, <2>4, RecordFrom
<1>2. CASE ~(cfg'.at = cfg.at /\ cfg'.cur = cfg.cur) /\ cfg'.cur # 0
  <2>1. PICK t \in Task : PutCur(t) \/ PutStamps(t)
    <3>1. NoCfg.cur = 0 /\ EmptyCfg.cur = 0
      BY DEF NoCfg, EmptyCfg
    <3>2. ~Daemon
      <4>1. Daemon => cfg' \in {cfg, NoCfg, EmptyCfg}
        BY DEF Daemon, DCollect, DLoadNothing, DUnprobe, DLoadOpenFails, DLoad, DLoadNoMemory,
           DWrite, DWriteOpenFails, DClose, CloseFile, DArray, DAdvance, volume
      <4> QED
        BY <1>2, <3>1, <4>1
    <3>3. ~(Service \/ Transact \/ UNCHANGED vars)
      BY <1>2 DEF Service, SAccept, SGrow, SShrink, SFree, SSearch, SBegin, SSend, SEnd,
         SDeletes, SProbe, SUnprobe, Transact, vars, volume
    <3>4. PICK s \in Task : Shared(s)
      BY <3>2, <3>3 DEF Next
    <3>5. ~(FindNoLock(s) \/ FindLock(s) \/ CreateLock(s) \/ TakeLock(s) \/ GiveLock(s) \/
    OpenConfig(s)
             \/ CloseConfig(s))
      BY <1>2, <3>1 DEF FindNoLock, FindLock, CreateLock, TakeLock, GiveLock, OpenConfig,
         CloseConfig,
         CloseFile, volume
    <3>6. ~PutMax(s)
      <4>1. PutMax(s) => cfg' = [cfg EXCEPT !.max = max] \/ cfg' = cfg
        BY DEF PutMax, ConfigWrite
      <4>2. [cfg EXCEPT !.max = max].at = cfg.at /\ [cfg EXCEPT !.max = max].cur = cfg.cur
        BY DEF TypeInv, FilesInv, CfgFile
      <4> QED
        BY <1>2, <4>1, <4>2
    <3> QED
      BY <3>4, <3>5, <3>6 DEF Shared, StoreConfig
  <2>2. /\ pc[t] \in {"putcur", "putstamps"} /\ rec' = rec
        /\ pc[t] = "putcur" => cfg' \in {cfg, [cfg EXCEPT !.cur = cur]}
        /\ pc[t] = "putstamps" =>
             cfg' = cfg \/ \E v \in Views : cfg' = [cfg EXCEPT !.at = StampsWritten(v)]
    BY <2>1 DEF PutCur, PutStamps, ConfigWrite
  <2>3. cfg'.cur = cur
    <3>1. cfg \in CfgFile /\ cfg' # cfg
      BY <1>2 DEF TypeInv, FilesInv
    <3>2. pc[t] = "putstamps" => cfg.cur = cur
      BY DEF StartInv
    <3>3. CASE pc[t] = "putcur"
      BY <2>2, <3>1, <3>3 DEF CfgFile
    <3>4. CASE pc[t] = "putstamps"
      BY <2>2, <3>1, <3>2, <3>4 DEF CfgFile
    <3> QED
      BY <2>2, <3>3, <3>4
  <2>4. CASE t = "dmn"
    <3>1. pc["dmn"] \in Storing /\ ~DLoad
      BY <2>2, <2>4 DEF Storing, DLoad
    <3> QED
      BY <2>2, <2>3, <3>1, NamedRises
  <2>5. CASE t = "svc"
    <3>1. cur = 1
      BY <2>2, <2>5 DEF StartInv, Resizing
    <3>2. Rising(rec', cfg')
      BY <2>3, <3>1, FirstRises
    <3> QED
      BY <3>2 DEF Rising, Sure, Unset
  <2> QED
    BY <2>4, <2>5 DEF Task
<1>3. CASE cfg'.cur = 0
  <2>1. Rising(rec', cfg')
    BY <1>3, FirstRises
  <2> QED
    BY <2>1 DEF Rising, Sure, Unset
<1> QED
  BY <1>1, <1>2, <1>3

\* Every step keeps all three.
LEMMA LapStep ==
  ASSUME IInv, TypeInv, FreshInv, AgeInv, NewestInv, StartInv, LapInv, [Next]_vars
  PROVE  LapInv'
<1>1. Rising(rec, cfg)'
  <2>1. CASE Reset
    <3>1. rec' = disk.rec /\ cfg' = disk.cfg
      BY <2>1 DEF Reset
    <3> QED
      BY <3>1 DEF LapInv, Rising, Sure, Unset
  <2> QED
    BY <2>1, RisingStep
<1>2. Rising(disk.rec, disk.cfg)'
  <2>1. CASE disk' = disk
    BY <2>1 DEF LapInv, Rising, Sure, Unset
  <2>2. CASE disk'.rec = rec' /\ disk'.cfg = cfg'
    BY <1>1, <2>2 DEF Rising, Sure, Unset
  <2>3. CASE disk'.rec.at = << >>
    <3>1. \A i : Unset(At(disk'.rec.at, i))
      BY <2>3 DEF At, Unset
    <3> QED
      BY <3>1 DEF Rising, Sure, Unset
  <2> QED
    BY <2>1, <2>2, <2>3, DiskComes
<1> QED
  BY <1>1, <1>2, HereStep DEF LapInv

\* All of it, as long as there is one mutex.
SearchInv == "mutex" \notin faults => NewestInv /\ StartInv /\ LapInv

LEMMA SearchStep ==
  ASSUME IInv, TypeInv, FreshInv, AgeInv, SearchInv, [Next]_vars
  PROVE  SearchInv'
<1> SUFFICES ASSUME "mutex" \notin faults' PROVE NewestInv' /\ StartInv' /\ LapInv'
  BY DEF SearchInv
<1>1. "mutex" \notin faults /\ NewestInv /\ StartInv /\ LapInv
  BY FaultsStay DEF SearchInv
<1> QED
  BY <1>1, NewestStep, StartStep, LapStep

\* A record found at the place of its time, or at the one before it.
LEMMA ChosenIs ==
  ASSUME NEW v \in [Slots -> Nat], NEW n, NEW p \in Slots
  PROVE  /\ Chosen(v, n, p, v[p]) \in Slots
         /\ \/ Near(v[Chosen(v, n, p, v[p])], v[p]) \/ Near(v[p], v[Chosen(v, n, p, v[p])])
<1>1. p \in Nat /\ 1 <= p /\ (p > 1 => p - 1 \in Slots) /\ v[p] \in Nat
  BY SlotNumbers DEF Slots
<1>2. Near(v[p], v[p])
  <2>1. v[p] - v[p] = 0 /\ 0 % TimeWrap = 0
    BY <1>1, TimesAssumption
  <2> QED
    BY <2>1, TimesAssumption DEF Near
<1>3. CASE p > 1 /\ Near(v[p], v[p - 1])
  <2>1. Chosen(v, n, p, v[p]) = p - 1
    BY <1>3 DEF Chosen
  <2> QED
    BY <1>1, <1>3, <2>1
<1>4. CASE ~(p > 1 /\ Near(v[p], v[p - 1]))
  <2>1. Chosen(v, n, p, v[p]) = p
    BY <1>2, <1>4 DEF Chosen
  <2> QED
    BY <1>2, <2>1
<1> QED
  BY <1>3, <1>4

\* On times that rise before the current slot, which has none, the search gives
\* for each of them a slot near whose time it is.
LEMMA SearchOfRising ==
  ASSUME NEW v \in [Slots -> Nat], NEW c \in Slots, v[c] = 0, NEW n,
         \A i, j \in 1 .. c - 1 : i < j => v[i] < v[j], NEW i \in 1 .. c - 1
  PROVE  LET r == FileIdFromTimestamp(v, c, n, v[i])
         IN  r \in Slots /\ (Near(v[r], v[i]) \/ Near(v[i], v[r]))
<1> DEFINE t == v[i]
           p == Leftmost(v, 1, c - 1, 0, t)
<1>1. c \in Nat /\ 1 <= c - 1 /\ c - 1 \in Nat /\ i \in Slots /\ c # 1
      /\ 1 .. c - 1 \subseteq Slots
  BY SlotNumbers DEF Slots
<1>2. /\ p \in 1 - 0 .. c - 1 - 0
      /\ (\A j, k \in 1 - 0 .. c - 1 - 0 : j < k /\ k < c - 1 - 0 /\ v[k] < t => v[j] < t) =>
           /\ \A k \in 1 - 0 .. c - 1 - 0 : k < p => v[k] < t
           /\ p < c - 1 - 0 => ~(v[p] < t)
  BY <1>1, LeftmostIs
<1> HIDE DEF p
<1>3. p = i
  <2>1. \A k \in 1 .. c - 1 : v[k] \in Nat /\ k \in Nat
    BY <1>1
  <2>2. \A j, k \in 1 .. c - 1 : j < k /\ k < c - 1 /\ v[k] < t => v[j] < t
    BY <2>1
  <2>3. p \in 1 .. c - 1 /\ (\A k \in 1 .. c - 1 : k < p => v[k] < t) /\ (p < c - 1 => ~(v[p] < t))
    BY <1>1, <1>2, <2>2
  <2>4. ~(i < p)
    BY <1>1, <2>1, <2>3
  <2>5. ~(p < i)
    BY <1>1, <2>1, <2>3
  <2> QED
    BY <1>1, <2>3, <2>4, <2>5
<1>4. FileIdFromTimestamp(v, c, n, t) = Chosen(v, n, p, t)
  BY <1>1 DEF FileIdFromTimestamp, p
<1> QED
  BY <1>1, <1>3, <1>4, ChosenIs

\* Until the ring is full, get_file_id_from_timestamp finds the time of every
\* record, or one as near as the threshold allows, whatever fails and is reset
\* as long as there is one mutex: even a configuration file that is many records
\* old names a slot up to which the times it shares with the records rise.
THEOREM SearchFindsRecords ==
  Spec => []FindsBeforeWrap
<1>1. IInv /\ TypeInv /\ SearchInv => FindsBeforeWrap
  <2> SUFFICES ASSUME IInv, TypeInv, LapInv, arr.at[cur] = 0,
                      \A i \in 1 .. cur - 1 :
                        arr.at[i] \notin Words \cup {0} /\ arr.at[i] = RecordAt(i),
                      NEW i \in 1 .. cur - 1
               PROVE  Finds(i)
    BY DEF FindsBeforeWrap, SearchInv
  <2>1. arr.at \in [Slots -> Nat] /\ cur \in Slots /\ cur \in Nat
    BY SlotNumbers DEF TypeInv, FilesInv, Times, IInv, RingInv
  <2>2. \A k \in 1 .. cur - 1 : k \in Slots /\ k < cur /\ Known(k) /\ arr.at[k] = RecordAt(k)
    BY <2>1, SlotNumbers DEF Known, Unset, Slots
  <2>3. \A j, k \in 1 .. cur - 1 : j < k => arr.at[j] < arr.at[k]
    BY <2>2 DEF LapInv, RisingHere
  <2> DEFINE v == arr.at
  <2>4. v \in [Slots -> Nat] /\ v[cur] = 0 /\ \A j, k \in 1 .. cur - 1 : j < k => v[j] < v[k]
    BY <2>1, <2>3
  <2> HIDE DEF v
  <2>5. LET r == FileIdFromTimestamp(v, cur, arr.size, v[i])
        IN  r \in Slots /\ (Near(v[r], v[i]) \/ Near(v[i], v[r]))
    BY <2>1, <2>4, SearchOfRising
  <2> QED
    BY <2>5 DEF Finds, v
<1>2. /\ IInv /\ TypeInv /\ FreshInv /\ AgeInv /\ SearchInv /\ [Next]_vars
      => IInv' /\ TypeInv' /\ FreshInv' /\ AgeInv' /\ SearchInv'
  BY InvStep, TypeStep, FreshStep, AgeStep, SearchStep
<1>3. Init => FreshInv /\ SearchInv
  BY LapInit DEF Init, FreshInv, SearchInv, Collected, Storing
<1> QED
  BY <1>1, <1>2, <1>3, InvInit, TypeInit, LapInit, PTL DEF Spec

\* Going back from a slot, the slots before the current one come in the order of
\* their records.
LEMMA BackIsEarlier ==
  ASSUME IInv, cur <= max, NEW i \in 1 .. max, NEW j \in Nat, NEW k \in Nat,
         1 <= j, j < k, k < Room(i)
  PROVE  /\ Back(i, j, max) \in Slots \ {cur} /\ Back(i, k, max) \in Slots \ {cur}
         /\ Earlier(Back(i, k, max), Back(i, j, max))
<1>1. max \in Nat /\ cur \in Nat /\ 1 <= cur /\ max <= TopMax /\ TopMax \in Nat
  BY SlotNumbers DEF IInv, RingInv
<1>2. /\ Back(i, j, max) \in 1 .. max /\ Back(i, k, max) \in 1 .. max
      /\ Back(i, j, max) # cur /\ Back(i, k, max) # cur
  BY <1>1 DEF Back, Room
<1>3. Earlier(Back(i, k, max), Back(i, j, max))
  BY <1>1 DEF Back, Room, Earlier
<1> QED
  BY <1>1, <1>2, <1>3 DEF Slots

\* Without errors and resets, a page of the ring as it is, of fewer records than
\* there are back to the current slot, begins with all the slack there is.
Guarded ==
  (/\ SBegin /\ faults = {} /\ resets = 0 /\ loaded /\ page.max = max /\ cur <= max
   /\ page'.left < Room(page'.id))
    => slack' = Room(page'.id) - page'.left - Pending

\* So the order of a page is never left to chance: PagesInOrder speaks of every
\* page that stops short of the current slot, as long as the daemon does not come
\* around to it.
THEOREM PagesAreGuarded ==
  Spec => [][Guarded]_vars
<1>1. IInv /\ KeptInv /\ OrderInv /\ TypeInv /\ [Next]_vars => Guarded
  <2> SUFFICES ASSUME IInv, KeptInv, OrderInv, TypeInv, SBegin, faults = {}, resets = 0, loaded,
                      page.max = max, cur <= max, page'.left < Room(page'.id)
               PROVE  slack' = Room(page'.id) - page'.left - Pending
    BY DEF Guarded
  <2> DEFINE i == IF page.id = 0 \/ page.id > page.max THEN cur ELSE page.id
             n == Lesser(req.limit, page.max)
             left == Room(i) - n - Pending
             h == [k \in 1 .. n |-> RecordAt(Back(i, n + 1 - k, max))]
  <2>1. /\ page' = [page EXCEPT !.id = i, !.left = n, !.prev = TimeWrap] /\ slack' = Slack(i, n)
        /\ pc["svc"] = "page"
    BY DEF SBegin, Step
  <2>2. page'.id = i /\ page'.left = n
    BY <2>1 DEF TypeInv, PageInv
  <2>3. req \in Pages /\ req.limit \in Nat
    <3>1. req \in Pages
      BY <2>1 DEF TypeInv, PageInv, IInv, RequestInv, NoRequest
    <3> QED
      BY <3>1, PagesAssumption DEF Page
  <2>4. max \in Nat /\ cur \in 1 .. max /\ i \in 1 .. max /\ n \in Nat
    <3>1. max \in Slots /\ cur \in Slots /\ page.id \in Nat
      BY DEF IInv, RingInv, TypeInv, PageInv
    <3> QED
      BY <2>3, <3>1, SlotNumbers DEF Lesser
  <2>5. Ordered /\ \A k \in Slots : RecordAt(k) \in Nat
    BY RecordsAre DEF KeptInv, OrderInv
  <2>6. n < Room(i)
    BY <2>2
  <2>7. left \in Nat /\ left >= 0
    BY <2>4, <2>6 DEF Room, Pending
  <2>8. Slack(i, n) = IF InOrder(h) THEN left ELSE -1
    BY <2>7 DEF Slack, Room, Pending
  <2> HIDE DEF i, n
  <2>9. InOrder(h)
    <3> SUFFICES ASSUME NEW a \in 1 .. n, NEW b \in 1 .. n, a < b, h[a] # 0, h[b] # 0
                 PROVE  h[a] < h[b]
      BY DEF InOrder
    <3>1. /\ n + 1 - b \in Nat /\ n + 1 - a \in Nat /\ 1 <= n + 1 - b /\ n + 1 - b < n + 1 - a
          /\ n + 1 - a < Room(i)
      BY <2>4, <2>6 DEF Room
    <3>2. /\ Back(i, n + 1 - b, max) \in Slots \ {cur} /\ Back(i, n + 1 - a, max) \in Slots \ {cur}
          /\ Earlier(Back(i, n + 1 - a, max), Back(i, n + 1 - b, max))
      BY <2>4, <3>1, BackIsEarlier
    <3>3. h[a] = RecordAt(Back(i, n + 1 - a, max)) /\ h[b] = RecordAt(Back(i, n + 1 - b, max))
      OBVIOUS
    <3> QED
      BY <2>5, <3>2, <3>3 DEF Ordered
  <2>10. slack' = left
    BY <2>1, <2>8, <2>9
  <2> QED
    BY <2>2, <2>10
<1>2. IInv /\ KeptInv /\ OrderInv /\ TypeInv /\ [Next]_vars
        => IInv' /\ KeptInv' /\ OrderInv' /\ TypeInv'
  BY InvStep, KeptStep, OrderStep, TypeStep
<1> QED
  BY <1>1, <1>2, InvInit, KeptInit, OrderInit, TypeInit, PTL DEF Spec
=============================================================================
