------------------------ MODULE NorthernVoicesProofs ------------------------
(***************************************************************************)
(* The daemon never uses what a stop closed, and nothing is sent after a   *)
(* stop was answered: for every file, every number of passes and every     *)
(* length of the waits in which a stop outlasts csp_send.                  *)
(*                                                                         *)
(* The first part holds because of the mutex (LockInv, OpenInv).  The      *)
(* second does not: a stop is answered whether it gets the mutex or not.   *)
(* It holds because the stop waits longer than a packet takes (WaitInv)    *)
(* and has cleared "enabled" before (StopInv).                             *)
(***************************************************************************)
EXTENDS NorthernVoices, TLAPS

\* The daemon holds the mutex from its check to the end of its packet or its
\* pause, the service while it changes the record.
LockInv ==
  /\ pc["dmn"] \in {"check", "read", "send", "pause"} <=> lock = "dmn"
  /\ pc["svc"] \in {"clear", "open"} => lock = "svc"

\* What is enabled is open, and so is what the daemon found enabled.  Between
\* the stop and the beginning of a start the record is as stop_nv_transmit
\* left it.
OpenInv ==
  /\ ctx.enabled => ctx.file /\ ctx.conn
  /\ pc["dmn"] \in {"read", "send"} => ctx.file /\ ctx.conn
  /\ pc["dmn"] \in {"read", "send"} => ctx.repeats < ctx.goal
  /\ pc["dmn"] = "send" => ctx.packetno > 0 /\ pos > 0
  /\ pc["svc"] \in {"start", "open"} => /\ ~ctx.enabled /\ ctx.repeats = 0 /\ ctx.packetno = 0
                                       /\ pc["dmn"] \notin {"read", "send", "pause"}
  /\ pc["svc"] \in {"start", "open"} => req.op = "start"
  /\ pc["svc"] \in {"stop", "clear"} => req.op \in {"start", "stop"}

\* A stop that began before the daemon's packet ends after it.
WaitInv ==
  /\ pc["dmn"] = "send" => wait["dmn"] <= SendWait
  /\ pc["svc"] = "stop" /\ pc["dmn"] = "read" => wait["svc"] = StopWait
  /\ pc["svc"] = "stop" /\ pc["dmn"] = "send" => wait["svc"] - wait["dmn"] >= StopWait - SendWait

\* After the answer to a stop nothing is enabled, and the daemon is not about
\* to send.
StopInv ==
  /\ pc["svc"] \in {"stop", "clear"} => ~ctx.enabled
  /\ stopped => ~ctx.enabled /\ pc["dmn"] \notin {"read", "send"}
  /\ stopped /\ pc["svc"] # "idle" => req.op = "stop"

\* Of an open file so many passes were made that the packets and the blocks
\* agree, and the last packet sent is an earlier one.
OrderInv ==
  /\ ctx.file => \E k \in 0 .. ctx.repeats : ctx.packetno = k * Blocks + pos
  /\ air.tx <= tx
  /\ ctx.file /\ air.tx = tx =>
       /\ air.no < ctx.packetno
       /\ pc["dmn"] = "send" => air.no < ctx.packetno - 1

IInv == TypeOK /\ LockInv /\ OpenInv /\ WaitInv /\ StopInv /\ OrderInv

LEMMA InvInit == Init => IInv
<1> SUFFICES ASSUME Init PROVE IInv
  OBVIOUS
<1>1. TypeOK
  <2>1. ctx \in [enabled : BOOLEAN, repeats : Nat, goal : 0 .. MaxRepeats, file : BOOLEAN,
                 conn : BOOLEAN, packetno : Nat]
    BY SizesAssumption DEF Init, Idle
  <2>2. ctx.repeats <= ctx.goal /\ pos \in 0 .. Blocks
    BY SizesAssumption DEF Init, Idle
  <2>3. DOMAIN pc = Task /\ pc["dmn"] = "loop" /\ pc["svc"] = "idle"
    BY DEF Init, Task
  <2>4. wait \in [Task -> Nat] /\ air \in [tx : Nat, no : Nat, blk : Nat]
    BY DEF Init, Task
  <2> QED
    BY <2>1, <2>2, <2>3, <2>4 DEF Init, TypeOK
<1>2. LockInv /\ OpenInv /\ WaitInv /\ StopInv /\ OrderInv
  BY DEF Init, Idle, LockInv, OpenInv, WaitInv, StopInv, OrderInv
<1> QED
  BY <1>1, <1>2 DEF IInv

LEMMA DTakeInv ==
  ASSUME IInv, DTake, SendWait < StopWait
  PROVE  IInv'
<1>1. TypeOK'
  BY SizesAssumption, WaitsAssumption
  DEF DTake, Goto, aux, bounds, IInv, Task,
      TypeOK, LockInv, OpenInv
<1>2. LockInv'
  BY DEF DTake, Goto, aux, bounds, IInv, Task,
      TypeOK, LockInv
<1>3. OpenInv'
  BY DEF DTake, Goto, aux, bounds, IInv, Task,
      TypeOK, LockInv, OpenInv, StopInv
<1>4. WaitInv'
  BY WaitsAssumption
  DEF DTake, Goto, aux, bounds, IInv, Task,
      TypeOK, WaitInv
<1>5. StopInv'
  BY WaitsAssumption
  DEF DTake, Goto, aux, bounds, IInv, Task,
      TypeOK, LockInv, OpenInv, WaitInv, StopInv
<1>6. OrderInv'
  BY SizesAssumption
  DEF DTake, Goto, aux, bounds, IInv, Task,
      TypeOK, LockInv, OpenInv, OrderInv
<1> QED
  BY <1>1, <1>2, <1>3, <1>4, <1>5, <1>6 DEF IInv

LEMMA DPollInv ==
  ASSUME IInv, DPoll, SendWait < StopWait
  PROVE  IInv'
<1>1. TypeOK'
  BY SizesAssumption, WaitsAssumption
  DEF DPoll, Goto, aux, bounds, IInv, Task,
      TypeOK, LockInv, OpenInv
<1>2. LockInv'
  BY DEF DPoll, Goto, aux, bounds, IInv, Task,
      TypeOK, LockInv
<1>3. OpenInv'
  BY DEF DPoll, Goto, aux, bounds, IInv, Task,
      TypeOK, LockInv, OpenInv, StopInv
<1>4. WaitInv'
  BY WaitsAssumption
  DEF DPoll, Goto, aux, bounds, IInv, Task,
      TypeOK, WaitInv
<1>5. StopInv'
  BY WaitsAssumption
  DEF DPoll, Goto, aux, bounds, IInv, Task,
      TypeOK, LockInv, OpenInv, WaitInv, StopInv
<1>6. OrderInv'
  BY SizesAssumption
  DEF DPoll, Goto, aux, bounds, IInv, Task,
      TypeOK, LockInv, OpenInv, OrderInv
<1> QED
  BY <1>1, <1>2, <1>3, <1>4, <1>5, <1>6 DEF IInv

LEMMA DCheckInv ==
  ASSUME IInv, DCheck, SendWait < StopWait
  PROVE  IInv'
<1>1. TypeOK'
  BY SizesAssumption, WaitsAssumption
  DEF DCheck, Active, Waiting, Goto, aux, bounds, IInv, Task,
      TypeOK, LockInv, OpenInv
<1>2. LockInv'
  BY DEF DCheck, Active, Waiting, Goto, aux, bounds, IInv, Task,
      TypeOK, LockInv
<1>3. OpenInv'
  BY DEF DCheck, Active, Waiting, Goto, aux, bounds, IInv, Task,
      TypeOK, LockInv, OpenInv, StopInv
<1>4. WaitInv'
  <2>1. pc'["dmn"] = "rest" \/ pc'["dmn"] = "read"
    BY DEF DCheck, Waiting, Goto, IInv, Task, TypeOK
  <2>2. pc["svc"] # "stop" \/ ~Active
    BY DEF IInv, StopInv, Active
  <2> QED
    BY <2>1, <2>2 DEF DCheck, Waiting, Goto, IInv, Task, TypeOK, WaitInv
<1>5. StopInv'
  BY WaitsAssumption
  DEF DCheck, Active, Waiting, Goto, aux, bounds, IInv, Task,
      TypeOK, LockInv, OpenInv, WaitInv, StopInv
<1>6. OrderInv'
  BY SizesAssumption
  DEF DCheck, Active, Waiting, Goto, aux, bounds, IInv, Task,
      TypeOK, LockInv, OpenInv, OrderInv
<1> QED
  BY <1>1, <1>2, <1>3, <1>4, <1>5, <1>6 DEF IInv

LEMMA DReadInv ==
  ASSUME IInv, DRead, SendWait < StopWait
  PROVE  IInv'
<1>1. TypeOK'
  BY SizesAssumption, WaitsAssumption
  DEF DRead, Waiting, Fault, Goto, aux, bounds, IInv, Task,
      TypeOK, LockInv, OpenInv
<1>2. LockInv'
  BY DEF DRead, Waiting, Fault, Goto, aux, bounds, IInv, Task,
      TypeOK, LockInv
<1>3. OpenInv'
  BY DEF DRead, Waiting, Fault, Goto, aux, bounds, IInv, Task,
      TypeOK, LockInv, OpenInv, StopInv
<1>4. WaitInv'
  BY WaitsAssumption
  DEF DRead, Waiting, Fault, Goto, aux, bounds, IInv, Task,
      TypeOK, WaitInv
<1>5. StopInv'
  BY WaitsAssumption
  DEF DRead, Waiting, Fault, Goto, aux, bounds, IInv, Task,
      TypeOK, LockInv, OpenInv, WaitInv, StopInv
<1>6. OrderInv'
  BY SizesAssumption
  DEF DRead, Waiting, Fault, Goto, aux, bounds, IInv, Task,
      TypeOK, LockInv, OpenInv, OrderInv
<1> QED
  BY <1>1, <1>2, <1>3, <1>4, <1>5, <1>6 DEF IInv

LEMMA DRewindInv ==
  ASSUME IInv, DRewind, SendWait < StopWait
  PROVE  IInv'
<1>1. TypeOK'
  BY SizesAssumption, WaitsAssumption
  DEF DRewind, Waiting, Fault, Goto, aux, bounds, IInv, Task,
      TypeOK, LockInv, OpenInv
<1>2. LockInv'
  BY DEF DRewind, Waiting, Fault, Goto, aux, bounds, IInv, Task,
      TypeOK, LockInv
<1>3. OpenInv'
  BY DEF DRewind, Waiting, Fault, Goto, aux, bounds, IInv, Task,
      TypeOK, LockInv, OpenInv, StopInv
<1>4. WaitInv'
  BY WaitsAssumption
  DEF DRewind, Waiting, Fault, Goto, aux, bounds, IInv, Task,
      TypeOK, WaitInv
<1>5. StopInv'
  BY WaitsAssumption
  DEF DRewind, Waiting, Fault, Goto, aux, bounds, IInv, Task,
      TypeOK, LockInv, OpenInv, WaitInv, StopInv
<1>6. OrderInv'
  <2>1. PICK k \in 0 .. ctx.repeats : ctx.packetno = k * Blocks + Blocks
    BY DEF DRewind, IInv, OpenInv, OrderInv
  <2>2. /\ ctx'.repeats = ctx.repeats + 1 /\ ctx'.packetno = ctx.packetno
        /\ ctx'.file = ctx.file /\ pc'["dmn"] = "pause" /\ UNCHANGED <<air, tx>>
    BY DEF DRewind, Waiting, Goto, aux, IInv, Task, TypeOK
  <2>3. \E l \in 0 .. ctx'.repeats : ctx'.packetno = l * Blocks + pos'
    <3>1. CASE pos' = 0
      <4>1. k + 1 \in 0 .. ctx'.repeats
        BY <2>2 DEF IInv, TypeOK
      <4>2. ctx'.packetno = (k + 1) * Blocks + pos'
        BY <2>1, <2>2, <3>1, SizesAssumption DEF IInv, TypeOK
      <4> QED
        BY <4>1, <4>2
    <3>2. CASE pos' = Blocks
      <4>1. k \in 0 .. ctx'.repeats
        BY <2>2 DEF IInv, TypeOK
      <4> QED
        BY <4>1, <2>1, <2>2, <3>2
    <3> QED
      BY <3>1, <3>2 DEF DRewind
  <2> QED
    BY <2>2, <2>3 DEF IInv, OrderInv
<1> QED
  BY <1>1, <1>2, <1>3, <1>4, <1>5, <1>6 DEF IInv

LEMMA DSendInv ==
  ASSUME IInv, DSend, SendWait < StopWait
  PROVE  IInv'
<1>1. TypeOK'
  BY SizesAssumption, WaitsAssumption
  DEF DSend, Fault, Goto, aux, bounds, IInv, Task,
      TypeOK, LockInv, OpenInv
<1>2. LockInv'
  BY DEF DSend, Fault, Goto, aux, bounds, IInv, Task,
      TypeOK, LockInv
<1>3. OpenInv'
  BY DEF DSend, Fault, Goto, aux, bounds, IInv, Task,
      TypeOK, LockInv, OpenInv, StopInv
<1>4. WaitInv'
  BY WaitsAssumption
  DEF DSend, Fault, Goto, aux, bounds, IInv, Task,
      TypeOK, WaitInv
<1>5. StopInv'
  BY WaitsAssumption
  DEF DSend, Fault, Goto, aux, bounds, IInv, Task,
      TypeOK, LockInv, OpenInv, WaitInv, StopInv
<1>6. OrderInv'
  BY SizesAssumption
  DEF DSend, Fault, Goto, aux, bounds, IInv, Task,
      TypeOK, LockInv, OpenInv, OrderInv
<1> QED
  BY <1>1, <1>2, <1>3, <1>4, <1>5, <1>6 DEF IInv

LEMMA DResumeInv ==
  ASSUME IInv, DResume, SendWait < StopWait
  PROVE  IInv'
<1>1. TypeOK'
  BY SizesAssumption, WaitsAssumption
  DEF DResume, Goto, aux, bounds, IInv, Task,
      TypeOK, LockInv, OpenInv
<1>2. LockInv'
  BY DEF DResume, Goto, aux, bounds, IInv, Task,
      TypeOK, LockInv
<1>3. OpenInv'
  BY DEF DResume, Goto, aux, bounds, IInv, Task,
      TypeOK, LockInv, OpenInv, StopInv
<1>4. WaitInv'
  BY WaitsAssumption
  DEF DResume, Goto, aux, bounds, IInv, Task,
      TypeOK, WaitInv
<1>5. StopInv'
  BY WaitsAssumption
  DEF DResume, Goto, aux, bounds, IInv, Task,
      TypeOK, LockInv, OpenInv, WaitInv, StopInv
<1>6. OrderInv'
  BY SizesAssumption
  DEF DResume, Goto, aux, bounds, IInv, Task,
      TypeOK, LockInv, OpenInv, OrderInv
<1> QED
  BY <1>1, <1>2, <1>3, <1>4, <1>5, <1>6 DEF IInv

LEMMA DWakeInv ==
  ASSUME IInv, DWake, SendWait < StopWait
  PROVE  IInv'
<1>1. TypeOK'
  BY SizesAssumption, WaitsAssumption
  DEF DWake, Goto, aux, bounds, IInv, Task,
      TypeOK, LockInv, OpenInv
<1>2. LockInv'
  BY DEF DWake, Goto, aux, bounds, IInv, Task,
      TypeOK, LockInv
<1>3. OpenInv'
  BY DEF DWake, Goto, aux, bounds, IInv, Task,
      TypeOK, LockInv, OpenInv, StopInv
<1>4. WaitInv'
  BY WaitsAssumption
  DEF DWake, Goto, aux, bounds, IInv, Task,
      TypeOK, WaitInv
<1>5. StopInv'
  BY WaitsAssumption
  DEF DWake, Goto, aux, bounds, IInv, Task,
      TypeOK, LockInv, OpenInv, WaitInv, StopInv
<1>6. OrderInv'
  BY SizesAssumption
  DEF DWake, Goto, aux, bounds, IInv, Task,
      TypeOK, LockInv, OpenInv, OrderInv
<1> QED
  BY <1>1, <1>2, <1>3, <1>4, <1>5, <1>6 DEF IInv

LEMMA SRefuseInv ==
  ASSUME IInv, SRefuse, SendWait < StopWait
  PROVE  IInv'
<1>1. TypeOK'
  BY SizesAssumption, WaitsAssumption
  DEF SRefuse, Goto, aux, bounds, IInv, Task,
      TypeOK, LockInv, OpenInv
<1>2. LockInv'
  BY DEF SRefuse, Goto, aux, bounds, IInv, Task,
      TypeOK, LockInv
<1>3. OpenInv'
  BY DEF SRefuse, Goto, aux, bounds, IInv, Task,
      TypeOK, LockInv, OpenInv, StopInv
<1>4. WaitInv'
  BY WaitsAssumption
  DEF SRefuse, Goto, aux, bounds, IInv, Task,
      TypeOK, WaitInv
<1>5. StopInv'
  BY WaitsAssumption
  DEF SRefuse, Goto, aux, bounds, IInv, Task,
      TypeOK, LockInv, OpenInv, WaitInv, StopInv
<1>6. OrderInv'
  BY SizesAssumption
  DEF SRefuse, Goto, aux, bounds, IInv, Task,
      TypeOK, LockInv, OpenInv, OrderInv
<1> QED
  BY <1>1, <1>2, <1>3, <1>4, <1>5, <1>6 DEF IInv

LEMMA SAcceptInv ==
  ASSUME IInv, SAccept, SendWait < StopWait
  PROVE  IInv'
<1>1. TypeOK'
  <2>1. /\ ctx' \in [enabled : BOOLEAN, repeats : Nat, goal : 0 .. MaxRepeats,
                     file : BOOLEAN, conn : BOOLEAN, packetno : Nat]
        /\ ctx'.repeats <= ctx'.goal
    BY SizesAssumption
    DEF SAccept, Waiting, Goto, aux, bounds, IInv, Task, TypeOK, LockInv, OpenInv
  <2>2. req' \in {NoRequest} \cup [op : {"start"}, repeats : 0 .. MaxRepeats] \cup [op : {"stop"}]
    BY SizesAssumption
    DEF SAccept, Waiting, Goto, aux, bounds, IInv, Task, TypeOK, LockInv, OpenInv
  <2>3. stopped' \in BOOLEAN
    BY DEF SAccept, Waiting, IInv, TypeOK
  <2>4. /\ DOMAIN pc' = Task /\ wait' \in [Task -> Nat]
        /\ pc'["dmn"] = pc["dmn"]
        /\ pc'["svc"] \in {"idle", "stop", "clear", "start", "open"}
    BY WaitsAssumption
    DEF SAccept, Waiting, Goto, aux, bounds, IInv, Task, TypeOK, LockInv, OpenInv
  <2>5. /\ pos' \in 0 .. Blocks /\ lock' \in {"free"} \cup Task
        /\ tx' \in Nat /\ air' = air /\ reqs' \in Nat /\ faults' \in Nat
    BY SizesAssumption
    DEF SAccept, Waiting, Goto, aux, bounds, IInv, Task, TypeOK, LockInv, OpenInv
  <2> QED
    BY <2>1, <2>2, <2>3, <2>4, <2>5 DEF IInv, TypeOK
<1>2. LockInv'
  BY DEF SAccept, Waiting, NoRequest, Goto, aux, bounds, IInv, Task,
      TypeOK, LockInv
<1>3. OpenInv'
  BY DEF SAccept, Waiting, NoRequest, Goto, aux, bounds, IInv, Task,
      TypeOK, LockInv, OpenInv, StopInv
<1>4. WaitInv'
  BY WaitsAssumption
  DEF SAccept, Waiting, NoRequest, Goto, aux, bounds, IInv, Task,
      TypeOK, WaitInv
<1>5. StopInv'
  BY WaitsAssumption
  DEF SAccept, Waiting, NoRequest, Goto, aux, bounds, IInv, Task,
      TypeOK, LockInv, OpenInv, WaitInv, StopInv
<1>6. OrderInv'
  BY SizesAssumption
  DEF SAccept, Waiting, NoRequest, Goto, aux, bounds, IInv, Task,
      TypeOK, LockInv, OpenInv, OrderInv
<1> QED
  BY <1>1, <1>2, <1>3, <1>4, <1>5, <1>6 DEF IInv

LEMMA STakeInv ==
  ASSUME IInv, STake, SendWait < StopWait
  PROVE  IInv'
<1>1. TypeOK'
  BY SizesAssumption, WaitsAssumption
  DEF STake, Goto, aux, bounds, IInv, Task,
      TypeOK, LockInv, OpenInv
<1>2. LockInv'
  BY DEF STake, Goto, aux, bounds, IInv, Task,
      TypeOK, LockInv
<1>3. OpenInv'
  BY DEF STake, Goto, aux, bounds, IInv, Task,
      TypeOK, LockInv, OpenInv, StopInv
<1>4. WaitInv'
  BY WaitsAssumption
  DEF STake, Goto, aux, bounds, IInv, Task,
      TypeOK, WaitInv
<1>5. StopInv'
  BY WaitsAssumption
  DEF STake, Goto, aux, bounds, IInv, Task,
      TypeOK, LockInv, OpenInv, WaitInv, StopInv
<1>6. OrderInv'
  BY SizesAssumption
  DEF STake, Goto, aux, bounds, IInv, Task,
      TypeOK, LockInv, OpenInv, OrderInv
<1> QED
  BY <1>1, <1>2, <1>3, <1>4, <1>5, <1>6 DEF IInv

LEMMA STimeoutInv ==
  ASSUME IInv, STimeout, SendWait < StopWait
  PROVE  IInv'
<1>1. TypeOK'
  BY SizesAssumption, WaitsAssumption
  DEF STimeout, Answer, NoRequest, Goto, aux, bounds, IInv, Task,
      TypeOK, LockInv, OpenInv
<1>2. LockInv'
  BY DEF STimeout, Answer, NoRequest, Goto, aux, bounds, IInv, Task,
      TypeOK, LockInv
<1>3. OpenInv'
  BY DEF STimeout, Answer, NoRequest, Goto, aux, bounds, IInv, Task,
      TypeOK, LockInv, OpenInv, StopInv
<1>4. WaitInv'
  BY WaitsAssumption
  DEF STimeout, Answer, NoRequest, Goto, aux, bounds, IInv, Task,
      TypeOK, WaitInv
<1>5. StopInv'
  BY WaitsAssumption
  DEF STimeout, Answer, NoRequest, Goto, aux, bounds, IInv, Task,
      TypeOK, LockInv, OpenInv, WaitInv, StopInv
<1>6. OrderInv'
  BY SizesAssumption
  DEF STimeout, Answer, NoRequest, Goto, aux, bounds, IInv, Task,
      TypeOK, LockInv, OpenInv, OrderInv
<1> QED
  BY <1>1, <1>2, <1>3, <1>4, <1>5, <1>6 DEF IInv

LEMMA SClearInv ==
  ASSUME IInv, SClear, SendWait < StopWait
  PROVE  IInv'
<1>1. TypeOK'
  <2>1. /\ ctx' \in [enabled : BOOLEAN, repeats : Nat, goal : 0 .. MaxRepeats,
                     file : BOOLEAN, conn : BOOLEAN, packetno : Nat]
        /\ ctx'.repeats <= ctx'.goal
    BY SizesAssumption
    DEF SClear, Answer, Waiting, Idle, Goto, aux, bounds, IInv, Task, TypeOK, LockInv, OpenInv
  <2>2. req' \in {NoRequest} \cup [op : {"start"}, repeats : 0 .. MaxRepeats] \cup [op : {"stop"}]
    BY SizesAssumption
    DEF SClear, Answer, Waiting, Idle, Goto, aux, bounds, IInv, Task, TypeOK, LockInv, OpenInv
  <2>3. stopped' \in BOOLEAN
    BY DEF SClear, Answer, Waiting, Idle, IInv, TypeOK
  <2>4. /\ DOMAIN pc' = Task /\ wait' \in [Task -> Nat]
        /\ pc'["dmn"] = pc["dmn"]
        /\ pc'["svc"] \in {"idle", "stop", "clear", "start", "open"}
    BY WaitsAssumption
    DEF SClear, Answer, Waiting, Idle, Goto, aux, bounds, IInv, Task, TypeOK, LockInv, OpenInv
  <2>5. /\ pos' \in 0 .. Blocks /\ lock' \in {"free"} \cup Task
        /\ tx' \in Nat /\ air' = air /\ reqs' \in Nat /\ faults' \in Nat
    BY SizesAssumption
    DEF SClear, Answer, Waiting, Idle, Goto, aux, bounds, IInv, Task, TypeOK, LockInv, OpenInv
  <2> QED
    BY <2>1, <2>2, <2>3, <2>4, <2>5 DEF IInv, TypeOK
<1>2. LockInv'
  BY DEF SClear, Answer, Waiting, Idle, NoRequest, Goto, aux, bounds, IInv, Task,
      TypeOK, LockInv
<1>3. OpenInv'
  BY DEF SClear, Answer, Waiting, Idle, NoRequest, Goto, aux, bounds, IInv, Task,
      TypeOK, LockInv, OpenInv, StopInv
<1>4. WaitInv'
  BY WaitsAssumption
  DEF SClear, Answer, Waiting, Idle, NoRequest, Goto, aux, bounds, IInv, Task,
      TypeOK, WaitInv
<1>5. StopInv'
  BY WaitsAssumption
  DEF SClear, Answer, Waiting, Idle, NoRequest, Goto, aux, bounds, IInv, Task,
      TypeOK, LockInv, OpenInv, WaitInv, StopInv
<1>6. OrderInv'
  BY SizesAssumption
  DEF SClear, Answer, Waiting, Idle, NoRequest, Goto, aux, bounds, IInv, Task,
      TypeOK, LockInv, OpenInv, OrderInv
<1> QED
  BY <1>1, <1>2, <1>3, <1>4, <1>5, <1>6 DEF IInv

LEMMA SBeginInv ==
  ASSUME IInv, SBegin, SendWait < StopWait
  PROVE  IInv'
<1>1. TypeOK'
  <2>1. /\ ctx' \in [enabled : BOOLEAN, repeats : Nat, goal : 0 .. MaxRepeats,
                     file : BOOLEAN, conn : BOOLEAN, packetno : Nat]
        /\ ctx'.repeats <= ctx'.goal
    <3>1. req.repeats \in 0 .. MaxRepeats
      BY DEF SBegin, NoRequest, IInv, TypeOK, OpenInv
    <3>2. ctx.repeats = 0
      BY DEF SBegin, IInv, OpenInv
    <3>3. ctx' = [ctx EXCEPT !.file = TRUE, !.conn = TRUE, !.enabled = TRUE, !.goal = req.repeats]
      BY DEF SBegin
    <3>4. ctx \in [enabled : BOOLEAN, repeats : Nat, goal : 0 .. MaxRepeats,
                   file : BOOLEAN, conn : BOOLEAN, packetno : Nat]
      BY DEF IInv, TypeOK
    <3>5. ctx' \in [enabled : BOOLEAN, repeats : Nat, goal : 0 .. MaxRepeats,
                    file : BOOLEAN, conn : BOOLEAN, packetno : Nat]
      BY <3>1, <3>3, <3>4
    <3>6. ctx'.repeats = 0 /\ ctx'.goal = req.repeats
      BY <3>2, <3>3, <3>4
    <3> QED
      BY <3>1, <3>5, <3>6, SizesAssumption
  <2>2. req' \in {NoRequest} \cup [op : {"start"}, repeats : 0 .. MaxRepeats] \cup [op : {"stop"}]
    BY SizesAssumption
    DEF SBegin, Answer, Goto, aux, bounds, IInv, Task, TypeOK, LockInv, OpenInv
  <2>3. stopped' \in BOOLEAN
    BY DEF SBegin, Answer, IInv, TypeOK
  <2>4. /\ DOMAIN pc' = Task /\ wait' \in [Task -> Nat]
        /\ pc'["dmn"] = pc["dmn"]
        /\ pc'["svc"] \in {"idle", "stop", "clear", "start", "open"}
    BY WaitsAssumption
    DEF SBegin, Answer, Goto, aux, bounds, IInv, Task, TypeOK, LockInv, OpenInv
  <2>5. /\ pos' \in 0 .. Blocks /\ lock' \in {"free"} \cup Task
        /\ tx' \in Nat /\ air' = air /\ reqs' \in Nat /\ faults' \in Nat
    BY SizesAssumption
    DEF SBegin, Answer, Goto, aux, bounds, IInv, Task, TypeOK, LockInv, OpenInv
  <2> QED
    BY <2>1, <2>2, <2>3, <2>4, <2>5 DEF IInv, TypeOK
<1>2. LockInv'
  BY DEF SBegin, Answer, NoRequest, Goto, aux, bounds, IInv, Task,
      TypeOK, LockInv
<1>3. OpenInv'
  BY DEF SBegin, Answer, NoRequest, Goto, aux, bounds, IInv, Task,
      TypeOK, LockInv, OpenInv, StopInv
<1>4. WaitInv'
  BY WaitsAssumption
  DEF SBegin, Answer, NoRequest, Goto, aux, bounds, IInv, Task,
      TypeOK, WaitInv
<1>5. StopInv'
  BY WaitsAssumption
  DEF SBegin, Answer, NoRequest, Goto, aux, bounds, IInv, Task,
      TypeOK, LockInv, OpenInv, WaitInv, StopInv
<1>6. OrderInv'
  BY SizesAssumption
  DEF SBegin, Answer, NoRequest, Goto, aux, bounds, IInv, Task,
      TypeOK, LockInv, OpenInv, OrderInv
<1> QED
  BY <1>1, <1>2, <1>3, <1>4, <1>5, <1>6 DEF IInv

LEMMA SBeginFailsInv ==
  ASSUME IInv, SBeginFails, SendWait < StopWait
  PROVE  IInv'
<1>1. TypeOK'
  BY SizesAssumption, WaitsAssumption
  DEF SBeginFails, Answer, Fault, NoRequest, Goto, aux, bounds, IInv, Task,
      TypeOK, LockInv, OpenInv
<1>2. LockInv'
  BY DEF SBeginFails, Answer, Fault, NoRequest, Goto, aux, bounds, IInv, Task,
      TypeOK, LockInv
<1>3. OpenInv'
  BY DEF SBeginFails, Answer, Fault, NoRequest, Goto, aux, bounds, IInv, Task,
      TypeOK, LockInv, OpenInv, StopInv
<1>4. WaitInv'
  BY WaitsAssumption
  DEF SBeginFails, Answer, Fault, NoRequest, Goto, aux, bounds, IInv, Task,
      TypeOK, WaitInv
<1>5. StopInv'
  BY WaitsAssumption
  DEF SBeginFails, Answer, Fault, NoRequest, Goto, aux, bounds, IInv, Task,
      TypeOK, LockInv, OpenInv, WaitInv, StopInv
<1>6. OrderInv'
  BY SizesAssumption
  DEF SBeginFails, Answer, Fault, NoRequest, Goto, aux, bounds, IInv, Task,
      TypeOK, LockInv, OpenInv, OrderInv
<1> QED
  BY <1>1, <1>2, <1>3, <1>4, <1>5, <1>6 DEF IInv

LEMMA TickInv ==
  ASSUME IInv, Tick, SendWait < StopWait
  PROVE  IInv'
<1>1. TypeOK'
  BY SizesAssumption, WaitsAssumption
  DEF Tick, DaemonWaits, ServiceWaits, Goto, aux, bounds, IInv, Task,
      TypeOK, LockInv, OpenInv
<1>2. LockInv'
  BY DEF Tick, DaemonWaits, ServiceWaits, Goto, aux, bounds, IInv, Task,
      TypeOK, LockInv
<1>3. OpenInv'
  BY DEF Tick, DaemonWaits, ServiceWaits, Goto, aux, bounds, IInv, Task,
      TypeOK, LockInv, OpenInv, StopInv
<1>4. WaitInv'
  BY WaitsAssumption
  DEF Tick, DaemonWaits, ServiceWaits, Goto, aux, bounds, IInv, Task,
      TypeOK, WaitInv
<1>5. StopInv'
  BY WaitsAssumption
  DEF Tick, DaemonWaits, ServiceWaits, Goto, aux, bounds, IInv, Task,
      TypeOK, LockInv, OpenInv, WaitInv, StopInv
<1>6. OrderInv'
  BY SizesAssumption
  DEF Tick, DaemonWaits, ServiceWaits, Goto, aux, bounds, IInv, Task,
      TypeOK, LockInv, OpenInv, OrderInv
<1> QED
  BY <1>1, <1>2, <1>3, <1>4, <1>5, <1>6 DEF IInv

LEMMA InvStep ==
  ASSUME SendWait < StopWait
  PROVE  IInv /\ [Next]_vars => IInv'
<1> SUFFICES ASSUME IInv, [Next]_vars PROVE IInv'
  OBVIOUS
<1>1. CASE Daemon
  BY <1>1, DTakeInv, DPollInv, DCheckInv, DReadInv, DRewindInv, DSendInv, DResumeInv, DWakeInv
  DEF Daemon
<1>2. CASE Service
  BY <1>2, SRefuseInv, SAcceptInv, STakeInv, STimeoutInv, SClearInv, SBeginInv, SBeginFailsInv
  DEF Service
<1>3. CASE Tick
  BY <1>3, TickInv
<1>4. CASE UNCHANGED vars
  <2>1. TypeOK' /\ LockInv' /\ OpenInv'
    BY <1>4 DEF vars, IInv, TypeOK, LockInv, OpenInv
  <2>2. WaitInv' /\ StopInv' /\ OrderInv'
    BY <1>4 DEF vars, IInv, WaitInv, StopInv, OrderInv
  <2> QED
    BY <2>1, <2>2 DEF IInv
<1> QED
  BY <1>1, <1>2, <1>3, <1>4 DEF Next

-----------------------------------------------------------------------------

\* Every variable keeps its type, and no more passes are counted than were
\* asked for (northern_voices.c:58-75).
THEOREM TypeCorrect ==
  ASSUME SendWait < StopWait
  PROVE  Spec => []TypeOK
<1>1. IInv => TypeOK
  BY DEF IInv
<1> QED
  BY <1>1, InvInit, InvStep, PTL DEF Spec

\* The daemon never reads a file or sends over a connection that a stop has
\* closed (northern_voices.c:64-99 against 149-166).
THEOREM ClosedNeverUsed ==
  ASSUME SendWait < StopWait
  PROVE  Spec => []NeverClosed
<1>1. IInv => NeverClosed
  BY DEF IInv, OpenInv, NeverClosed
<1> QED
  BY <1>1, InvInit, InvStep, PTL DEF Spec

\* Only the end of a csp_send changes what is on the air.
LEMMA OnlySendSends ==
  ASSUME [Next]_vars, air' # air
  PROVE  /\ pc["dmn"] = "send" /\ UNCHANGED ctx
         /\ air' = [tx |-> tx, no |-> ctx.packetno - 1, blk |-> pos - 1]
<1>1. ~Service /\ ~Tick /\ ~UNCHANGED vars
  BY DEF Service, SRefuse, SAccept, STake, STimeout, SClear, SBegin, SBeginFails, Tick, aux, vars
<1>2. Daemon
  BY <1>1 DEF Next
<1>3. DSend
  BY <1>2 DEF Daemon, DTake, DPoll, DCheck, DRead, DRewind, DResume, DWake, aux
<1> QED
  BY <1>3 DEF DSend

\* After the answer to a stop nothing is sent until the next start is asked
\* for, also when the stop did not get the mutex: it waited longer than a
\* packet takes (northern_voices.c:145-148).
THEOREM StopIsFinal ==
  ASSUME SendWait < StopWait
  PROVE  Spec => StopHolds
<1>1. IInv /\ [Next]_vars => [stopped => air' = air]_vars
  BY OnlySendSends DEF IInv, StopInv
<1> QED
  BY <1>1, InvInit, InvStep, PTL DEF Spec, StopHolds

\* In whole passes the block follows from the number of the packet.
LEMMA BlockOfPacket ==
  ASSUME NEW B \in Nat \ {0}, NEW k \in Nat, NEW p \in 0 .. B - 1
  PROVE  (k * B + p) % B = p
  OBVIOUS

\* The packets of a transmission come in the order of the blocks, no block
\* skipped or repeated within a pass and no pass too many, whatever was
\* stopped or failed before (northern_voices.c:64-99).
THEOREM TransmitsInOrder ==
  ASSUME SendWait < StopWait
  PROVE  Spec => InOrder
<1> DEFINE Step == /\ air'.blk = air'.no % Blocks
                   /\ air'.no < ctx.goal * Blocks
                   /\ air'.tx = air.tx => air'.no > air.no
<1>1. ASSUME IInv, [Next]_vars, air' # air PROVE Step
  <2>1. pc["dmn"] = "send" /\ ctx.file /\ pos \in 1 .. Blocks
    BY <1>1, OnlySendSends, SizesAssumption DEF IInv, OpenInv, TypeOK
  <2>2. PICK k \in 0 .. ctx.repeats : ctx.packetno = k * Blocks + pos
    BY <1>1, <2>1 DEF IInv, OrderInv
  <2>3. k \in Nat /\ ctx.repeats \in Nat /\ ctx.goal \in Nat /\ Blocks \in Nat \ {0}
    BY <1>1, SizesAssumption DEF IInv, TypeOK
  <2>4. air'.tx = tx /\ air'.no = k * Blocks + (pos - 1) /\ air'.blk = pos - 1
    BY <1>1, <2>1, <2>2, <2>3, OnlySendSends
  <2>5. air'.blk = air'.no % Blocks
    BY <2>1, <2>3, <2>4, BlockOfPacket
  <2>6. air'.no < ctx.goal * Blocks
    <3>1. k + 1 <= ctx.goal
      BY <1>1, <2>1, <2>3 DEF IInv, OpenInv
    <3> DEFINE d == ctx.goal - (k + 1)
    <3>2. d \in Nat /\ ctx.goal = k + 1 + d
      BY <2>3, <3>1
    <3>3. ctx.goal * Blocks = k * Blocks + Blocks + d * Blocks /\ d * Blocks \in Nat
      BY <2>3, <3>2
    <3> QED
      BY <2>1, <2>3, <2>4, <3>3
  <2>7. air'.tx = air.tx => air'.no > air.no
    BY <1>1, <2>1, <2>2, <2>3, <2>4 DEF IInv, OrderInv, TypeOK
  <2> QED
    BY <2>5, <2>6, <2>7
<1>2. IInv /\ [Next]_vars => [air' # air => Step]_vars
  BY <1>1
<1> QED
  BY <1>2, InvInit, InvStep, PTL DEF Spec, InOrder

\* From the stop to the beginning of a start the record is as the stop left it;
\* and so it stays once a start has failed and kept the mutex.
StuckInv ==
  /\ pc["svc"] \in {"start", "open"} => ctx = Idle
  /\ TakenForGood => faults > 0 /\ ctx = Idle

LEMMA StuckStep ==
  ASSUME IInv, StuckInv, [Next]_vars
  PROVE  StuckInv'
<1> USE DEF StuckInv, TakenForGood, IInv, LockInv, TypeOK, Task
<1>1. CASE DTake \/ DPoll \/ DCheck \/ DSend \/ DResume \/ DWake
  BY <1>1 DEF DTake, DPoll, DCheck, DSend, DResume, DWake, Waiting, Goto, Fault, aux, bounds
<1>2. CASE DRead \/ DRewind
  BY <1>2, SizesAssumption DEF OpenInv, DRead, DRewind, Waiting, Goto, Fault, aux, bounds
<1>3. CASE SRefuse \/ SAccept
  BY <1>3 DEF SRefuse, SAccept, Waiting, Goto, aux, bounds, Idle
<1>4. CASE STake \/ STimeout
  BY <1>4 DEF STake, STimeout, Answer, Goto, aux, bounds
<1>5. CASE SClear
  BY <1>5 DEF SClear, Answer, Waiting, Goto, aux, bounds
<1>6. CASE SBegin \/ SBeginFails
  BY <1>6, SizesAssumption DEF SBegin, SBeginFails, Answer, Goto, Fault, aux, bounds
<1>7. CASE Tick \/ UNCHANGED vars
  BY <1>7 DEF Tick, aux, bounds, vars
<1> QED
  BY <1>1, <1>2, <1>3, <1>4, <1>5, <1>6, <1>7 DEF Next, Daemon, Service

\* ctx_mtx is left taken only by a start that failed, and the transmitter is
\* silent from then on, with nothing open (northern_voices.c:123-134).
THEOREM StuckIsSilent ==
  ASSUME SendWait < StopWait
  PROVE  Spec => []SilentWhenStuck
<1>1. Init => StuckInv
  BY DEF Init, StuckInv, TakenForGood
<1>2. IInv /\ StuckInv => SilentWhenStuck
  BY DEF StuckInv, SilentWhenStuck, TakenForGood, IInv, LockInv, TypeOK
<1> QED
  BY <1>1, <1>2, InvInit, InvStep, StuckStep, PTL DEF Spec
=============================================================================
