--------------------------- MODULE NorthernVoices ---------------------------
(***************************************************************************)
(* The Northern Voices transmitter: a file is sent to the ground, block by *)
(* block, a number of times over.                                          *)
(*                                                                         *)
(*  - The DAEMON ("dmn", nv_daemon) sends a block whenever it finds the    *)
(*    transmission enabled, and pauses after each pass over the file.      *)
(*  - The Northern SPIRIT SERVICE ("svc") starts and stops transmissions   *)
(*    for the ground, one request after the other.                         *)
(*                                                                         *)
(* They share the record nv_ctx behind the mutex ctx_mtx, except that a    *)
(* stop clears "enabled" before it has the mutex.  Time passes only while  *)
(* every task waits: each is fast, its waits are what takes seconds.       *)
(***************************************************************************)
EXTENDS Integers

CONSTANTS
  Blocks,       \* how many blocks the file has
  Repeats,      \* numbers of passes the ground may ask for
  MaxRepeats,   \* 10, MAX_NV_REPEATS
  Pause,        \* NV_TIME_BETWEEN_SENDS, 10 s, with the mutex
  Rest,         \* NV_DELAY_WAIT, 5 s
  SendWait,     \* the longest csp_send may take, 1 s
  StopWait,     \* how long a stop waits for the mutex, 5 s
  StartWait,    \* how long a start does, 1 s
  MaxRequests,  \* bound: requests of the ground
  MaxFaults     \* bound: errors

ASSUME SizesAssumption ==
  /\ Blocks \in Nat \ {0} /\ Repeats \subseteq Nat /\ MaxRepeats \in Nat
  /\ MaxRequests \in Nat /\ MaxFaults \in Nat
ASSUME WaitsAssumption ==
  /\ Pause \in Nat /\ Rest \in Nat /\ SendWait \in Nat /\ StopWait \in Nat /\ StartWait \in Nat

VARIABLES
  ctx,      \* nv_ctx
  pos,      \* the position in the file
  lock,     \* ctx_mtx: its holder or "free"
  pc,       \* where each task is
  req,      \* the request the service works on
  wait,     \* how much longer each task may wait
  tx,       \* auxiliary: transmissions started
  air,      \* auxiliary: the last packet sent
  stopped,  \* auxiliary: a stop was answered and no start was requested since
  reqs, faults   \* what is used of the bounds

aux == <<tx, air, stopped>>
bounds == <<reqs, faults>>
vars == <<ctx, pos, lock, pc, req, wait, tx, air, stopped, reqs, faults>>

Goto(t, where) == pc' = [pc EXCEPT ![t] = where]

Waiting(t, where, n) == Goto(t, where) /\ wait' = [wait EXCEPT ![t] = n]

Fault == faults < MaxFaults /\ faults' = faults + 1

-----------------------------------------------------------------------------
(* The daemon.                                                             *)

\* get_lock(ctx, 0); without the mutex it looks again 10 ms later.
DTake ==
  /\ pc["dmn"] = "loop"
  /\ IF lock = "free" THEN lock' = "dmn" /\ Goto("dmn", "check")
     ELSE Goto("dmn", "poll") /\ UNCHANGED lock
  /\ UNCHANGED <<ctx, pos, req, wait, aux, bounds>>

DPoll ==
  /\ pc["dmn"] = "poll" /\ Goto("dmn", "loop")
  /\ UNCHANGED <<ctx, pos, lock, req, wait, aux, bounds>>

Active == ctx.enabled /\ ctx.repeats < ctx.goal

\* Mutant of DCheck: the number of passes is not looked at.
DCheckEnabled ==
  /\ pc["dmn"] = "check"
  /\ IF ctx.enabled THEN Goto("dmn", "read") /\ UNCHANGED <<lock, wait>>
     ELSE lock' = "free" /\ Waiting("dmn", "rest", Rest)
  /\ UNCHANGED <<ctx, pos, req, aux, bounds>>

DCheck ==
  /\ pc["dmn"] = "check"
  /\ IF Active THEN Goto("dmn", "read") /\ UNCHANGED <<lock, wait>>
     ELSE lock' = "free" /\ Waiting("dmn", "rest", Rest)
  /\ UNCHANGED <<ctx, pos, req, aux, bounds>>

\* A block is read and its packet numbered, or the mutex is given and the
\* daemon tries again at once.
DRead ==
  /\ pc["dmn"] = "read"
  /\ \/ /\ pos < Blocks /\ pos' = pos + 1
        /\ ctx' = [ctx EXCEPT !.packetno = @ + 1]
        /\ Waiting("dmn", "send", SendWait) /\ UNCHANGED <<lock, faults>>
     \/ /\ Fault /\ lock' = "free" /\ Goto("dmn", "loop")
        /\ UNCHANGED <<ctx, pos, wait>>
  /\ UNCHANGED <<req, aux, reqs>>

\* The end of the file: the pass is counted and the daemon pauses, with the
\* mutex.  A failed seek leaves the position where it is.
DRewind ==
  /\ pc["dmn"] = "read" /\ pos = Blocks
  /\ \/ pos' = 0 /\ UNCHANGED faults
     \/ Fault /\ UNCHANGED pos
  /\ ctx' = [ctx EXCEPT !.repeats = @ + 1]
  /\ Waiting("dmn", "pause", Pause)
  /\ UNCHANGED <<lock, req, aux, reqs>>

\* csp_send returns: the packet is on the air, or it is freed.
DSend ==
  /\ pc["dmn"] = "send" /\ Goto("dmn", "loop") /\ lock' = "free"
  /\ \/ air' = [tx |-> tx, no |-> ctx.packetno - 1, blk |-> pos - 1] /\ UNCHANGED faults
     \/ Fault /\ UNCHANGED air
  /\ UNCHANGED <<ctx, pos, req, wait, tx, stopped, reqs>>

\* Mutant of DResume: the mutex is not given.
DResumeLocked ==
  /\ pc["dmn"] = "pause" /\ wait["dmn"] = 0
  /\ Goto("dmn", "loop")
  /\ UNCHANGED <<ctx, pos, lock, req, wait, aux, bounds>>

DResume ==
  /\ pc["dmn"] = "pause" /\ wait["dmn"] = 0
  /\ Goto("dmn", "loop") /\ lock' = "free"
  /\ UNCHANGED <<ctx, pos, req, wait, aux, bounds>>

DWake ==
  /\ pc["dmn"] = "rest" /\ wait["dmn"] = 0
  /\ Goto("dmn", "loop")
  /\ UNCHANGED <<ctx, pos, lock, req, wait, aux, bounds>>

Daemon == DTake \/ DPoll \/ DCheck \/ DRead \/ DRewind \/ DSend \/ DResume \/ DWake

-----------------------------------------------------------------------------
(* The service.                                                            *)

NoRequest == [op |-> "none"]

Answer(ok) ==
  /\ Goto("svc", "idle") /\ req' = NoRequest
  /\ stopped' = (req.op = "stop" \/ stopped)

\* NV_START_TRANSMIT with too many passes.
SRefuse ==
  /\ pc["svc"] = "idle" /\ reqs < MaxRequests /\ reqs' = reqs + 1
  /\ \E n \in Repeats : n > MaxRepeats
  /\ UNCHANGED <<ctx, pos, lock, pc, req, wait, aux, faults>>

\* Mutant of SAccept: the transmission is disabled with the mutex only.
SAcceptPolite ==
  /\ pc["svc"] = "idle" /\ reqs < MaxRequests /\ reqs' = reqs + 1
  /\ req' \in [op : {"start"}, repeats : {n \in Repeats : n <= MaxRepeats}] \cup [op : {"stop"}]
  /\ stopped' = (req'.op = "stop" /\ stopped)
  /\ Waiting("svc", "stop", StopWait)
  /\ UNCHANGED <<ctx, pos, lock, tx, air, faults>>

\* NV_START_TRANSMIT or NV_STOP_TRANSMIT; either stops first, and disables the
\* transmission before it has the mutex.
SAccept ==
  /\ pc["svc"] = "idle" /\ reqs < MaxRequests /\ reqs' = reqs + 1
  /\ req' \in [op : {"start"}, repeats : {n \in Repeats : n <= MaxRepeats}] \cup [op : {"stop"}]
  /\ stopped' = (req'.op = "stop" /\ stopped)
  /\ ctx' = [ctx EXCEPT !.enabled = FALSE]
  /\ Waiting("svc", "stop", StopWait)
  /\ UNCHANGED <<pos, lock, tx, air, faults>>

\* Mutant of STake: the mutex is not waited for.
STakeAnyway ==
  /\ pc["svc"] \in {"stop", "start"}
  /\ lock' = "svc" /\ Goto("svc", IF pc["svc"] = "stop" THEN "clear" ELSE "open")
  /\ UNCHANGED <<ctx, pos, req, wait, aux, bounds>>

STake ==
  /\ pc["svc"] \in {"stop", "start"} /\ lock = "free"
  /\ lock' = "svc" /\ Goto("svc", IF pc["svc"] = "stop" THEN "clear" ELSE "open")
  /\ UNCHANGED <<ctx, pos, req, wait, aux, bounds>>

STimeout ==
  /\ pc["svc"] \in {"stop", "start"} /\ lock # "free" /\ wait["svc"] = 0
  /\ Answer(FALSE)
  /\ UNCHANGED <<ctx, pos, lock, wait, tx, air, bounds>>

Idle == [enabled |-> FALSE, repeats |-> 0, goal |-> 0, file |-> FALSE, conn |-> FALSE,
         packetno |-> 0]

\* Mutant of SClear: the packets are numbered on.
SClearSome ==
  /\ pc["svc"] = "clear"
  /\ ctx' = [Idle EXCEPT !.packetno = ctx.packetno] /\ lock' = "free"
  /\ IF req.op = "start"
     THEN Waiting("svc", "start", StartWait) /\ UNCHANGED <<req, stopped>>
     ELSE Answer(TRUE) /\ UNCHANGED wait
  /\ UNCHANGED <<pos, tx, air, bounds>>

\* Mutant of SClear: a stop that the ground asked for keeps the mutex.
SClearKeeps ==
  /\ pc["svc"] = "clear"
  /\ ctx' = Idle
  /\ IF req.op = "start"
     THEN lock' = "free" /\ Waiting("svc", "start", StartWait) /\ UNCHANGED <<req, stopped>>
     ELSE Answer(TRUE) /\ UNCHANGED <<lock, wait>>
  /\ UNCHANGED <<pos, tx, air, bounds>>

\* The rest of stop_nv_transmit: the connection and the file are closed.
SClear ==
  /\ pc["svc"] = "clear"
  /\ ctx' = Idle /\ lock' = "free"
  /\ IF req.op = "start"
     THEN Waiting("svc", "start", StartWait) /\ UNCHANGED <<req, stopped>>
     ELSE Answer(TRUE) /\ UNCHANGED wait
  /\ UNCHANGED <<pos, tx, air, bounds>>

\* red_open, csp_connect: the transmission begins.
SBegin ==
  /\ pc["svc"] = "open" /\ lock' = "free"
  /\ ctx' = [ctx EXCEPT !.file = TRUE, !.conn = TRUE, !.enabled = TRUE, !.goal = req.repeats]
  /\ pos' = 0 /\ tx' = tx + 1
  /\ Answer(TRUE)
  /\ UNCHANGED <<wait, air, bounds>>

\* red_open or csp_connect fails: the service returns with the mutex.
SBeginFails ==
  /\ pc["svc"] = "open" /\ Fault
  /\ Answer(FALSE)
  /\ UNCHANGED <<ctx, pos, lock, wait, tx, air, reqs>>

Service == SRefuse \/ SAccept \/ STake \/ STimeout \/ SClear \/ SBegin \/ SBeginFails

-----------------------------------------------------------------------------
\* Whether a task waits, and may wait longer.
DaemonWaits == pc["dmn"] = "poll" \/ (pc["dmn"] \in {"send", "pause", "rest"} /\ wait["dmn"] > 0)
ServiceWaits == pc["svc"] = "idle" \/ (pc["svc"] \in {"stop", "start"} /\ lock # "free" /\ wait["svc"] > 0)

Tick ==
  /\ DaemonWaits /\ ServiceWaits
  /\ wait' = [t \in {"dmn", "svc"} |-> IF wait[t] > 0 THEN wait[t] - 1 ELSE 0]
  /\ wait' # wait
  /\ UNCHANGED <<ctx, pos, lock, pc, req, aux, bounds>>

Init ==
  /\ ctx = Idle /\ pos = 0 /\ lock = "free"
  /\ pc = [dmn |-> "loop", svc |-> "idle"] /\ req = NoRequest
  /\ wait = [dmn |-> 0, svc |-> 0]
  /\ tx = 0 /\ air = [tx |-> 0, no |-> 0, blk |-> 0] /\ stopped = FALSE
  /\ reqs = 0 /\ faults = 0

Next == Daemon \/ Service \/ Tick

\* FreeRTOS shares the processor between the two tasks of equal priority, and
\* time passes.
Spec == Init /\ [][Next]_vars /\ WF_vars(Daemon) /\ WF_vars(Tick)
-----------------------------------------------------------------------------
(* Properties.                                                             *)

Task == {"dmn", "svc"}

\* Every variable keeps its type; no more passes are counted than were asked
\* for.
TypeOK ==
  /\ ctx \in [enabled : BOOLEAN, repeats : Nat, goal : 0 .. MaxRepeats, file : BOOLEAN,
              conn : BOOLEAN, packetno : Nat]
  /\ ctx.repeats <= ctx.goal
  /\ pos \in 0 .. Blocks /\ lock \in {"free"} \cup Task
  /\ DOMAIN pc = Task
  /\ pc["dmn"] \in {"loop", "poll", "check", "read", "send", "pause", "rest"}
  /\ pc["svc"] \in {"idle", "stop", "clear", "start", "open"}
  /\ req \in {NoRequest} \cup [op : {"start"}, repeats : 0 .. MaxRepeats] \cup [op : {"stop"}]
  /\ wait \in [Task -> Nat]
  /\ tx \in Nat /\ air \in [tx : Nat, no : Nat, blk : Nat] /\ stopped \in BOOLEAN
  /\ reqs \in Nat /\ faults \in Nat

\* The daemon never reads a closed file nor sends over a closed connection,
\* although a stop may fall anywhere into its work: what it found enabled
\* stays open until it gives the mutex.
NeverClosed == pc["dmn"] \in {"read", "send"} => ctx.file /\ ctx.conn

\* The packets of a transmission are numbered in the order of the blocks of the
\* file, from 0 on, over as many passes as were asked for; a stop in between
\* and failures leave no trace in the next transmission.
InOrder ==
  [][air' # air =>
       /\ air'.blk = air'.no % Blocks
       /\ air'.no < ctx.goal * Blocks
       /\ air'.tx = air.tx => air'.no > air.no]_vars

\* When a stop was answered, successfully or not, nothing is sent until a start
\* is asked for.
StopHolds == [][stopped => air' = air]_vars

TakenForGood == lock = "svc" /\ pc["svc"] \notin {"clear", "open"}

\* ctx_mtx is only ever left taken by a start that failed (northern_voices.c:
\* 123-134), and then nothing is enabled or open any more and the daemon is
\* not at work: the transmitter that no request can reach is silent.
SilentWhenStuck ==
  TakenForGood => faults > 0 /\ ctx = Idle /\ pc["dmn"] \in {"loop", "poll", "rest"}

\* "Quick hack to make it not go forever": a transmission comes to its end.
TransmissionEnds == Active ~> ~Active
=============================================================================
