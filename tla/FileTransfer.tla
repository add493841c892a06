---------------------------- MODULE FileTransfer ----------------------------
(***************************************************************************)
(* File transfer between the ground and the on-board computer.             *)
(*                                                                         *)
(*  - The file transfer SERVICE (ftp.c) receives one upload at a time,     *)
(*    block by block, into a file, and answers every request; it sends     *)
(*    files down in bursts, over CSP or through a queue of buffers.        *)
(*  - The S-band SENDER (sband_sender.c) takes the buffers from that queue,*)
(*    radios them and frees them.                                          *)
(*  - The GROUND sends a request, waits for its answer, and repeats the    *)
(*    request or starts the upload again when none comes.  Requests and    *)
(*    answers may be lost, and a request given up may still be served.     *)
(*  - The OTHER tasks open and close files of their own.                   *)
(*                                                                         *)
(* The record of the upload is in memory only.  Reliance Edge hands out    *)
(* file descriptors that are indices of a table, the lowest free one       *)
(* first: a descriptor that was closed may be somebody else's the next     *)
(* moment.  A file is the sequence of its blocks, of which the last is     *)
(* shorter than the block size, perhaps empty.                             *)
(***************************************************************************)
EXTENDS Integers, Sequences, FiniteSets

CONSTANTS
  Uploads,      \* request identifiers of the uploads
  Size,         \* how many blocks each has
  Target,       \* the file each goes to
  Bursts,       \* the downloads the ground may ask for
  Handles,      \* REDCONF_HANDLE_COUNT, the size of the table of open files
  Buffers,      \* buffers the heap has room for
  QueueLength,  \* 10, the length of send_queue
  InboxLength,  \* bound: requests waiting for the service
  MaxRequests,  \* bound: requests of the ground
  MaxTroubles   \* bound: kinds of errors, and resets of the computer

Files == {Target[r] : r \in Uploads}
Burst == [file : Files, skip : Nat, count : Nat, sband : BOOLEAN]

ASSUME UploadsAssumption ==
  /\ Uploads \subseteq Nat \ {0} /\ Size \in [Uploads -> Nat \ {0}]
  /\ DOMAIN Target = Uploads
  /\ \A r \in Uploads : Target[r] \notin {"free", "other"}
ASSUME BurstsAssumption == Bursts \subseteq Burst
ASSUME LimitsAssumption ==
  /\ Handles \in Nat \ {0} /\ QueueLength \in Nat \ {0} /\ InboxLength \in Nat \ {0}
  /\ IsFiniteSet(Buffers) /\ 0 \notin Buffers
  /\ MaxRequests \in Nat /\ MaxTroubles \in Nat

VARIABLES
  vol,      \* the files of the volume: those that exist, with their blocks
  disk,     \* the same at the last transaction point
  handle,   \* gaHandle: the file each handle is open on
  ofd,      \* the descriptor another task holds, 0 for none
  rec,      \* current_upload
  pc,       \* where the service is
  cur,      \* the request it works on, its descriptor and its status
  inbox,    \* requests on their way to the service
  gr,       \* what the ground knows of its upload
  burst,    \* where the service is in a download
  heap,     \* what each allocated buffer holds
  queue,    \* send_queue
  snd,      \* the sender: its state and buffer
  air,      \* auxiliary: the last block radioed
  reqs, faults, resets   \* what is used of the bounds; faults is a set of kinds

volume == <<vol, disk, handle>>
downlink == <<heap, queue, snd, air>>
bounds == <<reqs, faults, resets>>
vars == <<vol, disk, handle, ofd, rec, pc, cur, inbox, gr, burst, heap, queue, snd, air,
          reqs, faults, resets>>

-----------------------------------------------------------------------------
(* Files and descriptors.                                                  *)

Hole == <<0, 0>>

\* What a buffer that is not allocated holds.
NoData == [req |-> 0, blk |-> 0, last |-> FALSE]

Fault(kind) ==
  /\ kind \in faults \/ Cardinality(faults) + resets < MaxTroubles
  /\ faults' = faults \cup {kind}

Open(fd) == fd \in 1 .. Handles /\ handle[fd] # "free"

\* The handle red_open takes: the first that is free.
Lowest(fd) == ~Open(fd) /\ \A lower \in 1 .. fd - 1 : Open(lower)

\* A file with n blocks: what it held and holes.
Resized(s, n) == [k \in 1 .. n |-> IF k <= Len(s) THEN s[k] ELSE Hole]

\* red_write at the block after the first k; a gap reads as zeros.
Put(s, k, b) ==
  [i \in 1 .. (IF k + 1 > Len(s) THEN k + 1 ELSE Len(s)) |->
     IF i = k + 1 THEN b ELSE IF i <= Len(s) THEN s[i] ELSE Hole]

\* red_close: nothing on a descriptor that is not open; otherwise a transaction
\* point, or an error after which the handle stays open.
CloseFile(fd) ==
  \/ ~Open(fd) /\ UNCHANGED <<disk, handle, faults>>
  \/ Open(fd) /\ disk' = vol /\ handle' = [handle EXCEPT ![fd] = "free"] /\ UNCHANGED faults
  \/ Open(fd) /\ Fault("close") /\ UNCHANGED <<disk, handle>>

-----------------------------------------------------------------------------
(* The ground.                                                             *)

NoRequest == [live |-> FALSE, q |-> [op |-> "none"], fd |-> 0, ok |-> TRUE]

\* Sends a request, which may be lost, and waits for the answer.
Ask(q) ==
  /\ ~gr.waiting /\ Len(inbox) < InboxLength
  /\ reqs < MaxRequests /\ reqs' = reqs + 1
  /\ inbox' \in {inbox, Append(inbox, [live |-> TRUE, q |-> q])}
  /\ UNCHANGED <<volume, ofd, rec, pc, cur, burst, downlink, faults, resets>>

\* START_UPLOAD: from the first block, or from the first not yet acknowledged.
GStart ==
  \E r \in Uploads :
    LET acked == IF r = gr.req THEN gr.acked ELSE 0
    IN  \E skip \in {0, acked} :
          /\ Ask([op |-> "start", req |-> r, skip |-> skip])
          /\ gr' = [gr EXCEPT !.req = r, !.acked = acked, !.mode = "start", !.waiting = TRUE]

\* UPLOAD_PACKET: the block after the acknowledged ones.
GPacket ==
  /\ gr.mode = "send"
  /\ Ask([op |-> "packet", req |-> gr.req, count |-> gr.acked])
  /\ gr' = [gr EXCEPT !.waiting = TRUE]

GBurst ==
  /\ \E b \in Bursts : Ask([op |-> "burst", id |-> reqs + 1, want |-> b])
  /\ gr' = [gr EXCEPT !.waiting = TRUE]

\* No answer: a request that was not lost is still served.
GGiveUp ==
  /\ gr.waiting /\ gr' = [gr EXCEPT !.waiting = FALSE]
  /\ inbox' = [i \in DOMAIN inbox |-> [inbox[i] EXCEPT !.live = FALSE]]
  /\ cur' = [cur EXCEPT !.live = FALSE]
  /\ UNCHANGED <<volume, ofd, rec, pc, burst, downlink, bounds>>

\* What the ground makes of the answer to request q.
Answered(q, ok) ==
  LET g == [gr EXCEPT !.waiting = FALSE]
  IN  IF ~ok \/ q.op = "burst" THEN g
      ELSE IF q.op = "start"
      THEN [g EXCEPT !.mode = "send", !.acked = q.skip, !.clean = q.skip = 0 \/ @]
      ELSE IF q.count + 1 < Size[q.req] THEN [g EXCEPT !.acked = @ + 1]
      ELSE [g EXCEPT !.acked = 0, !.mode = "done"]

Ground == GStart \/ GPacket \/ GBurst \/ GGiveUp

-----------------------------------------------------------------------------
(* The service: FTP_app.                                                   *)

NoUpload == [req |-> 0, count |-> 0, fd |-> 0]
NoBurst == [left |-> 0, blk |-> 0, buf |-> 0]

\* csp_accept, csp_read and the dispatch.
Accept ==
  /\ pc = "idle" /\ inbox # << >>
  /\ LET m == Head(inbox)
     IN  pc' = m.q.op /\ cur' = [live |-> m.live, q |-> m.q, fd |-> 0, ok |-> TRUE]
  /\ inbox' = Tail(inbox)
  /\ UNCHANGED <<volume, ofd, rec, gr, burst, downlink, bounds>>

\* The answer, which may be lost.
Reply ==
  /\ pc = "reply" /\ pc' = "idle" /\ cur' = NoRequest
  /\ gr' \in {gr} \cup (IF cur.live THEN {Answered(cur.q, cur.ok)} ELSE {})
  /\ UNCHANGED <<volume, ofd, rec, inbox, burst, downlink, bounds>>

(* START_UPLOAD.                                                           *)

\* The file of an upload that was not finished is closed.
StartCloses ==
  /\ pc = "start" /\ pc' = "open"
  /\ IF rec.fd # 0 THEN CloseFile(rec.fd) ELSE UNCHANGED <<disk, handle, faults>>
  /\ rec' = [rec EXCEPT !.fd = 0]
  /\ UNCHANGED <<vol, ofd, cur, inbox, gr, burst, downlink, reqs, resets>>

\* red_open(fname, RED_O_CREAT | RED_O_RDWR); creating is a transaction point.
StartOpens ==
  /\ pc = "open"
  /\ LET f == Target[cur.q.req]
     IN  \/ \E fd \in 1 .. Handles :
              /\ Lowest(fd) /\ handle' = [handle EXCEPT ![fd] = f]
              /\ cur' = [cur EXCEPT !.fd = fd] /\ pc' = "truncate"
              /\ vol' = IF f \in DOMAIN vol THEN vol
                        ELSE [g \in DOMAIN vol \cup {f} |-> IF g = f THEN << >> ELSE vol[g]]
              /\ disk' = IF f \in DOMAIN vol THEN disk ELSE vol'
              /\ UNCHANGED faults
         \/ /\ IF \A fd \in 1 .. Handles : Open(fd) THEN UNCHANGED faults ELSE Fault("open")
            /\ cur' = [cur EXCEPT !.ok = FALSE] /\ pc' = "reply"
            /\ UNCHANGED volume
  /\ UNCHANGED <<ofd, rec, inbox, gr, burst, downlink, reqs, resets>>

\* red_ftruncate; when it fails the file is closed and used all the same.
StartTruncates ==
  /\ pc = "truncate" /\ pc' = "stat"
  /\ \/ /\ Open(cur.fd)
        /\ vol' = [vol EXCEPT ![handle[cur.fd]] = Resized(@, Size[cur.q.req])]
        /\ UNCHANGED <<disk, handle, cur, faults>>
     \/ /\ UNCHANGED vol
        /\ IF Open(cur.fd)
           THEN Fault("truncate") /\ disk' = vol /\ handle' = [handle EXCEPT ![cur.fd] = "free"]
           ELSE UNCHANGED <<disk, handle, faults>>
        /\ cur' = [cur EXCEPT !.ok = FALSE]
  /\ UNCHANGED <<ofd, rec, inbox, gr, burst, downlink, reqs, resets>>

\* The record is filled in, then red_fstat tells whether the file is good.
StartRecords ==
  /\ pc = "stat"
  /\ \/ /\ Open(cur.fd) /\ UNCHANGED faults
        /\ rec' = [req |-> cur.q.req, count |-> cur.q.skip, fd |-> cur.fd]
        /\ cur' = [cur EXCEPT !.fd = 0] /\ pc' = "reply"
     \/ /\ IF Open(cur.fd) THEN Fault("stat") ELSE UNCHANGED faults
        /\ rec' = [req |-> cur.q.req, count |-> cur.q.skip, fd |-> 0]
        /\ cur' = [cur EXCEPT !.ok = FALSE] /\ pc' = "close"
  /\ UNCHANGED <<volume, ofd, inbox, gr, burst, downlink, reqs, resets>>

(* UPLOAD_PACKET.                                                          *)

\* Mutant of PacketAccepted: the block number is not compared.
AnyCount == IF cur.q.req = rec.req THEN "write" ELSE "reply"

PacketAccepted == IF cur.q.req = rec.req /\ cur.q.count = rec.count THEN "write" ELSE "reply"

\* The request and the block number must be those expected; then red_lseek.
\* When that fails the file is closed and written to all the same.
PacketChecks ==
  /\ pc = "packet" /\ pc' = PacketAccepted
  /\ IF pc' = "reply"
     THEN cur' = [cur EXCEPT !.ok = FALSE] /\ UNCHANGED <<disk, handle, rec, faults>>
     ELSE \/ /\ Open(rec.fd) /\ cur' = [cur EXCEPT !.fd = rec.fd]
             /\ UNCHANGED <<disk, handle, rec, faults>>
          \/ /\ cur' = [cur EXCEPT !.fd = rec.fd, !.ok = FALSE]
             /\ rec' = [rec EXCEPT !.fd = 0]
             /\ IF Open(rec.fd)
                THEN Fault("seek") /\ disk' = vol /\ handle' = [handle EXCEPT ![rec.fd] = "free"]
                ELSE UNCHANGED <<disk, handle, faults>>
  /\ UNCHANGED <<vol, ofd, inbox, gr, burst, downlink, reqs, resets>>

\* red_write, at the position of the handle: whatever of the block could be
\* written counts as the block.
PacketWrites ==
  /\ pc = "write" /\ Open(cur.fd)
  /\ LET q == cur.q
         f == handle[cur.fd]
         at == IF f \in Files THEN rec.count ELSE 0
     IN  /\ \/ /\ vol' = [vol EXCEPT ![f] = Put(@, at, <<q.req, q.count>>)] /\ UNCHANGED faults
            \/ Fault("short") /\ vol' = [vol EXCEPT ![f] = Put(@, at, Hole)]
         /\ IF q.count + 1 = Size[q.req]
            THEN rec' = NoUpload /\ pc' = "close" /\ UNCHANGED cur
            ELSE /\ rec' = [rec EXCEPT !.count = @ + 1] /\ pc' = "reply"
                 /\ cur' = [cur EXCEPT !.fd = 0]
  /\ UNCHANGED <<disk, handle, ofd, inbox, gr, burst, downlink, reqs, resets>>

\* Mutant of PacketFails: the record keeps the descriptor.
PacketFailsOpen ==
  /\ pc = "write" /\ pc' = "close"
  /\ IF Open(cur.fd) THEN Fault("write") ELSE UNCHANGED faults
  /\ cur' = [cur EXCEPT !.ok = FALSE]
  /\ UNCHANGED <<volume, ofd, rec, inbox, gr, burst, downlink, reqs, resets>>

PacketFails ==
  /\ pc = "write" /\ pc' = "close"
  /\ IF Open(cur.fd) THEN Fault("write") ELSE UNCHANGED faults
  /\ rec' = [rec EXCEPT !.fd = 0] /\ cur' = [cur EXCEPT !.ok = FALSE]
  /\ UNCHANGED <<volume, ofd, inbox, gr, burst, downlink, reqs, resets>>

\* red_close at the end of a handler, its result ignored.
Close ==
  /\ pc = "close" /\ pc' = "reply"
  /\ CloseFile(cur.fd) /\ cur' = [cur EXCEPT !.fd = 0]
  /\ UNCHANGED <<vol, ofd, rec, inbox, gr, burst, downlink, reqs, resets>>

(* BURST_DOWNLOAD.                                                         *)

\* The file is opened, looked at, closed and opened again to be read.
BurstOpens ==
  /\ pc = "burst"
  /\ LET want == cur.q.want
     IN  \/ \E fd \in 1 .. Handles :
              /\ want.file \in DOMAIN vol /\ Lowest(fd)
              /\ disk' = vol /\ handle' = [handle EXCEPT ![fd] = want.file]
              /\ cur' = [cur EXCEPT !.fd = fd] /\ pc' = "block"
              /\ burst' = [left |-> want.count, blk |-> want.skip, buf |-> 0]
              /\ UNCHANGED faults
         \/ /\ IF want.file \notin DOMAIN vol \/ (\A fd \in 1 .. Handles : Open(fd))
               THEN UNCHANGED faults ELSE Fault("open")
            /\ cur' = [cur EXCEPT !.ok = FALSE] /\ pc' = "reply"
            /\ UNCHANGED <<disk, handle, burst>>
  /\ UNCHANGED <<vol, ofd, rec, inbox, gr, downlink, reqs, resets>>

LastBlock == Open(cur.fd) => burst.blk + 1 >= Len(vol[handle[cur.fd]])

\* A buffer is allocated, or not in twenty attempts; its block is read.  A
\* short block and one that cannot be read are the last.
BurstReads ==
  /\ pc = "block" /\ burst.left > 0
  /\ \/ \E b \in Buffers, last \in BOOLEAN :
          /\ IF last = LastBlock THEN UNCHANGED faults ELSE last /\ Fault("read")
          /\ heap[b] = NoData
          /\ heap' = [heap EXCEPT ![b] = [req |-> cur.q.id, blk |-> burst.blk, last |-> last]]
          /\ burst' = [burst EXCEPT !.left = @ - 1, !.buf = b]
          /\ pc' = "transmit"
     \/ /\ Fault("memory") /\ pc' = "close"
        /\ UNCHANGED <<heap, burst>>
  /\ UNCHANGED <<volume, ofd, rec, cur, inbox, gr, queue, snd, air, reqs, resets>>

Ended == heap[burst.buf].last

\* Mutant of NextBlock: the number stays.
BlockStays ==
  /\ pc' = IF Ended THEN "close" ELSE "block"
  /\ burst' = [burst EXCEPT !.buf = 0]

\* After the block with status -1 the loop ends, otherwise the number advances.
NextBlock ==
  /\ pc' = IF Ended THEN "close" ELSE "block"
  /\ burst' = [burst EXCEPT !.blk = IF Ended THEN @ ELSE @ + 1, !.buf = 0]

\* Mutant of BurstQueues: the queue is not looked at.
QueuesAlways ==
  /\ pc = "transmit" /\ cur.q.want.sband
  /\ queue' = Append(queue, burst.buf)
  /\ NextBlock
  /\ UNCHANGED <<volume, ofd, rec, cur, inbox, gr, heap, snd, air, bounds>>

\* sband_send_data waits a second for room in the queue.
BurstQueues ==
  /\ pc = "transmit" /\ cur.q.want.sband
  /\ Len(queue) < QueueLength /\ queue' = Append(queue, burst.buf)
  /\ NextBlock
  /\ UNCHANGED <<volume, ofd, rec, cur, inbox, gr, heap, snd, air, bounds>>

\* It gives up; "The sender thread will free this pointer", the service takes
\* it for granted, and nobody does.
BurstLeaks ==
  /\ pc = "transmit" /\ cur.q.want.sband
  /\ Len(queue) = QueueLength /\ Fault("full")
  /\ NextBlock
  /\ UNCHANGED <<volume, ofd, rec, cur, inbox, gr, downlink, reqs, resets>>

BurstSends ==
  /\ pc = "transmit" /\ ~cur.q.want.sband
  /\ heap' = [heap EXCEPT ![burst.buf] = NoData]
  /\ NextBlock
  /\ UNCHANGED <<volume, ofd, rec, cur, inbox, gr, queue, snd, air, bounds>>

BurstEnds ==
  /\ pc = "block" /\ burst.left = 0 /\ pc' = "close"
  /\ UNCHANGED <<volume, ofd, rec, cur, inbox, gr, burst, downlink, bounds>>

Service ==
  \/ Accept \/ Reply \/ Close
  \/ StartCloses \/ StartOpens \/ StartTruncates \/ StartRecords
  \/ PacketChecks \/ PacketWrites \/ PacketFails
  \/ BurstOpens \/ BurstReads \/ BurstQueues \/ BurstLeaks \/ BurstSends \/ BurstEnds

-----------------------------------------------------------------------------
(* The sender: sband_sender.                                               *)

\* WAITING: xQueuePeek, sdr_sband_tx_start.
SenderStarts ==
  /\ snd.state = "waiting" /\ queue # << >>
  /\ snd' = [snd EXCEPT !.state = "sending"]
  /\ UNCHANGED <<volume, ofd, rec, pc, cur, inbox, gr, burst, heap, queue, air, bounds>>

\* SENDING: xQueueReceive.  It is the only reader, so what it peeked at is there.
SenderTakes ==
  /\ snd.state = "sending" /\ queue # << >>
  /\ snd' = [state |-> "radio", buf |-> Head(queue)] /\ queue' = Tail(queue)
  /\ UNCHANGED <<volume, ofd, rec, pc, cur, inbox, gr, burst, heap, air, bounds>>

\* Mutant of SenderRadios: the buffer is not freed.
SenderKeeps ==
  /\ snd.state = "radio"
  /\ air' = heap[snd.buf] /\ snd' = [state |-> "waiting", buf |-> 0]
  /\ UNCHANGED <<volume, ofd, rec, pc, cur, inbox, gr, burst, heap, queue, bounds>>

\* sdr_sband_tx, vPortFree, and on into ENDING: sdr_sband_tx_stop.
SenderRadios ==
  /\ snd.state = "radio"
  /\ air' = heap[snd.buf] /\ heap' = [heap EXCEPT ![snd.buf] = NoData]
  /\ snd' = [state |-> "waiting", buf |-> 0]
  /\ UNCHANGED <<volume, ofd, rec, pc, cur, inbox, gr, burst, queue, bounds>>

Sender == SenderStarts \/ SenderTakes \/ SenderRadios

-----------------------------------------------------------------------------
(* The rest of the computer.                                               *)

OtherOpens ==
  /\ ofd = 0 /\ \E fd \in 1 .. Handles :
       Lowest(fd) /\ ofd' = fd /\ handle' = [handle EXCEPT ![fd] = "other"]
  /\ UNCHANGED <<vol, disk, rec, pc, cur, inbox, gr, burst, downlink, bounds>>

OtherCloses ==
  /\ ofd # 0 /\ ofd' = 0
  /\ IF Open(ofd) THEN disk' = vol /\ handle' = [handle EXCEPT ![ofd] = "free"]
     ELSE UNCHANGED <<disk, handle>>
  /\ UNCHANGED <<vol, rec, pc, cur, inbox, gr, burst, downlink, bounds>>

Reset ==
  /\ Cardinality(faults) + resets < MaxTroubles /\ resets' = resets + 1
  /\ vol' = disk /\ handle' = [fd \in 1 .. Handles |-> "free"] /\ ofd' = 0
  /\ rec' = NoUpload /\ pc' = "idle" /\ cur' = NoRequest /\ inbox' = << >>
  /\ gr' = [gr EXCEPT !.clean = @ /\ gr.mode = "done"]
  /\ burst' = NoBurst /\ heap' = [b \in Buffers |-> NoData] /\ queue' = << >>
  /\ snd' = [state |-> "waiting", buf |-> 0]
  /\ UNCHANGED <<disk, air, reqs, faults>>

-----------------------------------------------------------------------------
Init ==
  /\ vol = [f \in {"other"} |-> << >>] /\ disk = vol
  /\ handle = [fd \in 1 .. Handles |-> "free"] /\ ofd = 0
  /\ rec = NoUpload /\ pc = "idle" /\ cur = NoRequest /\ inbox = << >>
  /\ gr = [req |-> 0, acked |-> 0, mode |-> "idle", waiting |-> FALSE, clean |-> FALSE]
  /\ burst = NoBurst /\ heap = [b \in Buffers |-> NoData] /\ queue = << >>
  /\ snd = [state |-> "waiting", buf |-> 0] /\ air = NoData
  /\ reqs = 0 /\ faults = {} /\ resets = 0

Next == Ground \/ Service \/ Sender \/ OtherOpens \/ OtherCloses \/ Reset

Spec == Init /\ [][Next]_vars
-----------------------------------------------------------------------------
(* Properties.                                                             *)

Volume == {"other"} \cup Files
Blocks == {Hole} \cup (Uploads \X Nat)
IsVolume(v) == DOMAIN v \subseteq Volume /\ v \in [DOMAIN v -> Seq(Blocks)]

Request == [op : {"start"}, req : Uploads, skip : Nat]
  \cup [op : {"packet"}, req : Uploads, count : Nat] \cup [op : {"burst"}, id : Nat, want : Bursts]
Kinds == {"open", "truncate", "stat", "seek", "write", "short", "close", "read", "memory",
          "full"}
Datum == [req : Nat, blk : Nat, last : BOOLEAN]

\* Every variable keeps its type: whatever descriptors are mixed up, none is
\* out of the table, and the queue never holds more than it can.
TypeOK ==
  /\ IsVolume(vol) /\ IsVolume(disk)
  /\ handle \in [1 .. Handles -> {"free"} \cup Volume] /\ ofd \in 0 .. Handles
  /\ rec \in [req : {0} \cup Uploads, count : Nat, fd : 0 .. Handles]
  /\ pc \in {"idle", "reply", "start", "open", "truncate", "stat", "packet", "write", "close",
             "burst", "block", "transmit"}
  /\ cur \in {NoRequest} \cup [live : BOOLEAN, q : Request, fd : 0 .. Handles, ok : BOOLEAN]
  /\ inbox \in Seq([live : BOOLEAN, q : Request])
  /\ gr \in [req : {0} \cup Uploads, acked : Nat, mode : {"idle", "start", "send", "done"},
             waiting : BOOLEAN, clean : BOOLEAN]
  /\ burst \in [left : Nat, blk : Nat, buf : {0} \cup Buffers]
  /\ heap \in [Buffers -> Datum] /\ air \in Datum
  /\ queue \in Seq(Buffers) /\ Len(queue) <= QueueLength
  /\ snd \in [state : {"waiting", "sending", "radio"}, buf : {0} \cup Buffers]
  /\ reqs \in Nat /\ resets \in Nat /\ faults \subseteq Kinds

Whole(r) == [k \in 1 .. Size[r] |-> <<r, k - 1>>]

\* Once the last block was acknowledged, of an upload that the ground started
\* from its first block since the last reset and resumed as often as it had
\* to, the file is that upload, in order and complete, and it is on the disk:
\* no later reset takes it away, whatever requests and answers were lost,
\* repeated or served late.  (Excepted: a short write and a failed close,
\* which the service does not notice, and a failed truncation or seek, after
\* which it uses a descriptor it has closed.)
UploadComplete ==
  gr.mode = "done" /\ gr.clean /\ faults \cap {"short", "close", "truncate", "seek"} = {} =>
    vol[Target[gr.req]] = Whole(gr.req) /\ disk[Target[gr.req]] = Whole(gr.req)

\* The service touches no handle but its own and leaks none: every open handle
\* is that of the upload, that of the request or the other task's, and each is
\* open on its holder's file.  (Excepted: a failed close keeps the handle,
\* and a failed truncation or seek makes the service use one it has closed.)
HandlesOwned ==
  faults \cap {"close", "truncate", "seek"} = {} =>
    /\ \A fd \in 1 .. Handles : Open(fd) => fd \in {rec.fd, cur.fd, ofd}
    /\ ofd # 0 => handle[ofd] = "other"
    /\ rec.fd # 0 => handle[rec.fd] = Target[rec.req]
    /\ vol["other"] = << >>

Holders(b) == {i \in DOMAIN queue : queue[i] = b}

\* A buffer passes from the service to the queue, to the sender and back to the
\* heap, always in one place: none is lost, freed early or sent twice, and the
\* sender, having peeked, never finds the queue empty.  (Excepted: a queue
\* full for a second, after which the buffer is lost.)
BuffersAccounted ==
  /\ snd.state = "sending" => queue # << >>
  /\ \A b \in Buffers :
       LET places == Cardinality(Holders(b)) + (IF snd.buf = b THEN 1 ELSE 0)
                       + (IF burst.buf = b THEN 1 ELSE 0)
       IN  IF heap[b] = NoData THEN places = 0
           ELSE places = 1 \/ ("full" \in faults /\ places = 0)

\* The blocks of a burst are radioed in order without a gap, and nothing after
\* the one that says it is the last.  (Excepted: a queue full for a second.)
AirInOrder ==
  [][snd.state = "radio" /\ snd'.state = "waiting" /\ resets' = resets
       => \/ air'.blk = air.blk + 1 /\ ~air.last
          \/ air'.req > air.req \/ "full" \in faults]_vars
=============================================================================
