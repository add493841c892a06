------------------------- MODULE FileTransferProofs -------------------------
(***************************************************************************)
(* Theorems about file transfer, for every set of uploads and downloads,   *)
(* every size of the table of open files, of the heap and of the queues.   *)
(*                                                                         *)
(* The requests under way are what makes an upload complete (OrderInv,     *)
(* AskedInv): only the last may still be answered, so that an answer finds *)
(* all earlier requests served, and what is served late belongs to the     *)
(* upload in hand or to one of which nothing was acknowledged.             *)
(***************************************************************************)
EXTENDS FileTransfer, SequenceTheorems, FiniteSetTheorems, TLAPS

\* The parts of the type invariant.
VolOK ==
  /\ IsVolume(vol) /\ IsVolume(disk) /\ "other" \in DOMAIN vol /\ "other" \in DOMAIN disk
  /\ handle \in [1 .. Handles -> {"free"} \cup Volume] /\ ofd \in 0 .. Handles
  /\ \A fd \in 1 .. Handles : Open(fd) => handle[fd] \in DOMAIN vol

Starting == {"start", "open", "truncate", "stat"}
Storing == {"packet", "write"}
Bursting == {"burst", "block", "transmit"}

CurOK ==
  /\ rec \in [req : {0} \cup Uploads, count : Nat, fd : 0 .. Handles]
  /\ rec.fd # 0 => rec.req \in Uploads
  /\ pc \in {"idle", "reply", "close"} \cup Starting \cup Storing \cup Bursting
  /\ cur \in {NoRequest} \cup [live : BOOLEAN, q : Request, fd : 0 .. Handles, ok : BOOLEAN]
  /\ pc = "idle" <=> cur = NoRequest
  /\ pc \in Starting => cur.q.op = "start"
  /\ pc \in Storing => cur.q.op = "packet"
  /\ pc \in Bursting => cur.q.op = "burst"

InboxOK == inbox \in Seq([live : BOOLEAN, q : Request])

GroundOK ==
  /\ gr \in [req : {0} \cup Uploads, acked : Nat, mode : {"idle", "start", "send", "done"},
             waiting : BOOLEAN, clean : BOOLEAN]
  /\ gr.mode # "idle" => gr.req \in Uploads
  /\ gr.req \in Uploads => gr.acked < Size[gr.req]
  /\ gr.mode \in {"idle", "done"} => gr.acked = 0
  /\ reqs \in Nat /\ resets \in Nat /\ faults \subseteq Kinds

HeapOK ==
  /\ burst \in [left : Nat, blk : Nat, buf : {0} \cup Buffers]
  /\ heap \in [Buffers -> Datum] /\ air \in Datum
  /\ queue \in Seq(Buffers) /\ Len(queue) <= QueueLength
  /\ snd \in [state : {"waiting", "sending", "radio"}, buf : {0} \cup Buffers]

\* The table of open files: whose each is, and at which places.
HandleInv ==
  faults \cap {"close", "truncate", "seek"} = {} =>
    /\ \A fd \in 1 .. Handles : Open(fd) => fd \in {rec.fd, cur.fd, ofd}
    /\ ofd # 0 => handle[ofd] = "other" /\ ofd # rec.fd /\ ofd # cur.fd
    /\ rec.fd # 0 => handle[rec.fd] = Target[rec.req]
    /\ cur.fd # 0 => handle[cur.fd] \in Files
    /\ cur.fd # 0 => pc \in {"truncate", "stat", "write", "close", "block", "transmit"}
    /\ pc \in {"open", "truncate", "stat"} => rec.fd = 0
    /\ pc \in {"truncate", "stat"} => cur.fd # 0 /\ handle[cur.fd] = Target[cur.q.req]
    /\ pc = "write" => cur.fd = rec.fd
    /\ pc \in {"close", "block", "transmit"} /\ cur.fd # 0 => rec.fd # cur.fd
    /\ vol["other"] = << >> /\ disk["other"] = << >>

\* Only the last request sent may be answered.
OrderInv ==
  /\ cur.live => inbox = << >> /\ gr.waiting
  /\ \A i \in DOMAIN inbox : inbox[i].live => i = Len(inbox) /\ gr.waiting

\* What a request on its way to the service, or in its hands, may ask
\* when the ground is in state g after n requests.
Asked(g, n, q, live) ==
  /\ q.op = "packet" => q.count < Size[q.req]
  /\ q.op = "start" => q.skip < Size[q.req]
  /\ q.op = "burst" => q.id \in 1 .. n
  /\ q.op # "burst" =>
       /\ g.mode \in {"start", "send"}
       /\ g.mode = "send" => q.op = "packet" /\ q.req = g.req /\ q.count = g.acked
       /\ g.acked > 0 => q.req = g.req
  /\ live /\ q.op = "start" => g.mode = "start" /\ q.req = g.req /\ q.skip <= g.acked
  /\ live /\ q.op = "packet" => g.mode = "send"

AskedInv ==
  /\ cur # NoRequest => Asked(gr, reqs, cur.q, cur.live)
  /\ \A i \in DOMAIN inbox : Asked(gr, reqs, inbox[i].q, inbox[i].live)

Sound == faults \cap {"short", "close", "truncate", "seek"} = {}

Sized(r) == Target[r] \in DOMAIN vol /\ Len(vol[Target[r]]) = Size[r]

\* The file has at least the first n blocks of r.
Holds(r, n) ==
  /\ Target[r] \in DOMAIN vol /\ n <= Len(vol[Target[r]])
  /\ \A k \in 1 .. n : vol[Target[r]][k] = <<r, k - 1>>

\* What was acknowledged is in the file.
FileInv ==
  Sound /\ gr.clean =>
    /\ gr.mode \in {"start", "send"} /\ gr.acked > 0 => Holds(gr.req, gr.acked)
    /\ gr.mode = "send" => Sized(gr.req)
    /\ gr.mode = "done" =>
         /\ Target[gr.req] \in DOMAIN vol /\ vol[Target[gr.req]] = Whole(gr.req)
         /\ Target[gr.req] \in DOMAIN disk /\ disk[Target[gr.req]] = Whole(gr.req)

\* The block of a packet is in its file, and on the disk if it was the last.
Stored(q) ==
  LET f == Target[q.req]
      last == q.count + 1 = Size[q.req]
  IN  /\ f \in DOMAIN vol /\ q.count < Len(vol[f])
      /\ vol[f][q.count + 1] = <<q.req, q.count>>
      /\ pc = "close" => cur.fd # 0
      /\ pc = "reply" /\ last => f \in DOMAIN disk /\ disk[f] = vol[f]

\* What the service is about to answer is so.
ServedInv ==
  /\ pc = "write" => rec.req = cur.q.req /\ rec.count = cur.q.count
  /\ Sound =>
       /\ cur.q.op = "start" /\ cur.ok /\ pc \in {"stat", "reply"} => Sized(cur.q.req)
       /\ cur.q.op = "start" => pc # "close" \/ ~cur.ok
       /\ cur.q.op = "packet" /\ cur.ok /\ pc \in {"close", "reply"} => Stored(cur.q)

Unique(s) == \A i, j \in DOMAIN s : s[i] = s[j] => i = j

\* Where the buffers are.
BufferInv ==
  /\ snd.state = "sending" => queue # << >>
  /\ snd.state = "radio" <=> snd.buf # 0
  /\ pc = "transmit" <=> burst.buf # 0
  /\ Unique(queue)
  /\ \A i \in DOMAIN queue :
       heap[queue[i]] # NoData /\ queue[i] # snd.buf /\ queue[i] # burst.buf
  /\ snd.buf # 0 => heap[snd.buf] # NoData /\ snd.buf # burst.buf
  /\ burst.buf # 0 => heap[burst.buf] # NoData
  /\ "full" \notin faults =>
       \A b \in Buffers : heap[b] # NoData =>
         b = snd.buf \/ b = burst.buf \/ \E i \in DOMAIN queue : queue[i] = b

\* One block may be radioed after the other.
Follows(x, y) ==
  \/ y.req = x.req /\ y.blk = x.blk + 1 /\ ~x.last
  \/ y.req > x.req

\* What was radioed or is to be, before the block in hand.
Sent == IF snd.buf # 0 THEN heap[snd.buf] ELSE air
Latest == IF queue # << >> THEN heap[queue[Len(queue)]] ELSE Sent

\* The downloads are served in the order of their requests.
BurstOrder ==
  /\ \A i, j \in DOMAIN inbox :
       i < j /\ inbox[i].q.op = "burst" /\ inbox[j].q.op = "burst" => inbox[i].q.id < inbox[j].q.id
  /\ cur.q.op = "burst" =>
       \A i \in DOMAIN inbox : inbox[i].q.op = "burst" => cur.q.id < inbox[i].q.id

\* Nothing of a download is queued before it is served.
LatestInv ==
  /\ Latest.req <= reqs /\ air.req <= reqs /\ \A b \in Buffers : heap[b].req <= reqs
  /\ \A i \in DOMAIN inbox : inbox[i].q.op = "burst" => Latest.req < inbox[i].q.id
  /\ pc = "burst" => Latest.req < cur.q.id
  /\ pc \in Bursting /\ ~cur.q.want.sband => Latest.req < cur.q.id
  /\ pc \in Bursting => Latest.req <= cur.q.id

\* The block in hand is the next.
BlockInv ==
  /\ pc = "transmit" => heap[burst.buf].req = cur.q.id /\ heap[burst.buf].blk = burst.blk
  /\ "full" \notin faults =>
       /\ pc = "block" =>
            \/ Latest.req < cur.q.id
            \/ Latest.req = cur.q.id /\ burst.blk = Latest.blk + 1 /\ ~Latest.last
       /\ pc = "transmit" => Follows(Latest, heap[burst.buf])

\* What waits to be radioed is in order.
AirInv ==
  "full" \notin faults =>
    /\ snd.buf # 0 => Follows(air, heap[snd.buf])
    /\ queue # << >> => Follows(Sent, heap[queue[1]])
    /\ \A i \in 1 .. Len(queue) - 1 : Follows(heap[queue[i]], heap[queue[i + 1]])

IInv ==
  /\ VolOK /\ CurOK /\ InboxOK /\ GroundOK /\ HeapOK
  /\ HandleInv /\ OrderInv /\ AskedInv /\ FileInv /\ ServedInv
  /\ BufferInv /\ BurstOrder /\ LatestInv /\ BlockInv /\ AirInv

-----------------------------------------------------------------------------
(* Requests, faults and descriptors.                                       *)

LEMMA RequestIs ==
  ASSUME NEW q \in Request
  PROVE  /\ q.op \in {"start", "packet", "burst"}
         /\ q.op = "start" => q.req \in Uploads /\ q.skip \in Nat
         /\ q.op = "packet" => q.req \in Uploads /\ q.count \in Nat
         /\ q.op = "burst" => q.id \in Nat /\ q.want \in Bursts
  BY DEF Request

\* The service has a request in hand unless it is idle.
LEMMA Serving ==
  ASSUME CurOK, pc # "idle"
  PROVE  /\ cur \in [live : BOOLEAN, q : Request, fd : 0 .. Handles, ok : BOOLEAN]
         /\ cur.q \in Request /\ cur # NoRequest
  BY DEF CurOK

LEMMA NotNone ==
  ASSUME NEW c \in [live : BOOLEAN, q : Request, fd : 0 .. Handles, ok : BOOLEAN]
  PROVE  c # NoRequest
<1>1. c.q.op # "none"
  BY RequestIs
<1> QED
  BY <1>1 DEF NoRequest

LEMMA InboxIs ==
  ASSUME InboxOK
  PROVE  /\ Len(inbox) \in Nat /\ DOMAIN inbox = 1 .. Len(inbox)
         /\ \A i \in DOMAIN inbox : inbox[i] \in [live : BOOLEAN, q : Request]
<1>1. inbox \in Seq([live : BOOLEAN, q : Request])
  BY DEF InboxOK
<1>2. Len(inbox) \in Nat /\ DOMAIN inbox = 1 .. Len(inbox)
  BY <1>1
<1> QED
  BY <1>1, <1>2, ElementOfSeq

LEMMA FileNames ==
  /\ \A r \in Uploads : Target[r] \in Files
  /\ \A f \in Files : f \notin {"free", "other"}
  BY UploadsAssumption DEF Files

LEMMA FaultGrows ==
  ASSUME NEW k \in Kinds, faults \subseteq Kinds, Fault(k)
  PROVE  faults \subseteq faults' /\ faults' \subseteq Kinds /\ k \in faults'
  BY DEF Fault

\* What CloseFile leaves.
LEMMA CloseFileIs ==
  ASSUME VolOK, faults \subseteq Kinds, NEW fd \in 0 .. Handles, CloseFile(fd), vol' = vol
  PROVE  /\ faults \subseteq faults' /\ faults' \subseteq Kinds
         /\ disk' \in {disk, vol}
         /\ handle' \in [1 .. Handles -> {"free"} \cup Volume]
         /\ \A g \in 1 .. Handles : handle'[g] \in {handle[g], "free"}
         /\ \A g \in 1 .. Handles : g # fd => handle'[g] = handle[g]
         /\ "close" \in faults' \/ (fd # 0 => handle'[fd] = "free")
         /\ "close" \in faults' \/ (Open(fd) => disk' = vol)
<1>1. CASE ~Open(fd) /\ UNCHANGED <<disk, handle, faults>>
  BY <1>1, LimitsAssumption DEF VolOK, Open
<1>2. CASE Open(fd) /\ disk' = vol /\ handle' = [handle EXCEPT ![fd] = "free"] /\ UNCHANGED faults
  BY <1>2, LimitsAssumption DEF VolOK, Open
<1>3. CASE Open(fd) /\ Fault("close") /\ UNCHANGED <<disk, handle>>
  BY <1>3, FaultGrows, LimitsAssumption DEF VolOK, Open, Kinds
<1> QED
  BY <1>1, <1>2, <1>3 DEF CloseFile

-----------------------------------------------------------------------------
(* What a step leaves alone keeps its invariants.                          *)

LEMMA RequestsKept ==
  ASSUME InboxOK, OrderInv, AskedInv, BurstOrder, UNCHANGED <<inbox, gr, reqs>>,
         cur # NoRequest, cur'.q = cur.q, cur'.live = cur.live
  PROVE  InboxOK' /\ OrderInv' /\ AskedInv' /\ BurstOrder'
  BY DEF InboxOK, OrderInv, AskedInv, BurstOrder, Asked

LEMMA DownlinkKept ==
  ASSUME HeapOK, BufferInv, LatestInv, BlockInv, AirInv,
         UNCHANGED <<downlink, burst, inbox, reqs>>, faults \subseteq faults',
         pc # "transmit", pc' \notin Bursting
  PROVE  HeapOK' /\ BufferInv' /\ LatestInv' /\ BlockInv' /\ AirInv'
<1>1. UNCHANGED <<heap, queue, snd, air, burst, inbox, reqs>>
  BY DEF downlink
<1>2. HeapOK'
  BY <1>1 DEF HeapOK
<1>3. BufferInv'
  BY <1>1 DEF BufferInv, Unique, Bursting
<1>4. LatestInv' /\ BlockInv'
  BY <1>1 DEF LatestInv, BlockInv, Latest, Sent, Bursting
<1>5. AirInv'
  BY <1>1 DEF AirInv, Sent, Follows
<1> QED
  BY <1>2, <1>3, <1>4, <1>5

LEMMA FileKept ==
  ASSUME FileInv, UNCHANGED <<vol, gr>>, disk' \in {disk, vol}, faults \subseteq faults'
  PROVE  FileInv'
<1>1. Sound' => Sound
  BY DEF Sound
<1> QED
  BY <1>1 DEF FileInv, Holds, Sized

LEMMA GroundKept ==
  ASSUME GroundOK, UNCHANGED <<gr, reqs, resets>>, faults' \subseteq Kinds
  PROVE  GroundOK'
  BY DEF GroundOK

LEMMA LatestIs ==
  ASSUME HeapOK
  PROVE  Latest \in Datum /\ Sent \in Datum /\ Latest.req \in Nat /\ Latest.blk \in Nat
<1>1. Sent \in Datum
  BY DEF HeapOK, Sent
<1>2. queue # << >> => queue[Len(queue)] \in Buffers
  BY DEF HeapOK
<1>3. Latest \in Datum
  BY <1>1, <1>2 DEF HeapOK, Latest
<1> QED
  BY <1>1, <1>3 DEF Datum

-----------------------------------------------------------------------------
(* The ground.                                                             *)

\* What is in the inbox is what was sent and not yet taken.
LEMMA Asks ==
  ASSUME IInv, NEW q \in Request, Ask(q), gr'.waiting
  PROVE  /\ InboxOK' /\ OrderInv' /\ ~cur.live
         /\ \A i \in DOMAIN inbox : ~inbox[i].live
         /\ DOMAIN inbox = 1 .. Len(inbox) /\ Len(inbox) \in Nat
         /\ \A i \in DOMAIN inbox' :
              \/ i \in DOMAIN inbox /\ inbox'[i] = inbox[i]
              \/ i = Len(inbox) + 1 /\ inbox'[i] = [live |-> TRUE, q |-> q]
<1> DEFINE m == [live |-> TRUE, q |-> q]
<1>1. ~gr.waiting /\ inbox' \in {inbox, Append(inbox, m)} /\ cur' = cur
  BY DEF Ask
<1>2. inbox \in Seq([live : BOOLEAN, q : Request]) /\ m \in [live : BOOLEAN, q : Request]
  BY DEF IInv, InboxOK
<1>3. Append(inbox, m) \in Seq([live : BOOLEAN, q : Request])
  BY <1>2
<1>4. ~cur.live /\ \A i \in DOMAIN inbox : ~inbox[i].live
  BY <1>1 DEF IInv, OrderInv
<1>5. DOMAIN inbox = 1 .. Len(inbox) /\ Len(inbox) \in Nat
  BY <1>2
<1>6. CASE inbox' = inbox
  BY <1>1, <1>2, <1>4, <1>5, <1>6 DEF InboxOK, OrderInv
<1>7. CASE inbox' = Append(inbox, m)
<2>1. /\ DOMAIN inbox' = 1 .. Len(inbox) + 1 /\ Len(inbox') = Len(inbox) + 1
      /\ \A i \in 1 .. Len(inbox) : inbox'[i] = inbox[i]
      /\ inbox'[Len(inbox) + 1] = m
  BY <1>2, <1>3, <1>7
<2>2. ASSUME NEW i \in DOMAIN inbox'
      PROVE  \/ i \in DOMAIN inbox /\ inbox'[i] = inbox[i]
             \/ i = Len(inbox) + 1 /\ inbox'[i] = m
<3>1. i \in 1 .. Len(inbox) \/ i = Len(inbox) + 1
  BY <1>5, <2>1
<3> QED
  BY <1>5, <2>1, <3>1
<2>3. OrderInv'
  BY <1>1, <1>4, <1>5, <2>1, <2>2 DEF OrderInv
<2> QED
  BY <1>3, <1>4, <1>5, <1>7, <2>2, <2>3 DEF InboxOK
<1> QED
  BY <1>1, <1>6, <1>7

LEMMA AskLeaves ==
  ASSUME IInv, NEW q, Ask(q)
  PROVE  /\ UNCHANGED <<vol, disk, handle, ofd, rec, pc, cur, burst, heap, queue, snd, air,
                        faults, resets>>
         /\ VolOK' /\ CurOK' /\ HeapOK' /\ HandleInv' /\ ServedInv' /\ BufferInv' /\ BlockInv' /\ AirInv'
         /\ reqs' = reqs + 1 /\ reqs \in Nat
<1>1. /\ UNCHANGED <<vol, disk, handle, ofd, rec, pc, cur, burst, heap, queue, snd, air, faults, resets>>
      /\ reqs' = reqs + 1 /\ reqs \in Nat
  BY DEF Ask, volume, downlink, IInv, GroundOK
<1>2. VolOK' /\ CurOK' /\ HeapOK' /\ HandleInv'
  BY <1>1 DEF IInv, VolOK, IsVolume, Open, CurOK, HeapOK, HandleInv
<1>3. ServedInv' /\ BufferInv' /\ BlockInv' /\ AirInv'
  BY <1>1 DEF IInv, ServedInv, Stored, Sized, Sound, BufferInv, Unique, BlockInv, AirInv,
     Latest, Sent, Follows
<1> QED
  BY <1>1, <1>2, <1>3

\* A request is asked for what the ground knows.
LEMMA AskOrders ==
  ASSUME IInv, NEW q \in Request, Ask(q), gr'.waiting,
         q.op = "burst" => q.id = reqs + 1
  PROVE  BurstOrder' /\ LatestInv'
<1>1. /\ UNCHANGED <<pc, cur, heap, queue, snd, air>> /\ reqs' = reqs + 1 /\ reqs \in Nat
  BY AskLeaves
<1>2. /\ DOMAIN inbox = 1 .. Len(inbox) /\ Len(inbox) \in Nat
      /\ \A i \in DOMAIN inbox' :
           \/ i \in DOMAIN inbox /\ inbox'[i] = inbox[i]
           \/ i = Len(inbox) + 1 /\ inbox'[i] = [live |-> TRUE, q |-> q]
  BY Asks
<1>3. \A i \in DOMAIN inbox : inbox[i].q.op = "burst" => inbox[i].q.id \in 1 .. reqs
  BY DEF IInv, AskedInv, Asked
<1>4. cur.q.op = "burst" => cur.q.id \in 1 .. reqs
  BY DEF IInv, AskedInv, Asked, NoRequest
<1>5. BurstOrder'
<2>1. ASSUME NEW i \in DOMAIN inbox', NEW j \in DOMAIN inbox', i < j,
             inbox'[i].q.op = "burst", inbox'[j].q.op = "burst"
      PROVE  inbox'[i].q.id < inbox'[j].q.id
<3>1. j \in 1 .. Len(inbox) + 1 /\ i # Len(inbox) + 1
  BY <1>2, <2>1
<3>2. i \in DOMAIN inbox /\ inbox'[i] = inbox[i]
  BY <1>2, <3>1
<3> QED
  BY <1>1, <1>2, <1>3, <2>1, <3>2 DEF IInv, BurstOrder
<2>2. ASSUME cur.q.op = "burst", NEW i \in DOMAIN inbox', inbox'[i].q.op = "burst"
      PROVE  cur.q.id < inbox'[i].q.id
  BY <1>1, <1>2, <1>4, <2>2 DEF IInv, BurstOrder
<2> QED
  BY <1>1, <2>1, <2>2 DEF BurstOrder
<1>6. Latest' = Latest /\ Latest.req \in Nat /\ air.req \in Nat /\ \A b \in Buffers : heap[b].req \in Nat
<2>1. Latest' = Latest
  BY <1>1 DEF Latest, Sent
<2> QED
  BY <2>1, LatestIs DEF IInv, HeapOK, Datum
<1>7. LatestInv'
  BY <1>1, <1>2, <1>6 DEF IInv, LatestInv
<1> QED
  BY <1>5, <1>7

LEMMA GStartInv ==
  ASSUME IInv, GStart
  PROVE  IInv'
<1>1. PICK r \in Uploads, skip \in {0, gr.acked} :
        /\ skip \in {0, IF r = gr.req THEN gr.acked ELSE 0}
        /\ Ask([op |-> "start", req |-> r, skip |-> skip])
        /\ gr' = [gr EXCEPT !.req = r, !.acked = IF r = gr.req THEN gr.acked ELSE 0,
                            !.mode = "start", !.waiting = TRUE]
  BY DEF GStart
<1> DEFINE q == [op |-> "start", req |-> r, skip |-> skip]
           acked == IF r = gr.req THEN gr.acked ELSE 0
<1>2. /\ acked \in Nat /\ skip \in Nat /\ acked < Size[r] /\ skip <= acked
      /\ Size[r] \in Nat \ {0}
  BY <1>1, UploadsAssumption DEF IInv, GroundOK
<1>3. q \in Request
  BY <1>1, <1>2 DEF Request
<1>4. /\ gr' \in [req : {0} \cup Uploads, acked : Nat, mode : {"idle", "start", "send", "done"},
                  waiting : BOOLEAN, clean : BOOLEAN]
      /\ gr'.req = r /\ gr'.acked = acked /\ gr'.mode = "start" /\ gr'.waiting /\ gr'.clean = gr.clean
  BY <1>1, <1>2 DEF IInv, GroundOK
<1>5. /\ VolOK' /\ CurOK' /\ HeapOK' /\ HandleInv' /\ ServedInv' /\ BufferInv' /\ BlockInv' /\ AirInv'
      /\ UNCHANGED <<vol, disk, cur, faults, resets>> /\ reqs' = reqs + 1 /\ reqs \in Nat
  BY <1>1, AskLeaves
<1>6. BurstOrder' /\ LatestInv' /\ InboxOK' /\ OrderInv'
  BY <1>1, <1>3, <1>4, Asks, AskOrders
<1>7. GroundOK'
  BY <1>1, <1>2, <1>4, <1>5 DEF IInv, GroundOK
<1>8. FileInv'
  BY <1>4, <1>5 DEF IInv, FileInv, GroundOK, Holds, Sized, Sound
<1>9. ASSUME NEW p \in Request, Asked(gr, reqs, p, FALSE)
      PROVE  Asked(gr', reqs', p, FALSE)
  BY <1>4, <1>5, <1>9, RequestIs DEF Asked
<1>10. Asked(gr', reqs', q, TRUE)
  BY <1>2, <1>4 DEF Asked
<1>11. AskedInv'
<2>1. /\ ~cur.live /\ \A i \in DOMAIN inbox : ~inbox[i].live
      /\ DOMAIN inbox = 1 .. Len(inbox)
      /\ \A i \in DOMAIN inbox' :
           \/ i \in DOMAIN inbox /\ inbox'[i] = inbox[i]
           \/ i = Len(inbox) + 1 /\ inbox'[i] = [live |-> TRUE, q |-> q]
  BY <1>1, <1>3, <1>4, Asks
<2>2. cur # NoRequest => cur.q \in Request /\ Asked(gr', reqs', cur.q, FALSE)
<3>1. cur # NoRequest => cur.q \in Request /\ Asked(gr, reqs, cur.q, FALSE)
  BY <2>1 DEF IInv, AskedInv, CurOK, Asked
<3> QED
  BY <1>9, <3>1
<2>3. \A i \in DOMAIN inbox : Asked(gr', reqs', inbox[i].q, FALSE)
<3>1. \A i \in DOMAIN inbox : inbox[i] \in [live : BOOLEAN, q : Request]
  BY InboxIs DEF IInv
<3>2. \A i \in DOMAIN inbox : Asked(gr, reqs, inbox[i].q, FALSE)
  BY <2>1 DEF IInv, AskedInv, Asked
<3> QED
  BY <1>9, <3>1, <3>2
<2>4. cur' # NoRequest => Asked(gr', reqs', cur'.q, cur'.live)
  BY <1>5, <2>1, <2>2 DEF Asked
<2>5. \A i \in DOMAIN inbox : Asked(gr', reqs', inbox[i].q, inbox[i].live)
  BY <2>1, <2>3 DEF Asked
<2>6. ASSUME NEW i \in DOMAIN inbox' PROVE Asked(gr', reqs', inbox'[i].q, inbox'[i].live)
<3>1. CASE i \in DOMAIN inbox /\ inbox'[i] = inbox[i]
  BY <2>5, <3>1
<3>2. CASE inbox'[i] = [live |-> TRUE, q |-> q]
<4>1. inbox'[i].q = q /\ inbox'[i].live = TRUE
  BY <3>2
<4> QED
  BY <1>10, <4>1
<3> QED
  BY <2>1, <3>1, <3>2
<2> QED
  BY <2>4, <2>6 DEF AskedInv
<1> QED
  BY <1>5, <1>6, <1>7, <1>8, <1>11 DEF IInv

LEMMA AskedSame ==
  ASSUME IInv, NEW q \in Request, Ask(q), gr' = [gr EXCEPT !.waiting = TRUE],
         Asked(gr', reqs', q, TRUE)
  PROVE  GroundOK' /\ FileInv' /\ AskedInv'
<1>1. /\ gr' \in [req : {0} \cup Uploads, acked : Nat, mode : {"idle", "start", "send", "done"},
                  waiting : BOOLEAN, clean : BOOLEAN]
      /\ gr'.req = gr.req /\ gr'.acked = gr.acked /\ gr'.mode = gr.mode /\ gr'.waiting
      /\ gr'.clean = gr.clean
  BY DEF IInv, GroundOK
<1>2. UNCHANGED <<vol, disk, cur, faults, resets>> /\ reqs' = reqs + 1 /\ reqs \in Nat
  BY AskLeaves
<1>3. GroundOK'
  BY <1>1, <1>2 DEF IInv, GroundOK
<1>4. FileInv'
  BY <1>1, <1>2 DEF IInv, FileInv, Holds, Sized, Sound
<1>5. ASSUME NEW p, NEW live, Asked(gr, reqs, p, live) PROVE Asked(gr', reqs', p, live)
  BY <1>1, <1>2, <1>5 DEF Asked
<1>6. AskedInv'
<2>1. /\ DOMAIN inbox = 1 .. Len(inbox)
      /\ \A i \in DOMAIN inbox' :
           \/ i \in DOMAIN inbox /\ inbox'[i] = inbox[i]
           \/ i = Len(inbox) + 1 /\ inbox'[i] = [live |-> TRUE, q |-> q]
  BY <1>1, Asks
<2>2. \A i \in DOMAIN inbox : Asked(gr', reqs', inbox[i].q, inbox[i].live)
  BY <1>5 DEF IInv, AskedInv
<2>3. ASSUME NEW i \in DOMAIN inbox' PROVE Asked(gr', reqs', inbox'[i].q, inbox'[i].live)
<3>1. CASE i \in DOMAIN inbox /\ inbox'[i] = inbox[i]
  BY <2>2, <3>1
<3>2. CASE inbox'[i] = [live |-> TRUE, q |-> q]
<4>1. inbox'[i].q = q /\ inbox'[i].live = TRUE
  BY <3>2
<4> QED
  BY <4>1
<3> QED
  BY <2>1, <3>1, <3>2
<2>4. cur # NoRequest => Asked(gr', reqs', cur.q, cur.live)
  BY <1>5 DEF IInv, AskedInv
<2> QED
  BY <1>2, <2>3, <2>4 DEF AskedInv
<1> QED
  BY <1>3, <1>4, <1>6

LEMMA GPacketInv ==
  ASSUME IInv, GPacket
  PROVE  IInv'
<1> DEFINE q == [op |-> "packet", req |-> gr.req, count |-> gr.acked]
<1>1. gr.mode = "send" /\ Ask(q) /\ gr' = [gr EXCEPT !.waiting = TRUE]
  BY DEF GPacket
<1>2. /\ gr.req \in Uploads /\ gr.acked \in Nat /\ gr.acked < Size[gr.req]
      /\ gr'.req = gr.req /\ gr'.acked = gr.acked /\ gr'.mode = "send" /\ gr'.waiting
  BY <1>1 DEF IInv, GroundOK
<1>3. q \in Request
  BY <1>2 DEF Request
<1>4. Asked(gr', reqs', q, TRUE)
  BY <1>2 DEF Asked
<1>5. /\ VolOK' /\ CurOK' /\ HeapOK' /\ HandleInv' /\ ServedInv' /\ BufferInv' /\ BlockInv' /\ AirInv'
  BY <1>1, AskLeaves
<1>6. BurstOrder' /\ LatestInv' /\ InboxOK' /\ OrderInv'
  BY <1>1, <1>2, <1>3, Asks, AskOrders
<1>7. GroundOK' /\ FileInv' /\ AskedInv'
  BY <1>1, <1>3, <1>4, AskedSame
<1> QED
  BY <1>5, <1>6, <1>7 DEF IInv

LEMMA GBurstInv ==
  ASSUME IInv, GBurst
  PROVE  IInv'
<1>1. PICK b \in Bursts : Ask([op |-> "burst", id |-> reqs + 1, want |-> b])
  BY DEF GBurst
<1> DEFINE q == [op |-> "burst", id |-> reqs + 1, want |-> b]
<1>2. gr' = [gr EXCEPT !.waiting = TRUE] /\ gr'.waiting
  BY DEF GBurst, IInv, GroundOK
<1>3. /\ VolOK' /\ CurOK' /\ HeapOK' /\ HandleInv' /\ ServedInv' /\ BufferInv' /\ BlockInv' /\ AirInv'
      /\ reqs' = reqs + 1 /\ reqs \in Nat
  BY <1>1, AskLeaves
<1>4. q \in Request
  BY <1>3 DEF Request
<1>5. Asked(gr', reqs', q, TRUE)
  BY <1>3 DEF Asked
<1>6. BurstOrder' /\ LatestInv' /\ InboxOK' /\ OrderInv'
  BY <1>1, <1>2, <1>4, Asks, AskOrders
<1>7. GroundOK' /\ FileInv' /\ AskedInv'
  BY <1>1, <1>2, <1>4, <1>5, AskedSame
<1> QED
  BY <1>3, <1>6, <1>7 DEF IInv

LEMMA GGiveUpInv ==
  ASSUME IInv, GGiveUp
  PROVE  IInv'
<1>1. /\ gr' = [gr EXCEPT !.waiting = FALSE]
      /\ inbox' = [i \in DOMAIN inbox |-> [inbox[i] EXCEPT !.live = FALSE]]
      /\ cur' = [cur EXCEPT !.live = FALSE]
      /\ UNCHANGED <<vol, disk, handle, ofd, rec, pc, burst, heap, queue, snd, air,
                     reqs, faults, resets>>
  BY DEF GGiveUp, volume, downlink, bounds
<1>2. /\ gr' \in [req : {0} \cup Uploads, acked : Nat, mode : {"idle", "start", "send", "done"},
                  waiting : BOOLEAN, clean : BOOLEAN]
      /\ gr'.req = gr.req /\ gr'.acked = gr.acked /\ gr'.mode = gr.mode /\ gr'.clean = gr.clean
  BY <1>1 DEF IInv, GroundOK
<1>3. /\ cur'.q = cur.q /\ cur'.fd = cur.fd /\ cur'.ok = cur.ok /\ cur'.live = FALSE
      /\ cur = NoRequest => cur' = NoRequest
      /\ cur # NoRequest =>
           /\ cur' # NoRequest
           /\ cur' \in [live : BOOLEAN, q : Request, fd : 0 .. Handles, ok : BOOLEAN]
<2>1. CASE cur = NoRequest
  BY <1>1, <2>1 DEF NoRequest
<2>2. CASE cur \in [live : BOOLEAN, q : Request, fd : 0 .. Handles, ok : BOOLEAN]
<3>1. /\ cur' \in [live : BOOLEAN, q : Request, fd : 0 .. Handles, ok : BOOLEAN]
      /\ cur'.q = cur.q /\ cur'.fd = cur.fd /\ cur'.ok = cur.ok /\ cur'.live = FALSE
  BY <1>1, <2>2
<3> QED
  BY <2>2, <3>1, NotNone
<2> QED
  BY <2>1, <2>2 DEF IInv, CurOK
<1>4. /\ inbox' \in Seq([live : BOOLEAN, q : Request]) /\ DOMAIN inbox' = DOMAIN inbox
      /\ \A i \in DOMAIN inbox : inbox'[i].q = inbox[i].q /\ inbox'[i].live = FALSE
<2>1. inbox \in Seq([live : BOOLEAN, q : Request])
  BY DEF IInv, InboxOK
<2>2. DOMAIN inbox = 1 .. Len(inbox) /\ Len(inbox) \in Nat
  BY <2>1
<2>3. ASSUME NEW i \in DOMAIN inbox
      PROVE  /\ inbox'[i] \in [live : BOOLEAN, q : Request]
             /\ inbox'[i].q = inbox[i].q /\ inbox'[i].live = FALSE
<3>1. inbox[i] \in [live : BOOLEAN, q : Request]
  BY <2>1, <2>2, ElementOfSeq
<3>2. inbox'[i] = [inbox[i] EXCEPT !.live = FALSE]
  BY <1>1
<3> QED
  BY <3>1, <3>2
<2>4. inbox' \in [1 .. Len(inbox) -> [live : BOOLEAN, q : Request]]
  BY <1>1, <2>2, <2>3
<2>5. inbox' \in Seq([live : BOOLEAN, q : Request])
  BY <2>2, <2>4, SeqDef
<2>6. DOMAIN inbox' = DOMAIN inbox
  BY <1>1
<2> QED
  BY <2>3, <2>5, <2>6
<1>5. VolOK' /\ InboxOK' /\ GroundOK' /\ HeapOK'
  BY <1>1, <1>2, <1>4 DEF IInv, VolOK, IsVolume, Open, InboxOK, GroundOK, HeapOK
<1>6. CurOK'
  BY <1>1, <1>3 DEF IInv, CurOK, Starting, Storing, Bursting
<1>7. HandleInv'
  BY <1>1, <1>3 DEF IInv, HandleInv, Open
<1>8. OrderInv'
  BY <1>3, <1>4 DEF OrderInv
<1>9. ASSUME NEW p, NEW live, Asked(gr, reqs, p, live) PROVE Asked(gr', reqs', p, FALSE)
  BY <1>1, <1>2, <1>9 DEF Asked
<1>10. AskedInv'
<2>1. cur # NoRequest => Asked(gr', reqs', cur.q, FALSE)
  BY <1>9 DEF IInv, AskedInv
<2>2. \A i \in DOMAIN inbox : Asked(gr', reqs', inbox[i].q, FALSE)
  BY <1>9 DEF IInv, AskedInv
<2> QED
  BY <1>3, <1>4, <2>1, <2>2 DEF AskedInv
<1>11. FileInv'
  BY <1>1, <1>2 DEF IInv, FileInv, Holds, Sized, Sound
<1>12. ServedInv'
  BY <1>1, <1>3 DEF IInv, ServedInv, Sized, Sound, Stored
<1>13. BufferInv' /\ AirInv'
  BY <1>1 DEF IInv, BufferInv, Unique, AirInv, Sent, Follows
<1>14. BurstOrder'
  BY <1>3, <1>4 DEF IInv, BurstOrder
<1>15. Latest' = Latest
  BY <1>1 DEF Latest, Sent
<1>16. LatestInv' /\ BlockInv'
  BY <1>1, <1>3, <1>4, <1>15 DEF IInv, LatestInv, BlockInv, Follows
<1> QED
  BY <1>5, <1>6, <1>7, <1>8, <1>10, <1>11, <1>12, <1>13, <1>14, <1>16 DEF IInv

-----------------------------------------------------------------------------
(* The service: requests and answers.                                      *)

LEMMA AcceptInv ==
  ASSUME IInv, Accept
  PROVE  IInv'
<1> DEFINE m == Head(inbox)
<1>1. /\ pc = "idle" /\ inbox # << >> /\ pc' = m.q.op
      /\ cur' = [live |-> m.live, q |-> m.q, fd |-> 0, ok |-> TRUE] /\ inbox' = Tail(inbox)
      /\ UNCHANGED <<vol, disk, handle, ofd, rec, gr, burst, heap, queue, snd, air,
                     reqs, faults, resets>>
  BY DEF Accept, volume, downlink, bounds
<1>2. /\ Len(inbox) \in Nat /\ Len(inbox) >= 1 /\ m = inbox[1] /\ 1 \in DOMAIN inbox
      /\ DOMAIN inbox = 1 .. Len(inbox)
      /\ inbox' \in Seq([live : BOOLEAN, q : Request])
      /\ DOMAIN inbox' = 1 .. Len(inbox) - 1 /\ Len(inbox') = Len(inbox) - 1
  BY <1>1 DEF IInv, InboxOK
<1>3. \A i \in DOMAIN inbox' : i + 1 \in DOMAIN inbox /\ inbox'[i] = inbox[i + 1]
  BY <1>1, <1>2 DEF IInv, InboxOK
<1>4. m \in [live : BOOLEAN, q : Request]
  BY <1>2, InboxIs DEF IInv
<1>5. /\ cur' \in [live : BOOLEAN, q : Request, fd : 0 .. Handles, ok : BOOLEAN] /\ cur' # NoRequest
      /\ cur'.q = m.q /\ cur'.live = m.live /\ cur'.fd = 0 /\ pc' \in {"start", "packet", "burst"}
      /\ cur'.q.op = pc'
<2>1. m.q \in Request /\ m.live \in BOOLEAN /\ m.q.op \in {"start", "packet", "burst"}
  BY <1>4, RequestIs
<2>2. cur' \in [live : BOOLEAN, q : Request, fd : 0 .. Handles, ok : BOOLEAN]
  BY <1>1, <2>1, LimitsAssumption
<2> QED
  BY <1>1, <2>1, <2>2, NotNone
<1>6. cur = NoRequest /\ cur.fd = 0
  BY <1>1 DEF IInv, CurOK, NoRequest
<1>7. VolOK' /\ GroundOK' /\ HeapOK' /\ InboxOK'
  BY <1>1, <1>2 DEF IInv, VolOK, IsVolume, Open, GroundOK, HeapOK, InboxOK
<1>8. CurOK'
  BY <1>1, <1>5 DEF IInv, CurOK, Starting, Storing, Bursting
<1>9. HandleInv'
  BY <1>1, <1>5, <1>6 DEF IInv, HandleInv, Open
<1>10. OrderInv'
<2>1. m.live => Len(inbox) = 1 /\ gr.waiting
  BY <1>2 DEF IInv, OrderInv
<2>2. cur'.live => inbox' = << >> /\ gr'.waiting
  BY <1>1, <1>2, <1>5, <2>1
<2>3. \A i \in DOMAIN inbox' : inbox'[i].live => i = Len(inbox') /\ gr'.waiting
  BY <1>1, <1>2, <1>3 DEF IInv, OrderInv
<2> QED
  BY <2>2, <2>3 DEF OrderInv
<1>11. AskedInv'
  BY <1>1, <1>2, <1>3, <1>5 DEF IInv, AskedInv
<1>12. FileInv'
  BY <1>1 DEF IInv, FileInv, Holds, Sized, Sound
<1>13. ServedInv'
  BY <1>5 DEF ServedInv
<1>14. BufferInv' /\ AirInv'
  BY <1>1, <1>5 DEF IInv, BufferInv, Unique, AirInv, Sent, Follows
<1>15. BurstOrder'
<2>1. ASSUME NEW i \in DOMAIN inbox', NEW j \in DOMAIN inbox', i < j,
             inbox'[i].q.op = "burst", inbox'[j].q.op = "burst"
      PROVE  inbox'[i].q.id < inbox'[j].q.id
<3>1. i + 1 \in DOMAIN inbox /\ j + 1 \in DOMAIN inbox /\ i + 1 < j + 1
  BY <1>2, <1>3, <2>1
<3> QED
  BY <1>3, <2>1, <3>1 DEF IInv, BurstOrder
<2>2. ASSUME cur'.q.op = "burst", NEW i \in DOMAIN inbox', inbox'[i].q.op = "burst"
      PROVE  cur'.q.id < inbox'[i].q.id
<3>1. 1 \in DOMAIN inbox /\ i + 1 \in DOMAIN inbox /\ 1 < i + 1
  BY <1>2, <1>3
<3> QED
  BY <1>2, <1>3, <1>5, <2>2, <3>1 DEF IInv, BurstOrder
<2> QED
  BY <2>1, <2>2 DEF BurstOrder
<1>16. Latest' = Latest
  BY <1>1 DEF Latest, Sent
<1>17. LatestInv'
<2>1. cur'.q.op = "burst" => Latest.req < cur'.q.id
  BY <1>2, <1>5 DEF IInv, LatestInv
<2>2. \A i \in DOMAIN inbox' : inbox'[i].q.op = "burst" => Latest.req < inbox'[i].q.id
  BY <1>3 DEF IInv, LatestInv
<2>3. pc' \in Bursting => Latest.req < cur'.q.id /\ Latest.req <= cur'.q.id
<3>1. cur'.q.op = "burst" => cur'.q.id \in Nat
  BY <1>5, RequestIs
<3>2. Latest.req \in Nat
  BY LatestIs DEF IInv
<3> QED
  BY <1>5, <2>1, <3>1, <3>2 DEF Bursting
<2> QED
  BY <1>1, <1>5, <1>16, <2>1, <2>2, <2>3 DEF IInv, LatestInv
<1>18. BlockInv'
  BY <1>5 DEF BlockInv
<1> QED
  BY <1>7, <1>8, <1>9, <1>10, <1>11, <1>12, <1>13, <1>14, <1>15, <1>17, <1>18 DEF IInv

\* What the ground knows after an answer.
LEMMA AnsweredIs ==
  ASSUME IInv, NEW q \in Request, NEW ok \in BOOLEAN, q.op = "start" => gr.req \in Uploads
  PROVE  LET g == Answered(q, ok)
         IN  /\ g \in [req : {0} \cup Uploads, acked : Nat,
                       mode : {"idle", "start", "send", "done"}, waiting : BOOLEAN, clean : BOOLEAN]
             /\ g.req = gr.req
             /\ ~ok \/ q.op = "burst" =>
                  g.acked = gr.acked /\ g.mode = gr.mode /\ g.clean = gr.clean
             /\ ok /\ q.op = "start" =>
                  g.mode = "send" /\ g.acked = q.skip /\ (g.clean => q.skip = 0 \/ gr.clean)
             /\ ok /\ q.op = "packet" /\ q.count + 1 < Size[q.req] =>
                  g.acked = gr.acked + 1 /\ g.mode = gr.mode /\ g.clean = gr.clean
             /\ ok /\ q.op = "packet" /\ ~(q.count + 1 < Size[q.req]) =>
                  g.acked = 0 /\ g.mode = "done" /\ g.clean = gr.clean
<1> DEFINE h == [gr EXCEPT !.waiting = FALSE]
<1>1. /\ h \in [req : {0} \cup Uploads, acked : Nat,
                mode : {"idle", "start", "send", "done"}, waiting : BOOLEAN, clean : BOOLEAN]
      /\ h.req = gr.req /\ h.acked = gr.acked /\ h.mode = gr.mode /\ h.clean = gr.clean
  BY DEF IInv, GroundOK
<1> HIDE DEF h
<1>2. CASE ~ok \/ q.op = "burst"
  BY <1>1, <1>2 DEF Answered, h
<1>3. CASE ok /\ q.op = "start"
<2> DEFINE clean == q.skip = 0 \/ h.clean
<2>1. clean \in BOOLEAN /\ q.skip \in Nat
  BY <1>1, <1>3, RequestIs
<2>2. Answered(q, ok) = [h EXCEPT !.mode = "send", !.acked = q.skip, !.clean = clean]
  BY <1>3 DEF Answered, h
<2>3. clean => q.skip = 0 \/ gr.clean
  BY <1>1
<2> HIDE DEF clean
<2> QED
  BY <1>1, <1>3, <2>1, <2>2, <2>3
<1>4. CASE ok /\ q.op = "packet" /\ q.count + 1 < Size[q.req]
<2>1. Answered(q, ok) = [h EXCEPT !.acked = @ + 1]
  BY <1>4 DEF Answered, h
<2>2. /\ Answered(q, ok) \in [req : {0} \cup Uploads, acked : Nat,
                mode : {"idle", "start", "send", "done"}, waiting : BOOLEAN, clean : BOOLEAN]
      /\ Answered(q, ok).req = gr.req /\ Answered(q, ok).acked = gr.acked + 1
      /\ Answered(q, ok).mode = gr.mode /\ Answered(q, ok).clean = gr.clean
  BY <1>1, <2>1
<2> QED
  BY <1>4, <2>2
<1>5. CASE ok /\ q.op = "packet" /\ ~(q.count + 1 < Size[q.req])
<2>1. Answered(q, ok) = [h EXCEPT !.acked = 0, !.mode = "done"]
  BY <1>5 DEF Answered, h
<2> DEFINE k == [h EXCEPT !.acked = 0]
<2>2. Answered(q, ok) = [k EXCEPT !.mode = "done"]
  BY <1>1, <2>1
<2>3. k \in [req : {0} \cup Uploads, acked : Nat,
            mode : {"idle", "start", "send", "done"}, waiting : BOOLEAN, clean : BOOLEAN]
  BY <1>1
<2>4. k.req = gr.req /\ k.acked = 0 /\ k.clean = gr.clean
  BY <1>1
<2> HIDE DEF k
<2>5. Answered(q, ok) \in [req : {0} \cup Uploads, acked : Nat,
                mode : {"idle", "start", "send", "done"}, waiting : BOOLEAN, clean : BOOLEAN]
  BY <2>2, <2>3
<2>6. /\ Answered(q, ok).req = gr.req /\ Answered(q, ok).acked = 0
      /\ Answered(q, ok).mode = "done" /\ Answered(q, ok).clean = gr.clean
  BY <2>2, <2>3, <2>4
<2> QED
  BY <1>5, <2>5, <2>6
<1> QED
  BY <1>2, <1>3, <1>4, <1>5, RequestIs

LEMMA ReplyInv ==
  ASSUME IInv, Reply
  PROVE  IInv'
<1> DEFINE q == cur.q
<1>1. /\ pc = "reply" /\ pc' = "idle" /\ cur' = NoRequest
      /\ UNCHANGED <<vol, disk, handle, ofd, rec, inbox, burst, heap, queue, snd, air,
                     reqs, faults, resets>>
      /\ gr' = gr \/ (cur.live /\ gr' = Answered(cur.q, cur.ok))
  BY DEF Reply, volume, downlink, bounds
<1>2. /\ cur \in [live : BOOLEAN, q : Request, fd : 0 .. Handles, ok : BOOLEAN]
      /\ q \in Request /\ cur # NoRequest /\ cur.ok \in BOOLEAN
  BY <1>1, Serving DEF IInv
<1>3. cur'.q.op = "none" /\ cur'.fd = 0 /\ cur'.live = FALSE
  BY <1>1 DEF NoRequest
<1>4. /\ q.op \in {"start", "packet", "burst"}
      /\ q.op = "start" => q.req \in Uploads /\ q.skip \in Nat
      /\ q.op = "packet" => q.req \in Uploads /\ q.count \in Nat
  BY <1>2, RequestIs
<1>5. VolOK' /\ CurOK' /\ InboxOK' /\ HeapOK'
  BY <1>1, <1>3 DEF IInv, VolOK, IsVolume, Open, CurOK, InboxOK, HeapOK, Starting, Storing, Bursting
<1>6. faults \cap {"close", "truncate", "seek"} = {} => cur.fd = 0
  BY <1>1 DEF IInv, HandleInv
<1>7. HandleInv'
  BY <1>1, <1>3, <1>6 DEF IInv, HandleInv, Open
<1>8. ServedInv'
  BY <1>1, <1>3 DEF ServedInv
<1>9. BufferInv' /\ AirInv'
  BY <1>1 DEF IInv, BufferInv, Unique, AirInv, Sent, Follows
<1>10. BurstOrder'
  BY <1>1, <1>3 DEF IInv, BurstOrder
<1>11. Latest' = Latest
  BY <1>1 DEF Latest, Sent
<1>12. LatestInv' /\ BlockInv'
  BY <1>1, <1>11 DEF IInv, LatestInv, BlockInv, Bursting
<1>13. ASSUME gr' = gr PROVE GroundOK' /\ OrderInv' /\ AskedInv' /\ FileInv'
<2>1. GroundOK'
  BY <1>1, <1>13 DEF IInv, GroundOK
<2>2. OrderInv' /\ AskedInv'
  BY <1>1, <1>3, <1>13 DEF IInv, OrderInv, AskedInv
<2>3. FileInv'
  BY <1>1, <1>13 DEF IInv, FileInv, Holds, Sized, Sound
<2> QED
  BY <2>1, <2>2, <2>3
<1>14. ASSUME cur.live, gr' = Answered(cur.q, cur.ok)
       PROVE  GroundOK' /\ OrderInv' /\ AskedInv' /\ FileInv'
<2>1. inbox = << >> /\ inbox' = << >>
  BY <1>1, <1>14 DEF IInv, OrderInv
<2>2. OrderInv' /\ AskedInv'
  BY <1>1, <1>3, <2>1 DEF OrderInv, AskedInv
<2>3. /\ q.op = "start" => gr.mode = "start" /\ q.req = gr.req /\ q.skip <= gr.acked
      /\ q.op = "packet" => /\ gr.mode = "send" /\ q.req = gr.req /\ q.count = gr.acked
                            /\ q.count < Size[q.req]
  BY <1>2, <1>14 DEF IInv, AskedInv, Asked
<2>4. /\ gr' \in [req : {0} \cup Uploads, acked : Nat, mode : {"idle", "start", "send", "done"},
                  waiting : BOOLEAN, clean : BOOLEAN]
      /\ gr'.req = gr.req
      /\ ~cur.ok \/ q.op = "burst" =>
           gr'.acked = gr.acked /\ gr'.mode = gr.mode /\ gr'.clean = gr.clean
      /\ cur.ok /\ q.op = "start" =>
           gr'.mode = "send" /\ gr'.acked = q.skip /\ (gr'.clean => q.skip = 0 \/ gr.clean)
      /\ cur.ok /\ q.op = "packet" /\ q.count + 1 < Size[q.req] =>
           gr'.acked = gr.acked + 1 /\ gr'.mode = gr.mode /\ gr'.clean = gr.clean
      /\ cur.ok /\ q.op = "packet" /\ ~(q.count + 1 < Size[q.req]) =>
           gr'.acked = 0 /\ gr'.mode = "done" /\ gr'.clean = gr.clean
  BY <1>2, <1>4, <1>14, <2>3, AnsweredIs
<2>5. q.op \in {"start", "packet"} => q.req = gr.req /\ gr.req \in Uploads /\ Size[gr.req] \in Nat \ {0}
  BY <1>4, <2>3, UploadsAssumption
<2>6. CASE ~cur.ok \/ q.op = "burst"
<3>1. GroundOK'
  BY <1>1, <2>4, <2>6 DEF IInv, GroundOK
<3>2. FileInv'
  BY <1>1, <2>4, <2>6 DEF IInv, FileInv, Holds, Sized, Sound
<3> QED
  BY <2>2, <3>1, <3>2
<2>7. CASE cur.ok /\ q.op = "start"
<3>1. gr.acked < Size[gr.req] /\ gr.acked \in Nat
  BY <2>5, <2>7 DEF IInv, GroundOK
<3>2. GroundOK'
  BY <1>1, <1>4, <2>3, <2>4, <2>5, <2>7, <3>1 DEF IInv, GroundOK
<3>3. ASSUME Sound' PROVE Sized(gr.req)
  BY <1>1, <2>5, <2>7, <3>3 DEF IInv, ServedInv, Sound
<3>4. ASSUME Sound', gr'.clean, gr'.acked > 0 PROVE Holds(gr.req, gr'.acked)
<4>1. gr.clean /\ gr.acked > 0 /\ gr'.acked <= gr.acked /\ gr'.acked \in Nat
  BY <1>4, <2>3, <2>4, <2>7, <3>1, <3>4
<4>2. Holds(gr.req, gr.acked)
  BY <1>1, <2>3, <2>7, <3>4, <4>1 DEF IInv, FileInv, Sound
<4>3. Len(vol[Target[gr.req]]) \in Nat
  BY <4>2 DEF IInv, VolOK, IsVolume, Holds
<4> QED
  BY <3>1, <4>1, <4>2, <4>3 DEF Holds
<3>5. FileInv'
  BY <1>1, <2>4, <2>7, <3>3, <3>4 DEF FileInv, Holds, Sized
<3> QED
  BY <2>2, <3>2, <3>5
<2>8. CASE cur.ok /\ q.op = "packet" /\ q.count + 1 < Size[q.req]
<3>1. gr.mode = "send" /\ gr.acked = q.count /\ gr.acked \in Nat
  BY <2>3, <2>8 DEF IInv, GroundOK
<3>2. GroundOK'
  BY <1>1, <2>4, <2>5, <2>8, <3>1 DEF IInv, GroundOK
<3>3. ASSUME Sound', gr.clean PROVE Sized(gr.req) /\ Holds(gr.req, gr.acked + 1)
<4> DEFINE s == vol[Target[gr.req]]
<4>1. Sized(gr.req) /\ (gr.acked > 0 => Holds(gr.req, gr.acked))
  BY <1>1, <3>1, <3>3 DEF IInv, FileInv, Sound
<4>2. s[gr.acked + 1] = <<gr.req, gr.acked>>
  BY <1>1, <2>5, <2>8, <3>1, <3>3 DEF IInv, ServedInv, Stored, Sound
<4>3. ASSUME NEW k \in 1 .. gr.acked + 1 PROVE s[k] = <<gr.req, k - 1>>
<5>1. CASE k = gr.acked + 1
  BY <3>1, <4>2, <5>1
<5>2. CASE k # gr.acked + 1
<6>1. k \in 1 .. gr.acked /\ gr.acked > 0
  BY <3>1, <5>2
<6> QED
  BY <4>1, <6>1 DEF Holds
<5> QED
  BY <5>1, <5>2
<4>4. gr.acked + 1 <= Len(s)
  BY <2>5, <2>8, <3>1, <4>1 DEF Sized
<4> QED
  BY <4>1, <4>3, <4>4 DEF Holds, Sized
<3>4. FileInv'
  BY <1>1, <2>4, <2>8, <3>1, <3>3 DEF FileInv, Holds, Sized
<3> QED
  BY <2>2, <3>2, <3>4
<2>9. CASE cur.ok /\ q.op = "packet" /\ ~(q.count + 1 < Size[q.req])
<3>1. gr.mode = "send" /\ gr.acked = q.count /\ gr.acked \in Nat /\ q.count + 1 = Size[gr.req]
  BY <1>4, <2>3, <2>5, <2>9 DEF IInv, GroundOK
<3>2. GroundOK'
  BY <1>1, <2>4, <2>5, <2>9, <3>1 DEF IInv, GroundOK
<3>3. ASSUME Sound', gr.clean
      PROVE  /\ Target[gr.req] \in DOMAIN vol /\ vol[Target[gr.req]] = Whole(gr.req)
             /\ Target[gr.req] \in DOMAIN disk /\ disk[Target[gr.req]] = Whole(gr.req)
<4> DEFINE s == vol[Target[gr.req]]
<4>1. Sized(gr.req) /\ (gr.acked > 0 => Holds(gr.req, gr.acked))
  BY <1>1, <3>1, <3>3 DEF IInv, FileInv, Sound
<4>2. /\ s[gr.acked + 1] = <<gr.req, gr.acked>>
      /\ Target[gr.req] \in DOMAIN disk /\ disk[Target[gr.req]] = s
  BY <1>1, <2>5, <2>9, <3>1, <3>3 DEF IInv, ServedInv, Stored, Sound
<4>3. s \in Seq(Blocks) /\ Len(s) = Size[gr.req] /\ DOMAIN s = 1 .. Size[gr.req]
  BY <4>1 DEF IInv, VolOK, IsVolume, Sized
<4>4. ASSUME NEW k \in 1 .. Size[gr.req] PROVE s[k] = <<gr.req, k - 1>>
<5>1. CASE k = gr.acked + 1
  BY <3>1, <4>2, <5>1
<5>2. CASE k # gr.acked + 1
<6>1. k \in 1 .. gr.acked /\ gr.acked > 0
  BY <3>1, <5>2
<6> QED
  BY <4>1, <6>1 DEF Holds
<5> QED
  BY <5>1, <5>2
<4>5. s = [k \in 1 .. Size[gr.req] |-> s[k]]
  BY <4>3
<4>6. s = Whole(gr.req)
  BY <4>4, <4>5 DEF Whole
<4> QED
  BY <4>1, <4>2, <4>6 DEF Sized
<3>4. FileInv'
  BY <1>1, <2>4, <2>9, <3>1, <3>3 DEF FileInv, Holds, Sized, Whole
<3> QED
  BY <2>2, <3>2, <3>4
<2> QED
  BY <1>4, <2>6, <2>7, <2>8, <2>9
<1> QED
  BY <1>1, <1>5, <1>7, <1>8, <1>9, <1>10, <1>12, <1>13, <1>14 DEF IInv

-----------------------------------------------------------------------------
(* The service: uploads.                                                   *)

LEMMA CloseInv ==
  ASSUME IInv, Close
  PROVE  IInv'
<1>1. cur.fd \in 0 .. Handles /\ faults \subseteq Kinds /\ VolOK /\ vol' = vol
  BY Serving DEF IInv, Close, CurOK, GroundOK
<1>2. /\ faults \subseteq faults' /\ faults' \subseteq Kinds
      /\ disk' \in {disk, vol}
      /\ handle' \in [1 .. Handles -> {"free"} \cup Volume]
      /\ \A g \in 1 .. Handles : handle'[g] \in {handle[g], "free"}
      /\ \A g \in 1 .. Handles : g # cur.fd => handle'[g] = handle[g]
      /\ "close" \in faults' \/ (cur.fd # 0 => handle'[cur.fd] = "free")
      /\ "close" \in faults' \/ (Open(cur.fd) => disk' = vol)
  BY <1>1, CloseFileIs DEF Close
<1>3. HeapOK' /\ BufferInv' /\ LatestInv' /\ BlockInv' /\ AirInv'
  BY <1>2, DownlinkKept DEF IInv, Close, Bursting, downlink
<1>4. /\ cur \in [live : BOOLEAN, q : Request, fd : 0 .. Handles, ok : BOOLEAN]
      /\ cur' \in [live : BOOLEAN, q : Request, fd : 0 .. Handles, ok : BOOLEAN]
      /\ cur # NoRequest /\ cur' # NoRequest /\ cur'.fd = 0
      /\ cur'.q = cur.q /\ cur'.live = cur.live /\ cur'.ok = cur.ok
  BY Serving, NotNone, LimitsAssumption DEF IInv, Close
<1>5. InboxOK' /\ OrderInv' /\ AskedInv' /\ BurstOrder'
  BY <1>4, RequestsKept DEF IInv, Close
<1>6. GroundOK'
  BY <1>2, GroundKept DEF IInv, Close
<1>7. VolOK'
  BY <1>2 DEF IInv, Close, VolOK, Open
<1>8. CurOK'
  BY <1>4 DEF IInv, Close, CurOK, Starting, Storing, Bursting
<1>9. HandleInv'
  BY <1>2, <1>4 DEF IInv, Close, HandleInv, VolOK, CurOK, Open
<1>10. FileInv'
  BY <1>2, FileKept DEF IInv, Close
<1>11. ServedInv'
<2>1. ASSUME Sound' PROVE Sound /\ (cur.fd # 0 => disk' = vol)
<3>1. Sound
  BY <1>2, <2>1 DEF Sound
<3>2. cur.fd # 0 => Open(cur.fd)
  BY <1>1, <3>1, FileNames, LimitsAssumption DEF IInv, HandleInv, Sound, Open
<3> QED
  BY <1>2, <2>1, <3>1, <3>2 DEF Sound
<2> QED
  BY <1>4, <2>1 DEF IInv, Close, ServedInv, Sized, Stored
<1> QED
  BY <1>3, <1>5, <1>6, <1>7, <1>8, <1>9, <1>10, <1>11 DEF IInv

LEMMA StartClosesInv ==
  ASSUME IInv, StartCloses
  PROVE  IInv'
<1>1. rec.fd \in 0 .. Handles /\ faults \subseteq Kinds /\ VolOK /\ vol' = vol
  BY DEF IInv, StartCloses, CurOK, GroundOK
<1>2. /\ faults \subseteq faults' /\ faults' \subseteq Kinds
      /\ disk' \in {disk, vol}
      /\ handle' \in [1 .. Handles -> {"free"} \cup Volume]
      /\ \A g \in 1 .. Handles : handle'[g] \in {handle[g], "free"}
      /\ \A g \in 1 .. Handles : g # rec.fd => handle'[g] = handle[g]
      /\ "close" \in faults' \/ (rec.fd # 0 => handle'[rec.fd] = "free")
<2>1. CASE rec.fd # 0
  BY <1>1, <2>1, CloseFileIs DEF StartCloses
<2>2. CASE rec.fd = 0
  BY <1>1, <2>2 DEF StartCloses, VolOK
<2> QED
  BY <2>1, <2>2
<1>3. HeapOK' /\ BufferInv' /\ LatestInv' /\ BlockInv' /\ AirInv'
  BY <1>2, DownlinkKept DEF IInv, StartCloses, Bursting, downlink
<1>4. cur # NoRequest /\ cur' = cur
  BY Serving DEF IInv, StartCloses
<1>5. InboxOK' /\ OrderInv' /\ AskedInv' /\ BurstOrder'
  BY <1>4, RequestsKept DEF IInv, StartCloses
<1>6. GroundOK'
  BY <1>2, GroundKept DEF IInv, StartCloses
<1>7. VolOK'
  BY <1>2 DEF IInv, StartCloses, VolOK, Open
<1>8. CurOK'
  BY <1>4, LimitsAssumption DEF IInv, StartCloses, CurOK, Starting, Storing, Bursting
<1>9. HandleInv'
  BY <1>2, <1>4 DEF IInv, StartCloses, HandleInv, VolOK, CurOK, Open
<1>10. FileInv'
  BY <1>2, FileKept DEF IInv, StartCloses
<1>11. ServedInv'
  BY <1>4 DEF IInv, StartCloses, ServedInv, CurOK, Starting
<1> QED
  BY <1>3, <1>5, <1>6, <1>7, <1>8, <1>9, <1>10, <1>11 DEF IInv

LEMMA StartOpensInv ==
  ASSUME IInv, StartOpens
  PROVE  IInv'
<1> DEFINE f == Target[cur.q.req]
<1>1. /\ cur \in [live : BOOLEAN, q : Request, fd : 0 .. Handles, ok : BOOLEAN]
      /\ cur.q \in Request /\ cur # NoRequest /\ cur.q.op = "start"
      /\ cur.q.req \in Uploads /\ f \in Files /\ f \notin {"free", "other"}
  BY Serving, RequestIs, UploadsAssumption DEF IInv, StartOpens, CurOK, Starting, Files
<1>2. faults \subseteq faults' /\ faults' \subseteq Kinds
  BY FaultGrows DEF IInv, GroundOK, StartOpens, Kinds
<1>3. \/ \E fd \in 1 .. Handles :
           /\ ~Open(fd) /\ handle' = [handle EXCEPT ![fd] = f]
           /\ cur' = [cur EXCEPT !.fd = fd] /\ pc' = "truncate"
           /\ vol' = IF f \in DOMAIN vol THEN vol
                     ELSE [g \in DOMAIN vol \cup {f} |-> IF g = f THEN << >> ELSE vol[g]]
           /\ disk' = IF f \in DOMAIN vol THEN disk ELSE vol'
      \/ cur' = [cur EXCEPT !.ok = FALSE] /\ pc' = "reply" /\ UNCHANGED <<vol, disk, handle>>
  BY DEF StartOpens, Lowest, volume
<1>4. /\ cur' \in [live : BOOLEAN, q : Request, fd : 0 .. Handles, ok : BOOLEAN]
      /\ cur'.q = cur.q /\ cur'.live = cur.live /\ cur' # NoRequest
<2>1. CASE \E fd \in 1 .. Handles : cur' = [cur EXCEPT !.fd = fd]
  BY <1>1, <2>1, NotNone, LimitsAssumption
<2>2. CASE cur' = [cur EXCEPT !.ok = FALSE]
  BY <1>1, <2>2, NotNone
<2> QED
  BY <1>3, <2>1, <2>2
<1>5. HeapOK' /\ BufferInv' /\ LatestInv' /\ BlockInv' /\ AirInv'
  BY <1>2, <1>3, DownlinkKept DEF IInv, StartOpens, Bursting, downlink
<1>6. InboxOK' /\ OrderInv' /\ AskedInv' /\ BurstOrder'
  BY <1>1, <1>4, RequestsKept DEF IInv, StartOpens
<1>7. GroundOK'
  BY <1>2, GroundKept DEF IInv, StartOpens
<1>8. /\ IsVolume(vol') /\ IsVolume(disk')
      /\ DOMAIN vol \subseteq DOMAIN vol' /\ \A g \in DOMAIN vol : vol'[g] = vol[g]
      /\ "other" \in DOMAIN disk' /\ (disk["other"] = << >> /\ vol["other"] = << >> => disk'["other"] = << >>)
<2>1. CASE f \in DOMAIN vol \/ (vol' = vol /\ disk' = disk)
  BY <1>3, <2>1 DEF IInv, VolOK, IsVolume
<2>2. CASE /\ vol' = [g \in DOMAIN vol \cup {f} |-> IF g = f THEN << >> ELSE vol[g]]
           /\ disk' = vol' /\ f \notin DOMAIN vol
<3>1. DOMAIN vol' \subseteq Volume /\ << >> \in Seq(Blocks)
  BY <1>1, <2>2 DEF IInv, VolOK, IsVolume, Volume
<3>2. \A g \in DOMAIN vol' : vol'[g] \in Seq(Blocks)
  BY <2>2, <3>1 DEF IInv, VolOK, IsVolume
<3> QED
  BY <1>1, <2>2, <3>1, <3>2 DEF IInv, VolOK, IsVolume
<2> QED
  BY <1>3, <2>1, <2>2
<1>9. VolOK'
<2>1. CASE UNCHANGED handle
  BY <1>8, <2>1 DEF IInv, StartOpens, VolOK, Open
<2>2. CASE \E fd \in 1 .. Handles : handle' = [handle EXCEPT ![fd] = f] /\ f \in DOMAIN vol'
<3>1. handle' \in [1 .. Handles -> {"free"} \cup Volume]
  BY <1>1, <2>2 DEF IInv, VolOK, Volume
<3>2. \A g \in 1 .. Handles : handle'[g] = handle[g] \/ (handle'[g] = f /\ f \in DOMAIN vol')
  BY <2>2 DEF IInv, VolOK
<3> QED
  BY <1>8, <3>1, <3>2 DEF IInv, StartOpens, VolOK, Open
<2>3. f \in DOMAIN vol' \/ UNCHANGED handle
  BY <1>3
<2> QED
  BY <1>3, <2>1, <2>2, <2>3
<1>10. CurOK'
  BY <1>1, <1>3, <1>4 DEF IInv, StartOpens, CurOK, Starting, Storing, Bursting
<1>11. HandleInv'
  BY <1>1, <1>2, <1>3, <1>4, <1>8, LimitsAssumption DEF IInv, StartOpens, HandleInv, VolOK, CurOK, Open
<1>12. FileInv'
<2>1. gr.mode # "done" /\ UNCHANGED gr /\ (Sound' => Sound)
  BY <1>1, <1>2 DEF IInv, AskedInv, Asked, StartOpens, Sound
<2> QED
  BY <1>8, <2>1 DEF IInv, FileInv, Holds, Sized
<1>13. ServedInv'
  BY <1>1, <1>3, <1>4 DEF IInv, StartOpens, ServedInv
<1> QED
  BY <1>5, <1>6, <1>7, <1>9, <1>10, <1>11, <1>12, <1>13 DEF IInv

LEMMA ResizedIs ==
  ASSUME NEW s \in Seq(Blocks), NEW n \in Nat
  PROVE  /\ Resized(s, n) \in Seq(Blocks) /\ Len(Resized(s, n)) = n
         /\ \A k \in 1 .. n : k <= Len(s) => Resized(s, n)[k] = s[k]
<1>1. \A k \in 1 .. n : (IF k <= Len(s) THEN s[k] ELSE Hole) \in Blocks
  BY DEF Blocks
<1>2. Resized(s, n) \in [1 .. n -> Blocks]
  BY <1>1 DEF Resized
<1> QED
  BY <1>2 DEF Resized

LEMMA StartTruncatesInv ==
  ASSUME IInv, StartTruncates
  PROVE  IInv'
<1> DEFINE f == handle[cur.fd]
           n == Size[cur.q.req]
<1>1. /\ cur \in [live : BOOLEAN, q : Request, fd : 0 .. Handles, ok : BOOLEAN]
      /\ cur.q \in Request /\ cur # NoRequest /\ cur.q.op = "start"
      /\ cur.q.req \in Uploads /\ n \in Nat
  BY Serving, RequestIs, UploadsAssumption DEF IInv, StartTruncates, CurOK, Starting
<1>2. \/ /\ Open(cur.fd) /\ vol' = [vol EXCEPT ![f] = Resized(@, n)]
         /\ UNCHANGED <<disk, handle, cur, faults>>
      \/ /\ UNCHANGED vol /\ cur' = [cur EXCEPT !.ok = FALSE]
         /\ IF Open(cur.fd)
            THEN Fault("truncate") /\ disk' = vol /\ handle' = [handle EXCEPT ![cur.fd] = "free"]
            ELSE UNCHANGED <<disk, handle, faults>>
  BY DEF StartTruncates
<1>3. faults \subseteq faults' /\ faults' \subseteq Kinds
  BY <1>2, FaultGrows DEF IInv, GroundOK, Kinds
<1>4. /\ cur' \in [live : BOOLEAN, q : Request, fd : 0 .. Handles, ok : BOOLEAN]
      /\ cur'.q = cur.q /\ cur'.live = cur.live /\ cur'.fd = cur.fd /\ cur' # NoRequest
  BY <1>1, <1>2, NotNone
<1>5. HeapOK' /\ BufferInv' /\ LatestInv' /\ BlockInv' /\ AirInv'
  BY <1>3, DownlinkKept DEF IInv, StartTruncates, Bursting, downlink
<1>6. InboxOK' /\ OrderInv' /\ AskedInv' /\ BurstOrder'
  BY <1>1, <1>4, RequestsKept DEF IInv, StartTruncates
<1>7. GroundOK'
  BY <1>3, GroundKept DEF IInv, StartTruncates
<1>8. /\ IsVolume(vol') /\ IsVolume(disk') /\ DOMAIN vol' = DOMAIN vol
      /\ \A g \in DOMAIN vol : g # f => vol'[g] = vol[g]
      /\ "other" \in DOMAIN disk'
<2>1. CASE Open(cur.fd) /\ vol' = [vol EXCEPT ![f] = Resized(@, n)] /\ UNCHANGED disk
<3>1. f \in DOMAIN vol /\ vol[f] \in Seq(Blocks)
  BY <2>1 DEF IInv, VolOK, IsVolume, Open
<3>2. Resized(vol[f], n) \in Seq(Blocks)
  BY <1>1, <3>1, ResizedIs
<3> QED
  BY <2>1, <3>1, <3>2 DEF IInv, VolOK, IsVolume
<2> QED
  BY <1>2, <2>1 DEF IInv, VolOK, IsVolume
<1>9. VolOK'
  BY <1>2, <1>8 DEF IInv, StartTruncates, VolOK, Open, Volume
<1>10. CurOK'
  BY <1>1, <1>4 DEF IInv, StartTruncates, CurOK, Starting, Storing, Bursting
<1>11. HandleInv'
  BY <1>1, <1>2, <1>3, <1>4, <1>8, UploadsAssumption, LimitsAssumption
     DEF IInv, StartTruncates, HandleInv, VolOK, CurOK, Open, Fault
<1>12. Sound' => Sound /\ Open(cur.fd) /\ f = Target[cur.q.req] /\ f \in DOMAIN vol
<2> SUFFICES ASSUME Sound' PROVE Sound /\ Open(cur.fd) /\ f = Target[cur.q.req] /\ f \in DOMAIN vol
  OBVIOUS
<2>1. Sound
  BY <1>3 DEF Sound
<2>2. cur.fd # 0 /\ f = Target[cur.q.req]
  BY <2>1 DEF IInv, HandleInv, Sound, StartTruncates
<2>3. Open(cur.fd)
  BY <1>1, <2>2, FileNames, LimitsAssumption DEF Open
<2> QED
  BY <2>1, <2>2, <2>3 DEF IInv, VolOK, Open
<1>13. Sound' => vol' = [vol EXCEPT ![f] = Resized(vol[f], n)]
  BY <1>2, <1>12 DEF Sound, Fault
<1>14. f \in DOMAIN vol =>
         /\ Len(Resized(vol[f], n)) = n
         /\ \A k \in 1 .. n : k <= Len(vol[f]) => Resized(vol[f], n)[k] = vol[f][k]
  BY <1>1, ResizedIs DEF IInv, VolOK, IsVolume
<1>15. FileInv'
<2> SUFFICES ASSUME Sound', gr.clean, gr.mode = "start", gr.acked > 0 PROVE Holds(gr.req, gr.acked)'
<3>1. gr.mode = "start" /\ gr' = gr
  BY <1>1 DEF IInv, AskedInv, Asked, StartTruncates
<3> QED
  BY <3>1 DEF FileInv
<2>1. Holds(gr.req, gr.acked) /\ cur.q.req = gr.req /\ gr.acked < n /\ gr.acked \in Nat
  BY <1>1, <1>12 DEF IInv, AskedInv, Asked, FileInv, GroundOK
<2>2. vol'[f] = Resized(vol[f], n) /\ f = Target[gr.req] /\ f \in DOMAIN vol
  BY <1>12, <1>13, <2>1
<2>3. Len(vol'[f]) = n /\ gr.acked <= Len(vol[f])
  BY <1>14, <2>1, <2>2 DEF Holds
<2>4. ASSUME NEW k \in 1 .. gr.acked PROVE vol'[f][k] = <<gr.req, k - 1>>
<3>1. k \in 1 .. n /\ k <= Len(vol[f]) /\ vol[f][k] = <<gr.req, k - 1>>
  BY <1>1, <2>1, <2>2, <2>3 DEF Holds, IInv, VolOK, IsVolume
<3> QED
  BY <1>14, <2>2, <3>1
<2>5. gr' = gr /\ DOMAIN vol' = DOMAIN vol
  BY <1>8 DEF StartTruncates
<2> QED
  BY <1>1, <2>1, <2>2, <2>3, <2>4, <2>5 DEF Holds
<1>16. ServedInv'
<2> SUFFICES ASSUME Sound' PROVE Sized(cur.q.req)'
  BY <1>1, <1>4 DEF StartTruncates, ServedInv
<2> QED
  BY <1>4, <1>8, <1>12, <1>13, <1>14 DEF Sized
<1> QED
  BY <1>5, <1>6, <1>7, <1>9, <1>10, <1>11, <1>15, <1>16 DEF IInv

LEMMA StartRecordsInv ==
  ASSUME IInv, StartRecords
  PROVE  IInv'
<1>1. /\ cur \in [live : BOOLEAN, q : Request, fd : 0 .. Handles, ok : BOOLEAN]
      /\ cur.q \in Request /\ cur # NoRequest /\ cur.q.op = "start"
      /\ cur.q.req \in Uploads /\ cur.q.skip \in Nat
  BY Serving, RequestIs DEF IInv, StartRecords, CurOK, Starting
<1>2. \/ /\ Open(cur.fd) /\ UNCHANGED faults
         /\ rec' = [req |-> cur.q.req, count |-> cur.q.skip, fd |-> cur.fd]
         /\ cur' = [cur EXCEPT !.fd = 0] /\ pc' = "reply"
      \/ /\ rec' = [req |-> cur.q.req, count |-> cur.q.skip, fd |-> 0]
         /\ cur' = [cur EXCEPT !.ok = FALSE] /\ pc' = "close"
  BY DEF StartRecords
<1>3. faults \subseteq faults' /\ faults' \subseteq Kinds
  BY FaultGrows DEF IInv, GroundOK, StartRecords, Kinds
<1>4. /\ cur' \in [live : BOOLEAN, q : Request, fd : 0 .. Handles, ok : BOOLEAN]
      /\ cur'.q = cur.q /\ cur'.live = cur.live /\ cur' # NoRequest
<2>1. CASE cur' = [cur EXCEPT !.fd = 0]
  BY <1>1, <2>1, NotNone, LimitsAssumption
<2>2. CASE cur' = [cur EXCEPT !.ok = FALSE]
  BY <1>1, <2>2, NotNone
<2> QED
  BY <1>2, <2>1, <2>2
<1>5. HeapOK' /\ BufferInv' /\ LatestInv' /\ BlockInv' /\ AirInv'
  BY <1>2, <1>3, DownlinkKept DEF IInv, StartRecords, Bursting, downlink
<1>6. InboxOK' /\ OrderInv' /\ AskedInv' /\ BurstOrder'
  BY <1>1, <1>4, RequestsKept DEF IInv, StartRecords
<1>7. GroundOK'
  BY <1>3, GroundKept DEF IInv, StartRecords
<1>8. UNCHANGED <<vol, disk, handle, ofd, gr>>
  BY DEF StartRecords, volume
<1>9. VolOK'
  BY <1>8 DEF IInv, VolOK, IsVolume, Open
<1>10. CurOK'
  BY <1>1, <1>2, <1>4, LimitsAssumption DEF IInv, CurOK, Starting, Storing, Bursting
<1>11. HandleInv'
  BY <1>1, <1>2, <1>3, <1>8, LimitsAssumption DEF IInv, StartRecords, HandleInv, VolOK, CurOK, Open
<1>12. FileInv'
  BY <1>3, <1>8, FileKept DEF IInv
<1>13. ServedInv'
  BY <1>1, <1>2, <1>3, <1>8 DEF IInv, StartRecords, ServedInv, Sound, Sized
<1> QED
  BY <1>5, <1>6, <1>7, <1>9, <1>10, <1>11, <1>12, <1>13 DEF IInv

LEMMA PutIs ==
  ASSUME NEW s \in Seq(Blocks), NEW k \in Nat, NEW b \in Blocks
  PROVE  /\ Put(s, k, b) \in Seq(Blocks)
         /\ Len(Put(s, k, b)) = IF k + 1 > Len(s) THEN k + 1 ELSE Len(s)
         /\ Put(s, k, b)[k + 1] = b
         /\ \A i \in 1 .. Len(s) : i # k + 1 => Put(s, k, b)[i] = s[i]
<1> DEFINE n == IF k + 1 > Len(s) THEN k + 1 ELSE Len(s)
<1>1. n \in Nat /\ k + 1 \in 1 .. n /\ 1 .. Len(s) \subseteq 1 .. n
  OBVIOUS
<1>2. \A i \in 1 .. n : (IF i = k + 1 THEN b ELSE IF i <= Len(s) THEN s[i] ELSE Hole) \in Blocks
  BY DEF Blocks
<1>3. Put(s, k, b) \in [1 .. n -> Blocks]
  BY <1>2 DEF Put
<1>4. \A i \in 1 .. n :
        Put(s, k, b)[i] = IF i = k + 1 THEN b ELSE IF i <= Len(s) THEN s[i] ELSE Hole
  BY DEF Put
<1>5. Put(s, k, b) \in Seq(Blocks) /\ Len(Put(s, k, b)) = n
  BY <1>1, <1>3
<1> QED
  BY <1>1, <1>4, <1>5

LEMMA PacketWritesInv ==
  ASSUME IInv, PacketWrites
  PROVE  IInv'
<1> DEFINE q == cur.q
           f == handle[cur.fd]
           at == IF f \in Files THEN rec.count ELSE 0
           last == q.count + 1 = Size[q.req]
<1>1. /\ cur \in [live : BOOLEAN, q : Request, fd : 0 .. Handles, ok : BOOLEAN]
      /\ q \in Request /\ cur # NoRequest /\ q.op = "packet"
      /\ q.req \in Uploads /\ q.count \in Nat
  BY Serving, RequestIs DEF IInv, PacketWrites, CurOK, Storing
<1>2. Open(cur.fd) /\ f \in DOMAIN vol /\ f \in Volume /\ vol[f] \in Seq(Blocks)
  BY DEF IInv, PacketWrites, VolOK, IsVolume, Open
<1>3. PICK b \in {<<q.req, q.count>>, Hole} :
        /\ vol' = [vol EXCEPT ![f] = Put(@, at, b)]
        /\ (b = <<q.req, q.count>> /\ UNCHANGED faults) \/ Fault("short")
  BY DEF PacketWrites
<1>4. \/ last /\ rec' = NoUpload /\ pc' = "close" /\ UNCHANGED cur
      \/ /\ ~last /\ rec' = [rec EXCEPT !.count = @ + 1] /\ pc' = "reply"
         /\ cur' = [cur EXCEPT !.fd = 0]
  BY DEF PacketWrites
<1>5. faults \subseteq faults' /\ faults' \subseteq Kinds
  BY <1>3, FaultGrows DEF IInv, GroundOK, Kinds
<1>6. /\ cur' \in [live : BOOLEAN, q : Request, fd : 0 .. Handles, ok : BOOLEAN]
      /\ cur'.q = q /\ cur'.live = cur.live /\ cur'.ok = cur.ok /\ cur' # NoRequest
<2>1. CASE cur' = [cur EXCEPT !.fd = 0]
  BY <1>1, <2>1, NotNone, LimitsAssumption
<2> QED
  BY <1>1, <1>4, <2>1
<1>7. HeapOK' /\ BufferInv' /\ LatestInv' /\ BlockInv' /\ AirInv'
  BY <1>4, <1>5, DownlinkKept DEF IInv, PacketWrites, Bursting, downlink
<1>8. InboxOK' /\ OrderInv' /\ AskedInv' /\ BurstOrder'
  BY <1>1, <1>6, RequestsKept DEF IInv, PacketWrites
<1>9. GroundOK'
  BY <1>5, GroundKept DEF IInv, PacketWrites
<1>10. /\ rec' \in [req : {0} \cup Uploads, count : Nat, fd : 0 .. Handles]
       /\ rec'.fd # 0 => rec'.req = rec.req /\ rec'.fd = rec.fd
<2>1. CASE rec' = NoUpload
  BY <2>1, LimitsAssumption DEF NoUpload
<2>2. CASE rec' = [rec EXCEPT !.count = @ + 1]
  BY <2>2 DEF IInv, CurOK
<2> QED
  BY <1>4, <2>1, <2>2
<1>11. CurOK'
  BY <1>1, <1>4, <1>6, <1>10 DEF IInv, PacketWrites, CurOK, Starting, Storing, Bursting
<1>12. at \in Nat /\ b \in Blocks
  BY <1>1, <1>3 DEF IInv, CurOK, Blocks
<1>13. /\ Put(vol[f], at, b) \in Seq(Blocks)
       /\ Len(Put(vol[f], at, b)) = IF at + 1 > Len(vol[f]) THEN at + 1 ELSE Len(vol[f])
       /\ Put(vol[f], at, b)[at + 1] = b
       /\ \A i \in 1 .. Len(vol[f]) : i # at + 1 => Put(vol[f], at, b)[i] = vol[f][i]
  BY <1>2, <1>12, PutIs
<1>14. /\ IsVolume(vol') /\ DOMAIN vol' = DOMAIN vol /\ vol'[f] = Put(vol[f], at, b)
       /\ \A g \in DOMAIN vol : g # f => vol'[g] = vol[g]
  BY <1>2, <1>3, <1>13 DEF IInv, VolOK, IsVolume
<1>15. VolOK'
  BY <1>14 DEF IInv, PacketWrites, VolOK, IsVolume, Open
<1>16. ASSUME faults' \cap {"close", "truncate", "seek"} = {}
       PROVE  /\ faults \cap {"close", "truncate", "seek"} = {}
              /\ cur.fd = rec.fd /\ cur.fd # 0 /\ f = Target[rec.req] /\ f \in Files
              /\ f # "other" /\ at = rec.count
<2>1. faults \cap {"close", "truncate", "seek"} = {}
  BY <1>5, <1>16
<2>2. cur.fd = rec.fd /\ cur.fd # 0
  BY <1>2, <2>1, LimitsAssumption DEF IInv, HandleInv, PacketWrites, Open
<2>3. f = Target[rec.req] /\ f \in Files
  BY <2>1, <2>2 DEF IInv, HandleInv
<2> QED
  BY <2>1, <2>2, <2>3, FileNames
<1>17. HandleInv'
<2> SUFFICES ASSUME faults' \cap {"close", "truncate", "seek"} = {}
             PROVE  HandleInv'
  BY DEF HandleInv
<2>1. UNCHANGED <<disk, handle, ofd>> /\ pc = "write" /\ vol'["other"] = vol["other"]
  BY <1>14, <1>16 DEF IInv, PacketWrites, VolOK
<2>2. CASE rec' = NoUpload /\ pc' = "close" /\ UNCHANGED cur
  BY <1>16, <2>1, <2>2 DEF IInv, HandleInv, NoUpload, Open
<2>3. CASE rec' = [rec EXCEPT !.count = @ + 1] /\ pc' = "reply" /\ cur' = [cur EXCEPT !.fd = 0]
<3>1. cur'.fd = 0 /\ rec'.fd = rec.fd /\ rec'.req = rec.req
  BY <1>1, <2>3 DEF IInv, CurOK
<3> QED
  BY <1>16, <2>1, <2>3, <3>1 DEF IInv, HandleInv, Open
<2> QED
  BY <1>4, <2>2, <2>3
<1>18. ASSUME Sound'
       PROVE  /\ Sound /\ b = <<q.req, q.count>> /\ f = Target[q.req] /\ at = q.count /\ cur.fd # 0
<2>1. Sound /\ "short" \notin faults' /\ faults' \cap {"close", "truncate", "seek"} = {}
  BY <1>5, <1>18 DEF Sound
<2>2. rec.req = q.req /\ rec.count = q.count
  BY DEF IInv, ServedInv, PacketWrites
<2> QED
  BY <1>3, <1>16, <2>1, <2>2 DEF Fault
<1>19. FileInv'
<2>1. gr' = gr
  BY DEF PacketWrites
<2> SUFFICES ASSUME Sound', gr.clean
             PROVE  /\ gr.mode \in {"start", "send"} /\ gr.acked > 0 => Holds(gr.req, gr.acked)'
                    /\ gr.mode = "send" => Sized(gr.req)'
                    /\ gr.mode # "done"
  BY <2>1 DEF FileInv, Holds, Sized
<2>2. /\ gr.mode # "done" /\ gr.acked > 0 => q.req = gr.req
      /\ gr.mode = "send" => q.req = gr.req
      /\ gr.acked \in Nat /\ q.count < Size[q.req]
  BY <1>1 DEF IInv, AskedInv, Asked, GroundOK, PacketWrites
<2>3. gr.mode # "done"
  BY <1>1 DEF IInv, AskedInv, Asked, PacketWrites
<2>4. ASSUME gr.acked > 0 PROVE Holds(gr.req, gr.acked)'
<3>1. Holds(gr.req, gr.acked) /\ q.req = gr.req
  BY <1>18, <2>2, <2>3, <2>4 DEF IInv, FileInv, GroundOK
<3>2. f = Target[gr.req] /\ gr.acked <= Len(vol'[f])
  BY <1>2, <1>12, <1>13, <1>14, <1>18, <2>2, <3>1 DEF Holds
<3>3. ASSUME NEW k \in 1 .. gr.acked PROVE vol'[f][k] = <<gr.req, k - 1>>
<4>1. k \in 1 .. Len(vol[f]) /\ vol[f][k] = <<gr.req, k - 1>>
  BY <1>2, <2>2, <3>1, <3>2 DEF Holds
<4>2. CASE k = at + 1
<5>1. k - 1 = q.count
  BY <1>1, <1>18, <4>2
<5> QED
  BY <1>13, <1>14, <1>18, <3>1, <4>2, <5>1
<4> QED
  BY <1>13, <1>14, <4>1, <4>2
<3> QED
  BY <1>2, <1>14, <2>1, <3>2, <3>3 DEF Holds
<2>5. ASSUME gr.mode = "send" PROVE Sized(gr.req)'
<3>1. Sized(gr.req) /\ q.req = gr.req /\ f = Target[gr.req]
  BY <1>18, <2>2, <2>5 DEF IInv, FileInv
<3>2. Size[q.req] \in Nat
  BY <1>1, UploadsAssumption
<3>3. q.count + 1 <= Size[q.req] /\ at = q.count
  BY <1>1, <1>18, <2>2, <3>2
<3>4. Len(vol'[f]) = Len(vol[f])
  BY <1>2, <1>13, <1>14, <3>1, <3>2, <3>3 DEF Sized
<3> QED
  BY <1>14, <2>1, <3>1, <3>4 DEF Sized
<2> QED
  BY <2>3, <2>4, <2>5
<1>20. ServedInv'
<2> SUFFICES ASSUME Sound', cur.ok PROVE Stored(cur.q)'
  BY <1>1, <1>4, <1>6 DEF ServedInv
<2>1. /\ f \in DOMAIN vol' /\ f = Target[q.req] /\ q.count < Len(vol'[f])
      /\ vol'[f][q.count + 1] = <<q.req, q.count>>
  BY <1>1, <1>2, <1>13, <1>14, <1>18
<2>2. pc' = "close" => cur'.fd # 0
  BY <1>4, <1>18
<2>3. ~(pc' = "reply" /\ last)
  BY <1>4
<2> QED
  BY <1>6, <2>1, <2>2, <2>3 DEF Stored
<1> QED
  BY <1>7, <1>8, <1>9, <1>11, <1>15, <1>17, <1>19, <1>20 DEF IInv

LEMMA PacketChecksInv ==
  ASSUME IInv, PacketChecks
  PROVE  IInv'
<1>1. /\ cur \in [live : BOOLEAN, q : Request, fd : 0 .. Handles, ok : BOOLEAN]
      /\ cur.q \in Request /\ cur # NoRequest /\ cur.q.op = "packet"
      /\ cur.q.req \in Uploads /\ rec.fd \in 0 .. Handles
  BY Serving, RequestIs DEF IInv, PacketChecks, CurOK, Storing
<1>2. \/ /\ pc' = "reply" /\ cur' = [cur EXCEPT !.ok = FALSE]
         /\ UNCHANGED <<disk, handle, rec, faults>>
      \/ /\ pc' = "write" /\ Open(rec.fd) /\ cur' = [cur EXCEPT !.fd = rec.fd]
         /\ cur.q.req = rec.req /\ cur.q.count = rec.count
         /\ UNCHANGED <<disk, handle, rec, faults>>
      \/ /\ pc' = "write" /\ cur' = [cur EXCEPT !.fd = rec.fd, !.ok = FALSE]
         /\ cur.q.req = rec.req /\ cur.q.count = rec.count
         /\ rec' = [rec EXCEPT !.fd = 0]
         /\ IF Open(rec.fd)
            THEN Fault("seek") /\ disk' = vol /\ handle' = [handle EXCEPT ![rec.fd] = "free"]
            ELSE UNCHANGED <<disk, handle, faults>>
  BY DEF PacketChecks, PacketAccepted
<1>3. faults \subseteq faults' /\ faults' \subseteq Kinds
  BY <1>2, FaultGrows DEF IInv, GroundOK, Kinds
<1>4. /\ cur' \in [live : BOOLEAN, q : Request, fd : 0 .. Handles, ok : BOOLEAN]
      /\ cur'.q = cur.q /\ cur'.live = cur.live /\ cur' # NoRequest
<2>1. CASE cur' = [cur EXCEPT !.ok = FALSE]
  BY <1>1, <2>1, NotNone
<2>2. CASE cur' = [cur EXCEPT !.fd = rec.fd]
  BY <1>1, <2>2, NotNone
<2>3. CASE cur' = [cur EXCEPT !.fd = rec.fd, !.ok = FALSE]
  BY <1>1, <2>3, NotNone
<2> QED
  BY <1>2, <2>1, <2>2, <2>3
<1>5. HeapOK' /\ BufferInv' /\ LatestInv' /\ BlockInv' /\ AirInv'
  BY <1>2, <1>3, DownlinkKept DEF IInv, PacketChecks, Bursting, downlink
<1>6. InboxOK' /\ OrderInv' /\ AskedInv' /\ BurstOrder'
  BY <1>1, <1>4, RequestsKept DEF IInv, PacketChecks
<1>7. GroundOK'
  BY <1>3, GroundKept DEF IInv, PacketChecks
<1>8. VolOK'
<2>1. UNCHANGED <<vol, ofd>> /\ disk' \in {disk, vol}
  BY <1>2 DEF PacketChecks
<2>2. handle' \in [1 .. Handles -> {"free"} \cup Volume]
  BY <1>2 DEF IInv, VolOK
<2>3. \A fd \in 1 .. Handles : handle'[fd] \in {handle[fd], "free"}
  BY <1>2 DEF IInv, VolOK
<2> QED
  BY <2>1, <2>2, <2>3 DEF IInv, VolOK, IsVolume, Open
<1>9. CurOK'
<2>1. rec' = rec \/ rec' = [rec EXCEPT !.fd = 0]
  BY <1>2
<2>2. rec' \in [req : {0} \cup Uploads, count : Nat, fd : 0 .. Handles]
  BY <2>1, LimitsAssumption DEF IInv, CurOK
<2>3. rec'.fd # 0 => rec'.req \in Uploads
  BY <2>1 DEF IInv, CurOK
<2> QED
  BY <1>1, <1>2, <1>4, <2>2, <2>3 DEF CurOK, Starting, Storing, Bursting
<1>10. HandleInv'
<2> SUFFICES ASSUME faults' \cap {"close", "truncate", "seek"} = {}
             PROVE  HandleInv'
  BY DEF HandleInv
<2>1. faults \cap {"close", "truncate", "seek"} = {} /\ "seek" \notin faults'
  BY <1>3
<2>2. CASE pc' = "reply" /\ cur' = [cur EXCEPT !.ok = FALSE] /\ UNCHANGED <<disk, handle, rec, faults>>
  BY <1>1, <2>1, <2>2 DEF IInv, PacketChecks, HandleInv, Open
<2>3. CASE /\ pc' = "write" /\ cur' = [cur EXCEPT !.fd = rec.fd]
           /\ UNCHANGED <<disk, handle, rec, faults>> /\ Open(rec.fd)
  BY <1>1, <2>1, <2>3, FileNames, LimitsAssumption DEF IInv, PacketChecks, HandleInv, CurOK, Open
<2>4. CASE /\ pc' = "write" /\ cur' = [cur EXCEPT !.fd = rec.fd, !.ok = FALSE]
           /\ rec' = [rec EXCEPT !.fd = 0] /\ ~Open(rec.fd) /\ UNCHANGED <<disk, handle, faults>>
<3>1. rec.fd = 0
  BY <1>1, <2>1, <2>4, FileNames, LimitsAssumption DEF IInv, HandleInv, CurOK, Open
<3>2. cur'.fd = 0 /\ rec'.fd = 0 /\ rec'.req = rec.req
  BY <1>1, <2>4, <3>1 DEF IInv, CurOK
<3> QED
  BY <2>1, <2>4, <3>1, <3>2 DEF IInv, PacketChecks, HandleInv, Open
<2> QED
  BY <1>2, <2>1, <2>2, <2>3, <2>4 DEF Fault
<1>11. FileInv'
  BY <1>2, <1>3, FileKept DEF IInv, PacketChecks
<1>12. ServedInv'
  BY <1>1, <1>2, <1>4 DEF IInv, PacketChecks, ServedInv, CurOK
<1> QED
  BY <1>5, <1>6, <1>7, <1>8, <1>9, <1>10, <1>11, <1>12 DEF IInv

LEMMA PacketFailsInv ==
  ASSUME IInv, PacketFails
  PROVE  IInv'
<1>1. /\ cur \in [live : BOOLEAN, q : Request, fd : 0 .. Handles, ok : BOOLEAN]
      /\ cur.q \in Request /\ cur # NoRequest /\ cur.q.op = "packet"
  BY Serving DEF IInv, PacketFails, CurOK, Storing
<1>2. faults \subseteq faults' /\ faults' \subseteq Kinds
  BY FaultGrows DEF IInv, GroundOK, PacketFails, Kinds
<1>3. /\ cur' \in [live : BOOLEAN, q : Request, fd : 0 .. Handles, ok : BOOLEAN]
      /\ cur'.q = cur.q /\ cur'.live = cur.live /\ cur'.fd = cur.fd /\ ~cur'.ok /\ cur' # NoRequest
  BY <1>1, NotNone DEF PacketFails
<1>4. HeapOK' /\ BufferInv' /\ LatestInv' /\ BlockInv' /\ AirInv'
  BY <1>2, DownlinkKept DEF IInv, PacketFails, Bursting, downlink
<1>5. InboxOK' /\ OrderInv' /\ AskedInv' /\ BurstOrder'
  BY <1>1, <1>3, RequestsKept DEF IInv, PacketFails
<1>6. GroundOK'
  BY <1>2, GroundKept DEF IInv, PacketFails
<1>7. UNCHANGED <<vol, disk, handle, ofd, gr>> /\ pc = "write" /\ pc' = "close"
  BY DEF PacketFails, volume
<1>8. VolOK'
  BY <1>7 DEF IInv, VolOK, IsVolume, Open
<1>9. /\ rec' \in [req : {0} \cup Uploads, count : Nat, fd : 0 .. Handles] /\ rec'.fd = 0
      /\ rec'.req = rec.req
  BY LimitsAssumption DEF IInv, CurOK, PacketFails
<1>10. CurOK'
  BY <1>1, <1>3, <1>7, <1>9 DEF CurOK, Starting, Storing, Bursting
<1>11. HandleInv'
  BY <1>2, <1>3, <1>7, <1>9 DEF IInv, HandleInv, Open
<1>12. FileInv'
  BY <1>2, <1>7, FileKept DEF IInv
<1>13. ServedInv'
  BY <1>1, <1>3, <1>7 DEF IInv, ServedInv
<1> QED
  BY <1>4, <1>5, <1>6, <1>8, <1>10, <1>11, <1>12, <1>13 DEF IInv

-----------------------------------------------------------------------------
(* The service: downloads.                                                 *)

LEMMA UploadKept ==
  ASSUME IInv, UNCHANGED <<volume, ofd, rec, gr, cur, inbox, reqs, resets>>,
         pc \in {"block", "transmit"}, pc' \in {"block", "transmit", "close"},
         faults \subseteq faults', faults' \subseteq Kinds
  PROVE  /\ VolOK' /\ CurOK' /\ InboxOK' /\ GroundOK' /\ HandleInv' /\ OrderInv' /\ AskedInv'
         /\ FileInv' /\ ServedInv' /\ BurstOrder'
<1>1. UNCHANGED <<vol, disk, handle, ofd, rec, gr, cur, inbox, reqs, resets>>
  BY DEF volume
<1>2. /\ cur # NoRequest /\ cur.q.op = "burst"
  BY Serving DEF IInv, CurOK, Bursting
<1>3. VolOK'
  BY <1>1 DEF IInv, VolOK, IsVolume, Open
<1>4. CurOK'
  BY <1>1, <1>2 DEF IInv, CurOK, Starting, Storing, Bursting
<1>5. GroundOK'
  BY <1>1, GroundKept DEF IInv
<1>6. HandleInv'
  BY <1>1 DEF IInv, HandleInv, Open
<1>7. InboxOK' /\ OrderInv' /\ AskedInv' /\ BurstOrder'
  BY <1>1, <1>2, RequestsKept DEF IInv
<1>8. FileInv'
  BY <1>1, FileKept DEF IInv
<1>9. ServedInv'
  BY <1>1, <1>2 DEF IInv, ServedInv
<1> QED
  BY <1>3, <1>4, <1>5, <1>6, <1>7, <1>8, <1>9

\* A buffer that is neither queued nor at the sender is not seen by it.
LEMMA OtherBuffer ==
  ASSUME HeapOK, NEW b \in Buffers, NEW d, heap' = [heap EXCEPT ![b] = d],
         UNCHANGED <<queue, snd, air>>, b # snd.buf, \A i \in DOMAIN queue : queue[i] # b
  PROVE  /\ Latest' = Latest /\ Sent' = Sent
         /\ \A i \in DOMAIN queue : heap'[queue[i]] = heap[queue[i]]
         /\ snd.buf # 0 => heap'[snd.buf] = heap[snd.buf]
<1>1. \A c \in Buffers : c # b => heap'[c] = heap[c]
  BY DEF HeapOK
<1>2. \A i \in DOMAIN queue : queue[i] \in Buffers
  BY DEF HeapOK
<1>3. snd.buf # 0 => snd.buf \in Buffers
  BY DEF HeapOK
<1>4. queue # << >> => Len(queue) \in DOMAIN queue
  BY DEF HeapOK
<1>5. Sent' = Sent
  BY <1>1, <1>3 DEF Sent
<1> QED
  BY <1>1, <1>2, <1>3, <1>4, <1>5 DEF Latest

LEMMA NextBlockIs ==
  ASSUME HeapOK, NextBlock
  PROVE  /\ pc' = IF heap[burst.buf].last THEN "close" ELSE "block"
         /\ burst' \in [left : Nat, blk : Nat, buf : {0} \cup Buffers] /\ burst'.buf = 0
         /\ ~heap[burst.buf].last => burst'.blk = burst.blk + 1
<1>1. burst \in [left : Nat, blk : Nat, buf : {0} \cup Buffers] /\ burst.blk + 1 \in Nat
  BY DEF HeapOK
<1>2. CASE Ended
  BY <1>1, <1>2 DEF NextBlock, Ended
<1>3. CASE ~Ended
  BY <1>1, <1>3 DEF NextBlock, Ended
<1> QED
  BY <1>2, <1>3

LEMMA BurstOpensInv ==
  ASSUME IInv, BurstOpens
  PROVE  IInv'
<1> DEFINE want == cur.q.want
<1>1. /\ cur \in [live : BOOLEAN, q : Request, fd : 0 .. Handles, ok : BOOLEAN]
      /\ cur.q \in Request /\ cur # NoRequest /\ cur.q.op = "burst"
      /\ want.file \in Files /\ want.skip \in Nat /\ want.count \in Nat
  BY Serving, RequestIs, BurstsAssumption DEF IInv, BurstOpens, CurOK, Bursting, Burst
<1>2. faults \subseteq faults' /\ faults' \subseteq Kinds
  BY FaultGrows DEF IInv, GroundOK, BurstOpens, Kinds
<1>3. \/ \E fd \in 1 .. Handles :
           /\ want.file \in DOMAIN vol /\ ~Open(fd)
           /\ disk' = vol /\ handle' = [handle EXCEPT ![fd] = want.file]
           /\ cur' = [cur EXCEPT !.fd = fd] /\ pc' = "block"
           /\ burst' = [left |-> want.count, blk |-> want.skip, buf |-> 0]
      \/ cur' = [cur EXCEPT !.ok = FALSE] /\ pc' = "reply" /\ UNCHANGED <<disk, handle, burst>>
  BY DEF BurstOpens, Lowest
<1>4. /\ cur' \in [live : BOOLEAN, q : Request, fd : 0 .. Handles, ok : BOOLEAN]
      /\ cur'.q = cur.q /\ cur'.live = cur.live /\ cur' # NoRequest
<2>1. CASE \E fd \in 1 .. Handles : cur' = [cur EXCEPT !.fd = fd]
  BY <1>1, <2>1, NotNone, LimitsAssumption
<2>2. CASE cur' = [cur EXCEPT !.ok = FALSE]
  BY <1>1, <2>2, NotNone
<2> QED
  BY <1>3, <2>1, <2>2
<1>5. InboxOK' /\ OrderInv' /\ AskedInv' /\ BurstOrder'
  BY <1>1, <1>4, RequestsKept DEF IInv, BurstOpens
<1>6. GroundOK'
  BY <1>2, GroundKept DEF IInv, BurstOpens
<1>7. UNCHANGED <<vol, ofd, rec, gr, heap, queue, snd, air, inbox, reqs>> /\ pc = "burst"
  BY DEF BurstOpens, downlink
<1>8. VolOK'
<2>1. CASE UNCHANGED <<handle, disk>>
  BY <1>7, <2>1 DEF IInv, VolOK, IsVolume, Open
<2>2. CASE \E fd \in 1 .. Handles : /\ handle' = [handle EXCEPT ![fd] = want.file]
                                    /\ want.file \in DOMAIN vol /\ disk' = vol
<3>1. handle' \in [1 .. Handles -> {"free"} \cup Volume]
  BY <1>1, <2>2 DEF IInv, VolOK, Volume
<3>2. \A g \in 1 .. Handles : handle'[g] = handle[g] \/ (handle'[g] = want.file /\ want.file \in DOMAIN vol)
  BY <2>2 DEF IInv, VolOK
<3> QED
  BY <1>7, <2>2, <3>1, <3>2 DEF IInv, VolOK, IsVolume, Open
<2> QED
  BY <1>3, <2>1, <2>2
<1>9. CurOK'
  BY <1>1, <1>3, <1>4, <1>7 DEF IInv, CurOK, Starting, Storing, Bursting
<1>10. HandleInv'
<2> SUFFICES ASSUME faults' \cap {"close", "truncate", "seek"} = {} PROVE HandleInv'
  BY DEF HandleInv
<2>1. /\ \A g \in 1 .. Handles : Open(g) => g \in {rec.fd, ofd}
      /\ cur.fd = 0
      /\ ofd # 0 => handle[ofd] = "other" /\ ofd # rec.fd
      /\ rec.fd # 0 => handle[rec.fd] = Target[rec.req]
      /\ vol["other"] = << >> /\ disk["other"] = << >>
  BY <1>2, <1>7 DEF IInv, HandleInv
<2>2. CASE cur' = [cur EXCEPT !.ok = FALSE] /\ pc' = "reply" /\ UNCHANGED <<disk, handle, burst>>
<3>1. cur'.fd = 0
  BY <1>1, <2>1, <2>2
<3> QED
  BY <1>7, <2>1, <2>2, <3>1 DEF HandleInv, Open
<2>3. ASSUME NEW fd \in 1 .. Handles, ~Open(fd), disk' = vol, pc' = "block",
             handle' = [handle EXCEPT ![fd] = want.file], cur' = [cur EXCEPT !.fd = fd]
      PROVE  HandleInv'
<3>1. fd # 0 /\ fd # ofd /\ fd # rec.fd
  BY <2>1, <2>3, FileNames, LimitsAssumption DEF IInv, CurOK, Open, Files
<3>2. /\ handle'[fd] = want.file /\ cur'.fd = fd
      /\ \A g \in 1 .. Handles : g # fd => handle'[g] = handle[g]
  BY <1>1, <2>3 DEF IInv, VolOK
<3>3. ofd \in 0 .. Handles /\ rec.fd \in 0 .. Handles
  BY DEF IInv, VolOK, CurOK
<3>4. /\ \A g \in 1 .. Handles : Open(g)' => g \in {rec.fd, fd, ofd}
      /\ ofd # 0 => handle'[ofd] = "other"
      /\ rec.fd # 0 => handle'[rec.fd] = Target[rec.req]
  BY <2>1, <3>1, <3>2, <3>3 DEF Open
<3> QED
  BY <1>1, <1>7, <2>1, <2>3, <3>1, <3>2, <3>4 DEF HandleInv
<2> QED
  BY <1>3, <2>2, <2>3
<1>11. FileInv'
  BY <1>2, <1>3, <1>7, FileKept DEF IInv
<1>12. ServedInv'
  BY <1>1, <1>3, <1>4 DEF ServedInv
<1>13. HeapOK'
<2>1. burst' \in [left : Nat, blk : Nat, buf : {0} \cup Buffers]
  BY <1>1, <1>3 DEF IInv, HeapOK
<2> QED
  BY <1>7, <2>1 DEF IInv, HeapOK
<1>14. BufferInv'
  BY <1>2, <1>3, <1>7 DEF IInv, BufferInv, Unique
<1>15. Latest' = Latest /\ Sent' = Sent
  BY <1>7 DEF Latest, Sent
<1>16. Latest.req < cur.q.id
  BY <1>7 DEF IInv, LatestInv
<1>17. LatestInv'
<2>1. Latest.req \in Nat /\ cur.q.id \in Nat
  BY <1>1, RequestIs DEF IInv, HeapOK, Latest, Sent, Datum
<2> QED
  BY <1>3, <1>4, <1>7, <1>15, <1>16, <2>1 DEF IInv, LatestInv, Bursting
<1>18. BlockInv'
  BY <1>3, <1>4, <1>15, <1>16 DEF BlockInv
<1>19. AirInv'
  BY <1>2, <1>7 DEF IInv, AirInv, Sent, Follows
<1> QED
  BY <1>5, <1>6, <1>8, <1>9, <1>10, <1>11, <1>12, <1>13, <1>14, <1>17, <1>18, <1>19 DEF IInv

\* What a block in hand says of the buffers.
LEMMA InHand ==
  ASSUME IInv, pc = "transmit"
  PROVE  /\ burst.buf \in Buffers /\ burst.buf # snd.buf /\ burst.buf # 0
         /\ \A i \in DOMAIN queue : queue[i] # burst.buf
         /\ heap[burst.buf] \in Datum
         /\ heap[burst.buf].req = cur.q.id /\ heap[burst.buf].blk = burst.blk
         /\ cur.q.op = "burst" /\ cur.q.id \in Nat /\ cur.q.id \in 1 .. reqs /\ reqs \in Nat
<1>1. cur.q.op = "burst" /\ cur.q \in Request /\ cur # NoRequest
  BY Serving DEF IInv, CurOK, Bursting
<1>2. cur.q.id \in Nat /\ cur.q.id \in 1 .. reqs /\ reqs \in Nat
  BY <1>1, RequestIs DEF IInv, AskedInv, Asked, GroundOK
<1>3. burst.buf \in Buffers /\ burst.buf # 0 /\ heap[burst.buf] \in Datum
  BY DEF IInv, HeapOK, BufferInv
<1>4. burst.buf # snd.buf /\ \A i \in DOMAIN queue : queue[i] # burst.buf
  BY <1>3 DEF IInv, BufferInv
<1> QED
  BY <1>1, <1>2, <1>3, <1>4 DEF IInv, BlockInv

LEMMA BurstReadsInv ==
  ASSUME IInv, BurstReads
  PROVE  IInv'
<1>1. /\ cur # NoRequest /\ cur.q.op = "burst" /\ cur.q.id \in Nat /\ cur.q.id \in 1 .. reqs
      /\ pc = "block" /\ UNCHANGED <<volume, ofd, rec, gr, cur, inbox, reqs, resets, queue, snd, air>>
<2>1. /\ pc = "block" /\ burst.left > 0
      /\ UNCHANGED <<volume, ofd, rec, gr, cur, inbox, reqs, resets, queue, snd, air>>
  BY DEF BurstReads
<2>2. cur # NoRequest /\ cur.q \in Request /\ cur.q.op = "burst"
  BY <2>1, Serving DEF IInv, CurOK, Bursting
<2>3. cur.q.id \in Nat /\ cur.q.id \in 1 .. reqs
  BY <2>2, RequestIs DEF IInv, AskedInv, Asked
<2> QED
  BY <2>1, <2>2, <2>3 DEF IInv, GroundOK
<1>2. CASE Fault("memory") /\ pc' = "close" /\ UNCHANGED <<heap, burst>>
<2>1. faults \subseteq faults' /\ faults' \subseteq Kinds
  BY <1>2, FaultGrows DEF IInv, GroundOK, Kinds
<2>2. HeapOK' /\ BufferInv' /\ LatestInv' /\ BlockInv' /\ AirInv'
  BY <1>1, <1>2, <2>1, DownlinkKept DEF IInv, Bursting, downlink
<2> QED
  BY <1>1, <1>2, <2>1, <2>2, UploadKept DEF IInv
<1>3. ASSUME NEW b \in Buffers, NEW last \in BOOLEAN,
             UNCHANGED faults \/ Fault("read"), heap[b] = NoData,
             heap' = [heap EXCEPT ![b] = [req |-> cur.q.id, blk |-> burst.blk, last |-> last]],
             burst' = [burst EXCEPT !.left = @ - 1, !.buf = b], pc' = "transmit"
      PROVE  IInv'
<2> DEFINE d == [req |-> cur.q.id, blk |-> burst.blk, last |-> last]
<2>1. faults \subseteq faults' /\ faults' \subseteq Kinds
  BY <1>3, FaultGrows DEF IInv, GroundOK, Kinds
<2>2. /\ VolOK' /\ CurOK' /\ InboxOK' /\ GroundOK' /\ HandleInv' /\ OrderInv' /\ AskedInv'
      /\ FileInv' /\ ServedInv' /\ BurstOrder'
  BY <1>1, <1>3, <2>1, UploadKept
<2>3. d \in Datum /\ d # NoData /\ d.req = cur.q.id /\ d.blk = burst.blk
  BY <1>1 DEF IInv, HeapOK, Datum, NoData
<2>4. b # snd.buf /\ b # 0 /\ \A i \in DOMAIN queue : queue[i] # b
  BY <1>3, LimitsAssumption DEF IInv, BufferInv
<2>5. /\ Latest' = Latest /\ Sent' = Sent
      /\ \A i \in DOMAIN queue : heap'[queue[i]] = heap[queue[i]]
      /\ snd.buf # 0 => heap'[snd.buf] = heap[snd.buf]
  BY <1>1, <1>3, <2>4, OtherBuffer DEF IInv
<2>6. heap' \in [Buffers -> Datum] /\ heap'[b] = d /\ \A c \in Buffers : c # b => heap'[c] = heap[c]
  BY <1>3, <2>3 DEF IInv, HeapOK
<2>7. /\ burst' \in [left : Nat, blk : Nat, buf : {0} \cup Buffers]
      /\ burst'.buf = b /\ burst'.blk = burst.blk
<3>1. burst \in [left : Nat, blk : Nat, buf : {0} \cup Buffers] /\ burst.left > 0
  BY DEF IInv, HeapOK, BurstReads
<3>2. burst.left - 1 \in Nat
  BY <3>1
<3> QED
  BY <1>3, <3>1, <3>2
<2>8. HeapOK'
  BY <1>1, <2>6, <2>7 DEF IInv, HeapOK
<2>9. burst.buf = 0
  BY <1>1 DEF IInv, BufferInv
<2>10. BufferInv'
<3>1. snd'.state = "sending" => queue' # << >>
  BY <1>1 DEF IInv, BufferInv
<3>2. snd'.state = "radio" <=> snd'.buf # 0
  BY <1>1 DEF IInv, BufferInv
<3>3. pc' = "transmit" <=> burst'.buf # 0
  BY <1>3, <2>4, <2>7
<3>4. /\ Unique(queue)'
      /\ \A i \in DOMAIN queue' :
           heap'[queue'[i]] # NoData /\ queue'[i] # snd'.buf /\ queue'[i] # burst'.buf
  BY <1>1, <2>4, <2>5, <2>7 DEF IInv, BufferInv, Unique
<3>5. /\ snd'.buf # 0 => heap'[snd'.buf] # NoData /\ snd'.buf # burst'.buf
      /\ burst'.buf # 0 => heap'[burst'.buf] # NoData
  BY <1>1, <2>3, <2>4, <2>5, <2>6, <2>7 DEF IInv, BufferInv
<3>6. ASSUME "full" \notin faults', NEW c \in Buffers, heap'[c] # NoData
      PROVE  c = snd'.buf \/ c = burst'.buf \/ \E i \in DOMAIN queue' : queue'[i] = c
  BY <1>1, <2>1, <2>6, <2>7, <2>9, <3>6, LimitsAssumption DEF IInv, BufferInv
<3> QED
  BY <3>1, <3>2, <3>3, <3>4, <3>5, <3>6 DEF BufferInv
<2>11. LatestInv'
<3>1. \A c \in Buffers : heap'[c].req <= reqs
  BY <1>1, <2>3, <2>6 DEF IInv, LatestInv, GroundOK
<3> QED
  BY <1>1, <1>3, <2>5, <3>1 DEF IInv, LatestInv, Bursting
<2>12. BlockInv'
  BY <1>1, <1>3, <2>1, <2>3, <2>5, <2>6, <2>7, LatestIs DEF IInv, BlockInv, Follows
<2>13. AirInv'
<3>1. 1 \in DOMAIN queue \/ queue = << >>
  BY DEF IInv, HeapOK
<3>2. \A i \in 1 .. Len(queue) - 1 : i \in DOMAIN queue /\ i + 1 \in DOMAIN queue
  BY DEF IInv, HeapOK
<3> QED
  BY <1>1, <2>1, <2>5, <3>1, <3>2 DEF IInv, AirInv, Follows
<2> QED
  BY <2>2, <2>8, <2>10, <2>11, <2>12, <2>13 DEF IInv
<1> QED
  BY <1>2, <1>3 DEF BurstReads

LEMMA BurstQueuesInv ==
  ASSUME IInv, BurstQueues
  PROVE  IInv'
<1> DEFINE b == burst.buf
<1>1. /\ b \in Buffers /\ b # snd.buf /\ b # 0
      /\ \A i \in DOMAIN queue : queue[i] # b
      /\ heap[b] \in Datum /\ heap[b].req = cur.q.id /\ heap[b].blk = burst.blk
      /\ cur.q.op = "burst" /\ cur.q.id \in Nat /\ cur.q.id \in 1 .. reqs /\ reqs \in Nat
  BY InHand DEF BurstQueues
<1>2. /\ pc = "transmit" /\ cur.q.want.sband /\ Len(queue) < QueueLength
      /\ UNCHANGED <<volume, ofd, rec, gr, cur, inbox, reqs, resets, heap, snd, air, faults>>
  BY DEF BurstQueues, bounds
<1>3. /\ queue' \in Seq(Buffers) /\ Len(queue') = Len(queue) + 1 /\ queue'[Len(queue) + 1] = b
      /\ \A i \in DOMAIN queue : queue'[i] = queue[i]
      /\ DOMAIN queue' = 1 .. Len(queue) + 1 /\ DOMAIN queue = 1 .. Len(queue)
      /\ Len(queue) \in Nat /\ queue' # << >>
  BY <1>1 DEF IInv, HeapOK, BurstQueues
<1>4. /\ pc' = IF heap[b].last THEN "close" ELSE "block"
      /\ burst' \in [left : Nat, blk : Nat, buf : {0} \cup Buffers] /\ burst'.buf = 0
      /\ ~heap[b].last => burst'.blk = burst.blk + 1
  BY NextBlockIs DEF IInv, BurstQueues
<1>5. /\ VolOK' /\ CurOK' /\ InboxOK' /\ GroundOK' /\ HandleInv' /\ OrderInv' /\ AskedInv'
      /\ FileInv' /\ ServedInv' /\ BurstOrder'
  BY <1>2, <1>4, UploadKept DEF IInv, GroundOK
<1>6. HeapOK'
  BY <1>2, <1>3, <1>4, LimitsAssumption DEF IInv, HeapOK
<1>7. BufferInv'
<2>1. /\ snd'.state = "sending" => queue' # << >>
      /\ snd'.state = "radio" <=> snd'.buf # 0
      /\ pc' = "transmit" <=> burst'.buf # 0
  BY <1>2, <1>3, <1>4 DEF IInv, BufferInv
<2>2. Unique(queue)'
  BY <1>1, <1>3 DEF IInv, BufferInv, Unique
<2>3. \A i \in DOMAIN queue' :
        heap'[queue'[i]] # NoData /\ queue'[i] # snd'.buf /\ queue'[i] # burst'.buf
  BY <1>1, <1>2, <1>3, <1>4, <1>6, LimitsAssumption DEF IInv, BufferInv, HeapOK
<2>4. snd'.buf # 0 => heap'[snd'.buf] # NoData /\ snd'.buf # burst'.buf
  BY <1>2, <1>4 DEF IInv, BufferInv
<2>5. ASSUME "full" \notin faults', NEW c \in Buffers, heap'[c] # NoData
      PROVE  c = snd'.buf \/ c = burst'.buf \/ \E i \in DOMAIN queue' : queue'[i] = c
<3>1. c = snd.buf \/ c = b \/ \E i \in DOMAIN queue : queue[i] = c
  BY <1>2, <2>5 DEF IInv, BufferInv
<3> QED
  BY <1>2, <1>3, <3>1
<2> QED
  BY <1>4, <2>1, <2>2, <2>3, <2>4, <2>5 DEF BufferInv
<1>8. Latest' = heap[b] /\ Sent' = Sent
  BY <1>2, <1>3 DEF Latest, Sent
<1>9. LatestInv'
  BY <1>1, <1>2, <1>4, <1>8 DEF IInv, LatestInv, BurstOrder, Bursting
<1>10. BlockInv'
  BY <1>1, <1>2, <1>4, <1>8 DEF IInv, BlockInv
<1>11. AirInv'
<2> SUFFICES ASSUME "full" \notin faults PROVE AirInv'
  BY <1>2 DEF AirInv
<2>1. Follows(Latest, heap[b])
  BY <1>2 DEF IInv, BlockInv
<2>2. Follows(Sent, heap[queue'[1]])
<3>1. CASE queue = << >>
  BY <1>3, <2>1, <3>1 DEF Latest
<3>2. CASE queue # << >>
<4>1. 1 \in DOMAIN queue
  BY <3>2 DEF IInv, HeapOK
<4> QED
  BY <1>3, <3>2, <4>1 DEF IInv, AirInv
<3> QED
  BY <3>1, <3>2
<2>3. ASSUME NEW i \in 1 .. Len(queue') - 1 PROVE Follows(heap[queue'[i]], heap[queue'[i + 1]])
<3>1. CASE i = Len(queue)
  BY <1>3, <2>1, <3>1 DEF Latest
<3>2. CASE i # Len(queue)
<4>1. Len(queue) \in Nat /\ Len(queue') - 1 = Len(queue)
  BY <1>3
<4>2. i \in 1 .. Len(queue) - 1
  BY <3>2, <4>1
<4>3. i \in DOMAIN queue /\ i + 1 \in DOMAIN queue
  BY <1>3, <4>2
<4> QED
  BY <1>3, <4>2, <4>3 DEF IInv, AirInv
<3> QED
  BY <3>1, <3>2
<2> QED
  BY <1>2, <1>8, <2>2, <2>3 DEF IInv, AirInv, Follows
<1> QED
  BY <1>5, <1>6, <1>7, <1>9, <1>10, <1>11 DEF IInv

LEMMA BurstLeaksInv ==
  ASSUME IInv, BurstLeaks
  PROVE  IInv'
<1> DEFINE b == burst.buf
<1>1. /\ pc = "transmit" /\ cur.q.want.sband /\ cur' = cur /\ Fault("full")
      /\ UNCHANGED <<volume, ofd, rec, gr, cur, inbox, reqs, resets, downlink>>
  BY DEF BurstLeaks
<1>2. faults \subseteq faults' /\ faults' \subseteq Kinds /\ "full" \in faults'
  BY <1>1, FaultGrows DEF IInv, GroundOK, Kinds
<1>3. /\ pc' = IF heap[b].last THEN "close" ELSE "block"
      /\ burst' \in [left : Nat, blk : Nat, buf : {0} \cup Buffers] /\ burst'.buf = 0
  BY NextBlockIs DEF IInv, BurstLeaks
<1>4. /\ VolOK' /\ CurOK' /\ InboxOK' /\ GroundOK' /\ HandleInv' /\ OrderInv' /\ AskedInv'
      /\ FileInv' /\ ServedInv' /\ BurstOrder'
  BY <1>1, <1>2, <1>3, UploadKept
<1>5. UNCHANGED <<heap, queue, snd, air>>
  BY <1>1 DEF downlink
<1>6. HeapOK'
  BY <1>3, <1>5 DEF IInv, HeapOK
<1>7. BufferInv'
  BY <1>2, <1>3, <1>5, LimitsAssumption DEF IInv, BufferInv, Unique, HeapOK
<1>8. LatestInv'
  BY <1>1, <1>3, <1>5 DEF IInv, LatestInv, Latest, Sent, Bursting
<1>9. BlockInv' /\ AirInv'
  BY <1>2, <1>3 DEF BlockInv, AirInv
<1> QED
  BY <1>4, <1>6, <1>7, <1>8, <1>9 DEF IInv

LEMMA BurstSendsInv ==
  ASSUME IInv, BurstSends
  PROVE  IInv'
<1> DEFINE b == burst.buf
<1>1. /\ b \in Buffers /\ b # snd.buf /\ b # 0
      /\ \A i \in DOMAIN queue : queue[i] # b
  BY InHand DEF BurstSends
<1>2. /\ pc = "transmit" /\ ~cur.q.want.sband /\ heap' = [heap EXCEPT ![b] = NoData]
      /\ UNCHANGED <<volume, ofd, rec, gr, cur, inbox, reqs, resets, queue, snd, air, faults>>
  BY DEF BurstSends, bounds
<1>3. /\ pc' = IF heap[b].last THEN "close" ELSE "block"
      /\ burst' \in [left : Nat, blk : Nat, buf : {0} \cup Buffers] /\ burst'.buf = 0
  BY NextBlockIs DEF IInv, BurstSends
<1>4. /\ VolOK' /\ CurOK' /\ InboxOK' /\ GroundOK' /\ HandleInv' /\ OrderInv' /\ AskedInv'
      /\ FileInv' /\ ServedInv' /\ BurstOrder'
  BY <1>2, <1>3, UploadKept DEF IInv, GroundOK
<1>5. /\ Latest' = Latest /\ Sent' = Sent
      /\ \A i \in DOMAIN queue : heap'[queue[i]] = heap[queue[i]]
      /\ snd.buf # 0 => heap'[snd.buf] = heap[snd.buf]
  BY <1>1, <1>2, OtherBuffer DEF IInv
<1>6. NoData \in Datum
  BY DEF NoData, Datum
<1>7. heap' \in [Buffers -> Datum] /\ heap'[b] = NoData /\ \A c \in Buffers : c # b => heap'[c] = heap[c]
  BY <1>1, <1>2, <1>6 DEF IInv, HeapOK
<1>8. HeapOK'
  BY <1>2, <1>3, <1>7 DEF IInv, HeapOK
<1>9. BufferInv'
<2>1. /\ snd'.state = "sending" => queue' # << >>
      /\ snd'.state = "radio" <=> snd'.buf # 0
      /\ pc' = "transmit" <=> burst'.buf # 0
  BY <1>2, <1>3 DEF IInv, BufferInv
<2>2. /\ Unique(queue)'
      /\ \A i \in DOMAIN queue' :
           heap'[queue'[i]] # NoData /\ queue'[i] # snd'.buf /\ queue'[i] # burst'.buf
  BY <1>2, <1>3, <1>5, LimitsAssumption DEF IInv, BufferInv, HeapOK, Unique
<2>3. snd'.buf # 0 => heap'[snd'.buf] # NoData /\ snd'.buf # burst'.buf
  BY <1>2, <1>3, <1>5 DEF IInv, BufferInv
<2>4. ASSUME "full" \notin faults', NEW c \in Buffers, heap'[c] # NoData
      PROVE  c = snd'.buf \/ c = burst'.buf \/ \E i \in DOMAIN queue' : queue'[i] = c
  BY <1>2, <1>7, <2>4 DEF IInv, BufferInv
<2> QED
  BY <1>3, <2>1, <2>2, <2>3, <2>4 DEF BufferInv
<1>10. LatestInv'
<2>1. \A c \in Buffers : heap'[c].req <= reqs
  BY <1>7 DEF IInv, LatestInv, GroundOK, NoData
<2> QED
  BY <1>2, <1>3, <1>5, <2>1 DEF IInv, LatestInv, Bursting
<1>11. BlockInv'
  BY <1>2, <1>3, <1>5 DEF IInv, BlockInv, LatestInv, Bursting
<1>12. AirInv'
<2>1. 1 \in DOMAIN queue \/ queue = << >>
  BY DEF IInv, HeapOK
<2>2. \A i \in 1 .. Len(queue) - 1 : i \in DOMAIN queue /\ i + 1 \in DOMAIN queue
  BY DEF IInv, HeapOK
<2> QED
  BY <1>2, <1>5, <2>1, <2>2 DEF IInv, AirInv, Follows
<1> QED
  BY <1>4, <1>8, <1>9, <1>10, <1>11, <1>12 DEF IInv

LEMMA BurstEndsInv ==
  ASSUME IInv, BurstEnds
  PROVE  IInv'
<1>1. /\ pc = "block" /\ pc' = "close"
      /\ UNCHANGED <<volume, ofd, rec, gr, cur, inbox, reqs, resets, downlink, burst, faults>>
  BY DEF BurstEnds, bounds
<1>2. HeapOK' /\ BufferInv' /\ LatestInv' /\ BlockInv' /\ AirInv'
  BY <1>1, DownlinkKept DEF IInv, Bursting
<1> QED
  BY <1>1, <1>2, UploadKept DEF IInv, GroundOK

-----------------------------------------------------------------------------
(* The sender, the other tasks and a reset.                                *)

LEMMA OthersKept ==
  ASSUME IInv, UNCHANGED <<volume, ofd, rec, pc, cur, inbox, gr, burst, reqs, faults, resets>>
  PROVE  /\ VolOK' /\ CurOK' /\ InboxOK' /\ GroundOK' /\ HandleInv' /\ OrderInv' /\ AskedInv'
         /\ FileInv' /\ ServedInv' /\ BurstOrder'
<1>1. UNCHANGED <<vol, disk, handle, ofd, rec, pc, cur, inbox, gr, reqs, faults, resets>>
  BY DEF volume
<1>2. VolOK' /\ CurOK' /\ InboxOK' /\ GroundOK'
  BY <1>1 DEF IInv, VolOK, IsVolume, Open, CurOK, InboxOK, GroundOK
<1>3. HandleInv' /\ OrderInv' /\ AskedInv'
  BY <1>1 DEF IInv, HandleInv, Open, OrderInv, AskedInv, Asked
<1>4. FileInv' /\ ServedInv' /\ BurstOrder'
  BY <1>1 DEF IInv, FileInv, Holds, Sized, Sound, ServedInv, Stored, BurstOrder
<1> QED
  BY <1>2, <1>3, <1>4

LEMMA SenderStartsInv ==
  ASSUME IInv, SenderStarts
  PROVE  IInv'
<1>1. /\ snd.state = "waiting" /\ queue # << >> /\ snd' = [snd EXCEPT !.state = "sending"]
      /\ UNCHANGED <<volume, ofd, rec, pc, cur, inbox, gr, burst, heap, queue, air, reqs, faults, resets>>
  BY DEF SenderStarts, bounds
<1>2. /\ VolOK' /\ CurOK' /\ InboxOK' /\ GroundOK' /\ HandleInv' /\ OrderInv' /\ AskedInv'
      /\ FileInv' /\ ServedInv' /\ BurstOrder'
  BY <1>1, OthersKept
<1>3. snd' \in [state : {"waiting", "sending", "radio"}, buf : {0} \cup Buffers] /\ snd'.buf = snd.buf
      /\ snd'.state = "sending"
  BY <1>1 DEF IInv, HeapOK
<1>4. HeapOK'
  BY <1>1, <1>3 DEF IInv, HeapOK
<1>5. BufferInv'
  BY <1>1, <1>3 DEF IInv, BufferInv, Unique
<1>6. Latest' = Latest /\ Sent' = Sent
  BY <1>1, <1>3 DEF Latest, Sent
<1>7. LatestInv' /\ BlockInv'
  BY <1>1, <1>6 DEF IInv, LatestInv, BlockInv
<1>8. AirInv'
  BY <1>1, <1>3, <1>6 DEF IInv, AirInv, Follows
<1> QED
  BY <1>2, <1>4, <1>5, <1>7, <1>8 DEF IInv

LEMMA SenderTakesInv ==
  ASSUME IInv, SenderTakes
  PROVE  IInv'
<1>1. /\ snd.state = "sending" /\ queue # << >>
      /\ snd' = [state |-> "radio", buf |-> Head(queue)] /\ queue' = Tail(queue)
      /\ UNCHANGED <<volume, ofd, rec, pc, cur, inbox, gr, burst, heap, air, reqs, faults, resets>>
  BY DEF SenderTakes, bounds
<1>2. /\ VolOK' /\ CurOK' /\ InboxOK' /\ GroundOK' /\ HandleInv' /\ OrderInv' /\ AskedInv'
      /\ FileInv' /\ ServedInv' /\ BurstOrder'
  BY <1>1, OthersKept
<1>3. /\ queue' \in Seq(Buffers) /\ Len(queue') = Len(queue) - 1 /\ Len(queue) \in Nat /\ Len(queue) >= 1
      /\ \A i \in 1 .. Len(queue) - 1 : queue'[i] = queue[i + 1]
      /\ snd'.buf = queue[1] /\ snd'.state = "radio" /\ queue[1] \in Buffers
      /\ DOMAIN queue' = 1 .. Len(queue) - 1 /\ DOMAIN queue = 1 .. Len(queue)
  BY <1>1 DEF IInv, HeapOK
<1>4. snd.buf = 0 /\ snd'.buf # 0
  BY <1>1, <1>3, LimitsAssumption DEF IInv, BufferInv
<1>5. HeapOK'
  BY <1>1, <1>3, LimitsAssumption DEF IInv, HeapOK
<1>6. BufferInv'
<2>1. \A i \in DOMAIN queue' : i + 1 \in DOMAIN queue /\ queue'[i] = queue[i + 1] /\ i + 1 # 1
  BY <1>3
<2>2. Unique(queue)'
  BY <2>1, <1>3 DEF IInv, BufferInv, Unique
<2>3. \A i \in DOMAIN queue' :
        heap'[queue'[i]] # NoData /\ queue'[i] # snd'.buf /\ queue'[i] # burst'.buf
  BY <1>1, <1>3, <2>1 DEF IInv, BufferInv, Unique
<2>4. heap'[snd'.buf] # NoData /\ snd'.buf # burst'.buf
  BY <1>1, <1>3 DEF IInv, BufferInv
<2>5. ASSUME "full" \notin faults', NEW c \in Buffers, heap'[c] # NoData
      PROVE  c = snd'.buf \/ c = burst'.buf \/ \E i \in DOMAIN queue' : queue'[i] = c
<3>1. c = burst.buf \/ \E i \in DOMAIN queue : queue[i] = c
  BY <1>1, <1>4, <2>5, LimitsAssumption DEF IInv, BufferInv
<3>2. ASSUME NEW i \in DOMAIN queue, queue[i] = c, i # 1 PROVE \E j \in DOMAIN queue' : queue'[j] = c
<4>1. i - 1 \in DOMAIN queue' /\ queue'[i - 1] = c
  BY <1>3, <3>2
<4> QED
  BY <4>1
<3> QED
  BY <1>1, <1>3, <3>1, <3>2
<2> QED
  BY <1>1, <1>3, <1>4, <2>2, <2>3, <2>4, <2>5 DEF IInv, BufferInv
<1>7. Sent' = heap[queue[1]]
  BY <1>1, <1>3, <1>4 DEF Sent
<1>8. Latest' = Latest
<2>1. CASE queue' = << >>
  BY <1>1, <1>3, <1>7, <2>1 DEF Latest
<2>2. CASE queue' # << >>
<3>1. Len(queue) > 1 /\ queue'[Len(queue')] = queue[Len(queue)]
  BY <1>3, <2>2
<3> QED
  BY <1>1, <2>2, <3>1 DEF Latest
<2> QED
  BY <2>1, <2>2
<1>9. LatestInv' /\ BlockInv'
  BY <1>1, <1>8 DEF IInv, LatestInv, BlockInv
<1>10. AirInv'
<2> SUFFICES ASSUME "full" \notin faults PROVE AirInv'
  BY <1>1 DEF AirInv
<2>1. Follows(air', heap'[snd'.buf])
  BY <1>1, <1>3, <1>4 DEF IInv, AirInv, Sent
<2>2. queue' # << >> => Follows(Sent', heap'[queue'[1]])
<3> SUFFICES ASSUME queue' # << >> PROVE Follows(Sent', heap'[queue'[1]])
  OBVIOUS
<3>1. 1 \in 1 .. Len(queue) - 1 /\ queue'[1] = queue[1 + 1]
  BY <1>3
<3> QED
  BY <1>1, <1>7, <3>1 DEF IInv, AirInv
<2>3. ASSUME NEW i \in 1 .. Len(queue') - 1 PROVE Follows(heap'[queue'[i]], heap'[queue'[i + 1]])
<3>1. /\ i \in 1 .. Len(queue) - 1 /\ i + 1 \in 1 .. Len(queue) - 1
      /\ queue'[i] = queue[i + 1] /\ queue'[i + 1] = queue[(i + 1) + 1]
  BY <1>3, <2>3
<3> QED
  BY <1>1, <3>1 DEF IInv, AirInv
<2> QED
  BY <2>1, <2>2, <2>3 DEF AirInv, Follows
<1> QED
  BY <1>2, <1>5, <1>6, <1>9, <1>10 DEF IInv

LEMMA SenderRadiosInv ==
  ASSUME IInv, SenderRadios
  PROVE  IInv'
<1> DEFINE b == snd.buf
<1>1. /\ snd.state = "radio" /\ air' = heap[b] /\ heap' = [heap EXCEPT ![b] = NoData]
      /\ snd' = [state |-> "waiting", buf |-> 0]
      /\ UNCHANGED <<volume, ofd, rec, pc, cur, inbox, gr, burst, queue, reqs, faults, resets>>
  BY DEF SenderRadios, bounds
<1>2. /\ VolOK' /\ CurOK' /\ InboxOK' /\ GroundOK' /\ HandleInv' /\ OrderInv' /\ AskedInv'
      /\ FileInv' /\ ServedInv' /\ BurstOrder'
  BY <1>1, OthersKept
<1>3. /\ b \in Buffers /\ b # 0 /\ b # burst.buf /\ heap[b] \in Datum
      /\ \A i \in DOMAIN queue : queue[i] # b /\ queue[i] \in Buffers
  BY <1>1 DEF IInv, BufferInv, HeapOK
<1>4. NoData \in Datum /\ snd'.state = "waiting" /\ snd'.buf = 0
  BY <1>1 DEF NoData, Datum
<1>5. heap' \in [Buffers -> Datum] /\ heap'[b] = NoData /\ \A c \in Buffers : c # b => heap'[c] = heap[c]
  BY <1>1, <1>3, <1>4 DEF IInv, HeapOK
<1>6. HeapOK'
  BY <1>1, <1>3, <1>5 DEF IInv, HeapOK
<1>7. BufferInv'
<2>1. /\ Unique(queue)' /\ (pc' = "transmit" <=> burst'.buf # 0)
      /\ \A i \in DOMAIN queue' :
           heap'[queue'[i]] # NoData /\ queue'[i] # snd'.buf /\ queue'[i] # burst'.buf
  BY <1>1, <1>3, <1>4, <1>5, LimitsAssumption DEF IInv, BufferInv, Unique
<2>2. burst'.buf # 0 => heap'[burst'.buf] # NoData
  BY <1>1, <1>3, <1>5 DEF IInv, BufferInv, HeapOK
<2>3. ASSUME "full" \notin faults', NEW c \in Buffers, heap'[c] # NoData
      PROVE  c = snd'.buf \/ c = burst'.buf \/ \E i \in DOMAIN queue' : queue'[i] = c
  BY <1>1, <1>5, <2>3 DEF IInv, BufferInv
<2> QED
  BY <1>4, <2>1, <2>2, <2>3 DEF BufferInv
<1>8. Sent' = Sent /\ Latest' = Latest
<2>1. Sent' = Sent
  BY <1>1, <1>3, <1>4 DEF Sent
<2>2. queue # << >> => Len(queue) \in DOMAIN queue
  BY DEF IInv, HeapOK
<2> QED
  BY <1>1, <1>3, <1>5, <2>1, <2>2 DEF Latest
<1>9. LatestInv'
<2>1. air'.req <= reqs /\ \A c \in Buffers : heap'[c].req <= reqs
  BY <1>1, <1>3, <1>5 DEF IInv, LatestInv, GroundOK, NoData
<2> QED
  BY <1>1, <1>8, <2>1 DEF IInv, LatestInv
<1>10. BlockInv'
<2>1. pc = "transmit" => heap'[burst.buf] = heap[burst.buf]
  BY <1>3, <1>5 DEF IInv, BufferInv, HeapOK
<2> QED
  BY <1>1, <1>8, <2>1 DEF IInv, BlockInv, Follows
<1>11. AirInv'
<2>1. 1 \in DOMAIN queue \/ queue = << >>
  BY DEF IInv, HeapOK
<2>2. \A i \in 1 .. Len(queue) - 1 : i \in DOMAIN queue /\ i + 1 \in DOMAIN queue
  BY DEF IInv, HeapOK
<2> QED
  BY <1>1, <1>3, <1>4, <1>5, <1>8, <2>1, <2>2 DEF IInv, AirInv, Follows
<1> QED
  BY <1>2, <1>6, <1>7, <1>9, <1>10, <1>11 DEF IInv

LEMMA DownlinkSame ==
  ASSUME IInv, UNCHANGED <<inbox, cur, pc, burst, downlink, reqs, faults>>
  PROVE  HeapOK' /\ BufferInv' /\ BurstOrder' /\ LatestInv' /\ BlockInv' /\ AirInv'
<1>1. UNCHANGED <<heap, queue, snd, air, inbox, cur, pc, burst, reqs, faults>>
  BY DEF downlink
<1>2. HeapOK' /\ BufferInv' /\ BurstOrder'
  BY <1>1 DEF IInv, HeapOK, BufferInv, Unique, BurstOrder
<1>3. LatestInv' /\ BlockInv' /\ AirInv'
  BY <1>1 DEF IInv, LatestInv, BlockInv, AirInv, Latest, Sent, Follows
<1> QED
  BY <1>2, <1>3

LEMMA OtherOpensInv ==
  ASSUME IInv, OtherOpens
  PROVE  IInv'
<1>1. PICK fd \in 1 .. Handles :
        ofd = 0 /\ ~Open(fd) /\ ofd' = fd /\ handle' = [handle EXCEPT ![fd] = "other"]
  BY DEF OtherOpens, Lowest
<1>2. UNCHANGED <<vol, disk, rec, pc, cur, inbox, gr, burst, downlink, reqs, faults, resets>>
  BY DEF OtherOpens, bounds
<1>3. HeapOK' /\ BufferInv' /\ BurstOrder' /\ LatestInv' /\ BlockInv' /\ AirInv'
  BY <1>2, DownlinkSame
<1>4. CurOK' /\ InboxOK' /\ GroundOK' /\ OrderInv' /\ AskedInv'
  BY <1>2 DEF IInv, CurOK, InboxOK, GroundOK, OrderInv, AskedInv, Asked
<1>5. FileInv' /\ ServedInv'
  BY <1>2 DEF IInv, FileInv, Holds, Sized, Sound, ServedInv, Stored
<1>6. VolOK'
<2>1. handle' \in [1 .. Handles -> {"free"} \cup Volume]
  BY <1>1 DEF IInv, VolOK, Volume
<2>2. \A g \in 1 .. Handles : handle'[g] = handle[g] \/ handle'[g] = "other"
  BY <1>1 DEF IInv, VolOK
<2>3. ofd' \in 0 .. Handles
  BY <1>1, LimitsAssumption
<2> QED
  BY <1>2, <2>1, <2>2, <2>3 DEF IInv, VolOK, IsVolume, Open
<1>7. HandleInv'
<2> SUFFICES ASSUME faults \cap {"close", "truncate", "seek"} = {} PROVE HandleInv'
  BY <1>2 DEF HandleInv
<2>1. /\ rec.fd # 0 => rec.fd \in 1 .. Handles /\ Open(rec.fd)
      /\ cur.fd # 0 => cur.fd \in 1 .. Handles /\ Open(cur.fd)
<3>1. cur.fd \in 0 .. Handles /\ rec.fd \in 0 .. Handles
  BY LimitsAssumption DEF IInv, CurOK, NoRequest
<3> QED
  BY <3>1, FileNames, LimitsAssumption DEF IInv, HandleInv, CurOK, Open
<2>2. rec.fd # fd /\ cur.fd # fd
  BY <1>1, <2>1
<2>3. handle'[fd] = "other" /\ \A g \in 1 .. Handles : g # fd => handle'[g] = handle[g]
  BY <1>1 DEF IInv, VolOK
<2>4. \A g \in 1 .. Handles : Open(g)' => g = fd \/ Open(g)
  BY <2>3 DEF Open
<2>5. \A g \in 1 .. Handles : Open(g)' => g \in {rec'.fd, cur'.fd, ofd'}
  BY <1>1, <1>2, <2>4 DEF IInv, HandleInv
<2> QED
  BY <1>1, <1>2, <2>1, <2>2, <2>3, <2>5 DEF IInv, HandleInv, Open
<1> QED
  BY <1>3, <1>4, <1>5, <1>6, <1>7 DEF IInv

LEMMA OtherClosesInv ==
  ASSUME IInv, OtherCloses
  PROVE  IInv'
<1>1. ofd # 0 /\ ofd' = 0
      /\ IF Open(ofd) THEN disk' = vol /\ handle' = [handle EXCEPT ![ofd] = "free"]
         ELSE UNCHANGED <<disk, handle>>
  BY DEF OtherCloses
<1>2. UNCHANGED <<vol, rec, pc, cur, inbox, gr, burst, downlink, reqs, faults, resets>>
  BY DEF OtherCloses, bounds
<1>3. HeapOK' /\ BufferInv' /\ BurstOrder' /\ LatestInv' /\ BlockInv' /\ AirInv'
  BY <1>2, DownlinkSame
<1>4. CurOK' /\ InboxOK' /\ GroundOK' /\ OrderInv' /\ AskedInv'
  BY <1>2 DEF IInv, CurOK, InboxOK, GroundOK, OrderInv, AskedInv, Asked
<1>5. disk' \in {disk, vol}
  BY <1>1
<1>6. FileInv'
  BY <1>2, <1>5, FileKept DEF IInv
<1>7. ServedInv'
  BY <1>2, <1>5 DEF IInv, ServedInv, Sized, Sound, Stored
<1>8. /\ handle' \in [1 .. Handles -> {"free"} \cup Volume]
      /\ \A g \in 1 .. Handles : g # ofd => handle'[g] = handle[g]
      /\ \A g \in 1 .. Handles : handle'[g] \in {handle[g], "free"}
      /\ ofd \in 1 .. Handles => handle'[ofd] = "free"
  BY <1>1, LimitsAssumption DEF IInv, VolOK, Open
<1>9. VolOK'
  BY <1>1, <1>2, <1>5, <1>8, LimitsAssumption DEF IInv, VolOK, IsVolume, Open
<1>10. HandleInv'
<2> SUFFICES ASSUME faults \cap {"close", "truncate", "seek"} = {} PROVE HandleInv'
  BY <1>2 DEF HandleInv
<2>1. ofd \in 1 .. Handles /\ rec.fd # ofd /\ cur.fd # ofd
  BY <1>1, LimitsAssumption DEF IInv, HandleInv, VolOK
<2>2. \A g \in 1 .. Handles : Open(g)' => Open(g) /\ g # ofd
  BY <1>8, <2>1 DEF Open
<2>3. \A g \in 1 .. Handles : Open(g)' => g \in {rec'.fd, cur'.fd, ofd'}
  BY <1>2, <2>2 DEF IInv, HandleInv
<2>4. /\ rec.fd # 0 => rec.fd \in 1 .. Handles
      /\ cur.fd # 0 => cur.fd \in 1 .. Handles
  BY LimitsAssumption DEF IInv, CurOK, NoRequest
<2> QED
  BY <1>1, <1>2, <1>5, <1>8, <2>1, <2>3, <2>4 DEF IInv, HandleInv
<1> QED
  BY <1>3, <1>4, <1>6, <1>7, <1>9, <1>10 DEF IInv

LEMMA ResetInv ==
  ASSUME IInv, Reset
  PROVE  IInv'
<1>1. /\ vol' = disk /\ disk' = disk /\ handle' = [fd \in 1 .. Handles |-> "free"] /\ ofd' = 0
      /\ rec' = NoUpload /\ pc' = "idle" /\ cur' = NoRequest /\ inbox' = << >>
      /\ gr' = [gr EXCEPT !.clean = @ /\ gr.mode = "done"]
      /\ burst' = NoBurst /\ heap' = [b \in Buffers |-> NoData] /\ queue' = << >>
      /\ snd' = [state |-> "waiting", buf |-> 0]
      /\ UNCHANGED <<air, reqs, faults>> /\ resets' = resets + 1
  BY DEF Reset
<1>2. /\ gr' \in [req : {0} \cup Uploads, acked : Nat, mode : {"idle", "start", "send", "done"},
                  waiting : BOOLEAN, clean : BOOLEAN]
      /\ gr'.req = gr.req /\ gr'.acked = gr.acked /\ gr'.mode = gr.mode
      /\ gr'.clean => gr.clean /\ gr.mode = "done"
<2> DEFINE c == gr.clean /\ gr.mode = "done"
<2>1. c \in BOOLEAN
  BY DEF IInv, GroundOK
<2>2. gr' = [gr EXCEPT !.clean = c]
  BY <1>1
<2> HIDE DEF c
<2>3. /\ gr' \in [req : {0} \cup Uploads, acked : Nat, mode : {"idle", "start", "send", "done"},
                  waiting : BOOLEAN, clean : BOOLEAN]
      /\ gr'.req = gr.req /\ gr'.acked = gr.acked /\ gr'.mode = gr.mode /\ gr'.clean = c
  BY <2>1, <2>2 DEF IInv, GroundOK
<2> QED
  BY <2>3 DEF c
<1>3. cur'.fd = 0 /\ cur'.live = FALSE /\ cur'.q.op = "none" /\ rec'.fd = 0 /\ rec'.req = 0
  BY <1>1 DEF NoRequest, NoUpload
<1>4. VolOK'
<2>1. handle' \in [1 .. Handles -> {"free"} \cup Volume] /\ \A fd \in 1 .. Handles : handle'[fd] = "free"
  BY <1>1
<2> QED
  BY <1>1, <2>1, LimitsAssumption DEF IInv, VolOK, IsVolume, Open
<1>5. CurOK'
  BY <1>1, LimitsAssumption DEF CurOK, NoUpload, Starting, Storing, Bursting
<1>6. InboxOK' /\ OrderInv' /\ AskedInv' /\ BurstOrder'
  BY <1>1, <1>3 DEF InboxOK, OrderInv, AskedInv, BurstOrder
<1>7. GroundOK'
<2>1. resets' \in Nat
  BY <1>1 DEF IInv, GroundOK
<2> QED
  BY <1>1, <1>2, <2>1 DEF IInv, GroundOK
<1>8. HeapOK'
<2>1. heap' \in [Buffers -> Datum]
  BY <1>1 DEF NoData, Datum
<2>2. queue' \in Seq(Buffers) /\ Len(queue') <= QueueLength
  BY <1>1, LimitsAssumption
<2>3. burst' \in [left : Nat, blk : Nat, buf : {0} \cup Buffers]
  BY <1>1 DEF NoBurst
<2> QED
  BY <1>1, <2>1, <2>2, <2>3 DEF IInv, HeapOK
<1>9. HandleInv'
  BY <1>1, <1>3 DEF IInv, HandleInv, Open
<1>10. FileInv'
  BY <1>1, <1>2 DEF IInv, FileInv, Sound
<1>11. ServedInv'
  BY <1>1, <1>3 DEF ServedInv
<1>12. BufferInv'
  BY <1>1 DEF BufferInv, Unique, NoBurst
<1>13. LatestInv'
<2>1. Latest' = air
  BY <1>1 DEF Latest, Sent
<2>2. \A b \in Buffers : heap'[b].req <= reqs
  BY <1>1 DEF IInv, GroundOK, NoData
<2> QED
  BY <1>1, <1>3, <2>1, <2>2 DEF IInv, LatestInv, Bursting
<1>14. BlockInv' /\ AirInv'
  BY <1>1 DEF BlockInv, AirInv
<1> QED
  BY <1>4, <1>5, <1>6, <1>7, <1>8, <1>9, <1>10, <1>11, <1>12, <1>13, <1>14 DEF IInv

-----------------------------------------------------------------------------
(* The invariant and what follows from it.                                 *)

LEMMA InvInit ==
  ASSUME Init
  PROVE  IInv
<1>1. /\ vol = [f \in {"other"} |-> << >>] /\ disk = vol
      /\ handle = [fd \in 1 .. Handles |-> "free"] /\ ofd = 0
      /\ rec = NoUpload /\ pc = "idle" /\ cur = NoRequest /\ inbox = << >>
      /\ gr = [req |-> 0, acked |-> 0, mode |-> "idle", waiting |-> FALSE, clean |-> FALSE]
      /\ burst = NoBurst /\ heap = [b \in Buffers |-> NoData] /\ queue = << >>
      /\ snd = [state |-> "waiting", buf |-> 0] /\ air = NoData
      /\ reqs = 0 /\ faults = {} /\ resets = 0
  BY DEF Init
<1>2. cur.fd = 0 /\ cur.live = FALSE /\ cur.q.op = "none" /\ rec.fd = 0 /\ rec.req = 0
  BY <1>1 DEF NoRequest, NoUpload
<1>3. VolOK
<2>1. /\ DOMAIN vol = {"other"} /\ vol["other"] \in Seq(Blocks)
  BY <1>1
<2>2. IsVolume(vol) /\ IsVolume(disk)
  BY <1>1, <2>1 DEF IsVolume, Volume
<2> QED
  BY <1>1, <2>1, <2>2, LimitsAssumption DEF VolOK, Open
<1>4. CurOK
  BY <1>1, LimitsAssumption DEF CurOK, NoUpload, Starting, Storing, Bursting
<1>5. InboxOK /\ OrderInv /\ AskedInv /\ BurstOrder
  BY <1>1, <1>2 DEF InboxOK, OrderInv, AskedInv, BurstOrder
<1>6. GroundOK
  BY <1>1, UploadsAssumption DEF GroundOK
<1>7. HeapOK
<2>1. heap \in [Buffers -> Datum] /\ air \in Datum
  BY <1>1 DEF NoData, Datum
<2>2. burst \in [left : Nat, blk : Nat, buf : {0} \cup Buffers]
  BY <1>1 DEF NoBurst
<2> QED
  BY <1>1, <2>1, <2>2, LimitsAssumption DEF HeapOK
<1>8. HandleInv
  BY <1>1, <1>2 DEF HandleInv, Open
<1>9. FileInv /\ ServedInv
  BY <1>1, <1>2 DEF FileInv, ServedInv
<1>10. BufferInv
  BY <1>1 DEF BufferInv, Unique, NoBurst
<1>11. LatestInv
<2>1. Latest = air /\ air.req = 0 /\ \A b \in Buffers : heap[b].req = 0
  BY <1>1 DEF Latest, Sent, NoData
<2> QED
  BY <1>1, <1>2, <2>1 DEF LatestInv, Bursting
<1>12. BlockInv /\ AirInv
  BY <1>1 DEF BlockInv, AirInv
<1> QED
  BY <1>3, <1>4, <1>5, <1>6, <1>7, <1>8, <1>9, <1>10, <1>11, <1>12 DEF IInv

LEMMA StutterInv ==
  ASSUME IInv, UNCHANGED vars
  PROVE  IInv'
<1>1. UNCHANGED <<volume, ofd, rec, pc, cur, inbox, gr, burst, downlink, reqs, faults, resets>>
  BY DEF vars, volume, downlink
<1> QED
  BY <1>1, OthersKept, DownlinkSame DEF IInv

LEMMA InvStep ==
  ASSUME IInv, [Next]_vars
  PROVE  IInv'
<1>1. CASE Ground
  BY <1>1, GStartInv, GPacketInv, GBurstInv, GGiveUpInv DEF Ground
<1>2. CASE Service
  BY <1>2, AcceptInv, ReplyInv, CloseInv, StartClosesInv, StartOpensInv, StartTruncatesInv,
     StartRecordsInv, PacketChecksInv, PacketWritesInv, PacketFailsInv, BurstOpensInv,
     BurstReadsInv, BurstQueuesInv, BurstLeaksInv, BurstSendsInv, BurstEndsInv DEF Service
<1>3. CASE Sender
  BY <1>3, SenderStartsInv, SenderTakesInv, SenderRadiosInv DEF Sender
<1>4. CASE OtherOpens
  BY <1>4, OtherOpensInv
<1>5. CASE OtherCloses
  BY <1>5, OtherClosesInv
<1>6. CASE Reset
  BY <1>6, ResetInv
<1>7. CASE UNCHANGED vars
  BY <1>7, StutterInv
<1> QED
  BY <1>1, <1>2, <1>3, <1>4, <1>5, <1>6, <1>7 DEF Next

THEOREM Invariant == Spec => []IInv
<1>1. Init => IInv
  BY InvInit
<1>2. IInv /\ [Next]_vars => IInv'
  BY InvStep
<1> QED
  BY <1>1, <1>2, PTL DEF Spec

\* Every variable keeps its type: no descriptor is out of the table, the queue
\* holds no more than it can.
THEOREM TypeCorrect == Spec => []TypeOK
<1>1. IInv => TypeOK
  BY DEF IInv, VolOK, CurOK, InboxOK, GroundOK, HeapOK, TypeOK, Starting, Storing, Bursting
<1> QED
  BY <1>1, Invariant, PTL

\* The service uses the handles it holds and no others, and leaks none.
THEOREM HandlesKept == Spec => []HandlesOwned
<1>1. IInv => HandlesOwned
  BY DEF IInv, HandleInv, HandlesOwned
<1> QED
  BY <1>1, Invariant, PTL

\* An upload whose last block was acknowledged is in its file and on the disk.
THEOREM UploadsArrive == Spec => []UploadComplete
<1>1. IInv => UploadComplete
  BY DEF IInv, FileInv, Sound, UploadComplete
<1> QED
  BY <1>1, Invariant, PTL

LEMMA HoldersOf ==
  ASSUME HeapOK, Unique(queue), NEW b \in Buffers
  PROVE  /\ (\A i \in DOMAIN queue : queue[i] # b) => Cardinality(Holders(b)) = 0
         /\ (\E i \in DOMAIN queue : queue[i] = b) => Cardinality(Holders(b)) = 1
<1>1. ASSUME \A i \in DOMAIN queue : queue[i] # b PROVE Cardinality(Holders(b)) = 0
<2>1. Holders(b) = {}
  BY <1>1 DEF Holders
<2> QED
  BY <2>1, FS_EmptySet
<1>2. ASSUME NEW i \in DOMAIN queue, queue[i] = b PROVE Cardinality(Holders(b)) = 1
<2>1. Holders(b) = {i}
  BY <1>2 DEF Holders, Unique
<2> QED
  BY <2>1, FS_Singleton
<1> QED
  BY <1>1, <1>2

\* No buffer is lost, freed early or sent twice, and the sender finds what it
\* peeked at.
THEOREM BuffersKept == Spec => []BuffersAccounted
<1>1. ASSUME IInv PROVE BuffersAccounted
<2>1. snd.state = "sending" => queue # << >>
  BY <1>1 DEF IInv, BufferInv
<2>2. ASSUME NEW b \in Buffers
      PROVE  LET places == Cardinality(Holders(b)) + (IF snd.buf = b THEN 1 ELSE 0)
                             + (IF burst.buf = b THEN 1 ELSE 0)
             IN  IF heap[b] = NoData THEN places = 0
                 ELSE places = 1 \/ ("full" \in faults /\ places = 0)
<3> DEFINE queued == \E i \in DOMAIN queue : queue[i] = b
<3>1. Cardinality(Holders(b)) = IF queued THEN 1 ELSE 0
  BY <1>1, HoldersOf DEF IInv, BufferInv
<3>2. heap[b] = NoData => ~queued /\ snd.buf # b /\ burst.buf # b
  BY <1>1, LimitsAssumption DEF IInv, BufferInv
<3>3. /\ queued => snd.buf # b /\ burst.buf # b
      /\ snd.buf = b => burst.buf # b
  BY <1>1, LimitsAssumption DEF IInv, BufferInv
<3>4. heap[b] # NoData /\ "full" \notin faults => queued \/ snd.buf = b \/ burst.buf = b
  BY <1>1 DEF IInv, BufferInv
<3> HIDE DEF queued
<3> QED
  BY <3>1, <3>2, <3>3, <3>4
<2> QED
  BY <2>1, <2>2 DEF BuffersAccounted
<1> QED
  BY <1>1, Invariant, PTL

\* The blocks of a download are radioed in order and without a gap.
THEOREM RadioedInOrder == Spec => AirInOrder
<1> DEFINE A == snd.state = "radio" /\ snd'.state = "waiting" /\ resets' = resets
                  => \/ air'.blk = air.blk + 1 /\ ~air.last
                     \/ air'.req > air.req \/ "full" \in faults
<1>1. ASSUME IInv, [Next]_vars PROVE [A]_vars
<2> SUFFICES ASSUME Next, snd.state = "radio", snd'.state = "waiting", resets' = resets
             PROVE  \/ air'.blk = air.blk + 1 /\ ~air.last
                    \/ air'.req > air.req \/ "full" \in faults
  BY <1>1
<2>1. CASE SenderRadios
<3>1. snd.buf # 0 /\ air' = heap[snd.buf]
  BY <1>1, <2>1 DEF SenderRadios, IInv, BufferInv
<3> QED
  BY <1>1, <3>1 DEF IInv, AirInv, Follows
<2>2. CASE Ground
  BY <2>2 DEF Ground, GStart, GPacket, GBurst, GGiveUp, Ask, downlink
<2>3. CASE Service
  BY <2>3 DEF Service, Accept, Reply, Close, StartCloses, StartOpens, StartTruncates,
     StartRecords, PacketChecks, PacketWrites, PacketFails, BurstOpens, BurstReads,
     BurstQueues, BurstLeaks, BurstSends, BurstEnds, downlink
<2>4. CASE SenderStarts \/ SenderTakes
  BY <2>4 DEF SenderStarts, SenderTakes
<2>5. CASE OtherOpens \/ OtherCloses
  BY <2>5 DEF OtherOpens, OtherCloses, downlink
<2>6. CASE Reset
  BY <1>1, <2>6 DEF Reset, IInv, GroundOK
<2> QED
  BY <2>1, <2>2, <2>3, <2>4, <2>5, <2>6 DEF Next, Sender
<1> QED
  BY <1>1, Invariant, PTL DEF Spec, AirInOrder

=============================================================================
