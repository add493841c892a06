---------------------------- MODULE XmodemProofs ----------------------------
(***************************************************************************)
(* What XMODEM delivers is exact, for every set of sizes and lengths, every*)
(* number of packets before the numbers wrap, and every number of tries.   *)
(*                                                                         *)
(* The two sides are never more than one packet apart, and the packet      *)
(* number tells which of the two it is (UpInv, DownInv): a packet that is  *)
(* repeated is told from the next one, since with more than two numbers a  *)
(* number is not that of the next packet (NextDiffers).                    *)
(***************************************************************************)
EXTENDS Xmodem, SequenceTheorems, TLAPS

\* The parts of the type invariant, with the type of the payload's packets.
Uploading == {"sync", "fill", "send", "reply", "eot", "final"}
Downloading == {"try", "listen"}

JobOK ==
  /\ pc \in {"idle"} \cup Uploading \cup Downloading
  /\ job \in [kind : {"none", "up", "down"}, size : Nat, img : {0, 1}]
  /\ result \in {"none", "done", "failed"}
  /\ pc \in Uploading => job.kind = "up"
  /\ pc \in Downloading => job.kind = "down"
  /\ pc # "idle" => result # "done"

CountsOK ==
  /\ no \in 0..Numbers - 1 /\ len \in Nat
  /\ try \in 0..SyncTries \cup 0..MaxRetrans
  /\ pc \in {"sync", "try"} => try \in 0..SyncTries
  /\ pc = "listen" => try \in 0..SyncTries - 1
  /\ pc = "send" => try \in 0..MaxRetrans
  /\ pc = "reply" => try \in 0..MaxRetrans - 1
  /\ retrans \in 0..MaxRetrans /\ trychar \in {"C", "NAK", "none"}
  /\ pc # "idle" => retrans > 0

FileOK ==
  /\ file \in Seq({0, 1} \X Nat) /\ pos \in 0..Len(file)
  /\ holed \in BOOLEAN /\ misheard \in BOOLEAN /\ leaked \in 0..Handles
  /\ pc # "idle" => leaked < Handles

LineOK == line \in Messages

PayOK ==
  /\ pay \in [role : {"off", "rx", "ready", "tx"}, no : 0..Numbers - 1, got : Seq(Nat),
              left : 0..PayRetries]
  /\ job.kind = "up" => pay.role \in {"rx", "off"}
  /\ job.kind = "down" => pay.role \in {"ready", "tx", "off"}
  /\ Arrived("CAN") => pay.role = "off"

Next1(n) == (n + 1) % Numbers
Got == Len(pay.got)

\* Before it is sent, the payload has every packet before the next; while it
\* is, it may have it already, and an acknowledgement says so.
UpInv ==
  job.kind = "up" =>
    /\ Counted(pay.got, Got)
    /\ pc \in {"sync", "fill"} => len = Chunk * Got /\ pay.no = no
    /\ pc \in {"send", "reply"} =>
         \/ len = Chunk * (Got + 1) /\ pay.no = no
         \/ len = Chunk * Got /\ pay.no = Next1(no)
    /\ pc \in {"eot", "final"} \/ result = "done" => Complete(Got)
    /\ line.to = "pay" /\ line.kind = "packet" =>
         pc = "reply" /\ line.no = no /\ Chunk * line.blk = len
    /\ line.to = "pay" /\ line.kind = "EOT" => pc \in {"final", "idle"}
    /\ pc \in {"fill", "send"} => line.to # "pay"
    /\ Arrived("ACK") /\ pc \notin {"eot", "final", "idle"} =>
         pc = "reply" /\ len = Chunk * Got /\ pay.no = Next1(no)

Same == no = pay.no /\ (~holed => pos = Got)
Ahead == no = Next1(pay.no) /\ Got < job.size /\ (~holed => pos = Got + 1)

\* The receiver has what was acknowledged to the payload, or one packet more;
\* it has one more when an acknowledgement is on its way.
DownInv ==
  job.kind = "down" =>
    /\ ~holed /\ leaked = 0 =>
         /\ \A k \in 1..Len(file) : file[k] = <<job.img, k>>
         /\ pos = Len(file)
         /\ result = "done" /\ ~misheard => Len(file) = job.size
    /\ pc \in Downloading =>
         /\ Same \/ Ahead
         /\ Got <= job.size
         /\ line.to = "pay" /\ line.kind = "ACK" => Ahead
         /\ Arrived("EOT") => Same /\ Got = job.size
         /\ Arrived("packet") => line.no = pay.no /\ line.blk = Got + 1 /\ Got < job.size

IInv == JobOK /\ CountsOK /\ FileOK /\ LineOK /\ PayOK /\ UpInv /\ DownInv

\* A packet number is not that of the next packet.
LEMMA NextDiffers ==
  ASSUME NEW n \in 0..Numbers - 1
  PROVE  Next1(n) \in 0..Numbers - 1 /\ Next1(n) # n /\ Next1(n) # n - 1
<1>1. Numbers \in Nat /\ Numbers > 2
  BY XmodemAssumption
<1>2. CASE n + 1 = Numbers
  BY <1>1, <1>2 DEF Next1
<1>3. CASE n + 1 # Numbers
  BY <1>1, <1>3 DEF Next1
<1> QED
  BY <1>2, <1>3

LEMMA CountedNone == Counted(<<>>, 0)
  BY DEF Counted

LEMMA CountedNext ==
  ASSUME NEW s \in Seq(Nat), Counted(s, Len(s))
  PROVE  Counted(Append(s, Len(s) + 1), Len(Append(s, Len(s) + 1)))
<1> DEFINE t == Append(s, Len(s) + 1)
<1>1. t \in Seq(Nat) /\ Len(t) = Len(s) + 1
  OBVIOUS
<1>2. ASSUME NEW k \in 1..Len(t) PROVE t[k] = k
  <2>1. CASE k = Len(s) + 1
    BY <2>1
  <2>2. CASE k # Len(s) + 1
    <3>1. k \in 1..Len(s) /\ t[k] = s[k]
      BY <1>1, <2>2
    <3> QED
      BY <3>1 DEF Counted
  <2> QED
    BY <2>1, <2>2
<1>3. t = [k \in 1..Len(t) |-> t[k]]
  BY <1>1, LenProperties
<1>4. t = [k \in 1..Len(t) |-> k]
  BY <1>2, <1>3
<1> QED
  BY <1>4 DEF Counted

\* Only the line is touched, and holds nothing for the payload to take for a
\* packet nor for the computer to take for an acknowledgement.
LEMMA UpLine ==
  ASSUME UpInv, UNCHANGED <<pc, job, no, len, result, pay>>,
         line' = line \/ line'.to = "none"
           \/ (line'.to = "obc" /\ line'.kind # "ACK")
  PROVE  UpInv'
  BY DEF UpInv, Arrived, Got, Next1, Complete

LEMMA UStartInv ==
  ASSUME IInv, UStart
  PROVE  IInv'
<1>1. JobOK'
  <2>1. PICK n \in Sizes : Begin("up", n, "sync")
    BY DEF UStart
  <2>2. n \in Nat /\ 1 - job.img \in {0, 1}
    BY XmodemAssumption DEF IInv, JobOK
  <2> QED
    BY <2>1, <2>2 DEF Begin, JobOK, Uploading, Downloading
<1>2. CountsOK'
  BY XmodemAssumption
  DEF UStart, Begin, obc, disk, Quiet, Byte, Packet, IInv,
      JobOK, Uploading, Downloading, CountsOK
<1>3. FileOK'
  <2>1. file \in Seq({0, 1} \X Nat) /\ 0 \in 0..Len(file)
    BY DEF IInv, FileOK
  <2>2. UNCHANGED <<file, leaked>> /\ pos' = 0 /\ holed' = FALSE /\ misheard' = FALSE /\ leaked < Handles
    BY DEF UStart, Begin
  <2> QED
    BY <2>1, <2>2 DEF IInv, FileOK
<1>4. LineOK'
  BY XmodemAssumption
  DEF UStart, Begin, obc, disk, Quiet, Byte, Packet, IInv,
      LineOK, Messages, CountsOK, PayOK
<1>5. PayOK'
  BY XmodemAssumption
  DEF UStart, Begin, obc, disk, Quiet, Byte, Packet, IInv,
      JobOK, PayOK, LineOK, Messages, Arrived, Uploading, Downloading
<1>6. UpInv'
  <2>1. pc' = "sync" /\ result' = "none" /\ line' = Quiet /\ no' = 1 /\ len' = 0
    BY DEF UStart, Begin
  <2>2. pay'.got = <<>> /\ pay'.no = 1 /\ Got' = 0
    BY DEF UStart, Got
  <2> QED
    BY <2>1, <2>2, CountedNone DEF UpInv, Chunk, Quiet, Arrived
<1>7. DownInv'
  BY DEF UStart, Begin, obc, disk, Quiet, Byte, Packet, IInv,
      JobOK, CountsOK, FileOK, LineOK, Messages, PayOK, DownInv, Same, Ahead, Next1, Got, Arrived, Uploading, Downloading
<1> QED
  BY <1>1, <1>2, <1>3, <1>4, <1>5, <1>6, <1>7 DEF IInv

LEMMA DStartInv ==
  ASSUME IInv, DStart
  PROVE  IInv'
<1>1. JobOK'
  <2>1. PICK n \in Lengths : Begin("down", n, "try")
    BY DEF DStart
  <2>2. n \in Nat /\ 1 - job.img \in {0, 1}
    BY XmodemAssumption DEF IInv, JobOK
  <2> QED
    BY <2>1, <2>2 DEF Begin, JobOK, Uploading, Downloading
<1>2. CountsOK'
  BY XmodemAssumption
  DEF DStart, Begin, obc, disk, Quiet, Byte, Packet, IInv,
      JobOK, Uploading, Downloading, CountsOK
<1>3. FileOK'
  <2>1. file' \in Seq({0, 1} \X Nat)
    BY DEF DStart, IInv, FileOK
  <2>2. pos' \in 0..Len(file')
    BY <2>1 DEF DStart, Begin
  <2> QED
    BY <2>1, <2>2 DEF DStart, Begin, IInv, FileOK
<1>4. LineOK'
  BY XmodemAssumption
  DEF DStart, Begin, obc, disk, Quiet, Byte, Packet, IInv,
      LineOK, Messages, CountsOK, PayOK
<1>5. PayOK'
  BY XmodemAssumption
  DEF DStart, Begin, obc, disk, Quiet, Byte, Packet, IInv,
      JobOK, PayOK, LineOK, Messages, Arrived, Uploading, Downloading
<1>6. UpInv'
  BY DEF DStart, Begin, obc, disk, Quiet, Byte, Packet, IInv,
      JobOK, CountsOK, LineOK, Messages, PayOK, UpInv, Arrived, Next1, Got, Complete, Chunk, Uploading, Downloading
<1>7. DownInv'
  <2>1. PICK n \in Lengths : Begin("down", n, "try")
    BY DEF DStart
  <2>2. n \in Nat
    BY XmodemAssumption
  <2>3. no' = 1 /\ pos' = 0 /\ result' = "none" /\ line' = Quiet /\ job'.size = n /\ leaked' = leaked
    BY <2>1 DEF Begin
  <2>4. pay'.no = 1 /\ Got' = 0
    BY DEF DStart, Got
  <2>5. Same'
    BY <2>3, <2>4 DEF Same
  <2>6. leaked = 0 => file' = <<>>
    BY DEF DStart
  <2> QED
    BY <2>2, <2>3, <2>4, <2>5, <2>6 DEF DownInv, Quiet, Arrived
<1> QED
  BY <1>1, <1>2, <1>3, <1>4, <1>5, <1>6, <1>7 DEF IInv

LEMMA RefusedInv ==
  ASSUME IInv, Refused
  PROVE  IInv'
<1>1. JobOK'
  BY DEF Refused, obc, disk, Quiet, Byte, Packet, IInv,
      JobOK, Uploading, Downloading
<1>2. CountsOK'
  BY XmodemAssumption
  DEF Refused, obc, disk, Quiet, Byte, Packet, IInv,
      JobOK, Uploading, Downloading, CountsOK
<1>3. FileOK'
  BY DEF Refused, obc, disk, Quiet, Byte, Packet, IInv,
      JobOK, FileOK, Uploading, Downloading
<1>4. LineOK'
  BY XmodemAssumption
  DEF Refused, obc, disk, Quiet, Byte, Packet, IInv,
      LineOK, Messages, CountsOK, PayOK
<1>5. PayOK'
  BY DEF Refused, obc, disk, Quiet, Byte, Packet, IInv,
      JobOK, PayOK, LineOK, Messages, Arrived, Uploading, Downloading
<1>6. UpInv'
  BY DEF Refused, obc, disk, Quiet, Byte, Packet, IInv,
      JobOK, CountsOK, LineOK, Messages, PayOK, UpInv, Arrived, Next1, Got, Complete, Chunk, Uploading, Downloading
<1>7. DownInv'
  BY DEF Refused, obc, disk, Quiet, Byte, Packet, IInv,
      JobOK, CountsOK, FileOK, LineOK, Messages, PayOK, DownInv, Same, Ahead, Next1, Got, Arrived, Uploading, Downloading
<1> QED
  BY <1>1, <1>2, <1>3, <1>4, <1>5, <1>6, <1>7 DEF IInv

LEMMA USyncInv ==
  ASSUME IInv, USync
  PROVE  IInv'
<1>1. JobOK'
  BY DEF USync, Cancelled, Heard, GiveUp, End, TimedOut, obc, disk, Quiet, Byte, Packet, IInv,
      JobOK, Uploading, Downloading
<1>2. CountsOK'
  BY XmodemAssumption
  DEF USync, Cancelled, Heard, GiveUp, End, TimedOut, obc, disk, Quiet, Byte, Packet, IInv,
      JobOK, Uploading, Downloading, CountsOK
<1>3. FileOK'
  BY DEF USync, Cancelled, Heard, GiveUp, End, TimedOut, obc, disk, Quiet, Byte, Packet, IInv,
      JobOK, FileOK, Uploading, Downloading
<1>4. LineOK'
  BY XmodemAssumption
  DEF USync, Cancelled, Heard, GiveUp, End, TimedOut, obc, disk, Quiet, Byte, Packet, IInv,
      LineOK, Messages, CountsOK, PayOK
<1>5. PayOK'
  BY DEF USync, Cancelled, Heard, GiveUp, End, TimedOut, obc, disk, Quiet, Byte, Packet, IInv,
      JobOK, PayOK, LineOK, Messages, Arrived, Uploading, Downloading
<1>6. UpInv'
  <2>1. pc = "sync" /\ UNCHANGED <<job, no, len, pay>>
    BY DEF USync
  <2>2. \/ pc' = "fill" /\ line'.to = "none" /\ result' = result
        \/ /\ pc' = "idle" /\ result' = "failed"
           /\ line'.to = "pay" /\ line'.kind \in {"ACK", "CAN"}
        \/ pc' = pc /\ result' = result /\ (line'.to = "none" \/ line' = line)
    BY DEF USync, Cancelled, Heard, GiveUp, End, Quiet, Byte
  <2> QED
    BY <2>1, <2>2 DEF IInv, JobOK, UpInv, Arrived, Got, Complete
<1>7. DownInv'
  BY DEF USync, Cancelled, Heard, GiveUp, End, TimedOut, obc, disk, Quiet, Byte, Packet, IInv,
      JobOK, CountsOK, FileOK, LineOK, Messages, PayOK, DownInv, Same, Ahead, Next1, Got, Arrived, Uploading, Downloading
<1> QED
  BY <1>1, <1>2, <1>3, <1>4, <1>5, <1>6, <1>7 DEF IInv

LEMMA UFillInv ==
  ASSUME IInv, UFill
  PROVE  IInv'
<1>1. JobOK'
  BY DEF UFill, Left, GiveUp, End, obc, disk, Quiet, Byte, Packet, IInv,
      JobOK, Uploading, Downloading
<1>2. CountsOK'
  <2>1. len' \in Nat /\ try' = 0
    BY DEF UFill, Chunk, IInv, CountsOK
  <2>2. UNCHANGED <<no, retrans, trychar>>
    BY DEF UFill
  <2>3. pc' \in {"eot", "send", "idle"} /\ pc = "fill"
    BY DEF UFill, GiveUp, End
  <2> QED
    BY <2>1, <2>2, <2>3, XmodemAssumption DEF IInv, CountsOK
<1>3. FileOK'
  BY DEF UFill, Left, GiveUp, End, obc, disk, Quiet, Byte, Packet, IInv,
      JobOK, FileOK, Uploading, Downloading
<1>4. LineOK'
  BY XmodemAssumption
  DEF UFill, Left, GiveUp, End, obc, disk, Quiet, Byte, Packet, IInv,
      LineOK, Messages, CountsOK, PayOK
<1>5. PayOK'
  BY DEF UFill, Left, GiveUp, End, obc, disk, Quiet, Byte, Packet, IInv,
      JobOK, PayOK, LineOK, Messages, Arrived, Uploading, Downloading
<1>6. UpInv'
  <2>1. pc = "fill" /\ UNCHANGED <<job, no, pay>> /\ result # "done"
    BY DEF UFill, IInv, JobOK
  <2>2. \/ pc' = "eot" /\ Left = 0 /\ UNCHANGED <<len, result, line>>
        \/ pc' = "eot" /\ ~(len < job.size) /\ UNCHANGED <<result, line>>
        \/ pc' = "send" /\ len' = len + Chunk /\ UNCHANGED <<result, line>>
        \/ pc' = "idle" /\ result' = "failed" /\ line'.to = "pay" /\ line'.kind = "CAN"
    BY DEF UFill, GiveUp, End, Byte
  <2>3. Got \in Nat /\ job.size \in Nat
    BY DEF IInv, JobOK, PayOK, Got
  <2> SUFFICES ASSUME job.kind = "up" PROVE UpInv'
    BY <2>1 DEF UpInv
  <2>4. /\ len = Chunk * Got /\ pay.no = no /\ line.to # "pay" /\ Counted(pay.got, Got)
        /\ ~Arrived("ACK")
    BY <2>1 DEF IInv, UpInv
  <2>5. len + Chunk = Chunk * (Got + 1)
    BY <2>3, <2>4 DEF Chunk
  <2>6. Left = 0 \/ ~(len < job.size) => Complete(Got)
    BY <2>3, <2>4 DEF Left, Complete, Chunk
  <2> QED
    BY <2>1, <2>2, <2>4, <2>5, <2>6 DEF UpInv, Arrived, Got, Complete
<1>7. DownInv'
  BY DEF UFill, Left, GiveUp, End, obc, disk, Quiet, Byte, Packet, IInv,
      JobOK, CountsOK, FileOK, LineOK, Messages, PayOK, DownInv, Same, Ahead, Next1, Got, Arrived, Uploading, Downloading
<1> QED
  BY <1>1, <1>2, <1>3, <1>4, <1>5, <1>6, <1>7 DEF IInv

LEMMA USendInv ==
  ASSUME IInv, USend
  PROVE  IInv'
<1>1. JobOK'
  BY DEF USend, GiveUp, End, Out, obc, disk, Quiet, Byte, Packet, IInv,
      JobOK, Uploading, Downloading
<1>2. CountsOK'
  BY XmodemAssumption
  DEF USend, GiveUp, End, Out, obc, disk, Quiet, Byte, Packet, IInv,
      JobOK, Uploading, Downloading, CountsOK
<1>3. FileOK'
  BY DEF USend, GiveUp, End, Out, obc, disk, Quiet, Byte, Packet, IInv,
      JobOK, FileOK, Uploading, Downloading
<1>4. LineOK'
  <2>1. no \in 0..Numbers - 1 /\ len \div Chunk \in Nat /\ 0 \in 0..Numbers - 1
    BY XmodemAssumption DEF IInv, CountsOK, Chunk
  <2>2. line' = line \/ line' = Packet("pay", no, len \div Chunk) \/ line' = Byte("pay", "CAN")
    BY DEF USend, Out, GiveUp
  <2> QED
    BY <2>1, <2>2 DEF Packet, Byte, IInv, LineOK, Messages
<1>5. PayOK'
  BY DEF USend, GiveUp, End, Out, obc, disk, Quiet, Byte, Packet, IInv,
      JobOK, PayOK, LineOK, Messages, Arrived, Uploading, Downloading
<1>6. UpInv'
  <2>1. job.kind = "up" /\ pc = "send" /\ UNCHANGED <<job, no, len, pay>>
    BY DEF USend, obc, IInv, JobOK, Uploading
  <2>2. Got \in Nat /\ len \in Nat
    BY DEF Got, IInv, PayOK, CountsOK
  <2>3. CASE GiveUp
    BY <2>1, <2>3 DEF GiveUp, End, Byte, IInv, UpInv, Got, Arrived
  <2>4. CASE pc' = "reply" /\ Out(Packet("pay", no, len \div Chunk)) /\ UNCHANGED result
    <3>1. Chunk * (len \div Chunk) = len
      BY <2>1, <2>2 DEF Chunk, IInv, UpInv
    <3>2. line.to # "pay" /\ ~Arrived("ACK")
      BY <2>1 DEF IInv, UpInv
    <3>3. line' = line \/ (line'.to = "pay" /\ line'.no = no /\ line'.blk = len \div Chunk)
      BY <2>4 DEF Out, Packet
    <3>4. result # "done"
      BY <2>1 DEF IInv, JobOK
    <3>5. line'.to = "pay" => line'.kind = "packet" /\ line'.no = no /\ Chunk * line'.blk = len
      BY <2>4, <3>1, <3>2 DEF Out, Packet
    <3>6. ~(line'.to = "obc" /\ line'.kind = "ACK")
      BY <2>4, <3>2 DEF Out, Packet, Arrived
    <3>7. Got' = Got /\ Counted(pay'.got, Got')
      BY <2>1 DEF IInv, UpInv, Got
    <3>8. \/ len' = Chunk * (Got' + 1) /\ pay'.no = no'
          \/ len' = Chunk * Got' /\ pay'.no = Next1(no')
      BY <2>1, <3>7 DEF IInv, UpInv
    <3> QED
      BY <2>1, <2>4, <3>4, <3>5, <3>6, <3>7, <3>8 DEF UpInv, Arrived
  <2> QED
    BY <2>3, <2>4 DEF USend
<1>7. DownInv'
  BY DEF USend, GiveUp, End, Out, obc, disk, Quiet, Byte, Packet, IInv,
      JobOK, CountsOK, FileOK, LineOK, Messages, PayOK, DownInv, Same, Ahead, Next1, Got, Arrived, Uploading, Downloading
<1> QED
  BY <1>1, <1>2, <1>3, <1>4, <1>5, <1>6, <1>7 DEF IInv

LEMMA UReplyInv ==
  ASSUME IInv, UReply
  PROVE  IInv'
<1>1. JobOK'
  BY DEF UReply, Cancelled, Heard, End, TimedOut, obc, disk, Quiet, Byte, Packet, IInv,
      JobOK, Uploading, Downloading
<1>2. CountsOK'
  BY XmodemAssumption
  DEF UReply, Cancelled, Heard, End, TimedOut, obc, disk, Quiet, Byte, Packet, IInv,
      JobOK, Uploading, Downloading, CountsOK
<1>3. FileOK'
  BY DEF UReply, Cancelled, Heard, End, TimedOut, obc, disk, Quiet, Byte, Packet, IInv,
      JobOK, FileOK, Uploading, Downloading
<1>4. LineOK'
  BY XmodemAssumption
  DEF UReply, Cancelled, Heard, End, TimedOut, obc, disk, Quiet, Byte, Packet, IInv,
      LineOK, Messages, CountsOK, PayOK
<1>5. PayOK'
  BY DEF UReply, Cancelled, Heard, End, TimedOut, obc, disk, Quiet, Byte, Packet, IInv,
      JobOK, PayOK, LineOK, Messages, Arrived, Uploading, Downloading
<1>6. UpInv'
  <2>1. job.kind = "up" /\ pc = "reply" /\ UNCHANGED <<job, len, pay>> /\ result # "done"
    BY DEF UReply, IInv, JobOK, Uploading
  <2>2. CASE Arrived("ACK") /\ line' = Quiet /\ no' = (no + 1) % Numbers /\ pc' = "fill" /\ UNCHANGED result
    BY <2>1, <2>2 DEF IInv, UpInv, Got, Next1, Arrived, Quiet
  <2>3. CASE Cancelled
    BY <2>1, <2>3 DEF Cancelled, End, Byte, IInv, UpInv, Got, Arrived
  <2>4. CASE Heard({"ACK"}) /\ pc' = "send" /\ UNCHANGED <<no, result>>
    <3>1. line' = Quiet
      BY <2>4 DEF Heard, TimedOut
    <3> QED
      BY <2>1, <2>4, <3>1 DEF IInv, UpInv, Got, Next1, Arrived, Quiet
  <2> QED
    BY <2>2, <2>3, <2>4 DEF UReply
<1>7. DownInv'
  BY DEF UReply, Cancelled, Heard, End, TimedOut, obc, disk, Quiet, Byte, Packet, IInv,
      JobOK, CountsOK, FileOK, LineOK, Messages, PayOK, DownInv, Same, Ahead, Next1, Got, Arrived, Uploading, Downloading
<1> QED
  BY <1>1, <1>2, <1>3, <1>4, <1>5, <1>6, <1>7 DEF IInv

LEMMA UEndInv ==
  ASSUME IInv, UEnd
  PROVE  IInv'
<1>1. JobOK'
  BY DEF UEnd, Out, End, Heard, TimedOut, obc, disk, Quiet, Byte, Packet, IInv,
      JobOK, Uploading, Downloading
<1>2. CountsOK'
  BY XmodemAssumption
  DEF UEnd, Out, End, Heard, TimedOut, obc, disk, Quiet, Byte, Packet, IInv,
      JobOK, Uploading, Downloading, CountsOK
<1>3. FileOK'
  BY DEF UEnd, Out, End, Heard, TimedOut, obc, disk, Quiet, Byte, Packet, IInv,
      JobOK, FileOK, Uploading, Downloading
<1>4. LineOK'
  BY XmodemAssumption
  DEF UEnd, Out, End, Heard, TimedOut, obc, disk, Quiet, Byte, Packet, IInv,
      LineOK, Messages, CountsOK, PayOK
<1>5. PayOK'
  BY DEF UEnd, Out, End, Heard, TimedOut, obc, disk, Quiet, Byte, Packet, IInv,
      JobOK, PayOK, LineOK, Messages, Arrived, Uploading, Downloading
<1>6. UpInv'
  BY DEF UEnd, Out, End, Heard, TimedOut, obc, disk, Quiet, Byte, Packet, IInv,
      JobOK, CountsOK, LineOK, Messages, PayOK, UpInv, Arrived, Next1, Got, Complete, Chunk, Uploading, Downloading
<1>7. DownInv'
  BY DEF UEnd, Out, End, Heard, TimedOut, obc, disk, Quiet, Byte, Packet, IInv,
      JobOK, CountsOK, FileOK, LineOK, Messages, PayOK, DownInv, Same, Ahead, Next1, Got, Arrived, Uploading, Downloading
<1> QED
  BY <1>1, <1>2, <1>3, <1>4, <1>5, <1>6, <1>7 DEF IInv

LEMMA DTryInv ==
  ASSUME IInv, DTry
  PROVE  IInv'
<1>1. JobOK'
  BY DEF DTry, Out, GiveUp, End, obc, disk, Quiet, Byte, Packet, IInv,
      JobOK, Uploading, Downloading
<1>2. CountsOK'
  BY XmodemAssumption
  DEF DTry, Out, GiveUp, End, obc, disk, Quiet, Byte, Packet, IInv,
      JobOK, Uploading, Downloading, CountsOK
<1>3. FileOK'
  <2>1. UNCHANGED <<file, pos, holed, misheard>> /\ pc = "try"
    BY DEF DTry
  <2>2. CASE leaked' = leaked
    BY <2>1, <2>2 DEF IInv, FileOK
  <2>3. CASE leaked' = leaked + 1 /\ pc' = "idle"
    BY <2>1, <2>3, XmodemAssumption DEF IInv, FileOK
  <2> QED
    BY <2>2, <2>3 DEF DTry, GiveUp, End
<1>4. LineOK'
  BY XmodemAssumption
  DEF DTry, Out, GiveUp, End, obc, disk, Quiet, Byte, Packet, IInv,
      LineOK, Messages, CountsOK, PayOK
<1>5. PayOK'
  BY DEF DTry, Out, GiveUp, End, obc, disk, Quiet, Byte, Packet, IInv,
      JobOK, PayOK, LineOK, Messages, Arrived, Uploading, Downloading
<1>6. UpInv'
  BY DEF DTry, Out, GiveUp, End, obc, disk, Quiet, Byte, Packet, IInv,
      JobOK, CountsOK, LineOK, Messages, PayOK, UpInv, Arrived, Next1, Got, Complete, Chunk, Uploading, Downloading
<1>7. DownInv'
  <2>1. pc = "try" /\ UNCHANGED <<job, no, file, pos, holed, misheard, pay>>
    BY DEF DTry
  <2>2. \/ pc' \in {"try", "listen"} /\ leaked' = leaked /\ result' = result
        \/ pc' = "idle" /\ leaked' = leaked + 1 /\ result' = "failed"
    BY DEF DTry, GiveUp, End
  <2>3. \/ line' = line
        \/ line'.to = "pay" /\ line'.kind \in {"C", "NAK", "CAN"}
    BY DEF DTry, Out, GiveUp, Byte, IInv, CountsOK
  <2>4. leaked \in Nat
    BY XmodemAssumption DEF IInv, FileOK
  <2> QED
    BY <2>1, <2>2, <2>3, <2>4 DEF IInv, DownInv, Same, Ahead, Got, Arrived, Downloading
<1> QED
  BY <1>1, <1>2, <1>3, <1>4, <1>5, <1>6, <1>7 DEF IInv

LEMMA DHearInv ==
  ASSUME IInv, DHear
  PROVE  IInv'
<1>1. JobOK'
  BY DEF DHear, Heard, TimedOut, Cancelled, End, obc, disk, Quiet, Byte, Packet, IInv,
      JobOK, Uploading, Downloading
<1>2. CountsOK'
  BY XmodemAssumption
  DEF DHear, Heard, TimedOut, Cancelled, End, obc, disk, Quiet, Byte, Packet, IInv,
      JobOK, Uploading, Downloading, CountsOK
<1>3. FileOK'
  BY DEF DHear, Heard, TimedOut, Cancelled, End, obc, disk, Quiet, Byte, Packet, IInv,
      JobOK, FileOK, Uploading, Downloading
<1>4. LineOK'
  BY XmodemAssumption
  DEF DHear, Heard, TimedOut, Cancelled, End, obc, disk, Quiet, Byte, Packet, IInv,
      LineOK, Messages, CountsOK, PayOK
<1>5. PayOK'
  BY DEF DHear, Heard, TimedOut, Cancelled, End, obc, disk, Quiet, Byte, Packet, IInv,
      JobOK, PayOK, LineOK, Messages, Arrived, Uploading, Downloading
<1>6. UpInv'
  BY DEF DHear, Heard, TimedOut, Cancelled, End, obc, disk, Quiet, Byte, Packet, IInv,
      JobOK, CountsOK, LineOK, Messages, PayOK, UpInv, Arrived, Next1, Got, Complete, Chunk, Uploading, Downloading
<1>7. DownInv'
  <2>1. job.kind = "down" /\ pc = "listen" /\ UNCHANGED <<job, no, disk, pay>> /\ result # "done"
    BY DEF DHear, IInv, JobOK, Downloading
  <2>2. Got' = Got /\ UNCHANGED <<file, pos, holed, leaked>>
    BY <2>1 DEF Got, disk
  <2>3. CASE Heard({"packet", "bad", "tail", "EOT"}) /\ pc' = "try" /\ UNCHANGED result
    <3>1. line' = Quiet
      BY <2>3 DEF Heard, TimedOut
    <3>2. Same' = Same /\ Ahead' = Ahead
      BY <2>1, <2>2 DEF Same, Ahead, Next1
    <3> QED
      BY <2>1, <2>2, <2>3, <3>1, <3>2 DEF IInv, DownInv, Arrived, Quiet, Downloading
  <2>4. CASE Cancelled
    BY <2>1, <2>2, <2>4 DEF Cancelled, End, IInv, DownInv, Downloading
  <2>5. CASE Arrived("EOT") /\ End("done")
    <3>1. Same /\ Got = job.size
      BY <2>1, <2>5 DEF IInv, DownInv, Downloading
    <3>2. ~holed => pos = job.size
      BY <3>1 DEF Same
    <3> QED
      BY <2>1, <2>2, <2>5, <3>2 DEF End, IInv, DownInv, Downloading
  <2> QED
    BY <2>3, <2>4, <2>5 DEF DHear
<1> QED
  BY <1>1, <1>2, <1>3, <1>4, <1>5, <1>6, <1>7 DEF IInv

LEMMA DNewInv ==
  ASSUME IInv, DNew
  PROVE  IInv'
<1>1. JobOK'
  BY DEF DNew, Receiving, Wanted, Acknowledge, Written, obc, disk, Quiet, Byte, Packet, IInv,
      JobOK, Uploading, Downloading
<1>2. CountsOK'
  BY XmodemAssumption
  DEF DNew, Receiving, Wanted, Acknowledge, Written, obc, disk, Quiet, Byte, Packet, IInv,
      JobOK, Uploading, Downloading, CountsOK
<1>3. FileOK'
  <2>1. line.blk \in Nat /\ job.img \in {0, 1} /\ pos \in Nat /\ pos <= Len(file)
    BY DEF IInv, LineOK, Messages, JobOK, FileOK
  <2>2. CASE file' = Written(<<job.img, line.blk>>) /\ pos' = pos + 1 /\ UNCHANGED holed
    <3>1. CASE pos < Len(file)
      <4>1. pos + 1 \in 1..Len(file) /\ file' = [file EXCEPT ![pos + 1] = <<job.img, line.blk>>]
        BY <2>1, <2>2, <3>1 DEF Written
      <4>2. file' \in Seq({0, 1} \X Nat) /\ Len(file') = Len(file)
        BY <2>1, <4>1 DEF IInv, FileOK
      <4> QED
        BY <2>1, <2>2, <4>1, <4>2 DEF DNew, Acknowledge, Receiving, IInv, FileOK
    <3>2. CASE ~(pos < Len(file))
      <4>1. file' = Append(file, <<job.img, line.blk>>)
        BY <2>2, <3>2 DEF Written
      <4>2. file' \in Seq({0, 1} \X Nat) /\ Len(file') = Len(file) + 1
        BY <2>1, <4>1 DEF IInv, FileOK
      <4> QED
        BY <2>1, <2>2, <4>2 DEF DNew, Acknowledge, Receiving, IInv, FileOK
    <3> QED
      BY <3>1, <3>2
  <2>3. CASE holed' = TRUE /\ UNCHANGED <<file, pos>>
    BY <2>3 DEF DNew, Acknowledge, Receiving, IInv, FileOK
  <2> QED
    BY <2>2, <2>3 DEF DNew
<1>4. LineOK'
  BY XmodemAssumption
  DEF DNew, Receiving, Wanted, Acknowledge, Written, obc, disk, Quiet, Byte, Packet, IInv,
      LineOK, Messages, CountsOK, PayOK
<1>5. PayOK'
  BY DEF DNew, Receiving, Wanted, Acknowledge, Written, obc, disk, Quiet, Byte, Packet, IInv,
      JobOK, PayOK, LineOK, Messages, Arrived, Uploading, Downloading
<1>6. UpInv'
  BY DEF DNew, Receiving, Wanted, Acknowledge, Written, obc, disk, Quiet, Byte, Packet, IInv,
      JobOK, CountsOK, LineOK, Messages, PayOK, UpInv, Arrived, Next1, Got, Complete, Chunk, Uploading, Downloading
<1>7. DownInv'
  <2>1. job.kind = "down" /\ pc = "listen" /\ UNCHANGED <<job, leaked, pay, result>> /\ result # "done"
    BY DEF DNew, Receiving, Acknowledge, IInv, JobOK, Downloading
  <2>2. Arrived("packet") /\ line.no = no
    BY DEF DNew, Wanted
  <2>3. no = pay.no /\ line.blk = Got + 1 /\ Got < job.size
    BY <2>1, <2>2 DEF IInv, DownInv, Downloading
  <2>4. pay.no \in 0..Numbers - 1 /\ Got \in Nat
    BY DEF Got, IInv, PayOK
  <2>5. Same
    BY <2>1, <2>3, <2>4, NextDiffers DEF IInv, DownInv, Downloading, Ahead
  <2>6. Ahead' /\ Got' = Got
    BY <2>1, <2>3, <2>5 DEF DNew, Same, Ahead, Next1, Got
  <2>7. line' = Byte("pay", "ACK") /\ pc' = "try"
    BY DEF DNew, Acknowledge
  <2>8. ASSUME ~holed', leaked' = 0
        PROVE  /\ \A k \in 1..Len(file') : file'[k] = <<job.img, k>>
               /\ pos' = Len(file')
    <3>1. ~holed /\ leaked = 0 /\ pos = Got
      BY <2>1, <2>5, <2>8 DEF DNew, Same
    <3>2. file' = Written(<<job.img, line.blk>>) /\ pos' = pos + 1
      BY <2>8 DEF DNew
    <3>3. /\ \A k \in 1..Len(file) : file[k] = <<job.img, k>>
          /\ pos = Len(file)
      BY <2>1, <3>1 DEF IInv, DownInv
    <3>4. file' = Append(file, <<job.img, Len(file) + 1>>)
      BY <2>3, <2>4, <3>1, <3>2, <3>3 DEF Written
    <3>5. file \in Seq({0, 1} \X Nat) /\ Len(file) \in Nat
      BY DEF IInv, FileOK
    <3>6. Len(file') = Len(file) + 1 /\ file'[Len(file) + 1] = <<job.img, Len(file) + 1>>
      BY <3>4, <3>5
    <3>7. \A k \in 1..Len(file) : file'[k] = file[k]
      BY <3>4, <3>5
    <3>8. ASSUME NEW k \in 1..Len(file') PROVE file'[k] = <<job.img, k>>
      <4>1. CASE k = Len(file) + 1
        BY <3>6, <4>1
      <4>2. CASE k # Len(file) + 1
        <5>1. k \in 1..Len(file)
          BY <3>5, <3>6, <4>2
        <5> QED
          BY <3>3, <3>7, <5>1
      <4> QED
        BY <4>1, <4>2
    <3>9. pos' = Len(file')
      BY <3>2, <3>3, <3>6
    <3> QED
      BY <3>8, <3>9
  <2>9. ~holed' /\ leaked' = 0 =>
          /\ \A k \in 1..Len(file') : file'[k] = <<job'.img, k>>
          /\ pos' = Len(file') /\ result' # "done"
    BY <2>1, <2>8
  <2>10. job' = job /\ Got <= job.size /\ line'.to = "pay"
    BY <2>1, <2>3, <2>4, <2>7 DEF Byte, IInv, JobOK
  <2> QED
    BY <2>6, <2>9, <2>10 DEF DownInv, Arrived
<1> QED
  BY <1>1, <1>2, <1>3, <1>4, <1>5, <1>6, <1>7 DEF IInv

LEMMA DRepeatedInv ==
  ASSUME IInv, DRepeated
  PROVE  IInv'
<1>1. JobOK'
  BY DEF DRepeated, Receiving, Repeated, Acknowledge, GiveUp, End, obc, disk, Quiet, Byte, Packet, IInv,
      JobOK, Uploading, Downloading
<1>2. CountsOK'
  BY XmodemAssumption
  DEF DRepeated, Receiving, Repeated, Acknowledge, GiveUp, End, obc, disk, Quiet, Byte, Packet, IInv,
      JobOK, Uploading, Downloading, CountsOK
<1>3. FileOK'
  BY DEF DRepeated, Receiving, Repeated, Acknowledge, GiveUp, End, obc, disk, Quiet, Byte, Packet, IInv,
      JobOK, FileOK, Uploading, Downloading
<1>4. LineOK'
  BY XmodemAssumption
  DEF DRepeated, Receiving, Repeated, Acknowledge, GiveUp, End, obc, disk, Quiet, Byte, Packet, IInv,
      LineOK, Messages, CountsOK, PayOK
<1>5. PayOK'
  BY DEF DRepeated, Receiving, Repeated, Acknowledge, GiveUp, End, obc, disk, Quiet, Byte, Packet, IInv,
      JobOK, PayOK, LineOK, Messages, Arrived, Uploading, Downloading
<1>6. UpInv'
  BY DEF DRepeated, Receiving, Repeated, Acknowledge, GiveUp, End, obc, disk, Quiet, Byte, Packet, IInv,
      JobOK, CountsOK, LineOK, Messages, PayOK, UpInv, Arrived, Next1, Got, Complete, Chunk, Uploading, Downloading
<1>7. DownInv'
  <2>1. job.kind = "down" /\ pc = "listen" /\ UNCHANGED <<job, no, disk, pay>> /\ result # "done"
    BY DEF DRepeated, Receiving, IInv, JobOK, Downloading
  <2>2. Arrived("packet") /\ line.no = no - 1
    BY DEF DRepeated, Repeated
  <2>3. line.no = pay.no /\ pay.no \in 0..Numbers - 1
    BY <2>1, <2>2 DEF IInv, DownInv, Downloading, PayOK
  <2>4. Ahead
    <3>1. no # pay.no
      BY <2>2, <2>3
    <3> QED
      BY <2>1, <3>1 DEF IInv, DownInv, Downloading, Same
  <2>5. Got' = Got /\ UNCHANGED <<file, pos, holed, leaked>>
    BY <2>1 DEF Got, disk
  <2>6. Ahead'
    BY <2>1, <2>4, <2>5 DEF Ahead, Next1
  <2>7. CASE GiveUp
    BY <2>1, <2>5, <2>7 DEF GiveUp, End, IInv, DownInv, Downloading
  <2>8. CASE Acknowledge
    BY <2>1, <2>5, <2>6, <2>8 DEF Acknowledge, Byte, Arrived, IInv, DownInv, Downloading
  <2> QED
    BY <2>7, <2>8 DEF DRepeated
<1> QED
  BY <1>1, <1>2, <1>3, <1>4, <1>5, <1>6, <1>7 DEF IInv

LEMMA DBadInv ==
  ASSUME IInv, DBad
  PROVE  IInv'
<1>1. JobOK'
  BY DEF DBad, Receiving, Wanted, Repeated, obc, disk, Quiet, Byte, Packet, IInv,
      JobOK, Uploading, Downloading
<1>2. CountsOK'
  BY XmodemAssumption
  DEF DBad, Receiving, Wanted, Repeated, obc, disk, Quiet, Byte, Packet, IInv,
      JobOK, Uploading, Downloading, CountsOK
<1>3. FileOK'
  BY DEF DBad, Receiving, Wanted, Repeated, obc, disk, Quiet, Byte, Packet, IInv,
      JobOK, FileOK, Uploading, Downloading
<1>4. LineOK'
  BY XmodemAssumption
  DEF DBad, Receiving, Wanted, Repeated, obc, disk, Quiet, Byte, Packet, IInv,
      LineOK, Messages, CountsOK, PayOK
<1>5. PayOK'
  BY DEF DBad, Receiving, Wanted, Repeated, obc, disk, Quiet, Byte, Packet, IInv,
      JobOK, PayOK, LineOK, Messages, Arrived, Uploading, Downloading
<1>6. UpInv'
  BY DEF DBad, Receiving, Wanted, Repeated, obc, disk, Quiet, Byte, Packet, IInv,
      JobOK, CountsOK, LineOK, Messages, PayOK, UpInv, Arrived, Next1, Got, Complete, Chunk, Uploading, Downloading
<1>7. DownInv'
  BY DEF DBad, Receiving, Wanted, Repeated, obc, disk, Quiet, Byte, Packet, IInv,
      JobOK, CountsOK, FileOK, LineOK, Messages, PayOK, DownInv, Same, Ahead, Next1, Got, Arrived, Uploading, Downloading
<1> QED
  BY <1>1, <1>2, <1>3, <1>4, <1>5, <1>6, <1>7 DEF IInv

LEMMA DStrayNoiseInv ==
  ASSUME IInv, DStrayNoise
  PROVE  IInv'
<1>1. JobOK'
  BY DEF DStrayNoise, Stray, obc, disk, Quiet, Byte, Packet, IInv,
      JobOK, Uploading, Downloading
<1>2. CountsOK'
  BY XmodemAssumption
  DEF DStrayNoise, Stray, obc, disk, Quiet, Byte, Packet, IInv,
      JobOK, Uploading, Downloading, CountsOK
<1>3. FileOK'
  BY XmodemAssumption
  DEF DStrayNoise, Stray, obc, disk, Quiet, Byte, Packet, IInv,
      JobOK, FileOK, Uploading, Downloading
<1>4. LineOK'
  BY XmodemAssumption
  DEF DStrayNoise, Stray, obc, disk, Quiet, Byte, Packet, IInv,
      LineOK, Messages, CountsOK, PayOK
<1>5. PayOK'
  BY DEF DStrayNoise, Stray, obc, disk, Quiet, Byte, Packet, IInv,
      JobOK, PayOK, LineOK, Messages, Arrived, Uploading, Downloading
<1>6. UpInv'
  BY DEF DStrayNoise, Stray, obc, disk, Quiet, Byte, Packet, IInv,
      JobOK, CountsOK, LineOK, Messages, PayOK, UpInv, Arrived, Next1, Got, Complete, Chunk, Uploading, Downloading
<1>7. DownInv'
  BY DEF DStrayNoise, Stray, obc, disk, Quiet, Byte, Packet, IInv,
      JobOK, CountsOK, FileOK, LineOK, Messages, PayOK, DownInv, Same, Ahead, Next1, Got, Arrived, Uploading, Downloading
<1> QED
  BY <1>1, <1>2, <1>3, <1>4, <1>5, <1>6, <1>7 DEF IInv

LEMMA DStrayEndInv ==
  ASSUME IInv, DStrayEnd
  PROVE  IInv'
<1>1. JobOK'
  BY DEF DStrayEnd, Stray, End, obc, disk, Quiet, Byte, Packet, IInv,
      JobOK, Uploading, Downloading
<1>2. CountsOK'
  BY XmodemAssumption
  DEF DStrayEnd, Stray, End, obc, disk, Quiet, Byte, Packet, IInv,
      JobOK, Uploading, Downloading, CountsOK
<1>3. FileOK'
  BY XmodemAssumption
  DEF DStrayEnd, Stray, End, obc, disk, Quiet, Byte, Packet, IInv,
      JobOK, FileOK, Uploading, Downloading
<1>4. LineOK'
  BY XmodemAssumption
  DEF DStrayEnd, Stray, End, obc, disk, Quiet, Byte, Packet, IInv,
      LineOK, Messages, CountsOK, PayOK
<1>5. PayOK'
  BY DEF DStrayEnd, Stray, End, obc, disk, Quiet, Byte, Packet, IInv,
      JobOK, PayOK, LineOK, Messages, Arrived, Uploading, Downloading
<1>6. UpInv'
  BY DEF DStrayEnd, Stray, End, obc, disk, Quiet, Byte, Packet, IInv,
      JobOK, CountsOK, LineOK, Messages, PayOK, UpInv, Arrived, Next1, Got, Complete, Chunk, Uploading, Downloading
<1>7. DownInv'
  BY DEF DStrayEnd, Stray, End, obc, disk, Quiet, Byte, Packet, IInv,
      JobOK, CountsOK, FileOK, LineOK, Messages, PayOK, DownInv, Same, Ahead, Next1, Got, Arrived, Uploading, Downloading
<1> QED
  BY <1>1, <1>2, <1>3, <1>4, <1>5, <1>6, <1>7 DEF IInv

LEMMA DStrayPacketInv ==
  ASSUME IInv, DStrayPacket
  PROVE  IInv'
<1>1. JobOK'
  BY DEF DStrayPacket, Stray, Receiving, obc, disk, Quiet, Byte, Packet, IInv,
      JobOK, Uploading, Downloading
<1>2. CountsOK'
  BY XmodemAssumption
  DEF DStrayPacket, Stray, Receiving, obc, disk, Quiet, Byte, Packet, IInv,
      JobOK, Uploading, Downloading, CountsOK
<1>3. FileOK'
  BY XmodemAssumption
  DEF DStrayPacket, Stray, Receiving, obc, disk, Quiet, Byte, Packet, IInv,
      JobOK, FileOK, Uploading, Downloading
<1>4. LineOK'
  BY XmodemAssumption
  DEF DStrayPacket, Stray, Receiving, obc, disk, Quiet, Byte, Packet, IInv,
      LineOK, Messages, CountsOK, PayOK
<1>5. PayOK'
  BY DEF DStrayPacket, Stray, Receiving, obc, disk, Quiet, Byte, Packet, IInv,
      JobOK, PayOK, LineOK, Messages, Arrived, Uploading, Downloading
<1>6. UpInv'
  BY DEF DStrayPacket, Stray, Receiving, obc, disk, Quiet, Byte, Packet, IInv,
      JobOK, CountsOK, LineOK, Messages, PayOK, UpInv, Arrived, Next1, Got, Complete, Chunk, Uploading, Downloading
<1>7. DownInv'
  BY DEF DStrayPacket, Stray, Receiving, obc, disk, Quiet, Byte, Packet, IInv,
      JobOK, CountsOK, FileOK, LineOK, Messages, PayOK, DownInv, Same, Ahead, Next1, Got, Arrived, Uploading, Downloading
<1> QED
  BY <1>1, <1>2, <1>3, <1>4, <1>5, <1>6, <1>7 DEF IInv

LEMMA DStrayBlockInv ==
  ASSUME IInv, DStrayBlock
  PROVE  IInv'
<1>1. JobOK'
  BY DEF DStrayBlock, Stray, obc, disk, Quiet, Byte, Packet, IInv,
      JobOK, Uploading, Downloading
<1>2. CountsOK'
  BY XmodemAssumption
  DEF DStrayBlock, Stray, obc, disk, Quiet, Byte, Packet, IInv,
      JobOK, Uploading, Downloading, CountsOK
<1>3. FileOK'
  BY XmodemAssumption
  DEF DStrayBlock, Stray, obc, disk, Quiet, Byte, Packet, IInv,
      JobOK, FileOK, Uploading, Downloading
<1>4. LineOK'
  BY XmodemAssumption
  DEF DStrayBlock, Stray, obc, disk, Quiet, Byte, Packet, IInv,
      LineOK, Messages, CountsOK, PayOK
<1>5. PayOK'
  BY DEF DStrayBlock, Stray, obc, disk, Quiet, Byte, Packet, IInv,
      JobOK, PayOK, LineOK, Messages, Arrived, Uploading, Downloading
<1>6. UpInv'
  BY DEF DStrayBlock, Stray, obc, disk, Quiet, Byte, Packet, IInv,
      JobOK, CountsOK, LineOK, Messages, PayOK, UpInv, Arrived, Next1, Got, Complete, Chunk, Uploading, Downloading
<1>7. DownInv'
  BY DEF DStrayBlock, Stray, obc, disk, Quiet, Byte, Packet, IInv,
      JobOK, CountsOK, FileOK, LineOK, Messages, PayOK, DownInv, Same, Ahead, Next1, Got, Arrived, Uploading, Downloading
<1> QED
  BY <1>1, <1>2, <1>3, <1>4, <1>5, <1>6, <1>7 DEF IInv

LEMMA InviteInv ==
  ASSUME IInv, Invite
  PROVE  IInv'
<1>1. JobOK'
  BY DEF Invite, obc, disk, Quiet, Byte, Packet, IInv,
      JobOK, Uploading, Downloading
<1>2. CountsOK'
  BY XmodemAssumption
  DEF Invite, obc, disk, Quiet, Byte, Packet, IInv,
      JobOK, Uploading, Downloading, CountsOK
<1>3. FileOK'
  BY DEF Invite, obc, disk, Quiet, Byte, Packet, IInv,
      JobOK, FileOK, Uploading, Downloading
<1>4. LineOK'
  BY XmodemAssumption
  DEF Invite, obc, disk, Quiet, Byte, Packet, IInv,
      LineOK, Messages, CountsOK, PayOK
<1>5. PayOK'
  BY DEF Invite, obc, disk, Quiet, Byte, Packet, IInv,
      JobOK, PayOK, LineOK, Messages, Arrived, Uploading, Downloading
<1>6. UpInv'
  BY DEF Invite, obc, disk, Quiet, Byte, Packet, IInv,
      JobOK, CountsOK, LineOK, Messages, PayOK, UpInv, Arrived, Next1, Got, Complete, Chunk, Uploading, Downloading
<1>7. DownInv'
  BY DEF Invite, obc, disk, Quiet, Byte, Packet, IInv,
      JobOK, CountsOK, FileOK, LineOK, Messages, PayOK, DownInv, Same, Ahead, Next1, Got, Arrived, Uploading, Downloading
<1> QED
  BY <1>1, <1>2, <1>3, <1>4, <1>5, <1>6, <1>7 DEF IInv

LEMMA PReceiveInv ==
  ASSUME IInv, PReceive,
         UNCHANGED <<pc, job, obc, disk, result, misheard>>
  PROVE  IInv'
<1>1. JobOK'
  BY DEF PReceive, obc, disk, Quiet, Byte, Packet, IInv,
      JobOK, Uploading, Downloading
<1>2. CountsOK'
  BY XmodemAssumption
  DEF PReceive, obc, disk, Quiet, Byte, Packet, IInv,
      JobOK, Uploading, Downloading, CountsOK
<1>3. FileOK'
  BY DEF PReceive, obc, disk, Quiet, Byte, Packet, IInv,
      JobOK, FileOK, Uploading, Downloading
<1>4. LineOK'
  <2>1. 0 \in 0..Numbers - 1
    BY XmodemAssumption
  <2> QED
    BY <2>1 DEF PReceive, Quiet, Byte, LineOK, Messages
<1>5. PayOK'
  <2>1. pay.no \in 0..Numbers - 1 /\ Next1(pay.no) \in 0..Numbers - 1 /\ line.blk \in Nat
    BY NextDiffers DEF IInv, PayOK, LineOK, Messages
  <2>2. pay' \in [role : {"off", "rx", "ready", "tx"}, no : 0..Numbers - 1, got : Seq(Nat),
                  left : 0..PayRetries]
    <3>1. CASE pay' = [pay EXCEPT !.no = Next1(pay.no), !.got = Append(@, line.blk)]
      <4>1. Append(pay.got, line.blk) \in Seq(Nat)
        BY <2>1 DEF IInv, PayOK
      <4> QED
        BY <2>1, <3>1, <4>1 DEF IInv, PayOK
    <3>2. CASE pay' = pay \/ pay' = [pay EXCEPT !.role = "off"]
      BY <3>2 DEF IInv, PayOK
    <3> QED
      BY <3>1, <3>2 DEF PReceive, Next1
  <2>3. pay'.role \in {"rx", "off"} /\ line'.kind # "CAN"
    <3>1. pay.role = "rx" /\ line'.kind \in {"ACK", "NAK"}
      BY DEF PReceive, Byte
    <3>2. pay'.role \in {pay.role, "off"}
      BY DEF PReceive, IInv, PayOK
    <3> QED
      BY <3>1, <3>2
  <2>4. job.kind # "down"
    BY DEF PReceive, IInv, PayOK
  <2> QED
    BY <2>2, <2>3, <2>4 DEF PayOK, Arrived
<1>6. UpInv'
  <2> SUFFICES ASSUME job.kind = "up" PROVE UpInv'
    BY DEF UpInv
  <2>1. UNCHANGED <<pc, no, len, result>> /\ job'.kind = "up" /\ Complete(Got) = Complete(Got)
    BY DEF obc
  <2>2. CASE line.kind = "packet"
    <3>1. pc = "reply" /\ line.no = no /\ Chunk * line.blk = len
      BY <2>2 DEF PReceive, IInv, UpInv
    <3>2. no \in 0..Numbers - 1 /\ Got \in Nat /\ pay.got \in Seq(Nat) /\ line.blk \in Nat
      BY DEF IInv, CountsOK, Got, PayOK, LineOK, Messages
    <3>3. result # "done"
      BY <3>1 DEF IInv, JobOK
    <3>4. CASE no = pay.no
      <4>1. pay' = [pay EXCEPT !.no = (@ + 1) % Numbers, !.got = Append(@, line.blk)]
        BY <2>2, <3>1, <3>2, <3>4, NextDiffers DEF PReceive, Next1
      <4>2. len = Chunk * (Got + 1)
        BY <3>1, <3>2, <3>4, NextDiffers DEF IInv, UpInv
      <4>3. line.blk = Got + 1
        BY <3>1, <3>2, <4>2 DEF Chunk
      <4>4. pay'.got = Append(pay.got, Got + 1) /\ pay'.no = Next1(no)
        BY <3>4, <4>1, <4>3 DEF Next1, IInv, PayOK
      <4>5. Got' = Got + 1 /\ Counted(pay'.got, Got')
        BY <3>2, <4>4, CountedNext DEF Got, IInv, UpInv
      <4>6. line' = Byte("obc", "ACK")
        BY <2>2, <3>2, <3>4, <3>1, NextDiffers DEF PReceive, Next1
      <4> QED
        BY <2>1, <3>1, <3>3, <4>2, <4>4, <4>5, <4>6 DEF UpInv, Byte, Next1
    <3>5. CASE no # pay.no
      <4>1. len = Chunk * Got /\ pay.no = Next1(no)
        BY <3>1, <3>5 DEF IInv, UpInv
      <4>2. line' = Byte("obc", "ACK") /\ UNCHANGED pay
        BY <2>2, <3>1, <3>5 DEF PReceive
      <4> QED
        BY <2>1, <3>1, <3>3, <4>1, <4>2 DEF IInv, UpInv, Byte, Next1, Got, Arrived
    <3> QED
      BY <3>4, <3>5
  <2>3. CASE line.kind = "bad"
    <3>1. line' = Byte("obc", "NAK") /\ UNCHANGED pay
      BY <2>3 DEF PReceive
    <3> QED
      BY <3>1, UpLine DEF obc, Byte, IInv
  <2>4. CASE line.kind = "EOT"
    <3>1. line' = Byte("obc", "ACK") /\ pay'.got = pay.got /\ pay'.no = pay.no
      BY <2>4 DEF PReceive, IInv, PayOK
    <3>2. pc \in {"eot", "final", "idle"}
      BY <2>4 DEF PReceive, IInv, UpInv
    <3> QED
      BY <2>1, <3>1, <3>2 DEF IInv, UpInv, Byte, Got, Arrived, Complete, Counted
  <2> QED
    BY <2>2, <2>3, <2>4 DEF PReceive
<1>7. DownInv'
  BY DEF PReceive, obc, disk, Quiet, Byte, Packet, IInv,
      JobOK, CountsOK, FileOK, LineOK, Messages, PayOK, DownInv, Same, Ahead, Next1, Got, Arrived, Uploading, Downloading
<1> QED
  BY <1>1, <1>2, <1>3, <1>4, <1>5, <1>6, <1>7 DEF IInv

LEMMA PSendInv ==
  ASSUME IInv, PSend,
         UNCHANGED <<pc, job, obc, disk, result, misheard>>
  PROVE  IInv'
<1>1. JobOK'
  BY DEF PSend, Repeat, Current, obc, disk, Quiet, Byte, Packet, IInv,
      JobOK, Uploading, Downloading
<1>2. CountsOK'
  BY XmodemAssumption
  DEF PSend, Repeat, Current, obc, disk, Quiet, Byte, Packet, IInv,
      JobOK, Uploading, Downloading, CountsOK
<1>3. FileOK'
  BY DEF PSend, Repeat, Current, obc, disk, Quiet, Byte, Packet, IInv,
      JobOK, FileOK, Uploading, Downloading
<1>4. LineOK'
  <2>1. line' = Current
    BY DEF PSend, Repeat
  <2>2. pay.no \in 0..Numbers - 1 /\ 0 \in 0..Numbers - 1 /\ Len(pay.got) + 1 \in Nat
    BY XmodemAssumption DEF IInv, PayOK
  <2> QED
    BY <2>1, <2>2 DEF Current, Byte, Packet, LineOK, Messages
<1>5. PayOK'
  <2>1. pay.role \in {"ready", "tx"} /\ Repeat
    BY DEF PSend
  <2>2. job.kind # "up"
    BY <2>1 DEF IInv, PayOK
  <2>3. CASE pay.left = 0
    BY <2>1, <2>2, <2>3 DEF Repeat, IInv, PayOK
  <2>4. CASE pay.left # 0
    <3>1. pay.left - 1 \in 0..PayRetries
      BY <2>4, XmodemAssumption DEF IInv, PayOK
    <3>2. pay' = [pay EXCEPT !.role = "tx", !.left = @ - 1]
      BY <2>1, <2>4 DEF Repeat
    <3>3. line'.kind # "CAN"
      BY <2>1, <2>4 DEF Repeat, Current, Byte, Packet
    <3> QED
      BY <2>2, <3>1, <3>2, <3>3 DEF IInv, PayOK, Arrived
  <2> QED
    BY <2>3, <2>4
<1>6. UpInv'
  BY DEF PSend, Repeat, Current, obc, disk, Quiet, Byte, Packet, IInv,
      JobOK, CountsOK, LineOK, Messages, PayOK, UpInv, Arrived, Next1, Got, Complete, Chunk, Uploading, Downloading
<1>7. DownInv'
  <2> SUFFICES ASSUME job.kind = "down" PROVE DownInv'
    BY DEF DownInv
  <2>1. line' = Current /\ UNCHANGED <<pc, job, no, file, pos, holed, leaked, result>>
    BY DEF PSend, Repeat, obc, disk
  <2>2. pay'.no = pay.no /\ pay'.got = pay.got /\ Got' = Got
    BY DEF PSend, Repeat, IInv, PayOK, Got
  <2>3. Same' = Same /\ Ahead' = Ahead
    BY <2>1, <2>2 DEF Same, Ahead, Next1
  <2>4. Got \in Nat /\ job.size \in Nat
    BY DEF IInv, PayOK, JobOK, Got
  <2>5. ASSUME pc \in Downloading
        PROVE  /\ Arrived("EOT")' => Same /\ Got = job.size
               /\ Arrived("packet")' => line'.no = pay.no /\ line'.blk = Got + 1 /\ Got < job.size
    <3>1. Got <= job.size /\ (Same \/ Ahead)
      BY <2>5 DEF IInv, DownInv
    <3>2. Got = job.size => Same
      BY <2>4, <3>1 DEF Ahead
    <3> QED
      BY <2>1, <2>4, <3>1, <3>2 DEF Current, Arrived, Byte, Packet, Got
  <2>6. line'.to = "obc"
    BY <2>1 DEF Current, Byte, Packet
  <2> QED
    BY <2>1, <2>2, <2>3, <2>5, <2>6 DEF IInv, DownInv, Arrived
<1> QED
  BY <1>1, <1>2, <1>3, <1>4, <1>5, <1>6, <1>7 DEF IInv

LEMMA PNextInv ==
  ASSUME IInv, PNext,
         UNCHANGED <<pc, job, obc, disk, result, misheard>>
  PROVE  IInv'
<1>1. JobOK'
  BY DEF PNext, obc, disk, Quiet, Byte, Packet, IInv,
      JobOK, Uploading, Downloading
<1>2. CountsOK'
  BY XmodemAssumption
  DEF PNext, obc, disk, Quiet, Byte, Packet, IInv,
      JobOK, Uploading, Downloading, CountsOK
<1>3. FileOK'
  BY DEF PNext, obc, disk, Quiet, Byte, Packet, IInv,
      JobOK, FileOK, Uploading, Downloading
<1>4. LineOK'
  <2>1. Len(pay.got) + 2 \in Nat /\ Next1(pay.no) \in 0..Numbers - 1 /\ 0 \in 0..Numbers - 1
    BY NextDiffers, XmodemAssumption DEF IInv, PayOK
  <2>2. line' \in {Quiet, Byte("obc", "EOT"), Packet("obc", Next1(pay.no), Len(pay.got) + 2)}
    BY DEF PNext, Next1
  <2> QED
    BY <2>1, <2>2 DEF Quiet, Byte, Packet, LineOK, Messages
<1>5. PayOK'
  <2>1. pay.role = "tx" /\ job.kind # "up" /\ line'.kind # "CAN"
    BY DEF PNext, IInv, PayOK, Quiet, Byte, Packet
  <2>2. Next1(pay.no) \in 0..Numbers - 1 /\ Len(pay.got) + 1 \in Nat /\ PayRetries \in 0..PayRetries
    BY NextDiffers, XmodemAssumption DEF IInv, PayOK
  <2>3. pay' \in [role : {"off", "rx", "ready", "tx"}, no : 0..Numbers - 1, got : Seq(Nat),
                  left : 0..PayRetries]
    <3>1. CASE pay' = [pay EXCEPT !.role = "off"]
      BY <3>1 DEF IInv, PayOK
    <3>2. CASE pay' = [pay EXCEPT !.got = Append(@, Len(@) + 1), !.no = Next1(pay.no),
                                  !.left = PayRetries]
      <4>1. Append(pay.got, Len(pay.got) + 1) \in Seq(Nat)
        BY <2>2 DEF IInv, PayOK
      <4> QED
        BY <2>2, <3>2, <4>1 DEF IInv, PayOK
    <3> QED
      BY <3>1, <3>2 DEF PNext, Next1
  <2>4. pay'.role \in {"tx", "off"}
    BY <2>1 DEF PNext, IInv, PayOK
  <2> QED
    BY <2>1, <2>3, <2>4 DEF PayOK, Arrived
<1>6. UpInv'
  BY DEF PNext, obc, disk, Quiet, Byte, Packet, IInv,
      JobOK, CountsOK, LineOK, Messages, PayOK, UpInv, Arrived, Next1, Got, Complete, Chunk, Uploading, Downloading
<1>7. DownInv'
  <2> SUFFICES ASSUME job.kind = "down" PROVE DownInv'
    BY DEF DownInv
  <2>1. UNCHANGED <<pc, job, no, file, pos, holed, leaked, result>>
    BY DEF obc, disk
  <2>2. CASE pc \notin Downloading
    BY <2>1, <2>2 DEF IInv, DownInv
  <2>3. CASE pc \in Downloading
    <3>1. Ahead /\ Got \in Nat /\ job.size \in Nat
      BY <2>3 DEF PNext, IInv, DownInv, PayOK, JobOK, Got
    <3>2. Len(pay.got) # job.size /\ Got < job.size
      BY <3>1 DEF Ahead, Got
    <3>3. pay'.no = Next1(pay.no) /\ pay'.got = Append(pay.got, Got + 1)
      BY <3>2 DEF PNext, Next1, IInv, PayOK, Got
    <3>4. Got' = Got + 1
      BY <3>3 DEF Got, IInv, PayOK
    <3>5. Same'
      BY <2>1, <3>1, <3>3, <3>4 DEF Same, Ahead
    <3>6. line' = IF Got + 1 = job.size THEN Byte("obc", "EOT")
                  ELSE Packet("obc", Next1(pay.no), Got + 2)
      BY <3>2 DEF PNext, Next1, Got
    <3> QED
      BY <2>1, <3>1, <3>2, <3>3, <3>4, <3>5, <3>6 DEF IInv, DownInv, Arrived, Byte, Packet
  <2> QED
    BY <2>2, <2>3
<1> QED
  BY <1>1, <1>2, <1>3, <1>4, <1>5, <1>6, <1>7 DEF IInv

LEMMA PStopInv ==
  ASSUME IInv, PStop,
         UNCHANGED <<pc, job, obc, disk, result, misheard>>
  PROVE  IInv'
<1>1. JobOK'
  BY DEF PStop, obc, disk, Quiet, Byte, Packet, IInv,
      JobOK, Uploading, Downloading
<1>2. CountsOK'
  BY XmodemAssumption
  DEF PStop, obc, disk, Quiet, Byte, Packet, IInv,
      JobOK, Uploading, Downloading, CountsOK
<1>3. FileOK'
  BY DEF PStop, obc, disk, Quiet, Byte, Packet, IInv,
      JobOK, FileOK, Uploading, Downloading
<1>4. LineOK'
  <2>1. 0 \in 0..Numbers - 1
    BY XmodemAssumption
  <2> QED
    BY <2>1 DEF PStop, Quiet, Byte, LineOK, Messages
<1>5. PayOK'
  BY DEF PStop, obc, disk, Quiet, Byte, Packet, IInv,
      JobOK, PayOK, LineOK, Messages, Arrived, Uploading, Downloading
<1>6. UpInv'
  BY DEF PStop, obc, disk, Quiet, Byte, Packet, IInv,
      JobOK, CountsOK, LineOK, Messages, PayOK, UpInv, Arrived, Next1, Got, Complete, Chunk, Uploading, Downloading
<1>7. DownInv'
  <2>1. pay'.got = pay.got /\ pay'.no = pay.no
    BY DEF PStop, IInv, PayOK
  <2>2. line'.to = "none" \/ (line'.to = "obc" /\ line'.kind = "CAN")
    BY DEF PStop, Quiet, Byte
  <2> QED
    BY <2>1, <2>2 DEF IInv, DownInv, Same, Ahead, Got, Arrived, obc, disk
<1> QED
  BY <1>1, <1>2, <1>3, <1>4, <1>5, <1>6, <1>7 DEF IInv

LEMMA LoseInv ==
  ASSUME IInv, Lose
  PROVE  IInv'
<1>1. JobOK'
  BY DEF Lose, obc, disk, Quiet, Byte, Packet, IInv,
      JobOK, Uploading, Downloading
<1>2. CountsOK'
  BY XmodemAssumption
  DEF Lose, obc, disk, Quiet, Byte, Packet, IInv,
      JobOK, Uploading, Downloading, CountsOK
<1>3. FileOK'
  BY DEF Lose, obc, disk, Quiet, Byte, Packet, IInv,
      JobOK, FileOK, Uploading, Downloading
<1>4. LineOK'
  BY XmodemAssumption
  DEF Lose, obc, disk, Quiet, Byte, Packet, IInv,
      LineOK, Messages, CountsOK, PayOK
<1>5. PayOK'
  BY DEF Lose, obc, disk, Quiet, Byte, Packet, IInv,
      JobOK, PayOK, LineOK, Messages, Arrived, Uploading, Downloading
<1>6. UpInv'
  BY DEF Lose, obc, disk, Quiet, Byte, Packet, IInv,
      JobOK, CountsOK, LineOK, Messages, PayOK, UpInv, Arrived, Next1, Got, Complete, Chunk, Uploading, Downloading
<1>7. DownInv'
  BY DEF Lose, obc, disk, Quiet, Byte, Packet, IInv,
      JobOK, CountsOK, FileOK, LineOK, Messages, PayOK, DownInv, Same, Ahead, Next1, Got, Arrived, Uploading, Downloading
<1> QED
  BY <1>1, <1>2, <1>3, <1>4, <1>5, <1>6, <1>7 DEF IInv

LEMMA DamageInv ==
  ASSUME IInv, Damage
  PROVE  IInv'
<1>1. JobOK'
  BY DEF Damage, obc, disk, Quiet, Byte, Packet, IInv,
      JobOK, Uploading, Downloading
<1>2. CountsOK'
  BY XmodemAssumption
  DEF Damage, obc, disk, Quiet, Byte, Packet, IInv,
      JobOK, Uploading, Downloading, CountsOK
<1>3. FileOK'
  BY DEF Damage, obc, disk, Quiet, Byte, Packet, IInv,
      JobOK, FileOK, Uploading, Downloading
<1>4. LineOK'
  BY XmodemAssumption
  DEF Damage, obc, disk, Quiet, Byte, Packet, IInv,
      LineOK, Messages, CountsOK, PayOK
<1>5. PayOK'
  BY DEF Damage, obc, disk, Quiet, Byte, Packet, IInv,
      JobOK, PayOK, LineOK, Messages, Arrived, Uploading, Downloading
<1>6. UpInv'
  BY DEF Damage, obc, disk, Quiet, Byte, Packet, IInv,
      JobOK, CountsOK, LineOK, Messages, PayOK, UpInv, Arrived, Next1, Got, Complete, Chunk, Uploading, Downloading
<1>7. DownInv'
  BY DEF Damage, obc, disk, Quiet, Byte, Packet, IInv,
      JobOK, CountsOK, FileOK, LineOK, Messages, PayOK, DownInv, Same, Ahead, Next1, Got, Arrived, Uploading, Downloading
<1> QED
  BY <1>1, <1>2, <1>3, <1>4, <1>5, <1>6, <1>7 DEF IInv

LEMMA InvInit == Init => IInv
<1> SUFFICES ASSUME Init PROVE IInv
  OBVIOUS
<1>1. JobOK /\ LineOK
  BY XmodemAssumption DEF Init, JobOK, LineOK, Messages, Quiet, Uploading, Downloading
<1>2. CountsOK
  BY XmodemAssumption DEF Init, CountsOK
<1>3. FileOK
  <2>1. file = <<>> /\ pos = 0 /\ holed = FALSE /\ misheard = FALSE /\ leaked = 0 /\ pc = "idle"
    BY DEF Init
  <2>2. file \in Seq({0, 1} \X Nat) /\ Len(file) = 0
    BY <2>1
  <2>3. 0 \in 0..Handles /\ pos \in 0..Len(file)
    BY <2>1, <2>2, XmodemAssumption
  <2> QED
    BY <2>1, <2>2, <2>3 DEF FileOK
<1>4. PayOK
  BY XmodemAssumption DEF Init, PayOK, Arrived, Quiet
<1>5. UpInv /\ DownInv
  BY DEF Init, UpInv, DownInv
<1> QED
  BY <1>1, <1>2, <1>3, <1>4, <1>5 DEF IInv

LEMMA InvStep ==
  ASSUME IInv, [Next]_vars
  PROVE  IInv'
<1>1. CASE Obc
  BY <1>1, USyncInv, UFillInv, USendInv, UReplyInv, UEndInv, DTryInv, DHearInv, DNewInv,
     DRepeatedInv, DBadInv, DStrayNoiseInv, DStrayEndInv, DStrayPacketInv, DStrayBlockInv
  DEF Obc, DStray
<1>2. CASE Payload
  BY <1>2, PReceiveInv, PSendInv, PNextInv, PStopInv DEF Payload
<1>3. CASE UStart \/ DStart \/ Refused \/ Invite \/ Lose \/ Damage
  BY <1>3, UStartInv, DStartInv, RefusedInv, InviteInv, LoseInv, DamageInv
<1>4. CASE UNCHANGED vars
  <2>1. JobOK' /\ CountsOK' /\ FileOK' /\ LineOK' /\ PayOK'
    BY <1>4 DEF vars, obc, disk, IInv, JobOK, CountsOK, FileOK, LineOK, PayOK, Arrived
  <2>2. UpInv' /\ DownInv'
    BY <1>4 DEF vars, obc, disk, IInv, UpInv, DownInv, Same, Ahead, Next1, Got, Arrived, Complete
  <2> QED
    BY <2>1, <2>2 DEF IInv
<1> QED
  BY <1>1, <1>2, <1>3, <1>4 DEF Next

LEMMA Invariant == Spec => []IInv
<1>1. IInv /\ [Next]_vars => IInv'
  BY InvStep
<1> QED
  BY <1>1, InvInit, PTL DEF Spec

-----------------------------------------------------------------------------

\* Packet numbers stay in a byte, tries and repetitions within their limits, and
\* no more descriptors are left open than there are (xmodem.c:85-95, 185-192).
THEOREM TypeCorrect == Spec => []TypeOK
<1>1. IInv => TypeOK
  BY DEF IInv, JobOK, CountsOK, FileOK, LineOK, PayOK, TypeOK, Uploading, Downloading
<1> QED
  BY <1>1, Invariant, PTL

\* A file reported as sent is at the payload, every packet once and in order,
\* up to a rest the code takes for none (xmodem.c:234, 306).
THEOREM SentIsReceived == Spec => []UploadExact
<1>1. IInv => UploadExact
  BY DEF IInv, UpInv, UploadExact, Got
<1> QED
  BY <1>1, Invariant, PTL

\* What is written of an image is its beginning, also when bytes of a damaged
\* packet are read one by one, and all of it when a normal end is reported and
\* no such byte was taken for the end, if every write succeeded and no
\* descriptor was left open (xmodem.c:104-117, 140, 155).
THEOREM ImageIsExact == Spec => []DownloadExact
<1>1. ASSUME IInv, job.kind = "down", ~holed, leaked = 0
      PROVE  file = [k \in 1..Len(file) |-> <<job.img, k>>]
  <2>1. file = [k \in 1..Len(file) |-> file[k]]
    BY <1>1, LenProperties DEF IInv, FileOK
  <2>2. \A k \in 1..Len(file) : file[k] = <<job.img, k>>
    BY <1>1 DEF IInv, DownInv
  <2> QED
    BY <2>1, <2>2
<1>2. IInv => DownloadExact
  BY <1>1 DEF IInv, DownInv, DownloadExact
<1> QED
  BY <1>2, Invariant, PTL
=============================================================================
