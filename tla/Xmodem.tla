------------------------------- MODULE Xmodem -------------------------------
(***************************************************************************)
(* The Northern SPIRIT payload's files: artwork goes up to the payload     *)
(* (NS_upload_artwork, xmodemTransmit) and images come down from it        *)
(* (NS_download_image, xmodemReceive), over a serial line, by XMODEM.  One *)
(* session at a time: each holds ns_command_mutex from its start to its    *)
(* end.                                                                    *)
(*                                                                         *)
(* The payload is outside the repository: it is the usual XMODEM partner.  *)
(* The line holds one message at a time, and a wait only ends when nothing *)
(* is under way: answers come within the second they are waited for, or    *)
(* never.  The line loses what is on it and damages packets.  A packet     *)
(* whose first byte is intact is read whole, and its complement and check  *)
(* tell the damage; one that lost its first byte is read byte by byte, and *)
(* any of its bytes can be taken for a control byte.  A lone control byte  *)
(* is lost, never turned into another.                                     *)
(***************************************************************************)
EXTENDS Integers, Sequences

CONSTANTS
  Sizes,       \* sizes of artwork files, in bytes
  Lengths,     \* numbers of packets in an image
  Numbers,     \* 256: packet numbers wrap
  SyncTries,   \* 16, the reads of a synchronisation
  MaxRetrans,  \* MAXRETRANS, 25
  PayRetries,  \* how often the payload repeats a packet
  Handles      \* the file system's handles

ASSUME XmodemAssumption ==
  /\ Sizes \subseteq Nat /\ Lengths \subseteq Nat
  /\ Numbers \in Nat /\ Numbers > 2
  /\ SyncTries \in Nat \ {0} /\ MaxRetrans \in Nat \ {0}
  /\ PayRetries \in Nat /\ Handles \in Nat \ {0}

VARIABLES
  pc,       \* where the session is
  job,      \* the session: what is carried, and how much
  no,       \* packetno
  len,      \* the transmitter's len: 96 for each packet it read
  try,      \* retry
  retrans,  \* retrans
  trychar,  \* trychar: what the receiver invites with
  file,     \* NS_IMAGE.jpg, a sequence of <<image, packet>>
  pos,      \* the position its descriptor writes at
  holed,    \* a write of the session failed
  leaked,   \* descriptors never closed
  result,   \* how the last session ended
  misheard, \* its end was a byte of a damaged packet (for the properties)
  line,     \* the message under way
  pay       \* the payload

obc == <<no, len, try, retrans, trychar>>
disk == <<file, pos, holed, leaked>>
vars == <<pc, job, obc, disk, result, misheard, line, pay>>

Chunk == 96

Quiet == [to |-> "none", kind |-> "none", no |-> 0, blk |-> 0]
Byte(to, k) == [to |-> to, kind |-> k, no |-> 0, blk |-> 0]
Packet(to, n, b) == [to |-> to, kind |-> "packet", no |-> n, blk |-> b]

Arrived(k) == line.to = "obc" /\ line.kind = k

\* _outbyte: of two messages that cross, the payload's is kept.
Out(m) == line' = IF line.to = "obc" THEN line ELSE m

\* The read ends in vain.
TimedOut == line = Quiet

End(r) == pc' = "idle" /\ result' = r

\* Three CAN: the other side is told to forget the transfer.
GiveUp == End("failed") /\ line' = Byte("pay", "CAN")

\* The payload cancels with two CAN.  The read of the first empties the
\* queue, which may already hold the second: then the first is noise.
Cancelled == Arrived("CAN") /\ End("failed") /\ line' = Byte("pay", "ACK")

Heard(kinds) ==
  \/ TimedOut /\ UNCHANGED line
  \/ line.to = "obc" /\ line.kind \notin kinds /\ line' = Quiet

-----------------------------------------------------------------------------
(* A session begins, with the mutex: NS_upload_artwork, NS_download_image. *)

Begin(k, n, where) ==
  /\ pc = "idle" /\ line.to # "pay" /\ leaked < Handles
  /\ pc' = where /\ result' = "none" /\ line' = Quiet
  /\ job' = [kind |-> k, size |-> n, img |-> 1 - job.img]
  /\ no' = 1 /\ len' = 0 /\ try' = 0
  /\ retrans' = MaxRetrans /\ trychar' = "C" /\ pos' = 0 /\ holed' = FALSE
  /\ misheard' = FALSE
  /\ UNCHANGED leaked

UStart ==
  /\ \E n \in Sizes : Begin("up", n, "sync")
  /\ pay' = [role |-> "rx", no |-> 1, got |-> <<>>, left |-> 0]
  /\ UNCHANGED file

\* The old image is unlinked, which fails while a descriptor is open; the
\* file is opened without truncating it.
DStart ==
  /\ \E n \in Lengths : Begin("down", n, "try")
  /\ pay' = [role |-> "ready", no |-> 1, got |-> <<>>, left |-> PayRetries]
  /\ file' = IF leaked = 0 THEN <<>> ELSE file

\* The file is not opened, or the payload does not take the command.
Refused ==
  /\ pc = "idle" /\ result' = "failed"
  /\ job' = [job EXCEPT !.kind = "none"]
  /\ UNCHANGED <<pc, obc, disk, misheard, line, pay>>

-----------------------------------------------------------------------------
(* xmodemTransmit.                                                         *)

\* Mutant of USync: one read too many.
USyncOnce ==
  /\ pc = "sync"
  /\ IF try <= SyncTries
     THEN \/ /\ Arrived("C") \/ Arrived("NAK")
             /\ pc' = "fill" /\ line' = Quiet /\ UNCHANGED <<try, result>>
          \/ Cancelled /\ UNCHANGED try
          \/ Heard({"C", "NAK"}) /\ try' = try + 1 /\ UNCHANGED <<pc, result>>
     ELSE GiveUp /\ UNCHANGED try
  /\ UNCHANGED <<job, no, len, retrans, trychar, disk, misheard, pay>>

\* The payload asks for the first packet with C or NAK.
USync ==
  /\ pc = "sync"
  /\ IF try < SyncTries
     THEN \/ /\ Arrived("C") \/ Arrived("NAK")
             /\ pc' = "fill" /\ line' = Quiet /\ UNCHANGED <<try, result>>
          \/ Cancelled /\ UNCHANGED try
          \/ Heard({"C", "NAK"}) /\ try' = try + 1 /\ UNCHANGED <<pc, result>>
     ELSE GiveUp /\ UNCHANGED try
  /\ UNCHANGED <<job, no, len, retrans, trychar, disk, misheard, pay>>

\* What is left is kept in a char: 0 for every multiple of 256.
Left == (job.size - len) % 256

\* The next 96 bytes are read; none left ends the transfer; a read error or
\* no memory gives it up.
UFill ==
  /\ pc = "fill"
  /\ \/ Left = 0 /\ pc' = "eot" /\ UNCHANGED <<len, result, line>>
     \/ /\ Left > 0 /\ len' = len + Chunk
        /\ pc' = IF len < job.size THEN "send" ELSE "eot"
        /\ UNCHANGED <<result, line>>
     \/ Left > 0 /\ len' = len + Chunk /\ GiveUp
  /\ try' = 0
  /\ UNCHANGED <<job, no, retrans, trychar, disk, misheard, pay>>

USend ==
  /\ pc = "send"
  /\ IF try < MaxRetrans
     THEN pc' = "reply" /\ Out(Packet("pay", no, len \div Chunk)) /\ UNCHANGED result
     ELSE GiveUp
  /\ UNCHANGED <<job, obc, disk, misheard, pay>>

\* Mutant of UReply: whatever is heard is taken for an acknowledgement.
UReplyAny ==
  /\ pc = "reply"
  /\ \/ /\ line.to = "obc" /\ line' = Quiet
        /\ no' = (no + 1) % Numbers /\ pc' = "fill" /\ UNCHANGED <<try, result>>
     \/ /\ Heard({"ACK", "NAK", "C", "CAN"})
        /\ try' = try + 1 /\ pc' = "send" /\ UNCHANGED <<no, result>>
  /\ UNCHANGED <<job, len, retrans, trychar, disk, misheard, pay>>

\* Mutant of UReply: a packet is repeated without counting.
UReplyForever ==
  /\ pc = "reply"
  /\ \/ /\ Arrived("ACK") /\ line' = Quiet
        /\ no' = (no + 1) % Numbers /\ pc' = "fill" /\ UNCHANGED <<try, result>>
     \/ Cancelled /\ UNCHANGED <<no, try>>
     \/ /\ Heard({"ACK"})
        /\ pc' = "send" /\ UNCHANGED <<no, try, result>>
  /\ UNCHANGED <<job, len, retrans, trychar, disk, misheard, pay>>

UReply ==
  /\ pc = "reply"
  /\ \/ /\ Arrived("ACK") /\ line' = Quiet
        /\ no' = (no + 1) % Numbers /\ pc' = "fill" /\ UNCHANGED <<try, result>>
     \/ Cancelled /\ UNCHANGED <<no, try>>
     \/ /\ Heard({"ACK"})
        /\ try' = try + 1 /\ pc' = "send" /\ UNCHANGED <<no, result>>
  /\ UNCHANGED <<job, len, retrans, trychar, disk, misheard, pay>>

\* The end is announced once and acknowledged, or the transfer failed.
UEnd ==
  /\ \/ /\ pc = "eot" /\ pc' = "final"
        /\ Out(Byte("pay", "EOT")) /\ UNCHANGED result
     \/ pc = "final" /\ Arrived("ACK") /\ line' = Quiet /\ End("done")
     \/ pc = "final" /\ Heard({"ACK"}) /\ End("failed")
  /\ UNCHANGED <<job, obc, disk, misheard, pay>>

-----------------------------------------------------------------------------
(* xmodemReceive.                                                          *)

\* The receiver invites with C, then with NAK, and after the first packet
\* only listens.  When it gives up it does not close the file.
DTry ==
  /\ pc = "try"
  /\ \/ /\ try < SyncTries /\ pc' = "listen"
        /\ IF trychar = "none" THEN UNCHANGED line ELSE Out(Byte("pay", trychar))
        /\ UNCHANGED <<try, trychar, leaked, result>>
     \/ /\ try = SyncTries /\ trychar = "C" /\ trychar' = "NAK" /\ try' = 0
        /\ UNCHANGED <<pc, line, leaked, result>>
     \/ /\ try = SyncTries /\ trychar # "C" /\ GiveUp /\ leaked' = leaked + 1
        /\ UNCHANGED <<try, trychar>>
  /\ UNCHANGED <<job, no, len, retrans, file, pos, holed, misheard, pay>>

\* Nothing, or something that begins no packet.
DHear ==
  /\ pc = "listen"
  /\ \/ /\ Heard({"packet", "bad", "tail", "EOT"})
        /\ try' = try + 1 /\ pc' = "try" /\ UNCHANGED result
     \/ Cancelled /\ UNCHANGED try
     \/ /\ Arrived("EOT") /\ line' = Byte("pay", "ACK") /\ End("done")
        /\ UNCHANGED try
  /\ UNCHANGED <<job, no, len, retrans, trychar, disk, misheard, pay>>

Wanted == Arrived("packet") /\ line.no = no
\* packetno - 1 is computed in an int: before packet 0 there is none.
Repeated == Arrived("packet") /\ line.no = no - 1

\* Packet k of the image is put at the position.
Written(v) ==
  IF pos < Len(file) THEN [file EXCEPT ![pos + 1] = v] ELSE Append(file, v)

Receiving == pc = "listen" /\ try' = 0 /\ trychar' = "none"

Acknowledge == pc' = "try" /\ line' = Byte("pay", "ACK") /\ UNCHANGED result

\* red_write's result is not looked at.
DNew ==
  /\ Receiving /\ Wanted
  /\ \/ file' = Written(<<job.img, line.blk>>) /\ pos' = pos + 1 /\ UNCHANGED holed
     \/ holed' = TRUE /\ UNCHANGED <<file, pos>>
  /\ no' = (no + 1) % Numbers /\ retrans' = MaxRetrans
  /\ Acknowledge
  /\ UNCHANGED <<job, len, leaked, misheard, pay>>

\* Mutant of DRepeated: the packet is written again.
DRepeatedWritten ==
  /\ Receiving /\ Repeated
  /\ file' = Written(<<job.img, line.blk>>) /\ pos' = pos + 1
  /\ retrans' = retrans - 1
  /\ IF retrans' <= 0 THEN GiveUp ELSE Acknowledge
  /\ UNCHANGED <<job, no, len, holed, leaked, misheard, pay>>

\* A packet that was already written is acknowledged, so many times.
DRepeated ==
  /\ Receiving /\ Repeated
  /\ retrans' = retrans - 1
  /\ IF retrans' <= 0 THEN GiveUp ELSE Acknowledge
  /\ UNCHANGED <<job, no, len, disk, misheard, pay>>

DBad ==
  /\ Receiving
  /\ Arrived("packet") \/ Arrived("bad")
  /\ ~Wanted /\ ~Repeated
  /\ pc' = "try" /\ line' = Byte("pay", "NAK")
  /\ UNCHANGED <<job, no, len, retrans, disk, result, misheard, pay>>

-----------------------------------------------------------------------------
(* One byte of a packet that lost its first one: the number, the           *)
(* complement, base64 or the check, each of any value.  The read then      *)
(* empties the queue, with whatever of the packet has come by then.        *)

Stray == pc = "listen" /\ Arrived("tail")

\* It begins nothing, and is one of the tries; so is a CAN alone.
DStrayNoise ==
  /\ Stray /\ line' \in {line, Quiet}
  /\ try' = try + 1 /\ pc' = "try"
  /\ UNCHANGED <<job, no, len, retrans, trychar, disk, result, misheard, pay>>

\* It is EOT, the number of packet 4 for one: a normal end.  Or it and the
\* next are CAN.
DStrayEnd ==
  /\ Stray /\ line' = Byte("pay", "ACK")
  /\ \/ End("done") /\ misheard' = TRUE
     \/ End("failed") /\ UNCHANGED misheard
  /\ UNCHANGED <<job, obc, disk, pay>>

\* It is SOH: what follows is read for a packet, which it is not.
DStrayPacket ==
  /\ Stray /\ Receiving
  /\ pc' = "try" /\ line' = Byte("pay", "NAK")
  /\ UNCHANGED <<job, no, len, retrans, disk, result, misheard, pay>>

\* It is STX: 1028 bytes of the stack are cleared, of which xbuff has 132
\* left.  What that does is undefined; the computer is taken to restart.
DStrayBlock ==
  /\ Stray
  /\ pc' = "idle" /\ result' = "none" /\ line' = Quiet /\ leaked' = 0
  /\ job' = [job EXCEPT !.kind = "none"]
  /\ UNCHANGED <<obc, file, pos, holed, misheard, pay>>

DStray == DStrayNoise \/ DStrayEnd \/ DStrayPacket \/ DStrayBlock

Obc ==
  \/ USync \/ UFill \/ USend \/ UReply \/ UEnd
  \/ DTry \/ DHear \/ DNew \/ DRepeated \/ DBad \/ DStray

-----------------------------------------------------------------------------
(* The payload and the line.                                               *)

Invite ==
  /\ pay.role = "rx" /\ pay.got = <<>> /\ line = Quiet
  /\ \E k \in {"C", "NAK"} : line' = Byte("obc", k)
  /\ UNCHANGED <<pc, job, obc, disk, result, misheard, pay>>

\* The payload receives a file.
PReceive ==
  /\ pay.role = "rx" /\ line.to = "pay"
  /\ \/ /\ line.kind = "packet" /\ line.no = pay.no
        /\ pay' = [pay EXCEPT !.no = (@ + 1) % Numbers, !.got = Append(@, line.blk)]
        /\ line' = Byte("obc", "ACK")
     \/ /\ line.kind = "packet" /\ (line.no + 1) % Numbers = pay.no
        /\ line' = Byte("obc", "ACK") /\ UNCHANGED pay
     \/ line.kind = "bad" /\ line' = Byte("obc", "NAK") /\ UNCHANGED pay
     \/ /\ line.kind = "EOT" /\ line' = Byte("obc", "ACK")
        /\ pay' = [pay EXCEPT !.role = "off"]

Current ==
  IF pay.left = 0 THEN Byte("obc", "CAN")
  ELSE IF Len(pay.got) = job.size THEN Byte("obc", "EOT")
  ELSE Packet("obc", pay.no, Len(pay.got) + 1)

\* It sends what comes next, or repeats it; after so many times it cancels.
\* Here got is what was acknowledged to it.
Repeat ==
  /\ line' = Current
  /\ pay' = IF pay.left = 0 THEN [pay EXCEPT !.role = "off"]
            ELSE [pay EXCEPT !.role = "tx", !.left = @ - 1]

PSend ==
  \/ /\ pay.role \in {"ready", "tx"} /\ line.to = "pay" /\ line.kind \in {"C", "NAK"}
     /\ Repeat
  \/ pay.role = "tx" /\ line = Quiet /\ Repeat

PNext ==
  /\ pay.role = "tx" /\ line.to = "pay" /\ line.kind = "ACK"
  /\ IF Len(pay.got) = job.size
     THEN pay' = [pay EXCEPT !.role = "off"] /\ line' = Quiet
     ELSE /\ pay' = [pay EXCEPT !.got = Append(@, Len(@) + 1),
                                !.no = (@ + 1) % Numbers, !.left = PayRetries]
          /\ line' = IF Len(pay.got) + 1 = job.size THEN Byte("obc", "EOT")
                     ELSE Packet("obc", (pay.no + 1) % Numbers, Len(pay.got) + 2)

\* It gives the session up, or was told to.
PStop ==
  /\ line.to = "pay"
  /\ \/ pay.role # "off" /\ line' = Byte("obc", "CAN")
     \/ (pay.role = "off" \/ line.kind = "CAN") /\ line' = Quiet
  /\ pay' = [pay EXCEPT !.role = "off"]

Payload ==
  /\ PReceive \/ PSend \/ PNext \/ PStop
  /\ UNCHANGED <<pc, job, obc, disk, result, misheard>>

Lose == line # Quiet /\ line' = Quiet /\ UNCHANGED <<pc, job, obc, disk, result, misheard, pay>>

\* A packet is damaged, or the computer does not get its first byte.
Damage ==
  /\ line.kind = "packet"
  /\ \/ line' = [line EXCEPT !.kind = "bad"]
     \/ line.to = "obc" /\ line' = [line EXCEPT !.kind = "tail"]
  /\ UNCHANGED <<pc, job, obc, disk, result, misheard, pay>>

-----------------------------------------------------------------------------

Init ==
  /\ pc = "idle" /\ job = [kind |-> "none", size |-> 0, img |-> 0]
  /\ no = 1 /\ len = 0 /\ try = 0 /\ retrans = MaxRetrans /\ trychar = "C"
  /\ file = <<>> /\ pos = 0 /\ holed = FALSE /\ leaked = 0
  /\ result = "none" /\ misheard = FALSE /\ line = Quiet
  /\ pay = [role |-> "off", no |-> 1, got |-> <<>>, left |-> 0]

Next ==
  \/ UStart \/ DStart \/ Refused \/ Obc
  \/ Invite \/ Payload \/ Lose \/ Damage

\* The computer runs; a message under way arrives or is lost.
Spec ==
  /\ Init /\ [][Next]_vars
  /\ WF_vars(Obc) /\ WF_vars(Payload \/ (line.to = "pay" /\ Lose))

-----------------------------------------------------------------------------
(* Properties.                                                             *)

Messages ==
  [to : {"none", "obc", "pay"},
   kind : {"none", "C", "NAK", "ACK", "CAN", "EOT", "packet", "bad", "tail"},
   no : 0..Numbers - 1, blk : Nat]

\* Type invariant (xmodem.c:85-95 and 185-192): packet numbers stay in a
\* byte, tries and repetitions within their limits, and no more descriptors
\* are left open than the file system has.
TypeOK ==
  /\ pc \in {"idle", "sync", "fill", "send", "reply", "eot", "final", "try", "listen"}
  /\ job \in [kind : {"none", "up", "down"}, size : Nat, img : {0, 1}]
  /\ no \in 0..Numbers - 1 /\ len \in Nat
  /\ try \in 0..SyncTries \cup 0..MaxRetrans
  /\ retrans \in 0..MaxRetrans /\ trychar \in {"C", "NAK", "none"}
  /\ file \in Seq({0, 1} \X Nat) /\ pos \in 0..Len(file)
  /\ holed \in BOOLEAN /\ leaked \in 0..Handles
  /\ result \in {"none", "done", "failed"} /\ misheard \in BOOLEAN
  /\ line \in Messages
  /\ pay.role \in {"off", "rx", "ready", "tx"} /\ pay.no \in 0..Numbers - 1
  /\ pay.left \in 0..PayRetries

\* Packets 1 to n, in order and each once.
Counted(s, n) == s = [k \in 1..n |-> k]

\* The bytes that n packets leave, if the code takes them for none.
Complete(n) == Chunk * n >= job.size \/ (job.size - Chunk * n) % 256 = 0

\* A file reported as sent (xmodem.c:306) is at the payload, every 96 bytes
\* once and in order, whatever was lost, damaged and repeated on the way.
\* The exception is in the code: a rest that is a multiple of 256 bytes is
\* taken for the end (xmodem.c:234).
UploadExact ==
  job.kind = "up" /\ result = "done" =>
    Counted(pay.got, Len(pay.got)) /\ Complete(Len(pay.got))

\* What is written of an image is its beginning at any time, also after a
\* session that failed, whatever is lost, damaged, repeated and taken for
\* something else.  It is all of it when the receiver reports a normal end
\* (xmodem.c:117), unless a byte of a damaged packet was taken for the end
\* (xmodem.c:104-113): the code cannot tell the two.  The other exceptions
\* are in the code too: failed writes are not noticed (xmodem.c:155), and a
\* descriptor left open by an earlier session keeps the old image from being
\* unlinked (xmodem.c:140).
DownloadExact ==
  job.kind = "down" /\ ~holed /\ leaked = 0 =>
    /\ file = [k \in 1..Len(file) |-> <<job.img, k>>]
    /\ result = "done" /\ ~misheard => Len(file) = job.size

\* Every session ends and gives ns_command_mutex back (northern_spirit_
\* handler.c:101 and 129), whatever the line does.  Reads and repeated
\* packets are counted by the code; packets it answers with NAK are not
\* (xmodem.c:173-175): those end because the payload gives up.
TransferEnds == pc # "idle" ~> pc = "idle"
=============================================================================
