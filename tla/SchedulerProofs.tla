-------------------------- MODULE SchedulerProofs ---------------------------
(***************************************************************************)
(* Theorems about the command scheduler, for every value of the constants. *)
(***************************************************************************)
EXTENDS Scheduler, SequenceTheorems, TLAPS

(***************************************************************************)
(* What the helpers of the model return.                                   *)
(***************************************************************************)

LEMMA FunctionIsSeq ==
  ASSUME NEW S, NEW n \in Nat, NEW f \in [1 .. n -> S]
  PROVE  f \in Seq(S) /\ Len(f) = n
<1>1. f \in Seq(S)
  BY SeqDef
<1>2. DOMAIN f = 1 .. Len(f) /\ Len(f) \in Nat
  BY <1>1, LenProperties
<1>. QED BY <1>1, <1>2

LEMMA ZeroCmdType == ZeroCmd \in Cmd
BY IdsAssumption DEF ZeroCmd, Cmd

LEMMA WriteAtType ==
  ASSUME NEW cmds \in Seq(Cmd), NEW n \in Nat \ {0}, NEW c \in Cmd
  PROVE  WriteAt(cmds, n, c) \in Seq(Cmd)
<1> DEFINE m == IF n > Len(cmds) THEN n ELSE Len(cmds)
<1>1. m \in Nat /\ Len(cmds) \in Nat
  BY LenProperties
<1>2. \A i \in 1 .. Len(cmds) : cmds[i] \in Cmd
  BY ElementOfSeq
<1>3. WriteAt(cmds, n, c) \in [1 .. m -> Cmd]
  BY <1>1, <1>2, ZeroCmdType DEF WriteAt
<1>. QED BY <1>1, <1>3, FunctionIsSeq

LEMMA AtMostType ==
  ASSUME NEW S, NEW cmds \in Seq(S), NEW n \in Nat
  PROVE  AtMost(cmds, n) \in Seq(S)
<1> DEFINE m == IF Len(cmds) < n THEN Len(cmds) ELSE n
<1>1. Len(cmds) \in Nat /\ m \in Nat /\ m <= Len(cmds)
  BY LenProperties
<1>2. \A i \in 1 .. m : cmds[i] \in S
  BY <1>1, ElementOfSeq
<1>3. SubSeq(cmds, 1, m) \in Seq(S)
  BY <1>1, <1>2, SubSeqProperties
<1>. QED BY <1>3 DEF AtMost

LEMMA SortedOrdersType ==
  ASSUME NEW cmds \in Seq(Cmd), NEW s \in SortedOrders(cmds)
  PROVE  s \in Seq(Cmd) /\ IsSorted(s)
<1>1. Len(cmds) \in Nat /\ \A i \in 1 .. Len(cmds) : cmds[i] \in Cmd
  BY LenProperties, ElementOfSeq
<1>2. PICK p \in [1 .. Len(cmds) -> 1 .. Len(cmds)] : s = [i \in 1 .. Len(cmds) |-> cmds[p[i]]]
  BY DEF SortedOrders
<1>3. s \in [1 .. Len(cmds) -> Cmd]
  BY <1>1, <1>2
<1>4. IsSorted(s)
  BY DEF SortedOrders
<1>. QED BY <1>1, <1>3, <1>4, FunctionIsSeq

LEMMA ParsedType ==
  ASSUME NEW u \in Uploads, NEW cmds \in Parsed(u)
  PROVE  cmds \in Seq(Cmd)
<1> DEFINE w == AtMost(u, MaxNumCmds)
<1>1. u \in Seq(WireCmd) /\ MaxNumCmds \in Nat
  BY UploadsAssumption, BoundsAssumption
<1>2. w \in Seq(WireCmd)
  BY <1>1, AtMostType
<1>3. DOMAIN w = 1 .. Len(w) /\ Len(w) \in Nat /\ \A i \in 1 .. Len(w) : w[i] \in WireCmd
  BY <1>2, LenProperties, ElementOfSeq
<1>4. PICK g \in [DOMAIN w -> UninitMsecs] :
        cmds = [i \in DOMAIN w |-> [id |-> w[i].id, next |-> w[i].next, period |-> w[i].period,
                                    last |-> w[i].last, msecs |-> g[i]]]
  BY DEF Parsed
<1>5. \A i \in DOMAIN w : g[i] \in UninitMsecs
  BY <1>4
<1>6. cmds \in [1 .. Len(w) -> Cmd]
  BY <1>3, <1>4, <1>5 DEF WireCmd, Cmd
<1>. QED BY <1>3, <1>6, FunctionIsSeq

LEMMA CmdParts ==
  ASSUME NEW c \in Cmd
  PROVE  /\ c.next \in Nat /\ c.period \in Nat /\ c.msecs \in Nat
         /\ c.msecs \in UninitMsecs \cup {0}
<1>1. UninitMsecs \cup {0} \subseteq Nat
  BY WaitsAssumption
<1>2. c.next \in Nat /\ c.period \in Nat /\ c.msecs \in UninitMsecs \cup {0}
  BY DEF Cmd
<1>. QED BY <1>1, <1>2

\* An instant is its second and what has passed of it.
LEMMA InstantParts ==
  ASSUME NEW t \in Nat
  PROVE  /\ Unix(t) \in Nat /\ Ms(t) \in 0 .. Sec - 1
         /\ Unix(t) * Sec + Ms(t) = t /\ Unix(t) * Sec \in Nat
<1>1. Sec \in Nat \ {0}
  BY WaitsAssumption
<1>. QED BY <1>1 DEF Unix, Ms

\* What fits in half of w values is kept; the others come out no larger.
LEMMA SignedParts ==
  ASSUME NEW w \in Nat \ {0}, NEW n \in Int
  PROVE  /\ Signed(n, w) \in Int
         /\ n \in Nat => Signed(n, w) <= n
         /\ n \in Nat /\ 2 * n < w => Signed(n, w) = n
<1>1. n % w \in 0 .. w - 1
  OBVIOUS
<1>2. n \in Nat => n % w <= n
  OBVIOUS
<1>3. n \in Nat /\ n < w => n % w = n
  OBVIOUS
<1>. QED BY <1>1, <1>2, <1>3 DEF Signed

LEMMA TicksParts ==
  ASSUME NEW w \in Nat
  PROVE  /\ Ticks(w) \in Nat /\ Ticks(w) <= TickWrap
         /\ w > 0 => Ticks(w) <= w
         /\ w > 0 /\ w < TickWrap => Ticks(w) = w
<1>1. TickWrap \in Nat \ {0}
  BY BoundsAssumption
<1>2. w % TickWrap \in 0 .. TickWrap - 1 /\ w % TickWrap <= w
  BY <1>1
<1>3. w < TickWrap => w % TickWrap = w
  BY <1>1
<1>. QED BY <1>1, <1>2, <1>3 DEF Ticks

\* The seconds to go are what is left, unless the command is far ahead.
LEMMA WaitParts ==
  ASSUME NEW c \in Cmd, NEW t \in Nat, ~Missed(c, t)
  PROVE  /\ c.next - Unix(t) \in Nat \ {0}
         /\ Wait(c, t) \in Int /\ Wait(c, t) <= c.next - Unix(t)
         /\ ~Far(c, t) => Wait(c, t) = c.next - Unix(t)
<1>1. c.next \in Nat /\ Unix(t) \in Nat
  BY CmdParts, InstantParts
<1>2. c.next - Unix(t) \in Nat \ {0}
  BY <1>1 DEF Missed
<1>3. TimeWrap \in Nat \ {0}
  BY BoundsAssumption
<1>4. Far(c, t) <=> 2 * (c.next - Unix(t)) >= TimeWrap
  BY DEF Far
<1>5. DEFINE n == c.next - Unix(t)
<1>6. Wait(c, t) = Signed(n, TimeWrap)
  BY DEF Wait
<1>7. n \in Nat \ {0} /\ n \in Int /\ (~Far(c, t) => 2 * n < TimeWrap)
  BY <1>2, <1>3, <1>4
<1>. HIDE DEF n
<1>8. /\ Signed(n, TimeWrap) \in Int /\ Signed(n, TimeWrap) <= n
      /\ 2 * n < TimeWrap => Signed(n, TimeWrap) = n
  BY <1>3, <1>7, SignedParts
<1>9. Wait(c, t) \in Int /\ Wait(c, t) <= n /\ (~Far(c, t) => Wait(c, t) = n)
  BY <1>6, <1>7, <1>8
<1>. QED BY <1>2, <1>9 DEF n

LEMMA EarlyWaitType ==
  ASSUME NEW c \in Cmd, now \in Nat, TooEarly(c, now)
  PROVE  (Wait(c, now) - Coarse) * Sec \in Nat \ {0} /\ EarlyWait(c) \in Nat
<1>. DEFINE k == Wait(c, now) - Coarse
<1>1. ~Missed(c, now) /\ Wait(c, now) > Coarse
  BY DEF TooEarly
<1>2. k \in Nat \ {0} /\ Sec \in Nat \ {0}
  BY <1>1, WaitParts, WaitsAssumption
<1>. HIDE DEF k
<1>3. k * Sec \in Nat \ {0}
  BY <1>2
<1>4. Ticks(k * Sec) \in Nat
  BY <1>3, TicksParts
<1>. QED BY <1>3, <1>4 DEF EarlyWait, k

LEMMA LateWaitType ==
  ASSUME NEW c \in Cmd, now \in Nat
  PROVE  LateWait(c) \in Nat /\ (LateWait(c) = 0 \/ LateWait(c) <= TickWrap)
<1>. DEFINE n == (Unix(now) - c.next) * Sec
            late == Signed(n, MsecWrap)
<1>1. Sec \in Nat \ {0} /\ Coarse \in Nat /\ Unix(now) - c.next \in Int
  BY WaitsAssumption, InstantParts, CmdParts
<1>2. n \in Int /\ MsecWrap \in Nat \ {0}
  BY <1>1, BoundsAssumption
<1>3. LateWait(c) = IF late < Coarse * Sec THEN 0 ELSE Ticks(late)
  BY DEF LateWait
<1>. HIDE DEF n
<1>4. late \in Int
  BY <1>2, SignedParts
<1>5. Coarse * Sec \in Nat
  BY <1>1
<1>. HIDE DEF late
<1>6. ~(late < Coarse * Sec) => late \in Nat
  BY <1>4, <1>5
<1>7. ~(late < Coarse * Sec) => Ticks(late) \in Nat /\ Ticks(late) <= TickWrap
  BY <1>6, TicksParts
<1>. QED BY <1>3, <1>7

LEMMA FineDelayType ==
  ASSUME NEW c \in Cmd, now \in Nat, dlook \in Nat
  PROVE  FineDelay(c) \in Nat
<1>. DEFINE n == Wait(c, dlook) * Sec + c.msecs
            left == Signed(n, MsecWrap)
            delay == IF left > Ms(now) THEN Ticks(left - Ms(now)) ELSE 0
            spent == now - dlook
<1>1. FineDelay(c) = IF Missed(c, dlook) \/ delay <= spent THEN 0 ELSE delay - spent
  BY DEF FineDelay
<1>2. CASE Missed(c, dlook)
  BY <1>1, <1>2
<1>3. CASE ~Missed(c, dlook)
  <2>1. Wait(c, dlook) \in Int /\ Sec \in Nat /\ c.msecs \in Nat /\ MsecWrap \in Nat \ {0}
    BY <1>3, WaitParts, CmdParts, WaitsAssumption, BoundsAssumption
  <2>2. n \in Int
    BY <2>1
  <2>3. Ms(now) \in Nat
    BY InstantParts, WaitsAssumption
  <2>. HIDE DEF n
  <2>4. left \in Int
    BY <2>1, <2>2, SignedParts
  <2>. HIDE DEF left
  <2>5. left > Ms(now) => left - Ms(now) \in Nat
    BY <2>3, <2>4
  <2>6. left > Ms(now) => Ticks(left - Ms(now)) \in Nat
    BY <2>5, TicksParts
  <2>7. delay \in Nat
    BY <2>6
  <2>. HIDE DEF delay
  <2>. QED BY <1>1, <2>7
<1>. QED BY <1>2, <1>3

LEMMA WaitsType ==
  ASSUME NEW c \in Cmd, now \in Nat
  PROVE  /\ TooEarly(c, now) => EarlyWait(c) \in Nat
         /\ LateWait(c) \in Nat
         /\ dlook \in Nat => FineDelay(c) \in Nat
         /\ NextOccurrence(c) \in Seq(Cmd)
<1>1. NextOccurrence(c) \in Seq(Cmd)
  <2>1. (c.next + c.period) % TimeWrap \in Nat
    BY CmdParts, BoundsAssumption
  <2>2. [c EXCEPT !.next = (c.next + c.period) % TimeWrap] \in Cmd
    BY <2>1 DEF Cmd
  <2>. QED BY <2>2 DEF NextOccurrence
<1>. QED BY <1>1, EarlyWaitType, LateWaitType, FineDelayType

(***************************************************************************)
(* Type correctness.                                                       *)
(***************************************************************************)

LEMMA FileType ==
  /\ NoFile \in File
  /\ \A cmds \in Seq(Cmd) : Holding(cmds) \in File
BY EmptySeq DEF NoFile, File, Holding

LEMMA ResetType ==
  ASSUME TypeOK, ResetTo(disk)
  PROVE  TypeOK'
<1>1. scmds' \in Seq(Cmd) /\ dcmds' \in Seq(Cmd) /\ dcmd' \in Cmd
  BY EmptySeq, ZeroCmdType DEF ResetTo
<1>2. file' \in File /\ disk' \in File
  BY DEF TypeOK, ResetTo
<1>3. queue' \in 0 .. QueueLen /\ inbox' \in 0 .. Backlog /\ dwait' \in Nat
  BY WaitsAssumption, BoundsAssumption DEF ResetTo
<1>4. soff' \in Nat \ {0} /\ doff' \in Nat \ {0} /\ swait' \in Nat /\ dtimeout' \in Nat
  BY DEF ResetTo
<1>5. now' \in Nat /\ reqs' \in Nat /\ resets' \in Nat /\ faults' = faults
  BY DEF TypeOK, ResetTo
<1>6. /\ leaked' = FALSE /\ lock' = "absent" /\ spc' = "off" /\ sop' = "none" /\ src' = "ok"
      /\ dpc' = "boot" /\ dlook' = 0
  BY DEF ResetTo
<1>. QED BY <1>1, <1>2, <1>3, <1>4, <1>5, <1>6 DEF TypeOK

\* What the daemon writes back: whole commands, in order.
LEMMA UpdateSorts ==
  ASSUME TypeOK, DUpdate
  PROVE  dcmds' \in Seq(Cmd) /\ IsSorted(dcmds')
<1>1. PICK n \in 1 .. Len(file.cmds) \cup {0} :
        dcmds' \in SortedOrders(AtMost(NextOccurrence(dcmd) \o Remaining(n), MaxNumCmds))
  BY DEF DUpdate
<1>2. Remaining(n) \in Seq(Cmd)
  <2>1. file.cmds \in Seq(Cmd)
    BY DEF TypeOK, File
  <2>2. \A i \in 2 .. n : file.cmds[i] \in Cmd
    BY <2>1, ElementOfSeq, LenProperties
  <2>. QED BY <2>1, <2>2, SubSeqProperties, LenProperties DEF Remaining
<1>3. NextOccurrence(dcmd) \in Seq(Cmd)
  BY WaitsType DEF TypeOK
<1>. QED
  BY <1>1, <1>2, <1>3, ConcatProperties, AtMostType, SortedOrdersType, BoundsAssumption

\* The type invariant, for every number of commands, requests, errors and
\* resets and all lengths of the waits.
THEOREM TypeCorrect == Spec => []TypeOK
<1>1. Init => TypeOK
  <2> SUFFICES ASSUME Init PROVE TypeOK
    OBVIOUS
  <2>1. scmds \in Seq(Cmd) /\ dcmds \in Seq(Cmd) /\ dcmd \in Cmd
    BY EmptySeq, ZeroCmdType DEF Init
  <2>2. file \in File /\ disk \in File
    BY FileType DEF Init
  <2>3. queue \in 0 .. QueueLen /\ inbox \in 0 .. Backlog /\ dwait \in Nat
    BY WaitsAssumption, BoundsAssumption DEF Init
  <2>4. soff \in Nat \ {0} /\ doff \in Nat \ {0} /\ swait \in Nat /\ dtimeout \in Nat /\ now \in Nat
    BY DEF Init
  <2>5. /\ reqs = 0 /\ faults = {} /\ resets = 0 /\ leaked = FALSE /\ lock = "absent"
        /\ spc = "off" /\ sop = "none" /\ src = "ok" /\ dpc = "boot" /\ dlook = 0
    BY DEF Init
  <2>. QED BY <2>1, <2>2, <2>3, <2>4, <2>5 DEF TypeOK
<1>2. TypeOK /\ [Next]_vars => TypeOK'
  <2> SUFFICES ASSUME TypeOK, [Next]_vars PROVE TypeOK'
    OBVIOUS
  <2>. USE DEF TypeOK, time, storage, service, daemon, bounds
  <2>0. /\ faults' = faults => faults' \subseteq {"memory", "open", "truncate", "write", "close", "unlink", "read"}
        /\ \A kind \in {"memory", "open", "truncate", "write", "close", "unlink", "read"} :
             Fault(kind) => faults' \subseteq {"memory", "open", "truncate", "write", "close", "unlink", "read"}
    BY DEF Fault
  <2>1. CASE SStart
    BY <2>1 DEF SStart
  <2>2. CASE AcceptSelf
    BY <2>2, EmptySeq, WaitsAssumption, BoundsAssumption DEF AcceptSelf
  <2>3. CASE STake
    BY <2>3 DEF STake
  <2>4. CASE STakeTimeout
    BY <2>4 DEF STakeTimeout
  <2>5. CASE SOpen
    BY <2>5, FileType DEF SOpen, File
  <2>6. CASE SOpenFails
    BY <2>0, <2>6 DEF SOpenFails
  <2>7. CASE STruncate
    <3>1. file' \in File /\ faults' \subseteq {"memory", "open", "truncate", "write", "close", "unlink", "read"}
      BY <2>0, <2>7, FileType, EmptySeq DEF STruncate
    <3>. QED BY <2>7, <3>1 DEF STruncate
  <2>8. CASE SWrite
    <3>1. Head(scmds) \in Cmd /\ Tail(scmds) \in Seq(Cmd)
      BY <2>8, HeadTailProperties DEF SWrite
    <3>2. Holding(WriteAt(file.cmds, soff, Head(scmds))) \in File
      BY <3>1, WriteAtType, FileType DEF File
    <3>3. file' \in File /\ soff' \in Nat \ {0} /\ scmds' \in Seq(Cmd)
      BY <2>8, <3>1, <3>2 DEF SWrite
    <3>. QED BY <2>0, <2>8, <3>3 DEF SWrite
  <2>9. CASE SClose
    <3>1. /\ disk' \in File /\ leaked' \in BOOLEAN
          /\ faults' \subseteq {"memory", "open", "truncate", "write", "close", "unlink", "read"}
      BY <2>0, <2>9 DEF SClose, CloseFile
    <3>. QED BY <2>9, <3>1 DEF SClose
  <2>10. CASE SUnlink
    BY <2>0, <2>10, FileType DEF SUnlink
  <2>11. CASE SRead
    <3>1. disk' \in File /\ leaked' \in BOOLEAN
      BY <2>11 DEF SRead, CloseFile
    <3>2. faults' \subseteq {"memory", "open", "truncate", "write", "close", "unlink", "read"}
      BY <2>0, <2>11 DEF SRead, CloseFile
    <3>3. spc' = "give" /\ src' \in {"ok", "nomem", "io", "lock"}
      BY <2>11 DEF SRead
    <3>4. UNCHANGED <<time, file, lock, queue, inbox, sop, scmds, soff, daemon, reqs, resets>>
      BY <2>11 DEF SRead
    <3>. QED BY <3>1, <3>2, <3>3, <3>4
  <2>12. CASE SGive
    BY <2>12 DEF SGive
  <2>13. CASE SNotify
    BY <2>13, BoundsAssumption DEF SNotify, Notified
  <2>14. CASE SReply
    BY <2>14, EmptySeq DEF SReply
  <2>15. CASE AcceptSet
    <3>1. scmds' \in Seq(Cmd)
      BY <2>15, ParsedType, SortedOrdersType DEF AcceptSet
    <3>. QED BY <2>15, <3>1, WaitsAssumption DEF AcceptSet, GroundRequest
  <2>16. CASE AcceptSetNoMemory
    BY <2>0, <2>16 DEF AcceptSetNoMemory, GroundRequest
  <2>17. CASE AcceptSetOverrun
    BY <2>17, ResetType DEF AcceptSetOverrun
  <2>18. ASSUME NEW op \in {"delete", "get"}, AcceptOther(op) PROVE TypeOK'
    BY <2>18, EmptySeq, WaitsAssumption DEF AcceptOther, GroundRequest
  <2>19. CASE DBoot
    BY <2>19 DEF DBoot
  <2>20. CASE DReceive
    BY <2>20, WaitsAssumption, BoundsAssumption DEF DReceive
  <2>21. CASE DTake
    BY <2>21 DEF DTake
  <2>22. CASE DTakeTimeout
    BY <2>22 DEF DTakeTimeout
  <2>23. CASE DOpenFails
    BY <2>0, <2>23 DEF DOpenFails
  <2>24. CASE DNothing
    BY <2>0, <2>24 DEF DNothing
  <2>25. CASE DTooEarly
    <3>1. Head(file.cmds) \in Cmd
      BY <2>25, HeadTailProperties DEF DTooEarly, File
    <3>. QED BY <2>25, <3>1, WaitsType DEF DTooEarly
  <2>26. CASE DLook
    <3>1. Head(file.cmds) \in Cmd
      BY <2>26, HeadTailProperties DEF DLook, File
    <3>. QED BY <2>26, <3>1 DEF DLook
  <2>38. CASE DPrepare
    BY <2>38, WaitsType DEF DPrepare
  <2>27. CASE DSend
    BY <2>27, WaitsAssumption, BoundsAssumption DEF DSend
  <2>28. CASE DSendFails
    BY <2>28 DEF DSendFails
  <2>29. CASE DReply
    BY <2>29 DEF DReply
  <2>30. CASE DUpdate
    <3>3. dcmds' \in Seq(Cmd)
      BY <2>30, UpdateSorts
    <3>4. CoarseWait(dcmds') \in Nat
      BY <3>3, HeadTailProperties, WaitsType, WaitsAssumption DEF CoarseWait
    <3>5. file' \in File
      BY <2>30, FileType, EmptySeq DEF DUpdate
    <3>6. faults' = faults \/ faults' = faults \cup {"read"} \/ faults' = faults \cup {"truncate"}
      BY <2>30 DEF DUpdate, Fault
    <3>7. /\ dtimeout' \in Nat /\ doff' = 1 /\ dpc' = "rewrite"
          /\ UNCHANGED <<time, disk, leaked, lock, queue, inbox, service, dlook, dcmd, reqs, resets>>
      BY <2>30, <3>4 DEF DUpdate
    <3>8. /\ doff' \in Nat \ {0} /\ dcmd' \in Cmd /\ disk' \in File /\ soff' \in Nat \ {0} /\ scmds' \in Seq(Cmd)
      BY <3>7
    <3>9. faults' \subseteq {"memory", "open", "truncate", "write", "close", "unlink", "read"}
      BY <3>6
    <3>. QED BY <3>3, <3>5, <3>7, <3>8, <3>9
  <2>31. CASE DRewrite
    <3>1. Head(dcmds) \in Cmd /\ Tail(dcmds) \in Seq(Cmd)
      BY <2>31, HeadTailProperties DEF DRewrite
    <3>2. Holding(WriteAt(file.cmds, doff, Head(dcmds))) \in File
      BY <3>1, WriteAtType, FileType DEF File
    <3>3. file' \in File /\ doff' \in Nat \ {0} /\ dcmds' \in Seq(Cmd)
      BY <2>31, <3>1, <3>2 DEF DRewrite
    <3>4. faults' = faults \/ faults' = faults \cup {"write"}
      BY <2>31 DEF DRewrite, Fault
    <3>5. UNCHANGED <<time, disk, leaked, lock, queue, inbox, service, dpc, dlook, dcmd, dtimeout, reqs, resets>>
      BY <2>31 DEF DRewrite
    <3>6. faults' \subseteq {"memory", "open", "truncate", "write", "close", "unlink", "read"}
      BY <3>4
    <3>7. /\ dcmd' \in Cmd /\ disk' \in File /\ soff' \in Nat \ {0} /\ scmds' \in Seq(Cmd)
          /\ dtimeout' \in Nat
      BY <3>5
    <3>. QED BY <3>3, <3>5, <3>6, <3>7
  <2>32. CASE DClose
    <3>1. /\ disk' \in File /\ leaked' \in BOOLEAN
          /\ faults' \subseteq {"memory", "open", "truncate", "write", "close", "unlink", "read"}
      BY <2>0, <2>32 DEF DClose, CloseFile
    <3>. QED BY <2>32, <3>1 DEF DClose
  <2>33. CASE DGive
    BY <2>33, ZeroCmdType, EmptySeq DEF DGive
  <2>34. CASE Transact
    BY <2>34 DEF Transact
  <2>35. CASE Reset
    BY <2>35, ResetType DEF Reset
  <2>36. CASE Tick
    BY <2>36 DEF Tick, Less
  <2>37. CASE UNCHANGED vars
    BY <2>37 DEF vars
  <2>. QED
    BY <2>1, <2>2, <2>3, <2>4, <2>5, <2>6, <2>7, <2>8, <2>9, <2>10, <2>11, <2>12, <2>13, <2>14,
       <2>15, <2>16, <2>17, <2>18, <2>19, <2>20, <2>21, <2>22, <2>23, <2>24, <2>25, <2>26,
       <2>27, <2>28, <2>29, <2>30, <2>31, <2>32, <2>33, <2>34, <2>35, <2>36, <2>37, <2>38
    DEF Next, Service, Ground, Daemon, DaemonProgress
<1>. QED BY <1>1, <1>2, PTL DEF Spec

(***************************************************************************)
(* Mutual exclusion.  The property alone is not inductive: LockInv says    *)
(* who holds the mutex in each state of the two tasks, and that the daemon *)
(* is still in its initial delay while the mutex does not exist, which is  *)
(* what a service started in time buys.                                    *)
(***************************************************************************)

LockInv ==
  /\ lock = "absent" <=> spc = "off"
  /\ spc = "off" => dpc = "boot"
  /\ lock = "svc" <=> ServiceInside
  /\ lock = "dmn" <=> DaemonInside
  /\ dpc # "assert"

LEMMA LockInvariant == StartupInTime => (Spec => []LockInv)
<1> SUFFICES ASSUME StartupInTime PROVE Spec => []LockInv
  OBVIOUS
<1>1. Init => LockInv
  BY DEF Init, LockInv, ServiceInside, DaemonInside
<1>2. TypeOK /\ LockInv /\ [Next]_vars => LockInv'
  <2> SUFFICES ASSUME TypeOK, LockInv, [Next]_vars PROVE LockInv'
    OBVIOUS
  <2>. USE DEF LockInv, ServiceInside, DaemonInside, time, storage, service, daemon, bounds
  <2>1. CASE SStart
    BY <2>1 DEF SStart
  <2>2. CASE AcceptSelf
    BY <2>2 DEF AcceptSelf
  <2>3. CASE STake
    BY <2>3 DEF STake, TypeOK, Available
  <2>4. CASE STakeTimeout
    BY <2>4 DEF STakeTimeout, Available
  <2>5. CASE SOpen
    BY <2>5 DEF SOpen
  <2>6. CASE SOpenFails
    BY <2>6 DEF SOpenFails
  <2>7. CASE STruncate
    BY <2>7 DEF STruncate
  <2>8. CASE SWrite
    BY <2>8 DEF SWrite
  <2>9. CASE SClose
    BY <2>9 DEF SClose
  <2>10. CASE SUnlink
    BY <2>10 DEF SUnlink
  <2>11. CASE SRead
    BY <2>11 DEF SRead
  <2>12. CASE SGive
    BY <2>12 DEF SGive
  <2>13. CASE SNotify
    BY <2>13 DEF SNotify
  <2>14. CASE SReply
    BY <2>14 DEF SReply
  <2>15. CASE AcceptSet
    BY <2>15 DEF AcceptSet, GroundRequest
  <2>16. CASE AcceptSetNoMemory
    BY <2>16 DEF AcceptSetNoMemory, GroundRequest
  <2>17. CASE AcceptSetOverrun
    BY <2>17 DEF AcceptSetOverrun, ResetTo
  <2>18. ASSUME NEW op \in {"delete", "get"}, AcceptOther(op) PROVE LockInv'
    BY <2>18 DEF AcceptOther, GroundRequest
  <2>19. CASE DBoot
    BY <2>19 DEF DBoot
  <2>20. CASE DReceive
    BY <2>20 DEF DReceive
  <2>21. CASE DTake
    BY <2>21 DEF DTake, Available
  <2>22. CASE DTakeTimeout
    BY <2>22 DEF DTakeTimeout
  <2>23. CASE DOpenFails
    BY <2>23 DEF DOpenFails
  <2>24. CASE DNothing
    BY <2>24 DEF DNothing
  <2>25. CASE DTooEarly
    BY <2>25 DEF DTooEarly
  <2>26. CASE DLook
    BY <2>26 DEF DLook
  <2>38. CASE DPrepare
    BY <2>38 DEF DPrepare
  <2>27. CASE DSend
    BY <2>27 DEF DSend
  <2>28. CASE DSendFails
    BY <2>28 DEF DSendFails
  <2>29. CASE DReply
    BY <2>29 DEF DReply
  <2>30. CASE DUpdate
    BY <2>30 DEF DUpdate
  <2>31. CASE DRewrite
    BY <2>31 DEF DRewrite
  <2>32. CASE DClose
    BY <2>32 DEF DClose
  <2>33. CASE DGive
    BY <2>33 DEF DGive
  <2>34. CASE Transact
    BY <2>34 DEF Transact
  <2>35. CASE Reset
    BY <2>35 DEF Reset, ResetTo
  <2>36. CASE Tick
    BY <2>36 DEF Tick
  <2>37. CASE UNCHANGED vars
    BY <2>37 DEF vars
  <2>. QED
    BY <2>1, <2>2, <2>3, <2>4, <2>5, <2>6, <2>7, <2>8, <2>9, <2>10, <2>11, <2>12, <2>13, <2>14,
       <2>15, <2>16, <2>17, <2>18, <2>19, <2>20, <2>21, <2>22, <2>23, <2>24, <2>25, <2>26,
       <2>27, <2>28, <2>29, <2>30, <2>31, <2>32, <2>33, <2>34, <2>35, <2>36, <2>37, <2>38
    DEF Next, Service, Ground, Daemon, DaemonProgress
<1>. QED BY <1>1, <1>2, TypeCorrect, PTL DEF Spec

\* If the service starts within the daemon's initial delay, the two tasks are
\* never both at the file, and the daemon never gives a mutex it did not take.
THEOREM MutualExclusion == StartupInTime => (Spec => []LockExclusion)
<1>1. LockInv => LockExclusion
  BY DEF LockInv, LockExclusion
<1>. QED BY <1>1, LockInvariant, PTL

(***************************************************************************)
(* What mutual exclusion is for: the command the daemon prepares, sends    *)
(* and retires stays the first of the file from its reading to its         *)
(* retirement.                                                             *)
(***************************************************************************)

THEOREM DispatchedFromSchedule == StartupInTime => (Spec => []CommandStillScheduled)
<1> SUFFICES ASSUME StartupInTime PROVE Spec => []CommandStillScheduled
  OBVIOUS
<1>1. Init => CommandStillScheduled
  BY DEF Init, CommandStillScheduled
<1>2. LockInv /\ CommandStillScheduled /\ [Next]_vars => CommandStillScheduled'
  <2> SUFFICES ASSUME LockInv, CommandStillScheduled, [Next]_vars
               PROVE  CommandStillScheduled'
    OBVIOUS
  <2>. USE DEF CommandStillScheduled, time, storage, service, daemon, bounds
  <2>1. CASE SStart
    BY <2>1 DEF SStart
  <2>2. CASE AcceptSelf
    BY <2>2 DEF AcceptSelf
  <2>3. CASE STake
    BY <2>3 DEF STake
  <2>4. CASE STakeTimeout
    BY <2>4 DEF STakeTimeout
  <2>5. CASE SOpen
    BY <2>5 DEF SOpen, LockInv, ServiceInside, DaemonInside
  <2>6. CASE SOpenFails
    BY <2>6 DEF SOpenFails
  <2>7. CASE STruncate
    BY <2>7 DEF STruncate, LockInv, ServiceInside, DaemonInside
  <2>8. CASE SWrite
    BY <2>8 DEF SWrite, LockInv, ServiceInside, DaemonInside
  <2>9. CASE SClose
    BY <2>9 DEF SClose
  <2>10. CASE SUnlink
    BY <2>10 DEF SUnlink, LockInv, ServiceInside, DaemonInside
  <2>11. CASE SRead
    BY <2>11 DEF SRead
  <2>12. CASE SGive
    BY <2>12 DEF SGive
  <2>13. CASE SNotify
    BY <2>13 DEF SNotify
  <2>14. CASE SReply
    BY <2>14 DEF SReply
  <2>15. CASE AcceptSet
    BY <2>15 DEF AcceptSet, GroundRequest
  <2>16. CASE AcceptSetNoMemory
    BY <2>16 DEF AcceptSetNoMemory, GroundRequest
  <2>17. CASE AcceptSetOverrun
    BY <2>17 DEF AcceptSetOverrun, ResetTo
  <2>18. ASSUME NEW op \in {"delete", "get"}, AcceptOther(op) PROVE CommandStillScheduled'
    BY <2>18 DEF AcceptOther, GroundRequest
  <2>19. CASE DBoot
    BY <2>19 DEF DBoot
  <2>20. CASE DReceive
    BY <2>20 DEF DReceive
  <2>21. CASE DTake
    BY <2>21 DEF DTake
  <2>22. CASE DTakeTimeout
    BY <2>22 DEF DTakeTimeout
  <2>23. CASE DOpenFails
    BY <2>23 DEF DOpenFails
  <2>24. CASE DNothing
    BY <2>24 DEF DNothing
  <2>25. CASE DTooEarly
    BY <2>25 DEF DTooEarly
  <2>26. CASE DLook
    BY <2>26 DEF DLook
  <2>38. CASE DPrepare
    BY <2>38 DEF DPrepare
  <2>27. CASE DSend
    BY <2>27 DEF DSend
  <2>28. CASE DSendFails
    BY <2>28 DEF DSendFails
  <2>29. CASE DReply
    BY <2>29 DEF DReply
  <2>30. CASE DUpdate
    BY <2>30 DEF DUpdate
  <2>31. CASE DRewrite
    BY <2>31 DEF DRewrite
  <2>32. CASE DClose
    BY <2>32 DEF DClose
  <2>33. CASE DGive
    BY <2>33 DEF DGive
  <2>34. CASE Transact
    BY <2>34 DEF Transact
  <2>35. CASE Reset
    BY <2>35 DEF Reset, ResetTo
  <2>36. CASE Tick
    BY <2>36 DEF Tick
  <2>37. CASE UNCHANGED vars
    BY <2>37 DEF vars
  <2>. QED
    BY <2>1, <2>2, <2>3, <2>4, <2>5, <2>6, <2>7, <2>8, <2>9, <2>10, <2>11, <2>12, <2>13, <2>14,
       <2>15, <2>16, <2>17, <2>18, <2>19, <2>20, <2>21, <2>22, <2>23, <2>24, <2>25, <2>26,
       <2>27, <2>28, <2>29, <2>30, <2>31, <2>32, <2>33, <2>34, <2>35, <2>36, <2>37, <2>38
    DEF Next, Service, Ground, Daemon, DaemonProgress
<1>. QED BY <1>1, <1>2, LockInvariant, PTL DEF Spec

(***************************************************************************)
(* Durability.  The file differs from what a reset finds only while one    *)
(* task rewrites it: every change of the file is followed by a transaction *)
(* point before the mutex is given.                                        *)
(***************************************************************************)

CommitInv ==
  "close" \notin faults /\ spc # "write" /\ dpc # "rewrite" => disk = file

LEMMA CommitInvariant == Spec => []CommitInv
<1>1. Init => CommitInv
  BY DEF Init, CommitInv
<1>2. TypeOK /\ CommitInv /\ [Next]_vars => CommitInv'
  <2> SUFFICES ASSUME TypeOK, CommitInv, [Next]_vars PROVE CommitInv'
    OBVIOUS
  <2>. USE DEF CommitInv, time, storage, service, daemon, bounds
  <2>1. CASE SStart
    BY <2>1 DEF SStart
  <2>2. CASE AcceptSelf
    BY <2>2 DEF AcceptSelf
  <2>3. CASE STake
    BY <2>3 DEF STake
  <2>4. CASE STakeTimeout
    BY <2>4 DEF STakeTimeout
  <2>5. CASE SOpen
    <3>1. file.exists => Holding(file.cmds) = file
      BY DEF TypeOK, File, Holding
    <3>. QED BY <2>5, <3>1 DEF SOpen
  <2>6. CASE SOpenFails
    BY <2>6 DEF SOpenFails, Fault
  <2>7. CASE STruncate
    BY <2>7 DEF STruncate, Fault
  <2>8. CASE SWrite
    BY <2>8 DEF SWrite, Fault
  <2>9. CASE SClose
    BY <2>9 DEF SClose, CloseFile, Fault
  <2>10. CASE SUnlink
    BY <2>10 DEF SUnlink, Fault
  <2>11. CASE SRead
    BY <2>11 DEF SRead, CloseFile, Fault
  <2>12. CASE SGive
    BY <2>12 DEF SGive
  <2>13. CASE SNotify
    BY <2>13 DEF SNotify
  <2>14. CASE SReply
    BY <2>14 DEF SReply
  <2>15. CASE AcceptSet
    BY <2>15 DEF AcceptSet, GroundRequest
  <2>16. CASE AcceptSetNoMemory
    BY <2>16 DEF AcceptSetNoMemory, GroundRequest, Fault
  <2>17. CASE AcceptSetOverrun
    BY <2>17 DEF AcceptSetOverrun, ResetTo
  <2>18. ASSUME NEW op \in {"delete", "get"}, AcceptOther(op) PROVE CommitInv'
    BY <2>18 DEF AcceptOther, GroundRequest
  <2>19. CASE DBoot
    BY <2>19 DEF DBoot
  <2>20. CASE DReceive
    BY <2>20 DEF DReceive
  <2>21. CASE DTake
    BY <2>21 DEF DTake
  <2>22. CASE DTakeTimeout
    BY <2>22 DEF DTakeTimeout
  <2>23. CASE DOpenFails
    BY <2>23 DEF DOpenFails, Fault
  <2>24. CASE DNothing
    BY <2>24 DEF DNothing, Fault
  <2>25. CASE DTooEarly
    BY <2>25 DEF DTooEarly
  <2>26. CASE DLook
    BY <2>26 DEF DLook
  <2>38. CASE DPrepare
    BY <2>38 DEF DPrepare
  <2>27. CASE DSend
    BY <2>27 DEF DSend
  <2>28. CASE DSendFails
    BY <2>28 DEF DSendFails
  <2>29. CASE DReply
    BY <2>29 DEF DReply
  <2>30. CASE DUpdate
    BY <2>30 DEF DUpdate, Fault
  <2>31. CASE DRewrite
    BY <2>31 DEF DRewrite, Fault
  <2>32. CASE DClose
    BY <2>32 DEF DClose, CloseFile, Fault
  <2>33. CASE DGive
    BY <2>33 DEF DGive
  <2>34. CASE Transact
    BY <2>34 DEF Transact
  <2>35. CASE Reset
    BY <2>35 DEF Reset, ResetTo
  <2>36. CASE Tick
    BY <2>36 DEF Tick
  <2>37. CASE UNCHANGED vars
    BY <2>37 DEF vars
  <2>. QED
    BY <2>1, <2>2, <2>3, <2>4, <2>5, <2>6, <2>7, <2>8, <2>9, <2>10, <2>11, <2>12, <2>13, <2>14,
       <2>15, <2>16, <2>17, <2>18, <2>19, <2>20, <2>21, <2>22, <2>23, <2>24, <2>25, <2>26,
       <2>27, <2>28, <2>29, <2>30, <2>31, <2>32, <2>33, <2>34, <2>35, <2>36, <2>37, <2>38
    DEF Next, Service, Ground, Daemon, DaemonProgress
<1>. QED BY <1>1, <1>2, TypeCorrect, PTL DEF Spec

\* Whatever the tasks do, an unlocked schedule is on the disk as in memory,
\* unless red_close failed.
THEOREM DurableWhenUnlocked == Spec => []CommittedWhenUnlocked
<1>1. CommitInv => CommittedWhenUnlocked
  BY DEF CommitInv, CommittedWhenUnlocked, ServiceInside, DaemonInside
<1>. QED BY <1>1, CommitInvariant, PTL

(***************************************************************************)
(* No command is sent a whole second early.  The two clocks agree on the   *)
(* instant, so what is subtracted twice is what has passed of the second   *)
(* since the clock was read: less than a second, and nothing if the steps  *)
(* take no time.                                                           *)
(***************************************************************************)

Slack == IF Prompt THEN 0 ELSE Sec - 1

WaitCovers ==
  /\ now <= Horizon /\ dlook <= now
  /\ dpc = "prepare" => ~TooEarly(dcmd, dlook) /\ (Prompt => dlook = now)
  /\ dpc = "fine" =>
       \/ now + dwait + Slack >= dcmd.next * Sec
       \/ Far(dcmd, dlook) \/ now = Horizon

\* The delay reaches to the second the command is due but for what has passed
\* of a second while it was prepared.
LEMMA FineDelayReaches ==
  ASSUME TypeOK, WaitCovers, NEW c \in Cmd, ~TooEarly(c, dlook), ~Far(c, dlook),
         Prompt => dlook = now
  PROVE  now + FineDelay(c) + Slack >= c.next * Sec
<1>1. /\ now \in Nat /\ dlook \in Nat /\ dlook <= now /\ c.next \in Nat /\ c.msecs \in Nat
      /\ Sec \in Nat \ {0} /\ Coarse \in Nat \ {0} /\ TickWrap \in Nat \ {0} /\ MsecWrap \in Nat \ {0}
  BY CmdParts, WaitsAssumption, BoundsAssumption DEF TypeOK, WaitCovers
<1>2. /\ Unix(dlook) \in Nat /\ Ms(dlook) \in 0 .. Sec - 1 /\ Ms(now) \in 0 .. Sec - 1
      /\ Unix(dlook) * Sec + Ms(dlook) = dlook /\ Unix(dlook) * Sec \in Nat
  BY <1>1, InstantParts
<1>3. Slack \in Nat /\ (Prompt => Ms(dlook) = Ms(now)) /\ (~Prompt => Slack = Sec - 1)
  BY <1>1 DEF Slack
<1>4. FineDelay(c) \in Nat
  BY <1>1, FineDelayType
<1>5. CASE Missed(c, dlook)
  <2>1. c.next <= Unix(dlook)
    BY <1>5 DEF Missed
  <2>2. c.next * Sec <= Unix(dlook) * Sec
    BY <1>1, <1>2, <2>1
  <2>3. c.next * Sec \in Nat
    BY <1>1
  <2>. QED BY <1>1, <1>2, <1>3, <1>4, <2>2, <2>3
<1>6. CASE ~Missed(c, dlook)
  <2>. DEFINE d == c.next - Unix(dlook)
              n == d * Sec + c.msecs
              delay == IF n > Ms(now) THEN Ticks(n - Ms(now)) ELSE 0
              spent == now - dlook
  <2>1. d \in Nat \ {0} /\ Wait(c, dlook) = d
    BY <1>1, <1>6, WaitParts
  <2>2. d <= Coarse
    BY <1>1, <1>6, <2>1 DEF TooEarly
  <2>3. d * Sec <= Coarse * Sec /\ d * Sec >= Sec /\ d * Sec \in Nat /\ Coarse * Sec \in Nat
    <3>. HIDE DEF d
    <3>. QED BY <1>1, <2>1, <2>2
  <2>4. Coarse * Sec + c.msecs < TickWrap /\ MsecWrap >= 2 * (TickWrap + Sec)
    BY CmdParts, WidthsAssumption
  <2>5. c.next * Sec = Unix(dlook) * Sec + d * Sec
    BY <1>1, <1>2
  <2>6. Missed(c, dlook) = FALSE
    BY <1>6
  <2>7. n \in Nat /\ n < TickWrap /\ 2 * n < MsecWrap /\ n >= Sec /\ n >= d * Sec
    <3>1. \A e \in Nat, f \in Nat : e <= f /\ f + c.msecs < TickWrap => e + c.msecs < TickWrap
      BY <1>1
    <3>. HIDE DEF d
    <3>. QED BY <1>1, <2>3, <2>4, <3>1
  <2>8. Signed(n, MsecWrap) = n
    <3>. HIDE DEF n
    <3>. QED BY <1>1, <2>7, SignedParts
  <2>9. FineDelay(c) = IF delay <= spent THEN 0 ELSE delay - spent
    BY <2>1, <2>6, <2>8 DEF FineDelay
  <2>. HIDE DEF n, d
  <2>10. n > Ms(now) /\ n - Ms(now) \in Nat /\ n - Ms(now) > 0 /\ n - Ms(now) < TickWrap
    BY <1>1, <1>2, <2>7
  <2>11. Ticks(n - Ms(now)) = n - Ms(now)
    BY <2>10, TicksParts
  <2>12. delay = n - Ms(now)
    BY <2>10, <2>11
  <2>. HIDE DEF delay
  <2>13. now + FineDelay(c) >= dlook + n - Ms(now)
    BY <1>1, <1>2, <2>7, <2>9, <2>12
  <2>14. dlook + n - Ms(now) >= c.next * Sec + Ms(dlook) - Ms(now)
    BY <1>1, <1>2, <2>3, <2>5, <2>7
  <2>15. Ms(dlook) - Ms(now) + Slack >= 0
    BY <1>1, <1>2, <1>3
  <2>16. c.next * Sec \in Nat
    BY <1>1
  <2>. QED BY <1>1, <1>2, <1>3, <1>4, <2>7, <2>13, <2>14, <2>15, <2>16
<1>. QED BY <1>5, <1>6

LEMMA WaitCoversInvariant == Spec => []WaitCovers
<1>1. Init => WaitCovers
  BY BoundsAssumption DEF Init, WaitCovers
<1>2. TypeOK /\ WaitCovers /\ [Next]_vars => WaitCovers'
  <2> SUFFICES ASSUME TypeOK, WaitCovers, [Next]_vars PROVE WaitCovers'
    OBVIOUS
  <2>0. now \in Nat
    BY DEF TypeOK
  <2>. USE DEF WaitCovers, Slack, time, storage, service, daemon, bounds
  <2>1. CASE SStart
    BY <2>1 DEF SStart
  <2>2. CASE AcceptSelf
    BY <2>2 DEF AcceptSelf
  <2>3. CASE STake
    BY <2>3 DEF STake
  <2>4. CASE STakeTimeout
    BY <2>4 DEF STakeTimeout
  <2>5. CASE SOpen
    BY <2>5 DEF SOpen
  <2>6. CASE SOpenFails
    BY <2>6 DEF SOpenFails
  <2>7. CASE STruncate
    BY <2>7 DEF STruncate
  <2>8. CASE SWrite
    BY <2>8 DEF SWrite
  <2>9. CASE SClose
    BY <2>9 DEF SClose
  <2>10. CASE SUnlink
    BY <2>10 DEF SUnlink
  <2>11. CASE SRead
    BY <2>11 DEF SRead
  <2>12. CASE SGive
    BY <2>12 DEF SGive
  <2>13. CASE SNotify
    BY <2>13 DEF SNotify
  <2>14. CASE SReply
    BY <2>14 DEF SReply
  <2>15. CASE AcceptSet
    BY <2>15 DEF AcceptSet, GroundRequest
  <2>16. CASE AcceptSetNoMemory
    BY <2>16 DEF AcceptSetNoMemory, GroundRequest
  <2>17. CASE AcceptSetOverrun
    BY <2>0, <2>17 DEF AcceptSetOverrun, ResetTo
  <2>18. ASSUME NEW op \in {"delete", "get"}, AcceptOther(op) PROVE WaitCovers'
    BY <2>18 DEF AcceptOther, GroundRequest
  <2>19. CASE DBoot
    BY <2>19 DEF DBoot
  <2>20. CASE DReceive
    BY <2>20 DEF DReceive
  <2>21. CASE DTake
    BY <2>21 DEF DTake
  <2>22. CASE DTakeTimeout
    BY <2>22 DEF DTakeTimeout
  <2>23. CASE DOpenFails
    BY <2>23 DEF DOpenFails
  <2>24. CASE DNothing
    BY <2>24 DEF DNothing
  <2>25. CASE DTooEarly
    BY <2>25 DEF DTooEarly
  <2>26. CASE DLook
    <3>1. dlook' = now /\ now' = now /\ now \in Nat /\ ~TooEarly(dcmd', now) /\ dpc' = "prepare"
      BY <2>26 DEF DLook, TypeOK
    <3>. QED BY <3>1 DEF TooEarly, Missed, Wait, Unix
  <2>38. CASE DPrepare
    <3>1. /\ UNCHANGED <<now, dlook, dcmd>> /\ dpc = "prepare" /\ dpc' = "fine"
          /\ dwait' = FineDelay(dcmd) /\ dcmd \in Cmd
      BY <2>38 DEF DPrepare, TypeOK
    <3>2. Far(dcmd, dlook) \/ now + FineDelay(dcmd) + Slack >= dcmd.next * Sec
      BY <3>1, FineDelayReaches
    <3>3. Slack' = Slack /\ Far(dcmd, dlook)' = Far(dcmd, dlook)
      BY <3>1 DEF Slack, Far, Unix
    <3>. QED BY <3>1, <3>2, <3>3
  <2>27. CASE DSend
    BY <2>0, <2>27 DEF DSend
  <2>28. CASE DSendFails
    BY <2>0, <2>28 DEF DSendFails
  <2>29. CASE DReply
    BY <2>29 DEF DReply
  <2>30. CASE DUpdate
    BY <2>30 DEF DUpdate
  <2>31. CASE DRewrite
    BY <2>31 DEF DRewrite
  <2>32. CASE DClose
    BY <2>32 DEF DClose
  <2>33. CASE DGive
    BY <2>33 DEF DGive
  <2>34. CASE Transact
    BY <2>34 DEF Transact
  <2>35. CASE Reset
    BY <2>0, <2>35 DEF Reset, ResetTo
  <2>36. CASE Tick
    <3>1. /\ now \in Nat /\ dlook \in Nat /\ dwait \in Nat /\ Horizon \in Nat /\ Sec \in Nat \ {0}
          /\ dcmd.next \in Nat
      BY BoundsAssumption, WaitsAssumption, CmdParts DEF TypeOK
    <3>2. UNCHANGED <<dpc, dcmd, dlook>> /\ dwait' = IF dwait > 0 THEN dwait - 1 ELSE 0
      BY <2>36 DEF Tick, Less
    <3>3. now' = (IF now < Horizon THEN now + 1 ELSE now) /\ now' <= Horizon /\ dlook' <= now'
      BY <2>36, <3>1, <3>2 DEF Tick
    <3>4. Prompt => dpc # "prepare"
      BY <2>36 DEF Tick, DaemonWaits
    <3>5. TooEarly(dcmd, dlook)' = TooEarly(dcmd, dlook) /\ Far(dcmd, dlook)' = Far(dcmd, dlook)
      BY <3>2 DEF TooEarly, Missed, Wait, Far, Unix
    <3>6. dcmd.next * Sec \in Nat /\ Slack \in Nat /\ Slack' = Slack
      BY <3>1
    <3>7. now + dwait + Slack >= dcmd.next * Sec
            => now' + dwait' + Slack >= dcmd.next * Sec \/ now' = Horizon
      <4>. DEFINE due == dcmd.next * Sec
                  slack == Slack
      <4>1. due \in Nat /\ slack \in Nat
        BY <3>6
      <4>. HIDE DEF due, slack
      <4>2. now + dwait + slack >= due => now' + dwait' + slack >= due \/ now' = Horizon
        BY <3>1, <3>2, <3>3, <4>1
      <4>. QED BY <4>2 DEF due, slack
    <3>. QED BY <3>1, <3>2, <3>3, <3>4, <3>5, <3>6, <3>7
  <2>37. CASE UNCHANGED vars
    BY <2>37 DEF vars
  <2>. QED
    BY <2>1, <2>2, <2>3, <2>4, <2>5, <2>6, <2>7, <2>8, <2>9, <2>10, <2>11, <2>12, <2>13, <2>14,
       <2>15, <2>16, <2>17, <2>18, <2>19, <2>20, <2>21, <2>22, <2>23, <2>24, <2>25, <2>26,
       <2>27, <2>28, <2>29, <2>30, <2>31, <2>32, <2>33, <2>34, <2>35, <2>36, <2>37, <2>38
    DEF Next, Service, Ground, Daemon, DaemonProgress
<1>. QED BY <1>1, <1>2, TypeCorrect, PTL DEF Spec

\* Whatever the uninitialised milliseconds and the speed of the tasks, no
\* command leaves a whole second before it is due, unless it is so far ahead
\* that the wait is negative (scheduler_task.c:81-127); if only waits take
\* time, none leaves early at all.
THEOREM NeverSentEarly == Spec => NeverEarly
<1>1. TypeOK /\ WaitCovers /\ [Next]_vars
        => (dpc = "fine" /\ dpc' \in {"await", "update"} =>
              \/ now + (IF Prompt THEN 0 ELSE Sec - 1) >= dcmd.next * Sec
              \/ Far(dcmd, dlook) \/ now = Horizon)
  <2> SUFFICES ASSUME TypeOK, WaitCovers, [Next]_vars, dpc = "fine", dpc' \in {"await", "update"}
               PROVE  \/ now + (IF Prompt THEN 0 ELSE Sec - 1) >= dcmd.next * Sec
                      \/ Far(dcmd, dlook) \/ now = Horizon
    OBVIOUS
  <2>1. now \in Nat
    BY DEF TypeOK
  <2>2. dwait = 0
    BY DEF Next, Service, Ground, Daemon, DaemonProgress, SStart, AcceptSelf, STake, STakeTimeout,
           SOpen, SOpenFails, STruncate, SWrite, SClose, SUnlink, SRead, SGive, SNotify, SReply,
           AcceptSet, AcceptSetNoMemory, AcceptSetOverrun, AcceptOther, GroundRequest, ResetTo,
           DBoot, DReceive, DTake, DTakeTimeout, DOpenFails, DNothing, DTooEarly, DLook, DPrepare,
           DSend, DSendFails, DReply, DUpdate, DRewrite, DClose, DGive, Transact, Reset, Tick,
           vars, daemon
  <2>3. now + dwait + Slack >= dcmd.next * Sec \/ Far(dcmd, dlook) \/ now = Horizon
    BY DEF WaitCovers
  <2>4. now + dwait = now
    BY <2>1, <2>2
  <2>. QED BY <2>3, <2>4 DEF Slack
<1>. QED BY <1>1, TypeCorrect, WaitCoversInvariant, PTL DEF Spec, NeverEarly

(***************************************************************************)
(* The daemon looks at the first record only, so its wake-ups and its      *)
(* dispatches follow the times of the commands only if the file is sorted. *)
(* Half-written files are too, because what is still to be written comes   *)
(* after what was written: Ordered, the strengthening.                     *)
(***************************************************************************)

Ordered(written, left) ==
  /\ IsSorted(written) /\ IsSorted(left)
  /\ \A i \in DOMAIN written, j \in DOMAIN left : written[i].next <= left[j].next

SortInv ==
  "truncate" \notin faults =>
    /\ SortedFile
    /\ spc \in {"take", "open", "truncate"} => IsSorted(scmds)
    /\ spc = "truncate" => soff = 1
    /\ spc = "write" => soff = Len(file.cmds) + 1 /\ Ordered(file.cmds, scmds)
    /\ dpc = "rewrite" => doff = Len(file.cmds) + 1 /\ Ordered(file.cmds, dcmds)

LEMMA EmptyIsSorted ==
  /\ IsSorted(<< >>) /\ Len(<< >>) = 0
  /\ \A s \in Seq(Cmd) : IsSorted(s) => Ordered(<< >>, s)
BY EmptySeq DEF IsSorted, Ordered

\* Writing the next record, or failing to, leaves the rest in order.
LEMMA OrderedStep ==
  ASSUME NEW w \in Seq(Cmd), NEW l \in Seq(Cmd), l # << >>, Ordered(w, l)
  PROVE  /\ Ordered(WriteAt(w, Len(w) + 1, Head(l)), Tail(l))
         /\ Len(WriteAt(w, Len(w) + 1, Head(l))) = Len(w) + 1
         /\ Ordered(w, Tail(l))
<1> DEFINE n == Len(w)
           v == WriteAt(w, n + 1, Head(l))
<1>1. /\ n \in Nat /\ DOMAIN w = 1 .. n /\ Len(l) \in Nat \ {0} /\ DOMAIN l = 1 .. Len(l)
      /\ \A i \in 1 .. n : w[i] \in Cmd
      /\ \A i \in 1 .. Len(l) : l[i] \in Cmd
  BY LenProperties, EmptySeq, ElementOfSeq
<1>2. /\ Head(l) = l[1] /\ Tail(l) \in Seq(Cmd) /\ Len(Tail(l)) = Len(l) - 1
      /\ \A i \in 1 .. Len(l) - 1 : Tail(l)[i] = l[i + 1]
  BY HeadTailProperties
<1>3. DOMAIN Tail(l) = 1 .. Len(l) - 1
  BY <1>2, LenProperties
<1>4. v = [i \in 1 .. n + 1 |-> IF i = n + 1 THEN l[1] ELSE w[i]]
  BY <1>1, <1>2 DEF WriteAt
<1>5. v \in [1 .. n + 1 -> Cmd]
  BY <1>1, <1>4
<1>6. Len(v) = n + 1
  BY <1>1, <1>5, FunctionIsSeq
<1>7. \A c \in Cmd : c.next \in Nat
  BY DEF Cmd
<1>8. IsSorted(Tail(l))
  BY <1>1, <1>2, <1>3 DEF Ordered, IsSorted
<1>9. IsSorted(v)
  <2> SUFFICES ASSUME NEW i \in 1 .. n + 1, NEW j \in 1 .. n + 1, i < j
               PROVE  v[i].next <= v[j].next
    BY <1>4 DEF IsSorted
  <2>1. i \in 1 .. n /\ v[i] = w[i]
    BY <1>1, <1>4
  <2>2. CASE j = n + 1
    <3>1. v[j] = l[1] /\ 1 \in DOMAIN l
      BY <1>1, <1>4, <2>2
    <3>. QED BY <2>1, <3>1, <1>1 DEF Ordered
  <2>3. CASE j \in 1 .. n
    <3>1. v[j] = w[j]
      BY <1>1, <1>4, <2>3
    <3>. QED BY <2>1, <2>3, <3>1, <1>1 DEF Ordered, IsSorted
  <2>. QED BY <1>1, <2>2, <2>3
<1>10. \A i \in DOMAIN w, j \in DOMAIN Tail(l) : w[i].next <= Tail(l)[j].next
  BY <1>1, <1>2, <1>3 DEF Ordered
<1>11. \A i \in DOMAIN v, j \in DOMAIN Tail(l) : v[i].next <= Tail(l)[j].next
  <2> SUFFICES ASSUME NEW i \in 1 .. n + 1, NEW j \in 1 .. Len(l) - 1
               PROVE  v[i].next <= Tail(l)[j].next
    BY <1>3, <1>4
  <2>1. CASE i = n + 1
    <3>1. v[i] = l[1] /\ Tail(l)[j] = l[j + 1] /\ 1 < j + 1 /\ j + 1 \in DOMAIN l /\ 1 \in DOMAIN l
      BY <1>1, <1>2, <1>4, <2>1
    <3>. QED BY <3>1 DEF Ordered, IsSorted
  <2>2. CASE i \in 1 .. n
    <3>1. v[i] = w[i] /\ i \in DOMAIN w /\ j \in DOMAIN Tail(l)
      BY <1>1, <1>3, <1>4, <2>2
    <3>. QED BY <1>10, <3>1
  <2>. QED BY <1>1, <2>1, <2>2
<1>. QED BY <1>6, <1>8, <1>9, <1>10, <1>11 DEF Ordered

LEMMA SortInvariant == StartupInTime => (Spec => []SortInv)
<1> SUFFICES ASSUME StartupInTime PROVE Spec => []SortInv
  OBVIOUS
<1>1. Init => SortInv
  BY EmptyIsSorted DEF Init, SortInv, SortedFile, NoFile
<1>2. TypeOK /\ LockInv /\ SortInv /\ [Next]_vars => SortInv'
  <2> SUFFICES ASSUME TypeOK, LockInv, SortInv, [Next]_vars PROVE SortInv'
    OBVIOUS
  <2>. USE DEF SortInv, SortedFile, time, storage, service, daemon, bounds
  <2>1. CASE SStart
    BY <2>1 DEF SStart
  <2>2. CASE AcceptSelf
    BY <2>2, EmptyIsSorted DEF AcceptSelf
  <2>3. CASE STake
    BY <2>3 DEF STake
  <2>4. CASE STakeTimeout
    BY <2>4 DEF STakeTimeout
  <2>5. CASE SOpen
    BY <2>5 DEF SOpen, LockInv, ServiceInside, DaemonInside, Holding
  <2>6. CASE SOpenFails
    BY <2>6 DEF SOpenFails, Fault
  <2>7. CASE STruncate
    <3>1. scmds \in Seq(Cmd)
      BY DEF TypeOK
    <3>. QED BY <2>7, <3>1, EmptyIsSorted DEF STruncate, Fault, Holding, LockInv, ServiceInside, DaemonInside
  <2>8. CASE SWrite
    <3>1. scmds \in Seq(Cmd) /\ file.cmds \in Seq(Cmd) /\ scmds # << >> /\ scmds' = Tail(scmds)
      BY <2>8 DEF SWrite, TypeOK, File
    <3>2. CASE "truncate" \in faults'
      BY <3>2
    <3>3. CASE "truncate" \notin faults'
      <4>1. "truncate" \notin faults /\ UNCHANGED <<disk, spc, dpc, dcmds, doff>>
        BY <2>8, <3>3 DEF SWrite, Fault
      <4>2. spc = "write" /\ dpc # "rewrite"
        BY <2>8 DEF SWrite, LockInv, ServiceInside, DaemonInside
      <4>3. /\ soff = Len(file.cmds) + 1 /\ Ordered(file.cmds, scmds)
            /\ IsSorted(file.cmds) /\ IsSorted(disk.cmds)
        BY <4>1, <4>2
      <4>4. \/ file'.cmds = WriteAt(file.cmds, soff, Head(scmds)) /\ soff' = soff + 1
            \/ file' = file /\ soff' = soff
        BY <2>8 DEF SWrite, Holding
      <4>5. soff' = Len(file'.cmds) + 1 /\ Ordered(file'.cmds, scmds')
        BY <3>1, <4>3, <4>4, OrderedStep, LenProperties
      <4>6. IsSorted(file'.cmds)
        BY <4>5 DEF Ordered
      <4>. QED BY <4>1, <4>2, <4>3, <4>5, <4>6
    <3>. QED BY <3>2, <3>3
  <2>9. CASE SClose
    BY <2>9 DEF SClose, Fault, CloseFile
  <2>10. CASE SUnlink
    BY <2>10, EmptyIsSorted DEF SUnlink, Fault, LockInv, ServiceInside, DaemonInside, NoFile
  <2>11. CASE SRead
    BY <2>11 DEF SRead, Fault, CloseFile
  <2>12. CASE SGive
    BY <2>12 DEF SGive
  <2>13. CASE SNotify
    BY <2>13 DEF SNotify
  <2>14. CASE SReply
    BY <2>14, EmptyIsSorted DEF SReply
  <2>15. CASE AcceptSet
    <3>1. IsSorted(scmds')
      BY <2>15, ParsedType, SortedOrdersType DEF AcceptSet
    <3>. QED BY <2>15, <3>1 DEF AcceptSet, GroundRequest
  <2>16. CASE AcceptSetNoMemory
    BY <2>16 DEF AcceptSetNoMemory, GroundRequest, Fault
  <2>17. CASE AcceptSetOverrun
    BY <2>17, EmptyIsSorted DEF AcceptSetOverrun, ResetTo
  <2>18. ASSUME NEW op \in {"delete", "get"}, AcceptOther(op) PROVE SortInv'
    BY <2>18, EmptyIsSorted DEF AcceptOther, GroundRequest
  <2>19. CASE DBoot
    BY <2>19 DEF DBoot
  <2>20. CASE DReceive
    BY <2>20 DEF DReceive
  <2>21. CASE DTake
    BY <2>21 DEF DTake
  <2>22. CASE DTakeTimeout
    BY <2>22 DEF DTakeTimeout
  <2>23. CASE DOpenFails
    BY <2>23 DEF DOpenFails, Fault
  <2>24. CASE DNothing
    BY <2>24 DEF DNothing, Fault
  <2>25. CASE DTooEarly
    BY <2>25 DEF DTooEarly
  <2>26. CASE DLook
    BY <2>26 DEF DLook
  <2>38. CASE DPrepare
    BY <2>38 DEF DPrepare
  <2>27. CASE DSend
    BY <2>27 DEF DSend
  <2>28. CASE DSendFails
    BY <2>28 DEF DSendFails
  <2>29. CASE DReply
    BY <2>29 DEF DReply
  <2>30. CASE DUpdate
    <3>1. dcmds' \in Seq(Cmd) /\ IsSorted(dcmds')
      BY <2>30, UpdateSorts
    <3>2. CASE "truncate" \in faults'
      BY <3>2
    <3>3. CASE "truncate" \notin faults'
      <4>1. file' = Holding(<< >>) /\ "truncate" \notin faults
        BY <2>30, <3>3 DEF DUpdate, Fault
      <4>2. spc # "write"
        BY <2>30 DEF DUpdate, LockInv, ServiceInside, DaemonInside
      <4>. QED BY <2>30, <3>1, <4>1, <4>2, EmptyIsSorted DEF DUpdate, Holding
    <3>. QED BY <3>2, <3>3
  <2>31. CASE DRewrite
    <3>1. dcmds \in Seq(Cmd) /\ file.cmds \in Seq(Cmd) /\ dcmds # << >> /\ dcmds' = Tail(dcmds)
      BY <2>31 DEF DRewrite, TypeOK, File
    <3>2. CASE "truncate" \in faults'
      BY <3>2
    <3>3. CASE "truncate" \notin faults'
      <4>1. "truncate" \notin faults /\ UNCHANGED <<disk, spc, dpc, scmds, soff>>
        BY <2>31, <3>3 DEF DRewrite, Fault
      <4>2. dpc = "rewrite" /\ spc # "write"
        BY <2>31 DEF DRewrite, LockInv, ServiceInside, DaemonInside
      <4>3. /\ doff = Len(file.cmds) + 1 /\ Ordered(file.cmds, dcmds)
            /\ IsSorted(file.cmds) /\ IsSorted(disk.cmds)
        BY <4>1, <4>2
      <4>4. \/ file'.cmds = WriteAt(file.cmds, doff, Head(dcmds)) /\ doff' = doff + 1
            \/ file' = file /\ doff' = doff
        BY <2>31 DEF DRewrite, Holding
      <4>5. doff' = Len(file'.cmds) + 1 /\ Ordered(file'.cmds, dcmds')
        BY <3>1, <4>3, <4>4, OrderedStep, LenProperties
      <4>6. IsSorted(file'.cmds)
        BY <4>5 DEF Ordered
      <4>. QED BY <4>1, <4>2, <4>3, <4>5, <4>6
    <3>. QED BY <3>2, <3>3
  <2>32. CASE DClose
    BY <2>32 DEF DClose, Fault, CloseFile
  <2>33. CASE DGive
    BY <2>33, EmptyIsSorted DEF DGive
  <2>34. CASE Transact
    BY <2>34 DEF Transact
  <2>35. CASE Reset
    BY <2>35, EmptyIsSorted DEF Reset, ResetTo
  <2>36. CASE Tick
    BY <2>36 DEF Tick
  <2>37. CASE UNCHANGED vars
    BY <2>37 DEF vars
  <2>. QED
    BY <2>1, <2>2, <2>3, <2>4, <2>5, <2>6, <2>7, <2>8, <2>9, <2>10, <2>11, <2>12, <2>13, <2>14,
       <2>15, <2>16, <2>17, <2>18, <2>19, <2>20, <2>21, <2>22, <2>23, <2>24, <2>25, <2>26,
       <2>27, <2>28, <2>29, <2>30, <2>31, <2>32, <2>33, <2>34, <2>35, <2>36, <2>37, <2>38
    DEF Next, Service, Ground, Daemon, DaemonProgress
<1>. QED BY <1>1, <1>2, TypeCorrect, LockInvariant, PTL DEF Spec

\* Half written and after failed writes too, in memory and on the disk, the
\* file is sorted, unless red_ftruncate failed.
THEOREM FileStaysSorted == StartupInTime => (Spec => []SortedFile)
<1>1. SortInv => SortedFile
  BY DEF SortInv, SortedFile
<1>. QED BY <1>1, SortInvariant, PTL
=============================================================================
