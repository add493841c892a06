---------------------------- MODULE LoggerProofs ----------------------------
(***************************************************************************)
(* The log is what was written last, and its files are bounded, for every  *)
(* length of the queue, every set of sizes and every number of handles.    *)
(*                                                                         *)
(* The bound (GrowInv) relates the length of the file to the size counted  *)
(* since it was opened; the suffix (SuffixInv) holds of the volume in      *)
(* memory and on the disk, so that a reset keeps it.                       *)
(***************************************************************************)
EXTENDS Logger, SequenceTheorems, TLAPS

DiskType == [cur : Seq(Nat), old : Seq(Nat), has : SUBSET Names,
             size : Swaps \cup {0}, out : 0..MaxOut]

\* The parts of the type invariant.
DiskOK == disk \in DiskType /\ safe \in DiskType

HandlesOK ==
  /\ own \in BOOLEAN /\ leaked \in [Names -> Nat] /\ others \in {0, 1}
  /\ Used <= Handles

RestOK ==
  /\ queue \in 0..QueueLen
  /\ pc \in {"boot", "open", "stat", "rename", "create", "wait", "output", "write", "commit"}
  /\ then \in {"wait", "output", "write"}
  /\ fs_init \in BOOLEAN /\ append \in BOOLEAN /\ spoilt \in BOOLEAN
  /\ fs_init => own
  /\ next_swap \in Swaps /\ current_size \in Nat /\ pos \in Nat
  /\ svc \in [op : {"none", "exists", "read"}, name : Names]

Reopening == {"open", "stat", "rename", "create"}

\* A message is counted and not written yet.
Counted == pc = "write" \/ (pc \in Reopening /\ then = "write")
Pending == IF Counted THEN 1 ELSE 0

\* What is received is still to be written; only then the bound on the number
\* of messages matters.
PlaceInv ==
  /\ pc \in {"output", "write"} => disk.out < MaxOut
  /\ pc \in Reopening /\ then # "wait" => disk.out < MaxOut
  /\ pc \in Reopening \cup {"boot"} => ~fs_init
  /\ own => "cur" \in disk.has /\ (fs_init \/ pc = "stat")
  /\ pc = "stat" => own /\ append

Short(n) == \E m \in Swaps : n < 2 * m

\* No size was counted beyond a limit; a file that is appended to has grown by
\* what was counted, and one that is written from its beginning has its
\* position there.
GrowInv ==
  /\ \E b \in Swaps : current_size <= b
  /\ Counted => current_size >= 1
  /\ fs_init /\ append => \E a \in Swaps : Len(disk.cur) + Pending < a + current_size
  /\ fs_init /\ ~append => pos + Pending <= current_size
  /\ Short(Len(disk.cur)) /\ Short(Len(disk.old))
  /\ Short(Len(safe.cur)) /\ Short(Len(safe.old))

\* The two files of a volume end with its last message.
Suffix(d) ==
  /\ \A k \in 1..Len(d.cur) : d.cur[k] = d.out - Len(d.cur) + k
  /\ \A k \in 1..Len(d.old) : d.old[k] = d.out - Len(d.cur) - Len(d.old) + k
  /\ "cur" \notin d.has => d.cur = <<>>

SuffixInv ==
  ~spoilt =>
    /\ Suffix(disk) /\ Suffix(safe)
    /\ pc = "create" => disk.cur = <<>>
    /\ fs_init /\ ~append => pos = Len(disk.cur)

IInv == DiskOK /\ HandlesOK /\ RestOK /\ PlaceInv /\ GrowInv /\ SuffixInv

\* Opening takes a free handle and closing gives it back.
LEMMA HandlesAfter ==
  ASSUME HandlesOK, own' \in BOOLEAN, leaked' = leaked, others' = others,
         own' => own \/ Free
  PROVE  HandlesOK'
<1>1. leaked["cur"] \in Nat /\ leaked["old"] \in Nat /\ others \in Nat /\ Handles \in Nat
  BY LoggerAssumption DEF HandlesOK, Names
<1>2. CASE own'
  <2>1. Used' = 1 + leaked["cur"] + leaked["old"] + others
    BY <1>2 DEF Used
  <2>2. CASE own
    BY <1>1, <2>1, <2>2 DEF HandlesOK, Used
  <2>3. CASE ~own /\ Free
    BY <1>1, <2>1, <2>3 DEF HandlesOK, Used, Free
  <2> QED
    BY <1>2, <2>2, <2>3
<1>3. CASE ~own'
  <2>1. Used' = leaked["cur"] + leaked["old"] + others
    BY <1>1, <1>3 DEF Used
  <2>2. Used = leaked["cur"] + leaked["old"] + others \/ Used = 1 + leaked["cur"] + leaked["old"] + others
    BY <1>1 DEF Used
  <2> QED
    BY <1>1, <2>1, <2>2 DEF HandlesOK
<1> QED
  BY <1>2, <1>3

LEMMA DefaultSwap == Default \in Swaps /\ Swaps \subseteq Nat \ {0}
  BY LoggerAssumption DEF Swaps

LEMMA ShortSum ==
  ASSUME NEW a \in Swaps, NEW b \in Swaps, NEW n \in Nat, n < a + b
  PROVE  Short(n)
<1>1. a \in Nat /\ b \in Nat
  BY DefaultSwap
<1>2. CASE a <= b
  BY <1>1, <1>2 DEF Short
<1>3. CASE b <= a
  BY <1>1, <1>3 DEF Short
<1> QED
  BY <1>1, <1>2, <1>3

LEMMA ShortZero == Short(0)
  BY DefaultSwap, ShortSum

\* Writing puts a message after the others, or over one of them.
LEMMA PutAt ==
  ASSUME NEW s \in Seq(Nat), NEW p \in Nat, NEW v \in Nat
  PROVE  /\ Put(s, p, v) \in Seq(Nat)
         /\ p < Len(s) => Len(Put(s, p, v)) = Len(s)
         /\ p >= Len(s) => Put(s, p, v) = Append(s, v) /\ Len(Put(s, p, v)) = Len(s) + 1
<1>1. CASE p < Len(s)
  <2>1. p + 1 \in 1..Len(s)
    BY <1>1
  <2> QED
    BY <1>1, <2>1 DEF Put
<1>2. CASE p >= Len(s)
  BY <1>2 DEF Put
<1> QED
  BY <1>1, <1>2

\* What is pending was counted.
LEMMA PendingCounted ==
  ASSUME GrowInv, RestOK
  PROVE  Pending \in Nat /\ Pending <= current_size
  BY DEF GrowInv, RestOK, Pending

LEMMA DiskFields ==
  ASSUME NEW d \in DiskType
  PROVE  /\ d.cur \in Seq(Nat) /\ d.old \in Seq(Nat) /\ d.has \in SUBSET Names
         /\ d.size \in Swaps \cup {0} /\ d.out \in 0..MaxOut
         /\ Len(d.cur) \in Nat /\ Len(d.old) \in Nat
  BY DEF DiskType

LEMMA EmptiedFile ==
  ASSUME NEW d \in DiskType, NEW n \in Names
  PROVE  LET e == [d EXCEPT ![n] = <<>>, !.has = @ \ {n}]
         IN /\ e \in DiskType /\ e.out = d.out /\ e.has = d.has \ {n}
            /\ e.cur \in {d.cur, <<>>} /\ e.old \in {d.old, <<>>}
            /\ n = "old" => e.cur = d.cur
<1> DEFINE e == [d EXCEPT ![n] = <<>>, !.has = @ \ {n}]
<1>1. <<>> \in Seq(Nat) /\ d.has \ {n} \in SUBSET Names
  BY DiskFields
<1>2. CASE n = "cur"
  <2>1. e = [d EXCEPT !.cur = <<>>, !.has = d.has \ {"cur"}]
    BY <1>2
  <2> QED
    BY <1>1, <1>2, <2>1 DEF DiskType
<1>3. CASE n = "old"
  <2>1. e = [d EXCEPT !.old = <<>>, !.has = d.has \ {"old"}]
    BY <1>3
  <2> QED
    BY <1>1, <1>3, <2>1 DEF DiskType
<1> QED
  BY <1>2, <1>3 DEF Names

LEMMA CreatedFile ==
  ASSUME NEW d \in DiskType, NEW n \in Names
  PROVE  LET e == [d EXCEPT !.has = @ \cup {n}]
         IN /\ e \in DiskType /\ e.out = d.out /\ e.has = d.has \cup {n}
            /\ e.cur = d.cur /\ e.old = d.old
<1>1. d.has \cup {n} \in SUBSET Names
  BY DiskFields
<1> QED
  BY <1>1 DEF DiskType

\* What looking for a file does to the volume.
LEMMA FileExistsDisk ==
  ASSUME IInv, FileExists
  PROVE  /\ DiskOK'
         /\ safe' \in {safe, disk'} /\ disk'.out = disk.out
         /\ disk'.cur \in {disk.cur, <<>>} /\ disk'.old \in {disk.old, <<>>}
         /\ own => disk'.cur = disk.cur /\ ("cur" \in disk.has => "cur" \in disk'.has)
         /\ ~spoilt' => /\ ~spoilt /\ disk'.cur = disk.cur /\ disk'.old = disk.old
                        /\ disk.has \subseteq disk'.has
<1> DEFINE n == svc.name
<1>1. n \in Names /\ disk \in DiskType /\ safe \in DiskType
  BY DEF IInv, RestOK, DiskOK
<1>2. CASE disk' = disk /\ safe' = safe
  BY <1>1, <1>2 DEF FileExists, DiskOK
<1>3. CASE ~InUse(n) /\ Commit([disk EXCEPT ![n] = <<>>, !.has = @ \ {n}]) /\ spoilt'
  <2>1. own => n = "old"
    BY <1>1, <1>3 DEF InUse, Names
  <2>2. disk' = [disk EXCEPT ![n] = <<>>, !.has = @ \ {n}] /\ safe' = disk'
    BY <1>3 DEF Commit
  <2>3. /\ disk' \in DiskType /\ disk'.out = disk.out /\ disk'.has = disk.has \ {n}
        /\ disk'.cur \in {disk.cur, <<>>} /\ disk'.old \in {disk.old, <<>>}
        /\ n = "old" => disk'.cur = disk.cur
    BY <1>1, <2>2, EmptiedFile
  <2> QED
    BY <1>3, <2>1, <2>2, <2>3 DEF DiskOK
<1>4. CASE Commit([disk EXCEPT !.has = @ \cup {n}]) /\ spoilt' = spoilt
  <2>1. disk' = [disk EXCEPT !.has = @ \cup {n}] /\ safe' = disk'
    BY <1>4 DEF Commit
  <2>2. /\ disk' \in DiskType /\ disk'.out = disk.out /\ disk'.has = disk.has \cup {n}
        /\ disk'.cur = disk.cur /\ disk'.old = disk.old
    BY <1>1, <2>1, CreatedFile
  <2> QED
    BY <1>4, <2>1, <2>2 DEF DiskOK
<1> QED
  BY <1>2, <1>3, <1>4 DEF FileExists

LEMMA InvInit == Init => IInv
<1> SUFFICES ASSUME Init PROVE IInv
  OBVIOUS
<1>1. DiskOK
  BY LoggerAssumption DEF Init, DiskOK, DiskType
<1>2. HandlesOK
  <2>1. leaked \in [Names -> Nat] /\ Used = 0
    BY DEF Init, Names, Used
  <2>2. own \in BOOLEAN /\ others = 0
    BY DEF Init
  <2>3. Used <= Handles
    BY <2>1, LoggerAssumption
  <2> QED
    BY <2>1, <2>2, <2>3 DEF HandlesOK
<1>3. RestOK
  <2>1. fs_init \in BOOLEAN /\ append \in BOOLEAN /\ spoilt \in BOOLEAN /\ (fs_init => own)
    BY DEF Init
  <2>2. queue \in 0..QueueLen /\ next_swap \in Swaps
    BY LoggerAssumption DEF Init, Swaps
  <2>3. svc \in [op : {"none", "exists", "read"}, name : Names]
    BY DEF Init, Names
  <2> QED
    BY <2>1, <2>2, <2>3 DEF Init, RestOK
<1>4. Len(disk.cur) = 0 /\ Len(disk.old) = 0 /\ Len(safe.cur) = 0 /\ Len(safe.old) = 0
  BY DEF Init
<1>5. GrowInv
  <2>1. Short(0)
    BY ShortZero
  <2>2. \E b \in Swaps : current_size <= b
    BY DefaultSwap DEF Init
  <2> QED
    BY <1>4, <2>1, <2>2 DEF Init, GrowInv, Counted, Reopening
<1>6. PlaceInv
  BY DEF Init, PlaceInv, Reopening
<1>7. SuffixInv
  BY <1>4 DEF Init, SuffixInv, Suffix
<1> QED
  BY <1>1, <1>2, <1>3, <1>5, <1>6, <1>7 DEF IInv

LEMMA SysLogInv ==
  ASSUME IInv, SysLog
  PROVE  IInv'
<1>1. DiskOK'
  BY LoggerAssumption
  DEF SysLog, daemon, Goto, Commit, IInv,
      DiskOK, DiskType, RestOK, Names
<1>2. HandlesOK'
  BY LoggerAssumption
  DEF SysLog, daemon, Goto, Commit, IInv,
      HandlesOK, RestOK, PlaceInv, Reopening, Used, Free, Names
<1>3. RestOK'
  BY LoggerAssumption
  DEF SysLog, daemon, Goto, Commit, IInv,
      HandlesOK, RestOK, PlaceInv, DiskOK, DiskType, Swaps, Names
<1>4. PlaceInv'
  BY DEF SysLog, daemon, Goto, Commit, IInv,
      DiskOK, DiskType, RestOK, PlaceInv, Reopening
<1>5. GrowInv'
  BY DefaultSwap
  DEF SysLog, daemon, Goto, Commit, IInv,
      DiskOK, DiskType, RestOK, PlaceInv, GrowInv, Short, Counted, Reopening, Pending
<1>6. SuffixInv'
  BY DEF SysLog, daemon, Goto, Commit, IInv,
      DiskOK, DiskType, HandlesOK, RestOK, PlaceInv, SuffixInv, Suffix, Reopening, Names
<1> QED
  BY <1>1, <1>2, <1>3, <1>4, <1>5, <1>6 DEF IInv

\* Loading the size changes at most the stored size.
LEMMA LoadSizeDisk ==
  ASSUME DiskOK, LoadSize
  PROVE  DiskOK'
<1>1. CASE Free
  BY <1>1 DEF LoadSize, DiskOK
<1>2. CASE ~Free
  BY <1>2 DEF LoadSize, Commit, DiskOK, DiskType
<1> QED
  BY <1>1, <1>2

LEMMA DConfigInv ==
  ASSUME IInv, DConfig
  PROVE  IInv'
<1>1. DiskOK'
  BY LoadSizeDisk DEF DConfig, IInv
<1>2. HandlesOK'
  BY LoggerAssumption
  DEF DConfig, LoadSize, daemon, Goto, Commit, IInv,
      HandlesOK, RestOK, PlaceInv, Reopening, Used, Free, Names
<1>3. RestOK'
  BY LoggerAssumption
  DEF DConfig, LoadSize, daemon, Goto, Commit, IInv,
      HandlesOK, RestOK, PlaceInv, DiskOK, DiskType, Swaps, Names
<1>4. PlaceInv'
  BY DEF DConfig, LoadSize, daemon, Goto, Commit, IInv,
      DiskOK, DiskType, RestOK, PlaceInv, Reopening
<1>5. GrowInv'
  BY DefaultSwap
  DEF DConfig, LoadSize, daemon, Goto, Commit, IInv,
      DiskOK, DiskType, RestOK, PlaceInv, GrowInv, Short, Counted, Reopening, Pending
<1>6. SuffixInv'
  BY DEF DConfig, LoadSize, daemon, Goto, Commit, IInv,
      DiskOK, DiskType, HandlesOK, RestOK, PlaceInv, SuffixInv, Suffix, Reopening, Names
<1> QED
  BY <1>1, <1>2, <1>3, <1>4, <1>5, <1>6 DEF IInv

LEMMA DOpenInv ==
  ASSUME IInv, DOpen
  PROVE  IInv'
<1>1. DiskOK'
  BY LoggerAssumption
  DEF DOpen, daemon, Goto, Commit, IInv,
      DiskOK, DiskType, RestOK, Names
<1>2. HandlesOK'
  <2>1. /\ leaked' = leaked /\ others' = others
        /\ own' \in BOOLEAN /\ (own' => own \/ Free)
    BY DEF DOpen, daemon, IInv, HandlesOK
  <2> QED
    BY <2>1, HandlesAfter DEF IInv
<1>3. RestOK'
  <2>1. fs_init' \in BOOLEAN /\ append' \in BOOLEAN /\ spoilt' \in BOOLEAN
    BY DEF DOpen, Goto, daemon, IInv, RestOK
  <2>2. fs_init' => own'
    BY DEF DOpen, Goto, daemon, IInv, RestOK, PlaceInv, Reopening
  <2>3. /\ queue' \in 0..QueueLen
        /\ pc' \in {"boot", "open", "stat", "rename", "create", "wait", "output", "write", "commit"}
        /\ then' \in {"wait", "output", "write"}
        /\ svc' \in [op : {"none", "exists", "read"}, name : Names]
    BY LoggerAssumption DEF DOpen, Goto, daemon, IInv, RestOK, Names
  <2>4. next_swap' \in Swaps /\ current_size' \in Nat /\ pos' \in Nat
    BY LoggerAssumption DEF DOpen, Goto, daemon, IInv, RestOK, DiskOK, DiskType, Swaps
  <2> QED
    BY <2>1, <2>2, <2>3, <2>4 DEF RestOK
<1>4. PlaceInv'
  BY DEF DOpen, daemon, Goto, Commit, IInv,
      DiskOK, DiskType, RestOK, PlaceInv, Reopening
<1>5. GrowInv'
  BY DefaultSwap
  DEF DOpen, daemon, Goto, Commit, IInv,
      DiskOK, DiskType, RestOK, PlaceInv, GrowInv, Short, Counted, Reopening, Pending
<1>6. SuffixInv'
  BY DEF DOpen, daemon, Goto, Commit, IInv,
      DiskOK, DiskType, HandlesOK, RestOK, PlaceInv, SuffixInv, Suffix, Reopening, Names
<1> QED
  BY <1>1, <1>2, <1>3, <1>4, <1>5, <1>6 DEF IInv

LEMMA DStatInv ==
  ASSUME IInv, DStat
  PROVE  IInv'
<1>1. DiskOK'
  BY LoggerAssumption
  DEF DStat, daemon, Goto, Commit, IInv,
      DiskOK, DiskType, RestOK, Names
<1>2. HandlesOK'
  <2>1. /\ leaked' = leaked /\ others' = others
        /\ own' \in BOOLEAN /\ (own' => own \/ Free)
    BY DEF DStat, daemon, IInv, HandlesOK
  <2> QED
    BY <2>1, HandlesAfter DEF IInv
<1>3. RestOK'
  <2>1. fs_init' \in BOOLEAN /\ append' \in BOOLEAN /\ spoilt' \in BOOLEAN
    BY DEF DStat, Goto, daemon, IInv, RestOK
  <2>2. fs_init' => own'
    BY DEF DStat, Goto, daemon, IInv, RestOK, PlaceInv, Reopening
  <2>3. /\ queue' \in 0..QueueLen
        /\ pc' \in {"boot", "open", "stat", "rename", "create", "wait", "output", "write", "commit"}
        /\ then' \in {"wait", "output", "write"}
        /\ svc' \in [op : {"none", "exists", "read"}, name : Names]
    BY LoggerAssumption DEF DStat, Goto, daemon, IInv, RestOK, Names
  <2>4. next_swap' \in Swaps /\ current_size' \in Nat /\ pos' \in Nat
    BY LoggerAssumption DEF DStat, Goto, daemon, IInv, RestOK, DiskOK, DiskType, Swaps
  <2> QED
    BY <2>1, <2>2, <2>3, <2>4 DEF RestOK
<1>4. PlaceInv'
  BY DEF DStat, daemon, Goto, Commit, IInv,
      DiskOK, DiskType, RestOK, PlaceInv, Reopening
<1>5. GrowInv'
  <2> USE DEF IInv
  <2>1. pc = "stat" /\ fs_init = FALSE /\ disk' = disk /\ current_size' = current_size /\ then' = then
    BY DEF DStat, Commit, RestOK, PlaceInv, Reopening
  <2>2. safe' \in {safe, disk}
    BY DEF DStat, Commit
  <2>3. pc' \in {"rename", then}
    BY DEF DStat, Goto
  <2>4. Pending' = Pending /\ Counted' = Counted
    BY <2>1, <2>3 DEF Pending, Counted, Reopening, RestOK
  <2>5. fs_init' => Len(disk.cur) < next_swap
    <3>1. Len(disk.cur) \in Nat /\ next_swap \in Nat
      BY DiskFields, DefaultSwap DEF DiskOK, RestOK
    <3>2. Len(disk.cur) >= next_swap => ~fs_init'
      BY <2>1 DEF DStat
    <3>3. Len(disk.cur) < next_swap \/ Len(disk.cur) >= next_swap
      BY <3>1
    <3> QED
      BY <3>2, <3>3
  <2>6. fs_init' /\ append' => \E a \in Swaps : Len(disk'.cur) + Pending' < a + current_size'
    BY <2>1, <2>4, <2>5, PendingCounted, DiskFields, DefaultSwap DEF RestOK, DiskOK
  <2>7. fs_init' => append'
    BY <2>1 DEF DStat, PlaceInv
  <2> QED
    BY <2>1, <2>2, <2>4, <2>6, <2>7 DEF GrowInv
<1>6. SuffixInv'
  <2>1. spoilt' = spoilt /\ disk' = disk /\ safe' \in {safe, disk} /\ pc' # "create"
    BY DEF DStat, Goto, Commit, IInv, RestOK
  <2>2. append'
    BY DEF DStat, IInv, PlaceInv
  <2> QED
    BY <2>1, <2>2 DEF IInv, SuffixInv
<1> QED
  BY <1>1, <1>2, <1>3, <1>4, <1>5, <1>6 DEF IInv

LEMMA DRenameInv ==
  ASSUME IInv, DRename
  PROVE  IInv'
<1>1. DiskOK'
  <2>1. disk.cur \in Seq(Nat) /\ disk.has \in SUBSET Names /\ <<>> \in Seq(Nat)
    BY DiskFields DEF IInv, DiskOK
  <2>2. (disk.has \ {"cur"}) \cup {"old"} \in SUBSET Names
    BY <2>1 DEF Names
  <2>3. CASE disk' = disk /\ safe' = safe
    BY <2>3 DEF IInv, DiskOK
  <2>4. CASE Commit([disk EXCEPT !.old = disk.cur, !.cur = <<>>,
                                 !.has = (@ \ {"cur"}) \cup {"old"}])
    BY <2>1, <2>2, <2>4 DEF Commit, IInv, DiskOK, DiskType
  <2> QED
    BY <2>3, <2>4 DEF DRename
<1>2. HandlesOK'
  BY LoggerAssumption
  DEF DRename, daemon, Goto, Commit, IInv,
      HandlesOK, RestOK, PlaceInv, Reopening, Used, Free, Names
<1>3. RestOK'
  BY LoggerAssumption
  DEF DRename, daemon, Goto, Commit, IInv,
      HandlesOK, RestOK, PlaceInv, DiskOK, DiskType, Swaps, Names
<1>4. PlaceInv'
  BY DEF DRename, daemon, Goto, Commit, IInv,
      DiskOK, DiskType, RestOK, PlaceInv, Reopening
<1>5. GrowInv'
  <2> USE DEF IInv
  <2>1. fs_init' = FALSE /\ current_size' = current_size
    BY DEF DRename, PlaceInv, RestOK, Reopening
  <2>2. Counted' => Counted
    BY DEF DRename, Goto, Counted, Reopening
  <2>3. \/ disk' = disk /\ safe' = safe
        \/ disk'.cur = <<>> /\ disk'.old = disk.cur /\ safe' = disk'
    BY DEF DRename, Commit, DiskOK, DiskType
  <2>4. /\ Short(Len(disk'.cur)) /\ Short(Len(disk'.old))
        /\ Short(Len(safe'.cur)) /\ Short(Len(safe'.old))
    BY <2>3, ShortZero DEF GrowInv
  <2> QED
    BY <2>1, <2>2, <2>4 DEF GrowInv
<1>6. SuffixInv'
  <2> SUFFICES ASSUME ~spoilt' PROVE SuffixInv'
    BY DEF SuffixInv
  <2>1. /\ ~spoilt
        /\ disk' = [disk EXCEPT !.old = disk.cur, !.cur = <<>>,
                                !.has = (@ \ {"cur"}) \cup {"old"}]
        /\ safe' = disk' /\ fs_init' = FALSE
    BY DEF DRename, Commit, IInv, PlaceInv, RestOK, Reopening
  <2>2. disk'.cur = <<>> /\ disk'.old = disk.cur /\ disk'.out = disk.out
    BY <2>1 DEF IInv, DiskOK, DiskType
  <2>3. Suffix(disk)'
    BY <2>1, <2>2, DiskFields DEF IInv, DiskOK, SuffixInv, Suffix
  <2>4. Suffix(safe)'
    BY <2>1, <2>3 DEF Suffix
  <2> QED
    BY <2>1, <2>2, <2>3, <2>4 DEF SuffixInv
<1> QED
  BY <1>1, <1>2, <1>3, <1>4, <1>5, <1>6 DEF IInv

LEMMA DCreateInv ==
  ASSUME IInv, DCreate
  PROVE  IInv'
<1>1. DiskOK'
  <2>1. disk.has \cup {"cur"} \in SUBSET Names
    BY DiskFields DEF IInv, DiskOK, Names
  <2>2. CASE disk' = disk /\ safe' = safe
    BY <2>2 DEF IInv, DiskOK
  <2>3. CASE Commit([disk EXCEPT !.has = @ \cup {"cur"}])
    BY <2>1, <2>3 DEF Commit, IInv, DiskOK, DiskType
  <2> QED
    BY <2>2, <2>3 DEF DCreate
<1>2. HandlesOK'
  <2>1. /\ leaked' = leaked /\ others' = others
        /\ own' \in BOOLEAN /\ (own' => own \/ Free)
    BY DEF DCreate, daemon, IInv, HandlesOK
  <2> QED
    BY <2>1, HandlesAfter DEF IInv
<1>3. RestOK'
  <2>1. fs_init' \in BOOLEAN /\ append' \in BOOLEAN /\ spoilt' \in BOOLEAN
    BY DEF DCreate, Goto, daemon, IInv, RestOK
  <2>2. fs_init' => own'
    BY DEF DCreate, Goto, daemon, IInv, RestOK, PlaceInv, Reopening
  <2>3. /\ queue' \in 0..QueueLen
        /\ pc' \in {"boot", "open", "stat", "rename", "create", "wait", "output", "write", "commit"}
        /\ then' \in {"wait", "output", "write"}
        /\ svc' \in [op : {"none", "exists", "read"}, name : Names]
    BY LoggerAssumption DEF DCreate, Goto, daemon, IInv, RestOK, Names
  <2>4. next_swap' \in Swaps /\ current_size' \in Nat /\ pos' \in Nat
    BY LoggerAssumption DEF DCreate, Goto, daemon, IInv, RestOK, DiskOK, DiskType, Swaps
  <2> QED
    BY <2>1, <2>2, <2>3, <2>4 DEF RestOK
<1>4. PlaceInv'
  <2>1. disk'.out = disk.out /\ (own' => "cur" \in disk'.has)
    <3>1. CASE disk' = disk /\ own' = own
      BY <3>1 DEF IInv, PlaceInv
    <3>2. CASE disk' = [disk EXCEPT !.has = @ \cup {"cur"}]
      BY <3>2, CreatedFile DEF IInv, DiskOK, Names
    <3> QED
      BY <3>1, <3>2 DEF DCreate, Commit
  <2>2. pc = "create" /\ pc' = then /\ then' = then /\ (own' => fs_init')
    BY DEF DCreate, Goto, IInv, PlaceInv, Reopening
  <2> QED
    BY <2>1, <2>2 DEF IInv, RestOK, PlaceInv, Reopening
<1>5. GrowInv'
  <2> USE DEF IInv
  <2>1. /\ pc = "create" /\ pc' = then /\ then' = then /\ fs_init = FALSE
        /\ current_size' = current_size
    BY DEF DCreate, Goto, RestOK, PlaceInv, Reopening
  <2>2. Pending' = Pending /\ Counted' = Counted
    BY <2>1 DEF Pending, Counted, Reopening, RestOK
  <2>3. fs_init' => ~append' /\ pos' = 0
    BY <2>1 DEF DCreate
  <2>4. \/ disk' = disk /\ safe' = safe
        \/ disk'.cur = disk.cur /\ disk'.old = disk.old /\ safe' = disk'
    BY DEF DCreate, Commit, DiskOK, DiskType
  <2>5. /\ Short(Len(disk'.cur)) /\ Short(Len(disk'.old))
        /\ Short(Len(safe'.cur)) /\ Short(Len(safe'.old))
    BY <2>4 DEF GrowInv
  <2>6. fs_init' /\ ~append' => pos' + Pending' <= current_size'
    BY <2>1, <2>2, <2>3, PendingCounted DEF RestOK
  <2> QED
    BY <2>1, <2>2, <2>3, <2>5, <2>6 DEF GrowInv
<1>6. SuffixInv'
  <2> SUFFICES ASSUME ~spoilt' PROVE SuffixInv'
    BY DEF SuffixInv
  <2>1. /\ ~spoilt /\ disk' = [disk EXCEPT !.has = @ \cup {"cur"}]
        /\ safe' = disk' /\ pos' = 0 /\ pc' # "create" /\ disk.cur = <<>>
    BY DEF DCreate, Goto, Commit, IInv, RestOK, SuffixInv
  <2>2. disk'.cur = disk.cur /\ disk'.old = disk.old /\ disk'.out = disk.out /\ "cur" \in disk'.has
    BY <2>1 DEF IInv, DiskOK, DiskType
  <2>3. Suffix(disk)'
    BY <2>1, <2>2 DEF IInv, SuffixInv, Suffix
  <2>4. Suffix(safe)'
    BY <2>1, <2>3 DEF Suffix
  <2> QED
    BY <2>1, <2>2, <2>3, <2>4 DEF SuffixInv
<1> QED
  BY <1>1, <1>2, <1>3, <1>4, <1>5, <1>6 DEF IInv

LEMMA DReceiveInv ==
  ASSUME IInv, DReceive
  PROVE  IInv'
<1>1. DiskOK'
  BY LoggerAssumption
  DEF DReceive, daemon, Goto, Commit, IInv,
      DiskOK, DiskType, RestOK, Names
<1>2. HandlesOK'
  BY LoggerAssumption
  DEF DReceive, daemon, Goto, Commit, IInv,
      HandlesOK, RestOK, PlaceInv, Reopening, Used, Free, Names
<1>3. RestOK'
  BY LoggerAssumption
  DEF DReceive, daemon, Goto, Commit, IInv,
      HandlesOK, RestOK, PlaceInv, DiskOK, DiskType, Swaps, Names
<1>4. PlaceInv'
  BY DEF DReceive, daemon, Goto, Commit, IInv,
      DiskOK, DiskType, RestOK, PlaceInv, Reopening
<1>5. GrowInv'
  BY DefaultSwap
  DEF DReceive, daemon, Goto, Commit, IInv,
      DiskOK, DiskType, RestOK, PlaceInv, GrowInv, Short, Counted, Reopening, Pending
<1>6. SuffixInv'
  BY DEF DReceive, daemon, Goto, Commit, IInv,
      DiskOK, DiskType, HandlesOK, RestOK, PlaceInv, SuffixInv, Suffix, Reopening, Names
<1> QED
  BY <1>1, <1>2, <1>3, <1>4, <1>5, <1>6 DEF IInv

LEMMA DCountInv ==
  ASSUME IInv, DCount
  PROVE  IInv'
<1>1. DiskOK'
  BY LoggerAssumption
  DEF DCount, daemon, Goto, Commit, IInv,
      DiskOK, DiskType, RestOK, Names
<1>2. HandlesOK'
  <2>1. /\ leaked' = leaked /\ others' = others
        /\ own' \in BOOLEAN /\ (own' => own \/ Free)
    BY DEF DCount, daemon, IInv, HandlesOK
  <2> QED
    BY <2>1, HandlesAfter DEF IInv
<1>3. RestOK'
  <2>1. fs_init' \in BOOLEAN /\ append' \in BOOLEAN /\ spoilt' \in BOOLEAN
    BY DEF DCount, Goto, daemon, IInv, RestOK
  <2>2. fs_init' => own'
    BY DEF DCount, Goto, daemon, IInv, RestOK, PlaceInv, Reopening
  <2>3. /\ queue' \in 0..QueueLen
        /\ pc' \in {"boot", "open", "stat", "rename", "create", "wait", "output", "write", "commit"}
        /\ then' \in {"wait", "output", "write"}
        /\ svc' \in [op : {"none", "exists", "read"}, name : Names]
    BY LoggerAssumption DEF DCount, Goto, daemon, IInv, RestOK, Names
  <2>4. next_swap' \in Swaps /\ current_size' \in Nat /\ pos' \in Nat
    BY LoggerAssumption DEF DCount, Goto, daemon, IInv, RestOK, DiskOK, DiskType, Swaps
  <2> QED
    BY <2>1, <2>2, <2>3, <2>4 DEF RestOK
<1>4. PlaceInv'
  BY DEF DCount, daemon, Goto, Commit, IInv,
      DiskOK, DiskType, RestOK, PlaceInv, Reopening
<1>5. GrowInv'
  <2> USE DEF IInv
  <2>1. pc = "output" /\ then' = "write" /\ disk' = disk /\ safe' \in {safe, disk}
    BY DEF DCount, Commit
  <2>2. Pending = 0
    BY <2>1 DEF Pending, Counted, Reopening
  <2>3. CASE current_size' = 1 /\ pc' = "open" /\ fs_init' = FALSE
    <3>1. \E b \in Swaps : current_size' <= b
      BY <2>3, DefaultSwap
    <3> QED
      BY <2>1, <2>3, <3>1 DEF GrowInv
  <2>4. CASE /\ current_size' = current_size + 1 /\ current_size + 1 <= next_swap
             /\ pc' = "write" /\ UNCHANGED <<fs_init, append, pos>>
    <3>1. Pending' = 1
      BY <2>4 DEF Pending, Counted
    <3>2. \E b \in Swaps : current_size' <= b
      BY <2>4 DEF RestOK
    <3>3. fs_init' /\ append' => \E a \in Swaps : Len(disk'.cur) + Pending' < a + current_size'
      <4> SUFFICES ASSUME fs_init', append'
                   PROVE  \E a \in Swaps : Len(disk'.cur) + Pending' < a + current_size'
        OBVIOUS
      <4>1. PICK a \in Swaps : Len(disk.cur) + Pending < a + current_size
        BY <2>4 DEF GrowInv
      <4>2. Len(disk'.cur) + Pending' < a + current_size'
        BY <2>1, <2>2, <2>4, <3>1, <4>1, DiskFields, DefaultSwap DEF DiskOK, RestOK
      <4> QED
        BY <4>2
    <3>4. fs_init' /\ ~append' => pos' + Pending' <= current_size'
      BY <2>2, <2>4, <3>1 DEF GrowInv, RestOK
    <3>5. current_size' >= 1
      BY <2>4 DEF RestOK
    <3> QED
      BY <2>1, <3>2, <3>3, <3>4, <3>5 DEF GrowInv
  <2>5. next_swap \in Nat /\ current_size \in Nat
    BY DefaultSwap DEF RestOK
  <2>6. CASE current_size + 1 > next_swap
    BY <2>3, <2>6 DEF DCount, Goto
  <2>7. CASE ~(current_size + 1 > next_swap)
    <3>1. current_size + 1 <= next_swap
      BY <2>5, <2>7
    <3>2. current_size' = current_size + 1 /\ pc' = "write" /\ UNCHANGED <<fs_init, append, pos>>
      BY <2>7 DEF DCount, Goto
    <3> QED
      BY <2>4, <3>1, <3>2
  <2> QED
    BY <2>6, <2>7
<1>6. SuffixInv'
  <2>1. /\ UNCHANGED <<disk, append, pos, spoilt>> /\ (safe' = disk \/ safe' = safe)
        /\ pc' # "create" /\ (fs_init' => fs_init)
    BY DEF DCount, Goto, Commit
  <2> QED
    BY <2>1 DEF IInv, SuffixInv, Suffix
<1> QED
  BY <1>1, <1>2, <1>3, <1>4, <1>5, <1>6 DEF IInv

LEMMA DWriteInv ==
  ASSUME IInv, DWrite
  PROVE  IInv'
<1>1. DiskOK'
  <2>1. /\ disk.cur \in Seq(Nat) /\ disk.out \in 0..MaxOut /\ disk.out < MaxOut
        /\ pos \in Nat /\ Len(disk.cur) \in Nat /\ MaxOut \in Nat
    BY DiskFields, LoggerAssumption DEF DWrite, IInv, DiskOK, RestOK, PlaceInv
  <2>2. /\ disk.out + 1 \in 0..MaxOut
        /\ Put(disk.cur, IF append THEN Len(disk.cur) ELSE pos, disk.out + 1) \in Seq(Nat)
    BY <2>1, PutAt
  <2>3. CASE ~fs_init
    BY <2>3 DEF DWrite, IInv, DiskOK
  <2>4. CASE fs_init
    BY <2>2, <2>4 DEF DWrite, IInv, DiskOK, DiskType
  <2> QED
    BY <2>3, <2>4
<1>2. HandlesOK'
  BY LoggerAssumption
  DEF DWrite, daemon, Goto, Commit, IInv,
      HandlesOK, RestOK, PlaceInv, Reopening, Used, Free, Names
<1>3. RestOK'
  <2>1. /\ UNCHANGED <<queue, then, fs_init, append, spoilt, own, next_swap, current_size, svc>>
        /\ pc' \in {"commit", "wait"} /\ pos' \in {pos, pos + 1}
    BY DEF DWrite, Goto
  <2> QED
    BY <2>1 DEF IInv, RestOK
<1>4. PlaceInv'
  BY DEF DWrite, daemon, Goto, Commit, IInv,
      DiskOK, DiskType, RestOK, PlaceInv, Reopening
<1>5. GrowInv'
  <2> USE DEF IInv
  <2>1. pc = "write" /\ pc' \in {"commit", "wait"} /\ current_size' = current_size /\ safe' = safe
    BY DEF DWrite, Goto
  <2>2. Pending = 1 /\ Pending' = 0 /\ ~Counted'
    BY <2>1 DEF Pending, Counted, Reopening
  <2>3. CASE ~fs_init
    BY <2>1, <2>2, <2>3 DEF DWrite, GrowInv
  <2>4. CASE fs_init
    <3> DEFINE p == IF append THEN Len(disk.cur) ELSE pos
               new == Put(disk.cur, p, disk.out + 1)
    <3>1. disk'.cur = new /\ disk'.old = disk.old /\ fs_init' = fs_init /\ append' = append
      BY <2>4 DEF DWrite, DiskOK, DiskType
    <3>2. /\ disk.cur \in Seq(Nat) /\ p \in Nat /\ disk.out + 1 \in Nat
          /\ Len(disk.cur) \in Nat /\ current_size \in Nat /\ pos \in Nat
      BY DiskFields, LoggerAssumption DEF DiskOK, RestOK
    <3>3. PICK b \in Swaps : current_size <= b
      BY DEF GrowInv
    <3>4. CASE append
      <4>1. PICK a \in Swaps : Len(disk.cur) + 1 < a + current_size
        BY <2>2, <2>4, <3>4 DEF GrowInv
      <4>2. Len(new) = Len(disk.cur) + 1
        BY <3>2, <3>4, PutAt
      <4>3. Short(Len(new))
        BY <3>2, <3>3, <4>1, <4>2, ShortSum, DefaultSwap
      <4>4. \E c \in Swaps : Len(new) + 0 < c + current_size
        BY <3>2, <4>1, <4>2
      <4> QED
        BY <2>1, <2>2, <3>1, <3>4, <4>3, <4>4 DEF GrowInv
    <3>5. CASE ~append
      <4>1. pos + 1 <= current_size /\ pos' = pos + 1
        BY <2>2, <2>4, <3>5 DEF GrowInv, DWrite
      <4>2. CASE pos < Len(disk.cur)
        <5>1. Short(Len(new))
          BY <3>2, <3>5, <4>2, PutAt DEF GrowInv
        <5> QED
          BY <2>1, <2>2, <3>1, <3>2, <3>5, <4>1, <5>1 DEF GrowInv
      <4>3. CASE pos >= Len(disk.cur)
        <5>1. Len(new) = Len(disk.cur) + 1
          BY <3>2, <3>5, <4>3, PutAt
        <5>2. Len(new) < b + b /\ Len(new) \in Nat
          BY <3>2, <3>3, <4>1, <4>3, <5>1, DefaultSwap
        <5>3. Short(Len(new))
          BY <5>2, ShortSum
        <5> QED
          BY <2>1, <2>2, <3>1, <3>2, <3>5, <4>1, <5>3 DEF GrowInv
      <4> QED
        BY <3>2, <4>2, <4>3
    <3> QED
      BY <3>4, <3>5
  <2> QED
    BY <2>3, <2>4
<1>6. SuffixInv'
  <2> SUFFICES ASSUME ~spoilt' PROVE SuffixInv'
    BY DEF SuffixInv
  <2>1. ~spoilt /\ pc' # "create" /\ safe' = safe
    BY DEF DWrite, Goto
  <2>2. Suffix(disk) /\ Suffix(safe) /\ (fs_init /\ ~append => pos = Len(disk.cur))
    BY <2>1 DEF IInv, SuffixInv
  <2>3. Suffix(safe)'
    BY <2>1, <2>2 DEF Suffix
  <2>4. CASE ~fs_init
    BY <2>1, <2>2, <2>3, <2>4 DEF DWrite, SuffixInv, Suffix
  <2>5. CASE fs_init
    <3>1. /\ disk.cur \in Seq(Nat) /\ disk.old \in Seq(Nat) /\ disk.out \in Nat
          /\ Len(disk.cur) \in Nat /\ Len(disk.old) \in Nat /\ MaxOut \in Nat
      BY DiskFields, LoggerAssumption DEF IInv, DiskOK
    <3>2. /\ disk'.cur = Put(disk.cur, Len(disk.cur), disk.out + 1)
          /\ disk'.old = disk.old /\ disk'.out = disk.out + 1 /\ disk'.has = disk.has
      BY <2>2, <2>5 DEF DWrite, IInv, DiskOK, DiskType
    <3>3. disk'.cur = Append(disk.cur, disk.out + 1) /\ Len(disk'.cur) = Len(disk.cur) + 1
      <4>1. disk.out + 1 \in Nat /\ Len(disk.cur) >= Len(disk.cur)
        BY <3>1
      <4>2. /\ Put(disk.cur, Len(disk.cur), disk.out + 1) = Append(disk.cur, disk.out + 1)
            /\ Len(Put(disk.cur, Len(disk.cur), disk.out + 1)) = Len(disk.cur) + 1
        BY <3>1, <4>1, PutAt
      <4> QED
        BY <3>2, <4>2
    <3>8. disk'.out - Len(disk'.cur) = disk.out - Len(disk.cur)
      <4>1. \A x, y \in Nat : (x + 1) - (y + 1) = x - y
        OBVIOUS
      <4> QED
        BY <3>1, <3>2, <3>3, <4>1
    <3>4. \A k \in 1..Len(disk'.cur) : disk'.cur[k] = disk'.out - Len(disk'.cur) + k
      <4> SUFFICES ASSUME NEW k \in 1..Len(disk'.cur)
                   PROVE  disk'.cur[k] = disk'.out - Len(disk'.cur) + k
        OBVIOUS
      <4>1. CASE k = Len(disk.cur) + 1
        <5>1. disk'.cur[k] = disk.out + 1
          BY <3>1, <3>3, <4>1
        <5> QED
          BY <3>1, <3>2, <3>3, <4>1, <5>1
      <4>2. CASE k \in 1..Len(disk.cur)
        <5>1. disk'.cur[k] = disk.cur[k]
          BY <3>1, <3>3, <4>2
        <5>2. disk.cur[k] = disk.out - Len(disk.cur) + k
          BY <2>2, <4>2 DEF Suffix
        <5> QED
          BY <3>8, <5>1, <5>2
      <4> QED
        BY <3>1, <3>3, <4>1, <4>2
    <3>5. \A k \in 1..Len(disk'.old) :
            disk'.old[k] = disk'.out - Len(disk'.cur) - Len(disk'.old) + k
      BY <2>2, <3>2, <3>8 DEF Suffix
    <3>6. "cur" \in disk.has
      BY <2>5 DEF IInv, RestOK, PlaceInv
    <3>7. fs_init' /\ ~append' => pos' = Len(disk'.cur)
      BY <2>2, <2>5, <3>3 DEF DWrite
    <3> QED
      BY <2>1, <2>3, <3>2, <3>4, <3>5, <3>6, <3>7 DEF SuffixInv, Suffix
  <2> QED
    BY <2>4, <2>5
<1> QED
  BY <1>1, <1>2, <1>3, <1>4, <1>5, <1>6 DEF IInv

LEMMA DCommitInv ==
  ASSUME IInv, DCommit
  PROVE  IInv'
<1>1. DiskOK'
  BY LoggerAssumption
  DEF DCommit, daemon, Goto, Commit, IInv,
      DiskOK, DiskType, RestOK, Names
<1>2. HandlesOK'
  BY LoggerAssumption
  DEF DCommit, daemon, Goto, Commit, IInv,
      HandlesOK, RestOK, PlaceInv, Reopening, Used, Free, Names
<1>3. RestOK'
  BY LoggerAssumption
  DEF DCommit, daemon, Goto, Commit, IInv,
      HandlesOK, RestOK, PlaceInv, DiskOK, DiskType, Swaps, Names
<1>4. PlaceInv'
  BY DEF DCommit, daemon, Goto, Commit, IInv,
      DiskOK, DiskType, RestOK, PlaceInv, Reopening
<1>5. GrowInv'
  BY DefaultSwap
  DEF DCommit, daemon, Goto, Commit, IInv,
      DiskOK, DiskType, RestOK, PlaceInv, GrowInv, Short, Counted, Reopening, Pending
<1>6. SuffixInv'
  BY DEF DCommit, daemon, Goto, Commit, IInv,
      DiskOK, DiskType, HandlesOK, RestOK, PlaceInv, SuffixInv, Suffix, Reopening, Names
<1> QED
  BY <1>1, <1>2, <1>3, <1>4, <1>5, <1>6 DEF IInv

LEMMA SetFileSizeInv ==
  ASSUME IInv, SetFileSize
  PROVE  IInv'
<1>1. DiskOK'
  <2>1. PICK n \in FileSizes : Commit([disk EXCEPT !.size = n]) \/ (disk' = disk /\ safe' = safe)
    BY DEF SetFileSize
  <2>2. n \in Swaps
    BY DEF Swaps
  <2>3. CASE Commit([disk EXCEPT !.size = n])
    BY <2>2, <2>3 DEF Commit, IInv, DiskOK, DiskType
  <2> QED
    BY <2>1, <2>3 DEF IInv, DiskOK
<1>2. HandlesOK'
  BY LoggerAssumption
  DEF SetFileSize, daemon, Goto, Commit, IInv,
      HandlesOK, RestOK, PlaceInv, Reopening, Used, Free, Names
<1>3. RestOK'
  BY LoggerAssumption
  DEF SetFileSize, daemon, Goto, Commit, IInv,
      HandlesOK, RestOK, PlaceInv, DiskOK, DiskType, Swaps, Names
<1>4. PlaceInv'
  BY DEF SetFileSize, daemon, Goto, Commit, IInv,
      DiskOK, DiskType, RestOK, PlaceInv, Reopening
<1>5. GrowInv'
  BY DefaultSwap
  DEF SetFileSize, daemon, Goto, Commit, IInv,
      DiskOK, DiskType, RestOK, PlaceInv, GrowInv, Short, Counted, Reopening, Pending
<1>6. SuffixInv'
  <2> SUFFICES ASSUME ~spoilt' PROVE SuffixInv'
    BY DEF SuffixInv
  <2>1. PICK n \in FileSizes : Commit([disk EXCEPT !.size = n]) /\ ~spoilt
    BY DEF SetFileSize
  <2>2. /\ disk'.cur = disk.cur /\ disk'.old = disk.old /\ disk'.out = disk.out
        /\ disk'.has = disk.has /\ safe' = disk'
    BY <2>1 DEF Commit, IInv, DiskOK, DiskType
  <2>3. Suffix(disk)' /\ Suffix(safe)'
    BY <2>1, <2>2 DEF IInv, SuffixInv, Suffix
  <2>4. UNCHANGED <<pc, fs_init, append, pos>>
    BY DEF SetFileSize, daemon
  <2> QED
    BY <2>1, <2>2, <2>3, <2>4 DEF IInv, SuffixInv
<1> QED
  BY <1>1, <1>2, <1>3, <1>4, <1>5, <1>6 DEF IInv

LEMMA GetFileSizeInv ==
  ASSUME IInv, GetFileSize
  PROVE  IInv'
<1>1. DiskOK'
  BY LoadSizeDisk DEF GetFileSize, IInv
<1>2. HandlesOK'
  BY LoggerAssumption
  DEF GetFileSize, LoadSize, daemon, Goto, Commit, IInv,
      HandlesOK, RestOK, PlaceInv, Reopening, Used, Free, Names
<1>3. RestOK'
  <2>1. fs_init' \in BOOLEAN /\ append' \in BOOLEAN /\ spoilt' \in BOOLEAN
    BY DEF GetFileSize, LoadSize, daemon, IInv, RestOK
  <2>2. fs_init' => own'
    BY DEF GetFileSize, LoadSize, daemon, IInv, RestOK, PlaceInv, Reopening
  <2>3. /\ queue' \in 0..QueueLen
        /\ pc' \in {"boot", "open", "stat", "rename", "create", "wait", "output", "write", "commit"}
        /\ then' \in {"wait", "output", "write"}
        /\ svc' \in [op : {"none", "exists", "read"}, name : Names]
    BY LoggerAssumption DEF GetFileSize, LoadSize, daemon, IInv, RestOK, Names
  <2>4. next_swap' \in Swaps /\ current_size' \in Nat /\ pos' \in Nat
    BY LoggerAssumption DEF GetFileSize, LoadSize, daemon, IInv, RestOK, DiskOK, DiskType, Swaps
  <2> QED
    BY <2>1, <2>2, <2>3, <2>4 DEF RestOK
<1>4. PlaceInv'
  BY DEF GetFileSize, LoadSize, daemon, Goto, Commit, IInv,
      DiskOK, DiskType, RestOK, PlaceInv, Reopening
<1>5. GrowInv'
  BY DefaultSwap
  DEF GetFileSize, LoadSize, daemon, Goto, Commit, IInv,
      DiskOK, DiskType, RestOK, PlaceInv, GrowInv, Short, Counted, Reopening, Pending
<1>6. SuffixInv'
  BY DEF GetFileSize, LoadSize, daemon, Goto, Commit, IInv,
      DiskOK, DiskType, HandlesOK, RestOK, PlaceInv, SuffixInv, Suffix, Reopening, Names
<1> QED
  BY <1>1, <1>2, <1>3, <1>4, <1>5, <1>6 DEF IInv

LEMMA FileExistsInv ==
  ASSUME IInv, FileExists
  PROVE  IInv'
<1>1. DiskOK'
  BY FileExistsDisk
<1>2. HandlesOK'
  <2>1. own' = own /\ others' = others /\ own \in BOOLEAN
    BY DEF FileExists, daemon, IInv, HandlesOK
  <2>2. CASE leaked' = leaked
    BY <2>1, <2>2, HandlesAfter DEF IInv
  <2>3. CASE Free /\ leaked' = [leaked EXCEPT ![svc.name] = @ + 1]
    <3>1. svc.name \in Names /\ leaked \in [Names -> Nat]
      BY DEF IInv, RestOK, HandlesOK
    <3>2. /\ leaked' \in [Names -> Nat]
          /\ leaked'["cur"] + leaked'["old"] = leaked["cur"] + leaked["old"] + 1
      BY <2>3, <3>1 DEF Names
    <3>3. /\ leaked["cur"] \in Nat /\ leaked["old"] \in Nat /\ others \in Nat /\ Handles \in Nat
          /\ leaked'["cur"] \in Nat /\ leaked'["old"] \in Nat
      BY <3>1, <3>2, LoggerAssumption DEF IInv, HandlesOK, Names
    <3>4. Used' = Used + 1
      BY <2>1, <3>2, <3>3 DEF Used
    <3>5. Used \in Nat
      BY <3>3 DEF Used
    <3> QED
      BY <2>1, <2>3, <3>2, <3>3, <3>4, <3>5 DEF HandlesOK, IInv, Free
  <2> QED
    BY <2>2, <2>3 DEF FileExists
<1>3. RestOK'
  BY LoggerAssumption
  DEF FileExists, InUse, daemon, Goto, Commit, IInv,
      HandlesOK, RestOK, PlaceInv, DiskOK, DiskType, Swaps, Names
<1>4. PlaceInv'
  BY FileExistsDisk DEF FileExists, daemon, IInv, PlaceInv, Reopening
<1>5. GrowInv'
  <2>1. UNCHANGED <<pc, then, fs_init, append, pos, current_size, own>> /\ Pending' = Pending
    BY DEF FileExists, daemon, Pending, Counted, Reopening
  <2>2. fs_init => own
    BY DEF IInv, RestOK
  <2>3. /\ Short(Len(disk'.cur)) /\ Short(Len(disk'.old))
        /\ Short(Len(safe'.cur)) /\ Short(Len(safe'.old))
    BY FileExistsDisk, ShortZero DEF IInv, GrowInv
  <2> QED
    BY <2>1, <2>2, <2>3, FileExistsDisk DEF IInv, GrowInv, Counted, Reopening
<1>6. SuffixInv'
  <2> SUFFICES ASSUME ~spoilt' PROVE SuffixInv'
    BY DEF SuffixInv
  <2>1. UNCHANGED <<pc, fs_init, append, pos>>
    BY DEF FileExists, daemon
  <2>2. /\ ~spoilt /\ disk'.cur = disk.cur /\ disk'.old = disk.old /\ disk'.out = disk.out
        /\ disk.has \subseteq disk'.has /\ safe' \in {safe, disk'}
    BY FileExistsDisk
  <2>3. Suffix(disk)' /\ Suffix(safe)'
    BY <2>2 DEF IInv, SuffixInv, Suffix
  <2> QED
    BY <2>1, <2>2, <2>3 DEF IInv, SuffixInv
<1> QED
  BY <1>1, <1>2, <1>3, <1>4, <1>5, <1>6 DEF IInv

LEMMA ReadFileInv ==
  ASSUME IInv, ReadFile
  PROVE  IInv'
<1>1. DiskOK'
  BY LoggerAssumption
  DEF ReadFile, daemon, Goto, Commit, IInv,
      DiskOK, DiskType, RestOK, Names
<1>2. HandlesOK'
  <2>1. own' = own /\ others' = others /\ own \in BOOLEAN
    BY DEF ReadFile, daemon, IInv, HandlesOK
  <2>2. CASE leaked' = leaked
    BY <2>1, <2>2, HandlesAfter DEF IInv
  <2>3. CASE Free /\ leaked' = [leaked EXCEPT ![svc.name] = @ + 1]
    <3>1. svc.name \in Names /\ leaked \in [Names -> Nat]
      BY DEF IInv, RestOK, HandlesOK
    <3>2. /\ leaked' \in [Names -> Nat]
          /\ leaked'["cur"] + leaked'["old"] = leaked["cur"] + leaked["old"] + 1
      BY <2>3, <3>1 DEF Names
    <3>3. /\ leaked["cur"] \in Nat /\ leaked["old"] \in Nat /\ others \in Nat /\ Handles \in Nat
          /\ leaked'["cur"] \in Nat /\ leaked'["old"] \in Nat
      BY <3>1, <3>2, LoggerAssumption DEF IInv, HandlesOK, Names
    <3>4. Used' = Used + 1
      BY <2>1, <3>2, <3>3 DEF Used
    <3>5. Used \in Nat
      BY <3>3 DEF Used
    <3> QED
      BY <2>1, <2>3, <3>2, <3>3, <3>4, <3>5 DEF HandlesOK, IInv, Free
  <2> QED
    BY <2>2, <2>3 DEF ReadFile
<1>3. RestOK'
  BY LoggerAssumption
  DEF ReadFile, daemon, Goto, Commit, IInv,
      HandlesOK, RestOK, PlaceInv, DiskOK, DiskType, Swaps, Names
<1>4. PlaceInv'
  BY DEF ReadFile, daemon, Goto, Commit, IInv,
      DiskOK, DiskType, RestOK, PlaceInv, Reopening
<1>5. GrowInv'
  BY DefaultSwap
  DEF ReadFile, daemon, Goto, Commit, IInv,
      DiskOK, DiskType, RestOK, PlaceInv, GrowInv, Short, Counted, Reopening, Pending
<1>6. SuffixInv'
  BY DEF ReadFile, daemon, Goto, Commit, IInv,
      DiskOK, DiskType, HandlesOK, RestOK, PlaceInv, SuffixInv, Suffix, Reopening, Names
<1> QED
  BY <1>1, <1>2, <1>3, <1>4, <1>5, <1>6 DEF IInv

LEMMA OtherInv ==
  ASSUME IInv, Other
  PROVE  IInv'
<1>1. DiskOK'
  BY LoggerAssumption
  DEF Other, daemon, Goto, Commit, IInv,
      DiskOK, DiskType, RestOK, Names
<1>2. HandlesOK'
  BY LoggerAssumption
  DEF Other, daemon, Goto, Commit, IInv,
      HandlesOK, RestOK, PlaceInv, Reopening, Used, Free, Names
<1>3. RestOK'
  BY LoggerAssumption
  DEF Other, daemon, Goto, Commit, IInv,
      HandlesOK, RestOK, PlaceInv, DiskOK, DiskType, Swaps, Names
<1>4. PlaceInv'
  BY DEF Other, daemon, Goto, Commit, IInv,
      DiskOK, DiskType, RestOK, PlaceInv, Reopening
<1>5. GrowInv'
  BY DefaultSwap
  DEF Other, daemon, Goto, Commit, IInv,
      DiskOK, DiskType, RestOK, PlaceInv, GrowInv, Short, Counted, Reopening, Pending
<1>6. SuffixInv'
  <2>1. /\ UNCHANGED <<disk, pc, fs_init, append, pos, spoilt>>
        /\ safe' = disk \/ safe' = safe
    BY DEF Other, daemon, Commit
  <2> QED
    BY <2>1 DEF IInv, SuffixInv, Suffix
<1> QED
  BY <1>1, <1>2, <1>3, <1>4, <1>5, <1>6 DEF IInv

LEMMA ResetInv ==
  ASSUME IInv, Reset
  PROVE  IInv'
<1>1. DiskOK'
  BY LoggerAssumption
  DEF Reset, daemon, Goto, Commit, IInv,
      DiskOK, DiskType, RestOK, Names
<1>2. HandlesOK'
  <2>1. own' = FALSE /\ leaked' = [cur |-> 0, old |-> 0] /\ others' = 0
    BY DEF Reset
  <2>2. leaked' \in [Names -> Nat] /\ Used' = 0
    BY <2>1 DEF Names, Used
  <2>3. own' \in BOOLEAN
    BY <2>1
  <2>4. Used' <= Handles
    BY <2>2, LoggerAssumption
  <2> QED
    BY <2>1, <2>2, <2>3, <2>4 DEF HandlesOK
<1>3. RestOK'
  <2>1. fs_init' \in BOOLEAN /\ append' \in BOOLEAN /\ spoilt' \in BOOLEAN
    BY DEF Reset, IInv, RestOK
  <2>2. fs_init' => own'
    BY DEF Reset, IInv, RestOK, PlaceInv, Reopening
  <2>3. /\ queue' \in 0..QueueLen
        /\ pc' \in {"boot", "open", "stat", "rename", "create", "wait", "output", "write", "commit"}
        /\ then' \in {"wait", "output", "write"}
        /\ svc' \in [op : {"none", "exists", "read"}, name : Names]
    BY LoggerAssumption DEF Reset, IInv, RestOK, Names
  <2>4. next_swap' \in Swaps /\ current_size' \in Nat /\ pos' \in Nat
    BY LoggerAssumption DEF Reset, IInv, RestOK, DiskOK, DiskType, Swaps
  <2> QED
    BY <2>1, <2>2, <2>3, <2>4 DEF RestOK
<1>4. PlaceInv'
  BY DEF Reset, daemon, Goto, Commit, IInv,
      DiskOK, DiskType, RestOK, PlaceInv, Reopening
<1>5. GrowInv'
  <2>1. \E b \in Swaps : 0 <= b
    BY DefaultSwap
  <2> QED
    BY <2>1 DEF Reset, IInv, GrowInv, Counted, Reopening
<1>6. SuffixInv'
  BY DEF Reset, daemon, Goto, Commit, IInv,
      DiskOK, DiskType, HandlesOK, RestOK, PlaceInv, SuffixInv, Suffix, Reopening, Names
<1> QED
  BY <1>1, <1>2, <1>3, <1>4, <1>5, <1>6 DEF IInv

LEMMA InvStep == IInv /\ [Next]_vars => IInv'
<1> SUFFICES ASSUME IInv, [Next]_vars PROVE IInv'
  OBVIOUS
<1>1. CASE SysLog
  BY <1>1, SysLogInv
<1>2. CASE Daemon
  BY <1>2, DConfigInv, DOpenInv, DStatInv, DRenameInv, DCreateInv, DReceiveInv, DCountInv,
     DWriteInv, DCommitInv
  DEF Daemon
<1>3. CASE Service
  BY <1>3, SetFileSizeInv, GetFileSizeInv, FileExistsInv, ReadFileInv DEF Service
<1>4. CASE Other \/ Reset
  BY <1>4, OtherInv, ResetInv
<1>5. CASE UNCHANGED vars
  <2>1. DiskOK' /\ HandlesOK' /\ RestOK'
    BY <1>5 DEF vars, daemon, IInv, DiskOK, HandlesOK, Used, RestOK
  <2>2. PlaceInv' /\ GrowInv' /\ SuffixInv'
    BY <1>5 DEF vars, daemon, IInv, PlaceInv, GrowInv, Pending, Counted, SuffixInv, Suffix
  <2> QED
    BY <2>1, <2>2 DEF IInv
<1> QED
  BY <1>1, <1>2, <1>3, <1>4, <1>5 DEF Next

-----------------------------------------------------------------------------

\* Every variable keeps its type: the queue its length, and the files and the
\* tasks together never hold more handles than there are (logger.c:248,
\* logger_service.c:76).
THEOREM TypeCorrect == Spec => []TypeOK
<1>1. IInv => TypeOK
  BY DEF IInv, DiskOK, DiskType, HandlesOK, RestOK, TypeOK
<1> QED
  BY <1>1, InvInit, InvStep, PTL DEF Spec

\* Neither file reaches twice the largest size that may be set (logger.c:182,
\* 281), whatever is reset or refused.
THEOREM FilesAreShort == Spec => []SizeBounded
<1>1. IInv => SizeBounded
  BY DEF IInv, GrowInv, Short, SizeBounded
<1> QED
  BY <1>1, InvInit, InvStep, PTL DEF Spec

\* Two runs of consecutive numbers that meet make one.
LEMMA Joined ==
  ASSUME NEW s \in Seq(Nat), NEW t \in Seq(Nat), NEW z \in Nat,
         \A k \in 1..Len(t) : t[k] = z - Len(t) + k,
         \A k \in 1..Len(s) : s[k] = z - Len(t) - Len(s) + k
  PROVE  s \o t = [k \in 1..Len(s \o t) |-> z - Len(s \o t) + k]
<1>1. PICK m \in Nat : m = Len(s)
  OBVIOUS
<1>2. PICK n \in Nat : n = Len(t)
  OBVIOUS
<1>3. s \o t \in Seq(Nat) /\ Len(s \o t) = m + n
  BY <1>1, <1>2
<1>4. ASSUME NEW k \in 1..m + n PROVE (s \o t)[k] = z - (m + n) + k
  <2>1. CASE k <= m
    <3>1. k \in 1..m /\ (s \o t)[k] = s[k]
      BY <1>1, <1>2, <2>1
    <3>2. s[k] = z - n - m + k
      BY <1>1, <1>2, <3>1
    <3> QED
      BY <3>1, <3>2
  <2>2. CASE k > m
    <3>1. k - m \in 1..n /\ (s \o t)[k] = t[k - m]
      BY <1>1, <1>2, <2>2
    <3>2. t[k - m] = z - n + (k - m)
      BY <1>2, <3>1
    <3> QED
      BY <3>1, <3>2
  <2> QED
    BY <1>1, <1>2, <2>1, <2>2
<1>5. s \o t = [k \in 1..m + n |-> (s \o t)[k]]
  <2>1. s \o t \in [1..m + n -> Nat]
    BY <1>3, LenProperties
  <2> QED
    BY <2>1
<1> QED
  BY <1>3, <1>4, <1>5

\* The two files are the last messages written, in order, over every rotation
\* and every reset, until a handle is missing (logger.c:188-191, 273-289).
THEOREM LogIsComplete == Spec => []LogIsSuffix
<1>1. ASSUME IInv, ~spoilt
      PROVE  LET log == disk.old \o disk.cur
             IN log = [k \in 1..Len(log) |-> disk.out - Len(log) + k]
  <2>1. /\ disk.cur \in Seq(Nat) /\ disk.old \in Seq(Nat) /\ disk.out \in Nat
        /\ Len(disk.cur) \in Nat /\ Len(disk.old) \in Nat
    BY <1>1, DiskFields, LoggerAssumption DEF IInv, DiskOK
  <2>2. /\ \A k \in 1..Len(disk.cur) : disk.cur[k] = disk.out - Len(disk.cur) + k
        /\ \A k \in 1..Len(disk.old) : disk.old[k] = disk.out - Len(disk.cur) - Len(disk.old) + k
    BY <1>1 DEF IInv, SuffixInv, Suffix
  <2> QED
    BY <2>1, <2>2, Joined
<1>2. IInv => LogIsSuffix
  BY <1>1 DEF LogIsSuffix
<1> QED
  BY <1>2, InvInit, InvStep, PTL DEF Spec
=============================================================================
