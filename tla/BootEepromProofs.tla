-------------------------- MODULE BootEepromProofs --------------------------
(***************************************************************************)
(* The flag of LEOP is true, for every number of deployables and attempts  *)
(* and every pattern of resets.                                            *)
(***************************************************************************)
EXTENDS BootEeprom, TLAPS

Places == {"look", "deploy", "flag", "running"}

\* The inductive strengthening: while the init task deploys, the flag is not
\* set and everything before dep was deployed since the task started.
LeopInv ==
  /\ dep \in Nat \ {0}
  /\ DOMAIN pc = {"init"} \cup Tasks
  /\ pc["init"] \in Places
  /\ pc["init"] = "deploy" => leop # "done" /\ 1..(dep - 1) \subseteq deployed
  /\ pc["init"] = "flag" => leop # "done" /\ 1..Deployables \subseteq deployed
  /\ leop = "done" => 1..Deployables \subseteq deployed

LEMMA LeopInvInit == Init => LeopInv
  BY DEF Init, LeopInv, Tasks, Rebooters, Places

\* No step of another task moves the init task or touches what it keeps.
LEMMA InfoKeepsLeop ==
  ASSUME LeopInv, NEW t \in Tasks,
         Request(t) \/ ReadInfo(t) \/ EraseInfo(t) \/ ProgramInfo(t) \/ CounterWakes
  PROVE  LeopInv'
<1>1. UNCHANGED <<leop, dep, deployed>>
  BY DEF Request, ReadInfo, EraseInfo, ProgramInfo, CounterWakes
<1>2. PICK s \in Tasks : \E where : Goto(s, where)
  BY DEF Request, ReadInfo, EraseInfo, ProgramInfo, CounterWakes, Tasks, Rebooters
<1>3. pc'["init"] = pc["init"] /\ DOMAIN pc' = DOMAIN pc
  BY <1>2 DEF Goto, LeopInv, Tasks, Rebooters
<1> QED
  BY <1>1, <1>3 DEF LeopInv

\* After a reset the init task looks at the flag again.
LEMMA RestartKeepsLeop ==
  ASSUME LeopInv, NEW i, Restart(i)
  PROVE  LeopInv'
<1>1. pc'["init"] = "look" /\ DOMAIN pc' = {"init"} \cup Tasks
  BY DEF Restart, Tasks, Rebooters
<1> QED
  BY <1>1 DEF Restart, LeopInv, Places

LEMMA LeopStep ==
  ASSUME LeopInv, Deployables \in Nat, Leop
  PROVE  LeopInv'
<1>1. CASE Look
  <2>1. \/ pc'["init"] = "running"
        \/ pc'["init"] = "deploy" /\ leop' # "done"
    <3>1. "init" \in DOMAIN pc
      BY DEF LeopInv
    <3> QED
      BY <1>1, <3>1 DEF Look, Goto
  <2>2. DOMAIN pc' = DOMAIN pc /\ dep' = 1 /\ deployed' = deployed
    BY <1>1 DEF Look, Goto
  <2>3. 1..(dep' - 1) = {}
    BY <2>2
  <2>4. leop' = "done" => leop = "done"
    BY <1>1 DEF Look
  <2> QED
    BY <2>1, <2>2, <2>3, <2>4 DEF LeopInv, Places
<1>2. CASE Heat
  BY <1>2 DEF Heat, LeopInv
<1>3. CASE NextDeployable
  <2>1. 1..(dep' - 1) \subseteq deployed'
    <3>1. dep \in Nat \ {0} /\ dep' = dep + 1 /\ deployed' = deployed \cup {dep}
      BY <1>3 DEF NextDeployable, LeopInv
    <3>2. 1..(dep' - 1) = 1..(dep - 1) \cup {dep}
      BY <3>1
    <3>3. 1..(dep - 1) \subseteq deployed
      BY <1>3 DEF NextDeployable, LeopInv
    <3> QED
      BY <3>1, <3>2, <3>3
  <2>2. dep' \in Nat \ {0} /\ UNCHANGED <<pc, leop>> /\ deployed \subseteq deployed'
    BY <1>3 DEF NextDeployable, LeopInv
  <2> QED
    BY <2>1, <2>2 DEF LeopInv
<1>4. CASE EraseFlag
  <2>1. 1..Deployables \subseteq 1..(dep - 1)
    BY <1>4 DEF EraseFlag, LeopInv
  <2>2. pc'["init"] = "flag" /\ DOMAIN pc' = DOMAIN pc
    BY <1>4 DEF EraseFlag, Goto, LeopInv
  <2> QED
    BY <1>4, <2>1, <2>2 DEF EraseFlag, LeopInv, Places
<1>5. CASE ProgramFlag
  <2>1. pc'["init"] = "running" /\ DOMAIN pc' = DOMAIN pc
    BY <1>5 DEF ProgramFlag, Goto, LeopInv
  <2> QED
    BY <1>5, <2>1 DEF ProgramFlag, LeopInv, Places
<1> QED
  BY <1>1, <1>2, <1>3, <1>4, <1>5 DEF Leop

\* The flag is only set after everything was deployed, and is never
\* followed by another deployment, whatever resets come and when (leop.c:
\* 113-120).
THEOREM FlagIsTrue ==
  ASSUME Deployables \in Nat
  PROVE  Spec => []DeployedBeforeFlag
<1>1. LeopInv /\ [Next]_vars => LeopInv'
  <2> SUFFICES ASSUME LeopInv, [Next]_vars PROVE LeopInv'
    OBVIOUS
  <2>1. CASE Leop
    BY <2>1, LeopStep
  <2>2. CASE BootInfo
    <3>1. CASE Abort
      BY <3>1, RestartKeepsLeop DEF Abort
    <3>2. CASE \E t \in Tasks : SwReset(t)
      BY <3>2, RestartKeepsLeop DEF SwReset
    <3>3. CASE CounterWakes
      BY <3>3, InfoKeepsLeop DEF Tasks
    <3>4. CASE \E t \in Tasks : Request(t) \/ ReadInfo(t) \/ EraseInfo(t) \/ ProgramInfo(t)
      BY <3>4, InfoKeepsLeop
    <3> QED
      BY <2>2, <3>1, <3>2, <3>3, <3>4 DEF BootInfo
  <2>3. CASE Reset
    BY <2>3, RestartKeepsLeop DEF Reset
  <2>4. CASE UNCHANGED vars
    BY <2>4 DEF vars, LeopInv
  <2> QED
    BY <2>1, <2>2, <2>3, <2>4 DEF Next
<1>2. LeopInv => DeployedBeforeFlag
  BY DEF LeopInv, DeployedBeforeFlag, Places
<1> QED
  BY <1>1, <1>2, LeopInvInit, PTL DEF Spec
=============================================================================
