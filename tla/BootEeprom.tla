----------------------------- MODULE BootEeprom -----------------------------
(***************************************************************************)
(* What outlives a reset in the flash that emulates an EEPROM: whether the *)
(* antennas were deployed (LEOP), and what the bootloader is to start.     *)
(*                                                                         *)
(*  - The INIT task ("init", execute_leop) deploys unless the flag is set, *)
(*    which takes minutes, and sets the flag.  Only then the others start. *)
(*  - The boot COUNTER task ("counter", boot_counter_reset) clears the     *)
(*    number of boot attempts ten minutes later.                           *)
(*  - The GENERAL service ("general") and the command line's task          *)
(*    ("rebooter") reboot to the mode the ground asked for (sw_reset).     *)
(*                                                                         *)
(* A block is erased, then programmed (eeprom_write), with no lock.  The   *)
(* counter and the service have the same priority and share the processor  *)
(* in time slices; the command line's task has a higher one and, when its  *)
(* wait is over, lets neither run.  A reset may come at any moment.        *)
(***************************************************************************)
EXTENDS Naturals

CONSTANTS
  Deployables,   \* 5: the magnetometer's boom and four antennas, in order
  Attempts,      \* MAX_ATTEMPTS, 5: how often each burnwire is heated
  Modes,         \* what may be booted
  MaxBoots       \* bound: boot attempts counted

VARIABLES
  leop,      \* the LEOP block: "blank", "new" (flag not set) or "done"
  info,      \* the boot information block
  pc,        \* where each task is
  copy,      \* its copy of the boot information
  want,      \* the mode it reboots to
  dep, heat, \* what is being deployed, and how often it was heated
  deployed   \* auxiliary: what was heated Attempts times in one go

vars == <<leop, info, pc, copy, want, dep, heat, deployed>>

Rebooters == {"general", "rebooter"}
Tasks == Rebooters \cup {"counter"}

Blank == [type |-> "blank", attempts |-> 0, reason |-> "none"]

Goto(t, where) == pc' = [pc EXCEPT ![t] = where]

-----------------------------------------------------------------------------
(* execute_leop.                                                           *)

\* eeprom_get_leop_status: a block that was never written is initialised.
Look ==
  /\ pc["init"] = "look"
  /\ \/ leop = "done" /\ Goto("init", "running") /\ UNCHANGED leop
     \/ leop = "new" /\ Goto("init", "deploy") /\ UNCHANGED leop
     \/ leop = "blank" /\ leop' = "new" /\ Goto("init", "deploy")
  /\ dep' = 1 /\ heat' = 0
  /\ UNCHANGED <<info, copy, want, deployed>>

\* deploy: a burnwire is heated and given 20 s, Attempts times.
Heat ==
  /\ pc["init"] = "deploy" /\ dep <= Deployables /\ heat < Attempts
  /\ heat' = heat + 1
  /\ UNCHANGED <<leop, info, pc, copy, want, dep, deployed>>

NextDeployable ==
  /\ pc["init"] = "deploy" /\ dep <= Deployables /\ heat = Attempts
  /\ deployed' = deployed \cup {dep} /\ dep' = dep + 1 /\ heat' = 0
  /\ UNCHANGED <<leop, info, pc, copy, want>>

\* eeprom_set_leop_status.
EraseFlag ==
  /\ pc["init"] = "deploy" /\ dep > Deployables
  /\ leop' = "blank" /\ Goto("init", "flag")
  /\ UNCHANGED <<info, copy, want, dep, heat, deployed>>

ProgramFlag ==
  /\ pc["init"] = "flag" /\ leop' = "done" /\ Goto("init", "running")
  /\ UNCHANGED <<info, copy, want, dep, heat, deployed>>

Leop == Look \/ Heat \/ NextDeployable \/ EraseFlag \/ ProgramFlag

-----------------------------------------------------------------------------
(* The boot information.                                                   *)

\* The command line's task is not preempted by the others.
Scheduled(t) == t # "rebooter" => pc["rebooter"] \in {"idle", "read"}

\* A reboot is requested; the command line's task waits three seconds first.
Request(t) ==
  /\ t \in Rebooters /\ pc["init"] = "running" /\ pc[t] = "idle" /\ Scheduled(t)
  /\ \E m \in Modes : want' = [want EXCEPT ![t] = m]
  /\ Goto(t, "read")
  /\ UNCHANGED <<leop, info, copy, dep, heat, deployed>>

\* The ten minutes of the counter are over.
CounterWakes ==
  /\ pc["init"] = "running" /\ pc["counter"] = "idle" /\ Scheduled("counter")
  /\ Goto("counter", "read")
  /\ UNCHANGED <<leop, info, copy, want, dep, heat, deployed>>

\* sw_reset changes the mode, the reason and the attempts of what it read,
\* boot_counter_reset the attempts.
ReadInfo(t) ==
  /\ pc[t] = "read" /\ Scheduled(t) /\ Goto(t, "erase")
  /\ copy' = [copy EXCEPT ![t] =
       IF t = "counter" THEN [info EXCEPT !.attempts = 0]
       ELSE [type |-> want[t], attempts |-> 0, reason |-> "requested"]]
  /\ UNCHANGED <<leop, info, want, dep, heat, deployed>>

EraseInfo(t) ==
  /\ pc[t] = "erase" /\ Scheduled(t) /\ info' = Blank /\ Goto(t, "program")
  /\ UNCHANGED <<leop, copy, want, dep, heat, deployed>>

ProgramInfo(t) ==
  /\ pc[t] = "program" /\ Scheduled(t) /\ info' = copy[t]
  /\ Goto(t, IF t = "counter" THEN "over" ELSE "reset")
  /\ UNCHANGED <<leop, copy, want, dep, heat, deployed>>

\* RAM is lost, and the bootloader counts the attempt.
Restart(i) ==
  /\ info' = [i EXCEPT !.attempts = IF @ < MaxBoots THEN @ + 1 ELSE @]
  /\ pc' = [t \in {"init"} \cup Tasks |-> IF t = "init" THEN "look" ELSE "idle"]
  /\ copy' = [t \in Tasks |-> Blank]
  /\ UNCHANGED <<leop, want, dep, heat, deployed>>

\* The reset that sw_reset causes.
SwReset(t) == pc[t] = "reset" /\ Scheduled(t) /\ Restart(info)

\* sw_reset('A', DABORT), after a stack overflow: no other task runs.
Abort == pc["init"] = "running" /\ Restart([info EXCEPT !.type = "A", !.reason = "abort"])

\* The watchdog, the power, the ground's hard reset.
Reset == Restart(info)

BootInfo ==
  \/ CounterWakes \/ Abort
  \/ \E t \in Tasks : Request(t) \/ ReadInfo(t) \/ EraseInfo(t) \/ ProgramInfo(t) \/ SwReset(t)

-----------------------------------------------------------------------------

Init ==
  /\ leop = "blank" /\ info = [type |-> "A", attempts |-> 0, reason |-> "none"]
  /\ pc = [t \in {"init"} \cup Tasks |-> IF t = "init" THEN "look" ELSE "idle"]
  /\ copy = [t \in Tasks |-> Blank] /\ want = [t \in Rebooters |-> "A"]
  /\ dep = 1 /\ heat = 0 /\ deployed = {}

Next == Leop \/ BootInfo \/ Reset

Spec == Init /\ [][Next]_vars

-----------------------------------------------------------------------------
(* Properties.                                                             *)

\* The flag is only ever set after every deployable was heated as often as it
\* should in one go (leop.c:117-119), whatever resets came before and
\* between; and once it is set, LEOP deploys nothing again (leop.c:114).
DeployedBeforeFlag ==
  leop = "done" =>
    /\ 1..Deployables \subseteq deployed
    /\ pc["init"] \in {"look", "running"}

\* When a task is about to reset the computer, the boot information names the
\* mode it was asked for (cli.c:304; bl_eeprom.c:24-28).
RebootsToMode ==
  \A t \in Rebooters : pc[t] = "reset" => info.type = want[t]
=============================================================================
