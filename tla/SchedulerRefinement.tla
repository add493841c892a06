------------------------ MODULE SchedulerRefinement -------------------------
(***************************************************************************)
(* The two tasks of Scheduler implement CommandSchedule.  An update takes  *)
(* effect when the file is truncated (an upload) or when the command is    *)
(* handed to the network (a dispatch), and is settled when red_close makes *)
(* a transaction point; in between, the schedule is what the file will     *)
(* hold.                                                                   *)
(***************************************************************************)
EXTENDS Scheduler, Bags

BagOf(cmds) ==
  [c \in {cmds[i] : i \in DOMAIN cmds} |-> Cardinality({i \in DOMAIN cmds : cmds[i] = c})]

\* The commands the file holds once the update under way is complete.
Effective ==
  CASE spc = "write" -> file.cmds \o scmds
    [] dpc \in {"await", "update"} -> NextOccurrence(dcmd) \o Tail(file.cmds)
    [] dpc = "rewrite" -> file.cmds \o dcmds
    [] OTHER -> file.cmds

UnderWay ==
  CASE spc = "write" -> "upload"
    [] dpc \in {"await", "update", "rewrite"} -> "dispatch"
    [] OTHER -> "none"

Abstract == INSTANCE CommandSchedule
  WITH Command <- Cmd, sched <- BagOf(Effective), saved <- BagOf(disk.cmds),
       update <- UnderWay

\* Without I/O errors the scheduler is a CommandSchedule: each command fires
\* once per occurrence and in order whatever the tasks, other tasks'
\* transaction points and resets do, and a reset undoes or tears only the
\* update that was under way.
ImplementsCommandSchedule == Abstract!Spec
=============================================================================
