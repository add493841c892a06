-------------------------- MODULE CommandSchedule ---------------------------
(***************************************************************************)
(* What the command scheduler promises, without tasks, file or mutex: a    *)
(* bag of commands that the ground replaces or clears and that fire in the *)
(* order of their times, each once, or once per period.                    *)
(*                                                                         *)
(* A reset of the computer brings back the saved bag.  When an update was  *)
(* settled that is the schedule itself.  While one is under way it is what *)
(* the schedule was before, so that a command fires again, or a part of    *)
(* the new one, so that commands are lost: the scheduler promises neither  *)
(* at-most-once nor at-least-once across a reset, and exactly once without *)
(***************************************************************************)
EXTENDS Integers, Bags

CONSTANTS Command,   \* every command that can be scheduled
          TimeWrap   \* width of a Unix time

VARIABLES sched,     \* the bag of commands to fire
          saved,     \* the bag a reset brings back
          update     \* the update under way: "none", "upload" or "dispatch"

avars == <<sched, saved, update>>

Init == sched = EmptyBag /\ saved = EmptyBag /\ update = "none"

\* The ground uploads a new schedule.
Replace ==
  /\ update = "none" /\ update' = "upload"
  /\ BagToSet(sched') \subseteq Command
  /\ UNCHANGED saved

\* The ground deletes the schedule: at once, also from what a reset finds.
Clear == update = "none" /\ sched' = EmptyBag /\ saved' = EmptyBag /\ UNCHANGED update

Earliest(c) == \A d \in BagToSet(sched) : c.next <= d.next

\* The occurrence after this one, if there is one.
Again(c) ==
  LET n == (c.next + c.period) % TimeWrap
  IN  IF c.period > 0 /\ (c.last = 0 \/ n <= c.last)
      THEN SetToBag({[c EXCEPT !.next = n]}) ELSE EmptyBag

Fire(c) ==
  /\ update = "none" /\ update' = "dispatch"
  /\ c \in BagToSet(sched) /\ Earliest(c)
  /\ sched' = (sched (-) SetToBag({c})) (+) Again(c)
  /\ UNCHANGED saved

\* Part of an update becomes durable.
SavePart ==
  /\ update # "none"
  /\ saved' \sqsubseteq sched
  /\ UNCHANGED <<sched, update>>

Settle == update # "none" /\ update' = "none" /\ saved' = sched /\ UNCHANGED sched

Reset == sched' = saved /\ update' = "none" /\ UNCHANGED saved

Next ==
  \/ Replace \/ Clear
  \/ \E c \in BagToSet(sched) : Fire(c)
  \/ SavePart \/ Settle \/ Reset

Spec == Init /\ [][Next]_avars
=============================================================================
