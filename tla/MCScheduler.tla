---------------------------- MODULE MCScheduler -----------------------------
(* Small instances of the command scheduler for TLC.                       *)
EXTENDS SchedulerRefinement

CONSTANTS a, b, d   \* two commands for other tasks, and a scheduled deletion

MCIds == {a, b, d}
MCSelfIds == {d}

Once(i, t) == [id |-> i, next |-> t, period |-> 0, last |-> 0]
Every(i, t, p, l) == [id |-> i, next |-> t, period |-> p, last |-> l]

\* Unsorted commands, one so far ahead that its wait is negative, one that
\* repeats and expires, and a scheduled deletion.
SafetyUploads ==
  {<<Once(b, 12), Once(a, 1)>>, <<Every(a, 2, 1, 3)>>, <<Once(d, 1), Once(b, 1), Once(a, 2)>>}

\* Commands far enough apart for the waits to wrap, several due at once, and a
\* deletion sent by the daemon itself.
TimingUploads ==
  {<<Once(b, 9), Once(a, 1)>>, <<Every(a, 2, 3, 6), Once(b, 2)>>, <<Once(a, 2), Once(d, 1)>>}
=============================================================================
