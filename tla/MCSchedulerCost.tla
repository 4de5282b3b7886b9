--------------------------- MODULE MCSchedulerCost ---------------------------
(* A negative duration is an ordinary argument of sleep(ms).                *)
EXTENDS SchedulerCost
MCDurations == {-1, 1, 2}
=============================================================================
