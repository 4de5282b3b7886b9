----------------------------- MODULE MCScheduler -----------------------------
(* Three tasks: two of them can await each other while the third sleeps.   *)
EXTENDS SchedulerBypass, SchedulerFutures
=============================================================================
