--------------------------- MODULE SchedulerBypass ---------------------------
(***************************************************************************)
(* How long a task that could run is kept waiting.  A history variable is  *)
(* added to the scheduler: skips[t] counts the switches, since t was last  *)
(* resumed or last unable to run, that took another task although t was    *)
(* ready when the yielding instruction was executed.                       *)
(***************************************************************************)
EXTENDS Scheduler

VARIABLE skips

bvars == <<vars, skips>>

BypassInit == Init /\ skips = [t \in TaskId |-> 0]

\* In a step that switches, t was passed over if it was ready and not taken.
PassedOver(t) == t < n /\ t # cur' /\ Ready(tasks', t, now)

CountSkips ==
  skips' = [t \in TaskId |->
             IF status' = "run" /\ PassedOver(t) THEN skips[t] + 1 ELSE 0]

Staying ==
  \/ Tick \/ Call \/ Return \/ ReturnMain \/ Halt \/ Spawn \/ Fatal \/ Ended
  \/ AwaitSelf \/ (\E f \in TaskId : AwaitDone(f))
  \/ \E d \in Durations : SleepAlone(d)

BypassNext == \/ Switching /\ CountSkips
              \/ Staying /\ UNCHANGED skips

BypassSpec == BypassInit /\ [][BypassNext]_bvars

\* With the fairness of a cooperative scheduler, for the liveness properties.
FairBypassSpec == BypassSpec /\ Fairness

\* "round-robin from the task after the current one" (main.go:1124): a task
\* that can run is passed over at most len(tasks) - 1 times before it runs,
\* however the other tasks sleep, wake and finish meanwhile.
BoundedBypass == \A t \in 0 .. n - 1 : skips[t] < n

\* Why: each switch that passes over t brings the current task closer to it.
SkipsPlusOffset == \A t \in 0 .. n - 1 : skips[t] + Offset(t) <= n
=============================================================================
