---------------------------- MODULE SchedulerCost ----------------------------
(***************************************************************************)
(* What waiting costs.  On an ideal host, where computing takes no time    *)
(* and the clock is exact (Slack = 0, no Tick), path[t] is the length of   *)
(* the longest chain of sleeps and awaits that leads to where t stands:    *)
(* a sleep adds its duration, a spawned task starts on its spawner's path, *)
(* an await joins the path of the task whose result it obtains.            *)
(***************************************************************************)
EXTENDS Scheduler

VARIABLE path

cvars == <<vars, path>>

CostInit == Init /\ path = [t \in TaskId |-> 0]

Extend(t, d) == path' = [path EXCEPT ![t] = IF d > 0 THEN @ + d ELSE @]
Start(t)     == path' = [path EXCEPT ![t] = path[cur]]
Join(f)      == path' = [path EXCEPT ![cur] = IF path[f] > @ THEN path[f] ELSE @]

CostNext ==
  \/ Spawn /\ Start(n)
  \/ \E f \in TaskId : AwaitDone(f) /\ Join(f)
  \/ \E d \in Durations : (SleepYield(d) \/ SleepAlone(d)) /\ Extend(cur, d)
  \/ /\ Call \/ Return \/ RetEntry \/ Halt \/ Fatal \/ Ended \/ AwaitSelf
          \/ \E f \in TaskId : AwaitBlock(f)
     /\ UNCHANGED path

CostSpec == CostInit /\ [][CostNext]_cvars

\* "This is what makes a fan-out of sleeps cost the LONGEST one instead of
\* their sum" (main.go:1143-1145): whenever a task runs, the time elapsed is
\* exactly its longest chain of sleeps; no switch, wake or join adds to it.
WaitingOverlaps ==
  Running /\ ws.pend = None => now = path[cur]
=============================================================================
