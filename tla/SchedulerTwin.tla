---------------------------- MODULE SchedulerTwin ----------------------------
(***************************************************************************)
(* One program on two hosts.  Both start together and execute the same     *)
(* instruction of the same task at each step; only the time the running    *)
(* task takes (Tick) and the clock readings differ from one to the other.  *)
(***************************************************************************)
EXTENDS Integers

CONSTANTS MaxTasks, MaxDepth, MaxTime, Durations, Results, NoResult, Slack

VARIABLES nA, tasksA, curA, wsA, nowA, statusA,
          nB, tasksB, curB, wsB, nowB, statusB

A == INSTANCE Scheduler WITH n <- nA, tasks <- tasksA, cur <- curA,
                             ws <- wsA, now <- nowA, status <- statusA
B == INSTANCE Scheduler WITH n <- nB, tasks <- tasksB, cur <- curB,
                             ws <- wsB, now <- nowB, status <- statusB

tvars == <<nA, tasksA, curA, wsA, nowA, statusA,
           nB, tasksB, curB, wsB, nowB, statusB>>

TwinInit == A!Init /\ B!Init

\* The current instruction is the same on both hosts as long as they agree
\* on the task that runs.
SameInstruction ==
  /\ curA = curB
  /\ \/ A!Spawn /\ B!Spawn
     \/ \E f \in A!TaskId : A!AwaitBlock(f) /\ B!AwaitBlock(f)
     \/ \E f \in A!TaskId : A!AwaitDone(f) /\ B!AwaitDone(f)
     \/ \E d \in Durations : A!SleepYield(d) /\ B!SleepYield(d)
     \/ \E d \in Durations : A!SleepAlone(d) /\ B!SleepAlone(d)
     \/ \E v \in Results : A!Finish(v) /\ B!Finish(v)
     \/ A!ReturnMain /\ B!ReturnMain

TwinNext ==
  \/ SameInstruction
  \/ A!Tick /\ UNCHANGED <<nB, tasksB, curB, wsB, nowB, statusB>>
  \/ B!Tick /\ UNCHANGED <<nA, tasksA, curA, wsA, nowA, statusA>>

TwinSpec == TwinInit /\ [][TwinNext]_tvars

\* "tasks run in spawn order and the schedule does not depend on the host"
\* (main.go:1125), "so a program prints the same thing every run"
\* (main.go:663): the two hosts always run the same task.
ScheduleIndependentOfHost == curA = curB /\ statusA = statusB
=============================================================================
