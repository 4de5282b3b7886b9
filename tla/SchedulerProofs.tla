--------------------------- MODULE SchedulerProofs ---------------------------
(***************************************************************************)
(* The safety properties of the scheduler, for every number of tasks,      *)
(* call depth, clock bound, set of sleep durations and clock slack.        *)
(*                                                                         *)
(* The inductive invariant is a statement about parked task structs, made  *)
(* for an arbitrary array ts of them so that it also covers the array a    *)
(* yielding instruction hands to pick: what ready() reads of each task is  *)
(* what that task will execute when load() installs its working set.       *)
(* The same shape serves the other two specifications: the abstract one of *)
(* futures, and the cost of waiting on an ideal host, where a parked task  *)
(* is never behind the clock it will be resumed at.                        *)
(***************************************************************************)
EXTENDS SchedulerBypass, SchedulerCost, SchedulerFutures, TLAPS

\* A task struct whose working set is not installed in run()'s locals.
ParkedTask(ts, t) ==
  ~ts[t].done =>
    /\ ts[t].awaiting = ts[t].saved.pend
    /\ ts[t].awaiting \in {None} \cup 0 .. n - 1
    /\ ts[t].awaiting # t
    /\ ts[t].sleeping => ts[t].awaiting = None
    /\ ~ts[t].sleeping => ts[t].wakeAt <= now

Parked(ts) ==
  /\ ts \in [TaskId -> Task]
  /\ ~ts[0].done
  /\ \A t \in 0 .. n - 1 : ParkedTask(ts, t)
  /\ \A t \in 0 .. n - 1 : ts[t].sleeping => ts[t].awaiting = None

\* The running task's struct, and the working set in run()'s locals.
RunningTask ==
  /\ ~tasks[cur].done
  /\ ~tasks[cur].sleeping
  /\ tasks[cur].wakeAt <= now
  /\ tasks[cur].awaiting = ws.pend
  /\ ws.pend # None => /\ ws.pend \in 0 .. n - 1
                       /\ ws.pend # cur
                       /\ tasks[ws.pend].done

\* The inductive invariant.
IInv ==
  /\ TypeOK
  /\ ~tasks[0].done
  /\ Running => RunningTask
  /\ \A t \in 0 .. n - 1 : tasks[t].sleeping => tasks[t].awaiting = None
  /\ Running => \A t \in 0 .. n - 1 : t # cur => ParkedTask(tasks, t)
  /\ status = "deadlock" =>
       /\ Parked(tasks)
       /\ NoneReady(tasks, now)
       /\ Sleepers(tasks) = {}

-----------------------------------------------------------------------------

\* pick, load and deadlock preserve the invariant, whatever yielding
\* instruction parked the current task (main.go:1127-1172).
LEMMA SwitchPreserves ==
  ASSUME TypeOK, status = "run",
         NEW ts, Parked(ts), Switch(ts)
  PROVE  IInv'
<1>n. n' = n
  BY DEF Switch
<1>t. /\ n \in 1 .. MaxTasks /\ MaxTasks \in Nat /\ MaxTime \in Nat
      /\ cur \in 0 .. n - 1 /\ now \in 0 .. MaxTime
      /\ 0 .. n - 1 \subseteq TaskId /\ 0 \in 0 .. n - 1
      /\ ts \in [TaskId -> Task]
  BY SchedulerAssumption DEF TypeOK, TaskId, Parked
<1>w. \A t \in 0 .. n - 1 : /\ ts[t] \in Task /\ ts[t].wakeAt \in Int
                            /\ ts[t].saved \in WorkingSet
  BY <1>t DEF Task
<1>1. ASSUME NEW t \in 0 .. n - 1, NEW t0 \in Int, NEW t1 \in Int,
             now <= t0, t0 <= t1, t1 <= MaxTime,
             Scan(ts, t0, t1, t), Resume(ts, t, t1)
      PROVE  IInv'
  <2>1. Ready(ts, t, t1)
    BY <1>1 DEF Scan
  <2>2. /\ cur' = t /\ now' = t1 /\ status' = "run" /\ ws' = ts[t].saved
        /\ tasks' = [ts EXCEPT ![t].sleeping = FALSE]
    BY <1>1 DEF Resume
  <2>3. [ts[t] EXCEPT !.sleeping = FALSE] \in Task
    BY <1>w DEF Task
  <2>4. tasks' \in [TaskId -> Task]
    BY <1>t, <2>2, <2>3
  <2>5. /\ tasks'[t].done = ts[t].done /\ tasks'[t].wakeAt = ts[t].wakeAt
        /\ tasks'[t].awaiting = ts[t].awaiting /\ ~tasks'[t].sleeping
    BY <1>t, <1>w, <2>2 DEF Task
  <2>a. \A u \in TaskId : u # t => tasks'[u] = ts[u]
    BY <1>t, <2>2
  <2>b. \A u \in TaskId : tasks'[u].done = ts[u].done
    BY <2>5, <2>a
  <2>6. TypeOK'
    <3>1. now' \in 0 .. MaxTime
      BY <1>t, <1>1, <2>2
    <3> QED
      BY <1>n, <1>t, <1>w, <2>2, <2>4, <3>1 DEF TypeOK
  <2>7. ParkedTask(ts, t) /\ ~ts[t].done
    BY <1>1, <2>1 DEF Parked, Ready
  <2>8. RunningTask'
    <3>2. ts[t].wakeAt <= t1
      <4>1. CASE ts[t].sleeping
        BY <4>1, <2>1 DEF Ready
      <4>2. CASE ~ts[t].sleeping
        <5>1. ts[t].wakeAt <= now
          BY <4>2, <2>7 DEF ParkedTask
        <5> QED
          BY <5>1, <1>t, <1>w, <1>1
      <4> QED
        BY <4>1, <4>2
    <3>3. ts[t].awaiting # None => ts[ts[t].awaiting].done
      BY <2>1, <2>7 DEF Ready, ParkedTask
    <3>4. ws'.pend = ts[t].awaiting
      BY <2>2, <2>7 DEF ParkedTask
    <3>5. ws'.pend # None => ws'.pend \in 0 .. n - 1 /\ ws'.pend # t
      BY <3>4, <2>7 DEF ParkedTask
    <3>6. ws'.pend # None => tasks'[ws'.pend].done
      BY <3>3, <3>4, <3>5, <1>t, <2>b
    <3> QED
      BY <1>n, <2>2, <2>5, <2>7, <3>2, <3>4, <3>5, <3>6 DEF RunningTask
  <2>9. \A u \in 0 .. n - 1 : tasks'[u].sleeping => tasks'[u].awaiting = None
    BY <1>t, <2>5, <2>a DEF Parked
  <2>10. ASSUME NEW u \in 0 .. n - 1, u # t
         PROVE  ParkedTask(tasks, u)'
    <3>1. tasks'[u] = ts[u] /\ ts[u].wakeAt \in Int
      BY <1>t, <1>w, <2>a, <2>10
    <3>2. ParkedTask(ts, u)
      BY DEF Parked
    <3>3. ts[u].wakeAt <= now => ts[u].wakeAt <= now'
      BY <1>1, <1>t, <2>2, <3>1
    <3> QED
      BY <1>n, <3>1, <3>2, <3>3 DEF ParkedTask
  <2>11. ~tasks'[0].done
    BY <1>t, <2>b DEF Parked
  <2> QED
    BY <1>n, <2>2, <2>6, <2>8, <2>9, <2>10, <2>11 DEF IInv
<1>2. CASE PickReady(ts)
  <2>1. PICK t \in 0 .. n - 1, t1 \in Until(now) :
          Scan(ts, now, t1, t) /\ Resume(ts, t, t1)
    BY <1>2 DEF PickReady
  <2>2. now \in Int /\ now <= now /\ t1 \in Int /\ now <= t1 /\ t1 <= MaxTime
    BY <1>t, SchedulerAssumption DEF Until
  <2> QED
    BY <1>1, <2>1, <2>2
<1>3. CASE PickSleeper(ts)
  <2>1. PICK s \in Sleepers(ts) :
          \E t \in 0 .. n - 1, t1 \in Until(ts[s].wakeAt) :
            Scan(ts, ts[s].wakeAt, t1, t) /\ Resume(ts, t, t1)
    BY <1>3 DEF PickSleeper
  <2>2. PICK t \in 0 .. n - 1, t1 \in Until(ts[s].wakeAt) :
          Scan(ts, ts[s].wakeAt, t1, t) /\ Resume(ts, t, t1)
    BY <2>1
  <2>3. s \in 0 .. n - 1 /\ ~ts[s].done /\ ts[s].sleeping /\ ~Ready(ts, s, now)
    BY <1>3, <2>1 DEF PickSleeper, Sleepers, NoneReady
  <2>4. ts[s].wakeAt \in Int /\ now \in Int
    BY <1>t, <1>w, <2>3
  <2>5. now <= ts[s].wakeAt
    BY <2>3, <2>4 DEF Ready
  <2>6. t1 \in Int /\ ts[s].wakeAt <= t1 /\ t1 <= MaxTime
    BY SchedulerAssumption, <2>4 DEF Until
  <2> QED
    BY <1>1, <2>2, <2>4, <2>5, <2>6
<1>4. CASE Deadlock(ts)
  <2>1. /\ tasks' = ts /\ cur' = cur /\ now' = now /\ status' = "deadlock"
        /\ ws' = ts[cur].saved /\ NoneReady(ts, now) /\ Sleepers(ts) = {}
    BY <1>4 DEF Deadlock
  <2>3. TypeOK'
    BY <1>n, <1>t, <1>w, <2>1 DEF TypeOK
  <2>4. Parked(tasks)' /\ NoneReady(tasks, now)' /\ Sleepers(tasks)' = {}
    BY <1>n, <2>1 DEF Parked, ParkedTask, NoneReady, Sleepers, Ready
  <2> QED
    BY <2>1, <2>3, <2>4 DEF IInv, Parked, Running
<1> QED
  BY <1>2, <1>3, <1>4 DEF Switch

-----------------------------------------------------------------------------

\* An instruction that yields parks the current task and leaves the others
\* as they were: the array it hands to pick satisfies Parked.
LEMMA ParkCurrent ==
  ASSUME IInv, Running,
         NEW STATE ts, ts \in [TaskId -> Task],
         \A t \in TaskId : t # cur => ts[t] = tasks[t],
         cur = 0 => ~ts[cur].done,
         ParkedTask(ts, cur),
         ts[cur].sleeping => ts[cur].awaiting = None
  PROVE  Parked(ts)
<1>1. 0 \in TaskId /\ 0 .. n - 1 \subseteq TaskId
  BY SchedulerAssumption DEF IInv, TypeOK, TaskId
<1>2. ~ts[0].done
  BY <1>1 DEF IInv
<1>3. ASSUME NEW t \in 0 .. n - 1
      PROVE  ParkedTask(ts, t) /\ (ts[t].sleeping => ts[t].awaiting = None)
  <2>1. CASE t = cur
    BY <2>1
  <2>2. CASE t # cur
    BY <1>1, <2>2 DEF IInv, ParkedTask
  <2> QED
    BY <2>1, <2>2
<1> QED
  BY <1>2, <1>3 DEF Parked

\* The structs of the other tasks are not touched.
OthersKept(ts) == \A t \in TaskId : t # cur => ts[t] = tasks[t]

\* A task that returns parks with its result and switches.
LEMMA FinishParks ==
  ASSUME IInv, NEW v \in Results, Finish(v)
  PROVE  \E ts : /\ Parked(ts) /\ Switch(ts) /\ OthersKept(ts)
                 /\ ts[cur].done /\ ts[cur].result = v
                 /\ ts[cur].wakeAt = tasks[cur].wakeAt
                 /\ ts[cur].saved = [ws EXCEPT !.depth = 0]
<1> DEFINE ts == [tasks EXCEPT ![cur].done   = TRUE,
                               ![cur].result = v,
                               ![cur].saved  = [ws EXCEPT !.depth = 0]]
<1>1. /\ TypeOK /\ Running /\ status = "run" /\ RunningTask /\ cur # 0
      /\ Switch(ts)
  BY DEF IInv, Finish, Free, Running
<1>2. cur \in TaskId /\ tasks[cur] \in Task /\ tasks \in [TaskId -> Task]
  BY SchedulerAssumption, <1>1 DEF TypeOK, TaskId
<1>3. [ws EXCEPT !.depth = 0] \in WorkingSet
  BY SchedulerAssumption, <1>1 DEF TypeOK, WorkingSet
<1>4. [[[tasks[cur] EXCEPT !.done = TRUE] EXCEPT !.result = v]
         EXCEPT !.saved = [ws EXCEPT !.depth = 0]] \in Task
  BY <1>2, <1>3 DEF Task
<1>5. ts \in [TaskId -> Task]
  BY <1>2, <1>4
<1>6. /\ \A t \in TaskId : t # cur => ts[t] = tasks[t]
      /\ ts[cur].done /\ ts[cur].result = v
      /\ ts[cur].sleeping = tasks[cur].sleeping
      /\ ts[cur].wakeAt = tasks[cur].wakeAt
      /\ ts[cur].saved = [ws EXCEPT !.depth = 0]
  BY <1>2 DEF Task
<1>7. Parked(ts)
  <2> HIDE DEF ts
  <2> QED
    BY <1>1, <1>5, <1>6, ParkCurrent DEF ParkedTask, RunningTask, IInv
<1> HIDE DEF ts
<1> QED
  BY <1>1, <1>6, <1>7 DEF OthersKept

\* A task that awaits an unfinished one parks before its AWAIT and switches.
LEMMA AwaitBlockParks ==
  ASSUME IInv, NEW f \in TaskId, AwaitBlock(f)
  PROVE  \E ts : /\ Parked(ts) /\ Switch(ts) /\ OthersKept(ts)
                 /\ ts[cur].done = tasks[cur].done
                 /\ ts[cur].result = tasks[cur].result
                 /\ ts[cur].wakeAt = tasks[cur].wakeAt
                 /\ ts[cur].saved = [ws EXCEPT !.pend = f]
<1> DEFINE ts == [tasks EXCEPT ![cur].awaiting = f,
                               ![cur].saved    = [ws EXCEPT !.pend = f]]
<1>1. /\ TypeOK /\ Running /\ status = "run" /\ RunningTask /\ f < n /\ f # cur
      /\ Switch(ts)
  BY DEF IInv, AwaitBlock, AtAwait, Running
<1>2. cur \in TaskId /\ tasks[cur] \in Task /\ tasks \in [TaskId -> Task]
  BY SchedulerAssumption, <1>1 DEF TypeOK, TaskId
<1>3. [ws EXCEPT !.pend = f] \in WorkingSet /\ [ws EXCEPT !.pend = f].pend = f
  BY <1>1 DEF TypeOK, WorkingSet
<1>4. [[tasks[cur] EXCEPT !.awaiting = f]
         EXCEPT !.saved = [ws EXCEPT !.pend = f]] \in Task
  BY <1>2, <1>3 DEF Task
<1>5. ts \in [TaskId -> Task]
  BY <1>2, <1>4
<1>6. /\ \A t \in TaskId : t # cur => ts[t] = tasks[t]
      /\ ts[cur].awaiting = f
      /\ ts[cur].saved = [ws EXCEPT !.pend = f]
      /\ ts[cur].saved.pend = f
      /\ ts[cur].done = tasks[cur].done
      /\ ts[cur].result = tasks[cur].result
      /\ ts[cur].wakeAt = tasks[cur].wakeAt
      /\ ts[cur].sleeping = tasks[cur].sleeping
  BY <1>2, <1>3 DEF Task
<1>7. f \in 0 .. n - 1
  BY SchedulerAssumption, <1>1 DEF TypeOK, TaskId
<1>8. Parked(ts)
  <2> HIDE DEF ts
  <2> QED
    BY <1>1, <1>5, <1>6, <1>7, ParkCurrent DEF ParkedTask, RunningTask, IInv
<1> HIDE DEF ts
<1> QED
  BY <1>1, <1>6, <1>8 DEF OthersKept

\* A task that sleeps parks with its deadline and switches.
LEMMA SleepYieldParks ==
  ASSUME IInv, NEW d \in Durations, SleepYield(d)
  PROVE  \E ts : /\ Parked(ts) /\ Switch(ts) /\ OthersKept(ts)
                 /\ ts[cur].done = tasks[cur].done
                 /\ ts[cur].result = tasks[cur].result
                 /\ ts[cur].sleeping
                 /\ ts[cur].wakeAt = now + d
                 /\ ts[cur].saved = ws
<1> DEFINE ts == [tasks EXCEPT ![cur].sleeping = TRUE,
                               ![cur].wakeAt   = now + d,
                               ![cur].saved    = ws]
<1>1. /\ TypeOK /\ Running /\ status = "run" /\ RunningTask /\ ws.pend = None
      /\ Switch(ts)
  BY DEF IInv, SleepYield, Free, Running
<1>2. cur \in TaskId /\ tasks[cur] \in Task /\ tasks \in [TaskId -> Task]
  BY SchedulerAssumption, <1>1 DEF TypeOK, TaskId
<1>3. ws \in WorkingSet /\ now + d \in Int
  BY SchedulerAssumption, <1>1 DEF TypeOK
<1>4. [[[tasks[cur] EXCEPT !.sleeping = TRUE] EXCEPT !.wakeAt = now + d]
         EXCEPT !.saved = ws] \in Task
  BY <1>2, <1>3 DEF Task
<1>5. ts \in [TaskId -> Task]
  BY <1>2, <1>4
<1>6. /\ \A t \in TaskId : t # cur => ts[t] = tasks[t]
      /\ ts[cur].awaiting = tasks[cur].awaiting
      /\ ts[cur].saved = ws
      /\ ts[cur].done = tasks[cur].done
      /\ ts[cur].result = tasks[cur].result
      /\ ts[cur].sleeping
      /\ ts[cur].wakeAt = now + d
  BY <1>2, <1>3 DEF Task
<1>7. cur # None
  BY <1>1 DEF TypeOK, None
<1>8. Parked(ts)
  <2> HIDE DEF ts
  <2> QED
    BY <1>1, <1>5, <1>6, <1>7, ParkCurrent DEF ParkedTask, RunningTask, IInv
<1> HIDE DEF ts
<1> QED
  BY <1>1, <1>6, <1>8 DEF OthersKept

\* Each of them hands pick a parked array of task structs.
LEMMA SwitchingParks ==
  ASSUME IInv, Switching
  PROVE  status = "run" /\ \E ts : Parked(ts) /\ Switch(ts)
<1>1. status = "run"
  BY DEF Switching, Finish, AwaitBlock, AtAwait, SleepYield, Free, Running
<1>2. \E ts : Parked(ts) /\ Switch(ts)
  BY FinishParks, AwaitBlockParks, SleepYieldParks DEF Switching
<1> QED
  BY <1>1, <1>2

\* The three steps that switch tasks preserve the invariant.
LEMMA SwitchingPreserves ==
  ASSUME IInv, Switching
  PROVE  IInv'
<1>1. TypeOK
  BY DEF IInv
<1> QED
  BY <1>1, SwitchingParks, SwitchPreserves

-----------------------------------------------------------------------------

\* The invariant holds when run() enters its loop.
LEMMA InitIInv == Init => IInv
<1> SUFFICES ASSUME Init
             PROVE  IInv
  OBVIOUS
<1>1. FreshWorkingSet \in WorkingSet
  BY SchedulerAssumption DEF FreshWorkingSet, WorkingSet
<1>2. NewTask \in Task
  BY <1>1 DEF NewTask, Task
<1>3. /\ 0 \in TaskId /\ tasks[0] = NewTask
      /\ \A t \in 0 .. n - 1 : t = 0
  BY SchedulerAssumption DEF Init, TaskId
<1>4. TypeOK
  BY SchedulerAssumption, <1>1, <1>2 DEF Init, TypeOK
<1>5. RunningTask
  BY <1>3 DEF Init, RunningTask, NewTask, FreshWorkingSet
<1> QED
  BY <1>3, <1>4, <1>5 DEF Init, IInv, NewTask, Running

\* The instructions that leave the current task running, and the ends of the
\* process, preserve the invariant.
LEMMA SpawnPreserves ==
  ASSUME IInv, Spawn
  PROVE  IInv'
<1>1. /\ TypeOK /\ Running /\ RunningTask /\ n < MaxTasks /\ n' = n + 1
      /\ tasks' = [tasks EXCEPT ![n] = NewTask]
      /\ UNCHANGED <<cur, ws, now, status>>
  BY DEF IInv, Spawn, Free
<1>2. /\ n \in TaskId /\ n # cur /\ cur \in TaskId /\ 0 \in TaskId /\ n # 0
      /\ 0 .. n - 1 \subseteq TaskId /\ n \in Int /\ now \in Nat
      /\ n \notin 0 .. n - 1
      /\ 0 .. n' - 1 = (0 .. n - 1) \cup {n}
  BY SchedulerAssumption, <1>1 DEF TypeOK, TaskId
<1>3. FreshWorkingSet \in WorkingSet /\ NewTask \in Task
  BY SchedulerAssumption DEF FreshWorkingSet, WorkingSet, NewTask, Task
<1>4. /\ tasks' \in [TaskId -> Task]
      /\ tasks'[n] = NewTask
      /\ \A t \in TaskId : t # n => tasks'[t] = tasks[t]
  BY <1>1, <1>2, <1>3 DEF TypeOK
<1>5. TypeOK'
  BY SchedulerAssumption, <1>1, <1>2, <1>4 DEF TypeOK
<1>6. RunningTask'
  BY <1>1, <1>2, <1>4 DEF RunningTask
<1>7. ASSUME NEW t \in 0 .. n' - 1
      PROVE  /\ t # cur => ParkedTask(tasks, t)'
             /\ tasks'[t].sleeping => tasks'[t].awaiting = None
  <2>1. CASE t = n
    <3>1. /\ tasks'[t].awaiting = None /\ tasks'[t].saved.pend = None
          /\ tasks'[t].wakeAt = 0 /\ ~tasks'[t].sleeping
      BY <1>4, <2>1 DEF NewTask, FreshWorkingSet
    <3>2. t # None /\ 0 <= now'
      BY <1>1, <1>2, <2>1 DEF None
    <3> QED
      BY <3>1, <3>2 DEF ParkedTask
  <2>2. CASE t # n
    <3>1. t \in 0 .. n - 1 /\ tasks'[t] = tasks[t]
      BY <1>2, <1>4, <2>2
    <3>2. t # cur => ParkedTask(tasks, t)
      BY <1>1, <3>1 DEF IInv
    <3>3. t # cur => ParkedTask(tasks, t)'
      BY <1>1, <1>2, <3>1, <3>2 DEF ParkedTask
    <3> QED
      BY <3>1, <3>3 DEF IInv
  <2> QED
    BY <2>1, <2>2
<1>9. ~tasks'[0].done
  BY <1>2, <1>4 DEF IInv
<1> QED
  BY <1>1, <1>5, <1>6, <1>7, <1>9 DEF IInv, Running

\* Awaiting a finished task preserves the invariant.
LEMMA AwaitDonePreserves ==
  ASSUME IInv, NEW f \in TaskId, AwaitDone(f)
  PROVE  IInv'
<1>1. /\ TypeOK /\ Running /\ RunningTask /\ tasks[f].done
      /\ tasks' = [tasks EXCEPT ![cur].awaiting = None]
      /\ ws' = [ws EXCEPT !.pend = None, !.got = tasks[f].result]
      /\ UNCHANGED <<n, cur, now, status>>
  BY DEF IInv, AwaitDone, AtAwait
<1>2. cur \in TaskId /\ tasks[cur] \in Task /\ tasks[f] \in Task
      /\ 0 \in TaskId /\ 0 .. n - 1 \subseteq TaskId
  BY SchedulerAssumption, <1>1 DEF TypeOK, TaskId
<1>3. ws' \in WorkingSet /\ ws'.pend = None
  BY <1>1, <1>2 DEF TypeOK, WorkingSet, Task
<1>4. [tasks[cur] EXCEPT !.awaiting = None] \in Task
  BY <1>2 DEF Task
<1>5. /\ tasks' \in [TaskId -> Task]
      /\ tasks'[cur].awaiting = None
      /\ tasks'[cur].done = tasks[cur].done
      /\ tasks'[cur].sleeping = tasks[cur].sleeping
      /\ tasks'[cur].wakeAt = tasks[cur].wakeAt
      /\ \A t \in TaskId : t # cur => tasks'[t] = tasks[t]
  BY <1>1, <1>2, <1>4 DEF TypeOK, Task
<1>6. TypeOK'
  BY <1>1, <1>3, <1>5 DEF TypeOK
<1>7. RunningTask'
  BY <1>1, <1>3, <1>5 DEF RunningTask
<1>8. ASSUME NEW t \in 0 .. n - 1
      PROVE  /\ t # cur => ParkedTask(tasks, t)'
             /\ tasks'[t].sleeping => tasks'[t].awaiting = None
  BY <1>1, <1>2, <1>5 DEF IInv, ParkedTask
<1>9. ~tasks'[0].done
  BY <1>1, <1>2, <1>5 DEF IInv, RunningTask
<1> QED
  BY <1>1, <1>6, <1>7, <1>8, <1>9 DEF IInv, Running

\* The steps of the running task alone preserve the invariant.
LEMMA LocalPreserves ==
  ASSUME IInv,
         Tick \/ Call \/ Return \/ \E d \in Durations : SleepAlone(d)
  PROVE  IInv'
<1>1. /\ TypeOK /\ Running /\ RunningTask
      /\ UNCHANGED <<n, tasks, cur, status>>
  BY DEF IInv, Tick, Call, Return, SleepAlone, Free
<1>2. now' \in 0 .. MaxTime /\ now <= now'
  BY SchedulerAssumption, <1>1 DEF Tick, Call, Return, SleepAlone, TypeOK
<1>3. ws' \in WorkingSet /\ ws'.pend = ws.pend
  BY SchedulerAssumption, <1>1 DEF Tick, Call, Return, SleepAlone, TypeOK, WorkingSet
<1>4. TypeOK'
  BY <1>1, <1>2, <1>3 DEF TypeOK
<1>5. now \in Int /\ now' \in Int /\ cur \in TaskId
      /\ \A t \in 0 .. n - 1 : tasks[t].wakeAt \in Int
  BY SchedulerAssumption, <1>1, <1>2 DEF TypeOK, Task, TaskId
<1>6. cur \in 0 .. n - 1
  BY <1>1 DEF TypeOK
<1>7. RunningTask'
  BY <1>1, <1>2, <1>3, <1>5, <1>6 DEF RunningTask
<1>8. \A t \in 0 .. n - 1 : ParkedTask(tasks, t) => ParkedTask(tasks, t)'
  BY <1>1, <1>2, <1>5 DEF ParkedTask
<1> QED
  BY <1>1, <1>4, <1>7, <1>8 DEF IInv, Running

\* The steps that end the program preserve the invariant.
LEMMA EndPreserves ==
  ASSUME IInv, ReturnMain \/ Halt \/ Fatal \/ AwaitSelf
  PROVE  IInv'
<1>1. /\ status' \in {"exit", "fatal"}
      /\ UNCHANGED <<n, tasks, cur, ws, now>>
  BY DEF ReturnMain, Halt, Fatal, AwaitSelf
<1> QED
  BY <1>1 DEF IInv, TypeOK, Running

\* So does a step that changes nothing.
LEMMA StutterPreserves == IInv /\ UNCHANGED vars => IInv'
  BY DEF IInv, vars, TypeOK, Running, RunningTask, ParkedTask, Parked,
         NoneReady, Ready, Sleepers

\* One step of the scheduler preserves the invariant.
LEMMA NextPreserves == IInv /\ [Next]_vars => IInv'
<1> SUFFICES ASSUME IInv, [Next]_vars
             PROVE  IInv'
  OBVIOUS
<1>1. CASE Tick \/ Call \/ Return
  BY <1>1, LocalPreserves
<1>2. CASE RetEntry
  BY <1>2, EndPreserves, SwitchingPreserves DEF RetEntry, Switching
<1>3. CASE Halt \/ Fatal
  BY <1>3, EndPreserves
<1>4. CASE Spawn
  BY <1>4, SpawnPreserves
<1>5. CASE Await
  BY <1>5, EndPreserves, AwaitDonePreserves, SwitchingPreserves
     DEF Await, Switching
<1>6. CASE Sleep
  BY <1>6, LocalPreserves, SwitchingPreserves DEF Sleep, Switching
<1>7. CASE Ended \/ UNCHANGED vars
  BY <1>7, StutterPreserves DEF Ended
<1> QED
  BY <1>1, <1>2, <1>3, <1>4, <1>5, <1>6, <1>7 DEF Next

\* In every reachable state each task struct agrees with the working set it
\* stands for, and the process ends in a deadlock only when it must.
THEOREM Invariance == Spec => []IInv
<1>1. Init => IInv
  BY InitIInv
<1>2. IInv /\ [Next]_vars => IInv'
  BY NextPreserves
<1> QED
  BY <1>1, <1>2, PTL DEF Spec

\* Every variable of the scheduler keeps its type.
THEOREM TypeCorrect == Spec => []TypeOK
<1>1. IInv => TypeOK
  BY DEF IInv
<1> QED
  BY <1>1, Invariance, PTL

\* A rewound AWAIT is re-executed only when its task has finished, so no
\* await suspends its task twice (main.go:1483-1511).
THEOREM AwaitsResumeWhenDone == Spec => []AwaitResumesWhenDone
<1>1. IInv => AwaitResumesWhenDone
  BY DEF IInv, RunningTask, AwaitResumesWhenDone
<1> QED
  BY <1>1, Invariance, PTL

\* pick never gives the VM to a task that is finished, parked or before its
\* deadline (main.go:1111-1159).
THEOREM RunsWhenDue == Spec => []RunsOnlyWhenDue
<1>1. IInv => RunsOnlyWhenDue
  BY DEF IInv, RunningTask, RunsOnlyWhenDue
<1> QED
  BY <1>1, Invariance, PTL

\* ready() decides from the same future the task's saved pc is waiting on
\* (main.go:1118 against main.go:1503-1506).
THEOREM AwaitingAgrees == Spec => []AwaitingMatchesPC
<1>1. IInv => AwaitingMatchesPC
  BY DEF IInv, RunningTask, ParkedTask, AwaitingMatchesPC
<1> QED
  BY <1>1, Invariance, PTL

\* A reported deadlock is a real one: main and every other unfinished task
\* wait for an unfinished task other than themselves (main.go:1161-1172).
THEOREM DeadlocksAreReal == Spec => []DeadlockIsReal
<1>1. IInv => DeadlockIsReal
  <2> SUFFICES ASSUME IInv, status = "deadlock"
               PROVE  DeadlockIsReal
    BY DEF DeadlockIsReal
  <2>1. Parked(tasks) /\ NoneReady(tasks, now) /\ Sleepers(tasks) = {}
    BY DEF IInv
  <2>2. 0 \in Unfinished
    BY <2>1 DEF Unfinished, Parked, IInv, TypeOK
  <2>3. ASSUME NEW t \in Unfinished
        PROVE  ~tasks[t].sleeping /\ tasks[t].awaiting \in Unfinished \ {t}
    <3>1. t \in 0 .. n - 1 /\ ~tasks[t].done
      BY DEF Unfinished
    <3>2. ~tasks[t].sleeping
      BY <2>1, <3>1 DEF Sleepers
    <3>3. tasks[t].awaiting # None /\ ~tasks[tasks[t].awaiting].done
      BY <2>1, <3>1, <3>2 DEF NoneReady, Ready
    <3>4. tasks[t].awaiting \in 0 .. n - 1 /\ tasks[t].awaiting # t
      BY <2>1, <3>1, <3>3 DEF Parked, ParkedTask
    <3> QED
      BY <3>2, <3>3, <3>4 DEF Unfinished
  <2> QED
    BY <2>2, <2>3 DEF DeadlockIsReal
<1> QED
  BY <1>1, Invariance, PTL

-----------------------------------------------------------------------------
(* Bounded bypass.                                                         *)

\* The distance from the running task to another one is at most the number of tasks.
LEMMA OffsetRange ==
  ASSUME TypeOK, NEW t \in 0 .. n - 1
  PROVE  Offset(t) \in 1 .. n
  BY SchedulerAssumption DEF TypeOK, Offset

BInv ==
  /\ IInv
  /\ skips \in [TaskId -> Nat]
  /\ \A t \in TaskId : t >= n => skips[t] = 0
  /\ SkipsPlusOffset

\* A switch either comes closer to a task it passes over or resets its count.
LEMMA SwitchSkips ==
  ASSUME BInv, IInv', NEW ts, Parked(ts), Switch(ts), CountSkips
  PROVE  BInv'
<1>1. /\ TypeOK /\ TypeOK' /\ n' = n /\ 0 .. n - 1 \subseteq TaskId
      /\ n \in Nat /\ cur \in 0 .. n - 1 /\ cur' \in 0 .. n - 1
  BY SchedulerAssumption DEF BInv, IInv, TypeOK, TaskId, Switch
<1>2. /\ skips' \in [TaskId -> Nat]
      /\ \A t \in TaskId : t >= n' => skips'[t] = 0
  BY <1>1 DEF CountSkips, PassedOver, BInv, TypeOK, TaskId
<1>3. ASSUME NEW u \in 0 .. n - 1
      PROVE  skips'[u] + Offset(u)' <= n
  <2>1. Offset(u)' \in 1 .. n /\ Offset(u) \in 1 .. n
    <3>1. PICK c : c = cur'
      OBVIOUS
    <3>2. c \in 0 .. n - 1 /\ Offset(u)' = IF u > c THEN u - c ELSE u - c + n
      BY <1>1, <3>1 DEF Offset
    <3>3. Offset(u)' \in 1 .. n
      BY <1>1, <3>2
    <3> QED
      BY <1>1, <3>3, OffsetRange
  <2>2. CASE ~(status' = "run" /\ PassedOver(u))
    <3>1. skips'[u] = 0
      BY <1>1, <2>2 DEF CountSkips
    <3> QED
      BY <1>1, <2>1, <3>1
  <2>3. CASE status' = "run" /\ PassedOver(u)
    <3>1. skips'[u] = skips[u] + 1 /\ skips[u] \in Nat /\ skips[u] + Offset(u) <= n
      BY <1>1, <2>3 DEF CountSkips, BInv, SkipsPlusOffset
    <3>2. u # cur' /\ Ready(tasks', u, now)
      BY <2>3 DEF PassedOver
    <3>3. ASSUME NEW t \in 0 .. n - 1, NEW t1, Resume(ts, t, t1)
          PROVE  Ready(ts, u, now) /\ cur' = t
      <4>1. tasks' = [ts EXCEPT ![t].sleeping = FALSE] /\ cur' = t /\ u # t
        BY <3>2, <3>3 DEF Resume
      <4>2. /\ ts \in [TaskId -> Task] /\ t \in TaskId /\ u \in TaskId
            /\ ts[u].awaiting \in TaskId \cup {None}
        BY <1>1 DEF Parked, Task
      <4>3. tasks'[u] = ts[u]
        BY <4>1, <4>2
      <4>4. \A w \in TaskId : tasks'[w].done = ts[w].done
        BY <4>1, <4>2 DEF Task
      <4> QED
        BY <3>2, <4>1, <4>2, <4>3, <4>4 DEF Ready
    <3>4. PickReady(ts)
      <4>1. ~Deadlock(ts)
        BY <2>3 DEF Deadlock
      <4>2. ~PickSleeper(ts)
        BY <3>3 DEF PickSleeper, NoneReady
      <4> QED
        BY <4>1, <4>2 DEF Switch
    <3>5. PICK t \in 0 .. n - 1, t1 \in Until(now) :
            Scan(ts, now, t1, t) /\ Resume(ts, t, t1)
      BY <3>4 DEF PickReady
    <3>6. Ready(ts, u, now) /\ cur' = t /\ u # t
      BY <3>2, <3>3, <3>5
    <3>7. ~(Offset(u) < Offset(t))
      BY <3>5, <3>6 DEF Scan
    <3>8. Offset(u)' < Offset(u)
      BY <1>1, <3>6, <3>7 DEF Offset
    <3> QED
      BY <1>1, <2>1, <3>1, <3>8
  <2> QED
    BY <2>2, <2>3
<1> QED
  BY <1>1, <1>2, <1>3 DEF BInv, SkipsPlusOffset

\* A step that does not switch skips nobody.
LEMMA StaySkips ==
  ASSUME BInv, IInv', Staying, UNCHANGED skips
  PROVE  BInv'
<1>1. /\ n \in 1 .. MaxTasks /\ MaxTasks \in Nat /\ cur \in 0 .. n - 1
      /\ cur' = cur /\ n' \in {n, n + 1} /\ n' \in 1 .. MaxTasks
  BY SchedulerAssumption
     DEF BInv, IInv, TypeOK, Staying, Tick, Call, Return, ReturnMain, Halt,
         Spawn, Fatal, Ended, vars, AwaitSelf, AwaitDone, SleepAlone
<1>2. ASSUME NEW t \in 0 .. n' - 1
      PROVE  skips[t] + Offset(t)' <= n'
  <2>b. PICK m : m = n'
    OBVIOUS
  <2>e. m \in 1 .. MaxTasks /\ m \in {n, n + 1} /\ t \in 0 .. m - 1
    BY <1>1, <2>b
  <2>c. m \in Nat /\ m <= MaxTasks /\ m \in {n, n + 1} /\ t \in 0 .. m - 1
    BY <1>1, <2>e
  <2>1. t \in TaskId
    BY <1>1, <2>c DEF TaskId
  <2>d. Offset(t)' = IF t > cur THEN t - cur ELSE t - cur + m
    BY <1>1, <2>b DEF Offset
  <2>a. skips[t] \in Nat /\ t \in Nat /\ cur \in Nat /\ n \in Nat
    BY <1>1, <2>1 DEF BInv, TaskId
  <2>2. CASE t < n
    <3>1. t \in 0 .. n - 1
      BY <2>a, <2>2
    <3>2. skips[t] + Offset(t) <= n
      BY <3>1 DEF BInv, SkipsPlusOffset
    <3> QED
      BY <2>a, <2>b, <2>c, <2>d, <3>2 DEF Offset
  <2>3. CASE t >= n
    <3>1. skips[t] = 0
      BY <2>1, <2>3 DEF BInv
    <3>2. Offset(t)' \in Int /\ Offset(t)' <= m
      BY <2>a, <2>c, <2>d, <2>3
    <3> QED
      BY <2>b, <2>c, <3>1, <3>2
  <2> QED
    BY <2>a, <2>2, <2>3
<1>3. \A t \in TaskId : t >= n' => skips'[t] = 0
  BY <1>1 DEF BInv, TaskId
<1> QED
  BY <1>2, <1>3 DEF BInv, SkipsPlusOffset

\* Round-robin: a task that can run is passed over fewer than len(tasks)
\* times before it runs, for any number of tasks (main.go:1124-1139).
THEOREM RoundRobin == BypassSpec => []BoundedBypass
<1>1. BypassInit => BInv
  <2> SUFFICES ASSUME BypassInit
               PROVE  BInv
    OBVIOUS
  <2>1. IInv /\ TypeOK
    BY InitIInv DEF BypassInit, IInv
  <2>2. \A t \in 0 .. n - 1 : t \in TaskId /\ Offset(t) \in 1 .. n
    BY <2>1, OffsetRange, SchedulerAssumption DEF TypeOK, TaskId
  <2>3. n \in Nat
    BY <2>1, SchedulerAssumption DEF TypeOK
  <2> QED
    BY <2>1, <2>2, <2>3 DEF BypassInit, BInv, SkipsPlusOffset
<1>2. BInv /\ [BypassNext]_bvars => BInv'
  <2> SUFFICES ASSUME BInv, [BypassNext]_bvars
               PROVE  BInv'
    OBVIOUS
  <2>1. CASE Switching /\ CountSkips
    <3>1. IInv /\ IInv'
      BY <2>1, SwitchingPreserves DEF BInv
    <3>2. PICK ts : Parked(ts) /\ Switch(ts)
      BY <2>1, <3>1, SwitchingParks
    <3> QED
      BY <2>1, <3>1, <3>2, SwitchSkips
  <2>2. CASE Staying /\ UNCHANGED skips
    <3>1. Next
      BY <2>2 DEF Staying, Next, RetEntry, Await, Sleep
    <3>2. IInv'
      BY <3>1, NextPreserves DEF BInv
    <3> QED
      BY <2>2, <3>2, StaySkips
  <2>3. CASE UNCHANGED bvars
    <3>1. UNCHANGED vars /\ UNCHANGED skips
      BY <2>3 DEF bvars
    <3>2. IInv'
      BY <3>1, StutterPreserves DEF BInv
    <3> QED
      BY <3>1, <3>2 DEF BInv, SkipsPlusOffset, Offset, vars
  <2> QED
    BY <2>1, <2>2, <2>3 DEF BypassNext
<1>3. BInv => BoundedBypass
  <2> SUFFICES ASSUME BInv, NEW t \in 0 .. n - 1
               PROVE  skips[t] < n
    BY DEF BoundedBypass
  <2>1. TypeOK /\ n \in Nat /\ t \in TaskId
    BY SchedulerAssumption DEF BInv, IInv, TypeOK, TaskId
  <2>2. Offset(t) \in 1 .. n
    BY <2>1, OffsetRange
  <2>3. skips[t] \in Nat /\ skips[t] + Offset(t) <= n
    BY <2>1 DEF BInv, SkipsPlusOffset
  <2> QED
    BY <2>1, <2>2, <2>3
<1> QED
  BY <1>1, <1>2, <1>3, PTL DEF BypassSpec

-----------------------------------------------------------------------------
(* The scheduler implements Futures.                                       *)

\* A task that has not been spawned is as NewTask will make it.
Unspawned == \A t \in TaskId : t >= n => tasks[t] = NewTask

\* What a program can tell of the tasks, read from the structs ts handed to
\* pick: after the switch every working set is found where View looks for it.
SeenAfter(ts) ==
  \A u \in TaskId : /\ tasks'[u].done = ts[u].done
                    /\ tasks'[u].result = ts[u].result
                    /\ tasks'[u].wakeAt = ts[u].wakeAt
                    /\ View(u)' = ts[u].saved

\* After a switch every working set is where View looks for it, and the
\* structs beyond len(tasks) are untouched.
LEMMA SwitchSeen ==
  ASSUME TypeOK, NEW ts, ts \in [TaskId -> Task], Switch(ts)
  PROVE  /\ SeenAfter(ts)
         /\ n' = n
         /\ \A u \in TaskId : u >= n => tasks'[u] = ts[u]
<1>0. n' = n
  BY DEF Switch
<1>1. cur \in TaskId /\ 0 .. n - 1 \subseteq TaskId /\ n \in Nat
  BY SchedulerAssumption DEF TypeOK, TaskId
<1>2. ASSUME NEW t \in 0 .. n - 1, NEW t1, Resume(ts, t, t1)
      PROVE  SeenAfter(ts) /\ \A u \in TaskId : u >= n => tasks'[u] = ts[u]
  <2>1. cur' = t /\ ws' = ts[t].saved /\ tasks' = [ts EXCEPT ![t].sleeping = FALSE]
    BY <1>2 DEF Resume
  <2>2. t \in TaskId /\ t < n
    BY <1>1
  <2>3. \A u \in TaskId : u # t => tasks'[u] = ts[u]
    BY <2>1
  <2>4. /\ tasks'[t].done = ts[t].done /\ tasks'[t].result = ts[t].result
        /\ tasks'[t].wakeAt = ts[t].wakeAt
    BY <2>1, <2>2 DEF Task
  <2> QED BY <2>1, <2>2, <2>3, <2>4, <1>1 DEF SeenAfter, View, TaskId
<1>3. CASE Deadlock(ts)
  BY <1>0, <1>3 DEF Deadlock, SeenAfter, View
<1>4. CASE PickReady(ts) \/ PickSleeper(ts)
  BY <1>0, <1>2, <1>4 DEF PickReady, PickSleeper
<1> QED BY <1>3, <1>4 DEF Switch

\* A program that is not deadlocked has a task that need not wait, and one
\* that is has none: status settles as Futures says it does.
LEMMA SwitchSettles ==
  ASSUME IInv, Running, NEW ts, Parked(ts), Switch(ts)
  PROVE  now' >= now /\ F!SettleStatus
<1>1. TypeOK /\ ts \in [TaskId -> Task] /\ status = "run"
  BY DEF IInv, Parked, Running
<1>2. IInv' /\ SeenAfter(ts) /\ n' = n
  BY <1>1, SwitchPreserves, SwitchSeen
<1>3. TypeOK' /\ cur' \in 0 .. n - 1 /\ 0 .. n - 1 \subseteq TaskId
      /\ now \in Nat /\ now' \in Nat
  BY <1>1, <1>2, SchedulerAssumption DEF IInv, TypeOK, TaskId
<1>4. ASSUME NEW t \in 0 .. n - 1, NEW t1, Resume(ts, t, t1), t1 >= now
      PROVE  now' >= now /\ F!SettleStatus
  <2>1. status' = "run" /\ now' = t1 /\ cur' = t
    BY <1>1, <1>4 DEF Resume
  <2>2. RunningTask'
    BY <1>2, <2>1 DEF IInv, Running
  <2>3. ~F!Stuck'
    <3>1. t \in TaskId /\ ~tasks'[t].done
      BY <1>3, <2>1, <2>2 DEF RunningTask
    <3>2. View(t)' = ws'
      BY <2>1 DEF View
    <3>3. ws'.pend # None => ws'.pend \in TaskId /\ tasks'[ws'.pend].done
      BY <1>2, <1>3, <2>2 DEF RunningTask
    <3>4. (t \in F!Live)'
      BY <1>2, <3>1 DEF F!Live
    <3>5. (View(t).pend # None => /\ View(t).pend \in TaskId
                                  /\ tasks[View(t).pend].done)'
      BY <3>2, <3>3
    <3> QED BY <3>1, <3>4, <3>5 DEF F!Stuck, F!None, None
  <2> QED BY <1>4, <2>1, <2>3 DEF F!SettleStatus
<1>5. CASE PickReady(ts)
  <2>1. PICK t \in 0 .. n - 1, t1 \in Until(now) : Resume(ts, t, t1)
    BY <1>5 DEF PickReady
  <2>2. t1 >= now
    BY <1>3, SchedulerAssumption DEF Until
  <2> QED BY <1>4, <2>1, <2>2
<1>6. CASE PickSleeper(ts)
  <2>1. PICK s \in Sleepers(ts) : \E t \in 0 .. n - 1, t1 \in Until(ts[s].wakeAt) :
          Resume(ts, t, t1)
    BY <1>6 DEF PickSleeper
  <2>2. PICK t \in 0 .. n - 1, t1 \in Until(ts[s].wakeAt) : Resume(ts, t, t1)
    BY <2>1
  <2>3. s \in 0 .. n - 1 /\ ~ts[s].done /\ ts[s].sleeping /\ ~Ready(ts, s, now)
    BY <1>6, <2>1 DEF PickSleeper, Sleepers, NoneReady
  <2>4. ts[s].wakeAt \in Int
    BY <1>1, <1>3, <2>3 DEF Task
  <2>5. now < ts[s].wakeAt
    BY <1>3, <2>3, <2>4 DEF Ready
  <2>6. t1 \in Int /\ ts[s].wakeAt <= t1
    BY <2>4, SchedulerAssumption DEF Until
  <2>7. t1 >= now
    BY <1>3, <2>4, <2>5, <2>6
  <2> QED BY <1>4, <2>2, <2>7
<1>7. CASE Deadlock(ts)
  <2>1. status' = "deadlock" /\ now' = now /\ tasks' = ts /\ cur' = cur
    BY <1>7 DEF Deadlock
  <2>2. Parked(tasks)' /\ NoneReady(tasks, now)' /\ Sleepers(tasks)' = {}
    BY <1>2, <2>1 DEF IInv
  <2>3. ASSUME NEW t \in 0 .. n - 1, ~tasks'[t].done
        PROVE  View(t)'.pend \in 0 .. n - 1 /\ ~tasks'[View(t)'.pend].done
    <3>1. View(t)' = tasks'[t].saved
      BY <1>2, <1>3, <2>1 DEF SeenAfter
    <3>2. ~tasks'[t].sleeping
      BY <1>2, <2>2, <2>3 DEF Sleepers
    <3>3. tasks'[t].awaiting # None /\ ~tasks'[tasks'[t].awaiting].done
      BY <1>2, <2>2, <2>3, <3>2 DEF NoneReady, Ready
    <3>4. tasks'[t].awaiting = tasks'[t].saved.pend /\ tasks'[t].awaiting \in 0 .. n - 1
      BY <1>2, <2>2, <2>3, <3>3 DEF Parked, ParkedTask
    <3> QED BY <3>1, <3>3, <3>4
  <2>4. F!Stuck'
    <3> SUFFICES ASSUME NEW t \in 0 .. n - 1, ~tasks'[t].done
                 PROVE  View(t)'.pend # -1 /\ View(t)'.pend \in TaskId
                        /\ ~tasks'[View(t)'.pend].done
      BY <1>2, <1>3 DEF F!Stuck, F!Live, F!None
    <3> QED BY <1>3, <2>3
  <2> QED BY <1>3, <2>1, <2>4 DEF F!SettleStatus
<1> QED BY <1>5, <1>6, <1>7 DEF Switch

\* The running task c is one that Futures lets take a step.
LEMMA CurCanStep ==
  ASSUME IInv, Running, now' >= now, NEW c, c = cur
  PROVE  /\ c \in TaskId
         /\ F!Step(c)
         /\ ws.pend = None => F!FreeStep(c)
<1>1. c \in TaskId /\ c \in 0 .. n - 1 /\ RunningTask /\ status = "run"
  BY SchedulerAssumption DEF IInv, TypeOK, TaskId, Running
<1>2. F!Step(c)
  BY <1>1 DEF F!Step, F!Live, RunningTask
<1> QED
  BY <1>1, <1>2 DEF F!FreeStep, View, F!None, None

\* What a program sees of the tasks other than c does not change.
OthersSeen(c) ==
  \A t \in TaskId \ {c} : /\ tasks'[t].done = tasks[t].done
                          /\ tasks'[t].result = tasks[t].result
                          /\ tasks'[t].wakeAt = tasks[t].wakeAt
                          /\ View(t)' = View(t)

\* A switch of the running task c leaves the view of every other task alone,
\* lets c take its step, and settles the status.
LEMMA SwitchOthers ==
  ASSUME IInv, Running, NEW c, c = cur,
         NEW ts, Parked(ts), Switch(ts), OthersKept(ts)
  PROVE  /\ c \in TaskId /\ View(c) = ws /\ ws \in WorkingSet
         /\ OthersSeen(c) /\ SeenAfter(ts) /\ n' = n
         /\ F!Step(c) /\ F!SettleStatus
         /\ ws.pend = None => F!FreeStep(c)
<1>1. /\ TypeOK /\ ws \in WorkingSet /\ ts \in [TaskId -> Task]
      /\ now' >= now /\ F!SettleStatus /\ SeenAfter(ts) /\ n' = n
  BY SwitchSettles, SwitchSeen DEF IInv, TypeOK, Parked
<1>2. c \in TaskId /\ F!Step(c) /\ (ws.pend = None => F!FreeStep(c))
  BY <1>1, CurCanStep
<1>3. OthersSeen(c)
  BY <1>1 DEF OthersSeen, SeenAfter, OthersKept, View
<1> QED
  BY <1>1, <1>2, <1>3 DEF View

\* A task that returns completes.
LEMMA FinishCompletes ==
  ASSUME IInv, NEW v \in Results, Finish(v), NEW c, c = cur
  PROVE  F!Complete(c, v)
<1>1. Running /\ ws.pend = None /\ c # 0 /\ ws.depth = 1
  BY DEF Finish, Free
<1>2. PICK ts : /\ Parked(ts) /\ Switch(ts) /\ OthersKept(ts)
                /\ ts[c].done /\ ts[c].result = v
                /\ ts[c].wakeAt = tasks[c].wakeAt
                /\ ts[c].saved = [ws EXCEPT !.depth = 0]
  BY FinishParks
<1>3. /\ c \in TaskId /\ View(c) = ws /\ ws \in WorkingSet
      /\ OthersSeen(c) /\ SeenAfter(ts) /\ n' = n
      /\ F!SettleStatus /\ F!FreeStep(c)
  BY <1>1, <1>2, SwitchOthers
<1>4. /\ tasks'[c].done = TRUE /\ tasks'[c].result = v
      /\ tasks'[c].wakeAt = tasks[c].wakeAt
      /\ View(c)'.depth = 0
      /\ View(c)'.pend = View(c).pend /\ View(c)'.got = View(c).got
  <2>1. /\ [ws EXCEPT !.depth = 0].depth = 0
        /\ [ws EXCEPT !.depth = 0].pend = ws.pend
        /\ [ws EXCEPT !.depth = 0].got = ws.got
    BY <1>3 DEF WorkingSet
  <2>2. ts[c].done = TRUE
    BY <1>2, <1>3 DEF Parked, Task
  <2> QED
    BY <1>2, <1>3, <2>1, <2>2, ZenonT(30) DEF SeenAfter
<1>5. /\ [t \in TaskId |-> tasks'[t].done]
           = [[t \in TaskId |-> tasks[t].done] EXCEPT ![c] = TRUE]
      /\ [t \in TaskId |-> tasks'[t].result]
           = [[t \in TaskId |-> tasks[t].result] EXCEPT ![c] = v]
      /\ [t \in TaskId |-> tasks'[t].wakeAt] = [t \in TaskId |-> tasks[t].wakeAt]
  BY <1>3, <1>4 DEF OthersSeen
<1>6. /\ [t \in TaskId |-> View(t).depth]'
           = [[t \in TaskId |-> View(t).depth] EXCEPT ![c] = 0]
      /\ [t \in TaskId |-> View(t).pend]' = [t \in TaskId |-> View(t).pend]
      /\ [t \in TaskId |-> View(t).got]' = [t \in TaskId |-> View(t).got]
  BY <1>3, <1>4 DEF OthersSeen
<1>7. [t \in TaskId |-> View(t).depth][c] = 1
  BY <1>1, <1>3
<1> QED
  BY <1>1, <1>3, <1>5, <1>6, <1>7 DEF F!Complete

\* A task that awaits an unfinished one suspends, and does so only once.
LEMMA AwaitBlockSuspends ==
  ASSUME IInv, NEW f \in TaskId, AwaitBlock(f), NEW c, c = cur
  PROVE  F!Suspend(c, f)
<1>1. Running /\ RunningTask /\ f # c /\ f < n /\ ~tasks[f].done
      /\ ws.pend \in {None, f}
  BY DEF AwaitBlock, AtAwait, IInv
<1>2. ws.pend = None
  BY <1>1 DEF RunningTask
<1>3. PICK ts : /\ Parked(ts) /\ Switch(ts) /\ OthersKept(ts)
                /\ ts[c].done = tasks[c].done
                /\ ts[c].result = tasks[c].result
                /\ ts[c].wakeAt = tasks[c].wakeAt
                /\ ts[c].saved = [ws EXCEPT !.pend = f]
  BY AwaitBlockParks
<1>4. /\ c \in TaskId /\ View(c) = ws /\ ws \in WorkingSet
      /\ OthersSeen(c) /\ SeenAfter(ts) /\ n' = n
      /\ F!SettleStatus /\ F!FreeStep(c)
  BY <1>1, <1>2, <1>3, SwitchOthers
<1>5. /\ tasks'[c].done = tasks[c].done /\ tasks'[c].result = tasks[c].result
      /\ tasks'[c].wakeAt = tasks[c].wakeAt
      /\ View(c)'.pend = f
      /\ View(c)'.depth = View(c).depth /\ View(c)'.got = View(c).got
  <2>1. /\ [ws EXCEPT !.pend = f].pend = f
        /\ [ws EXCEPT !.pend = f].depth = ws.depth
        /\ [ws EXCEPT !.pend = f].got = ws.got
    BY <1>4 DEF WorkingSet
  <2> QED
    BY <1>3, <1>4, <2>1 DEF SeenAfter
<1>6. /\ [t \in TaskId |-> tasks'[t].done] = [t \in TaskId |-> tasks[t].done]
      /\ [t \in TaskId |-> tasks'[t].result] = [t \in TaskId |-> tasks[t].result]
      /\ [t \in TaskId |-> tasks'[t].wakeAt] = [t \in TaskId |-> tasks[t].wakeAt]
  BY <1>4, <1>5 DEF OthersSeen
<1>7. /\ [t \in TaskId |-> View(t).pend]'
           = [[t \in TaskId |-> View(t).pend] EXCEPT ![c] = f]
      /\ [t \in TaskId |-> View(t).depth]' = [t \in TaskId |-> View(t).depth]
      /\ [t \in TaskId |-> View(t).got]' = [t \in TaskId |-> View(t).got]
  BY <1>4, <1>5 DEF OthersSeen
<1>8. f \in F!Live \ {c}
  BY <1>1, SchedulerAssumption DEF F!Live, IInv, TypeOK, TaskId
<1> QED
  BY <1>4, <1>6, <1>7, <1>8 DEF F!Suspend

\* A task that yields to sleep sets its own deadline and nothing else.
LEMMA SleepYieldSleeps ==
  ASSUME IInv, NEW d \in Durations, SleepYield(d), NEW c, c = cur
  PROVE  F!Sleep(c)
<1>1. Running /\ ws.pend = None /\ RunningTask
  BY DEF SleepYield, Free, IInv
<1>2. PICK ts : /\ Parked(ts) /\ Switch(ts) /\ OthersKept(ts)
                /\ ts[c].done = tasks[c].done
                /\ ts[c].result = tasks[c].result
                /\ ts[c].sleeping
                /\ ts[c].saved = ws
  BY SleepYieldParks
<1>3. /\ c \in TaskId /\ View(c) = ws /\ ws \in WorkingSet
      /\ OthersSeen(c) /\ SeenAfter(ts) /\ n' = n /\ F!FreeStep(c)
  BY <1>1, <1>2, SwitchOthers
<1>4. status' = status
  <2>1. c \in Sleepers(ts)
    BY <1>1, <1>2 DEF Sleepers, RunningTask, IInv, TypeOK
  <2>2. ~Deadlock(ts)
    BY <2>1 DEF Deadlock
  <2> QED
    BY <1>2, <2>2 DEF Switch, PickReady, PickSleeper, Resume
<1>5. /\ tasks'[c].done = tasks[c].done /\ tasks'[c].result = tasks[c].result
      /\ View(c)' = View(c)
  BY <1>2, <1>3 DEF SeenAfter
<1>6. /\ [t \in TaskId |-> tasks'[t].done] = [t \in TaskId |-> tasks[t].done]
      /\ [t \in TaskId |-> tasks'[t].result] = [t \in TaskId |-> tasks[t].result]
      /\ [t \in TaskId |-> tasks'[t].wakeAt]
           = [[t \in TaskId |-> tasks[t].wakeAt] EXCEPT ![c] = tasks'[c].wakeAt]
      /\ [t \in TaskId |-> tasks'[t].wakeAt][c] = tasks'[c].wakeAt
  BY <1>3, <1>5 DEF OthersSeen
<1>7. /\ [t \in TaskId |-> View(t).depth]' = [t \in TaskId |-> View(t).depth]
      /\ [t \in TaskId |-> View(t).pend]' = [t \in TaskId |-> View(t).pend]
      /\ [t \in TaskId |-> View(t).got]' = [t \in TaskId |-> View(t).got]
  BY <1>3, <1>5 DEF OthersSeen
<1> QED
  BY <1>3, <1>4, <1>6, <1>7 DEF F!Sleep

\* The steps that change only the clock or the depth of the running task.
LEMMA LocalSteps ==
  ASSUME IInv, NEW c, c = cur
  PROVE  /\ Tick => F!Pass(c)
         /\ (\E d \in Durations : SleepAlone(d)) => F!Pass(c)
         /\ Call => F!Call(c)
         /\ Return => F!Return(c)
<1>1. c \in TaskId /\ ws \in WorkingSet /\ now \in Nat /\ View(c) = ws
      /\ Durations \subseteq Int
  BY SchedulerAssumption DEF IInv, TypeOK, TaskId, View
<1>2. ASSUME Tick \/ \E d \in Durations : SleepAlone(d)
      PROVE  F!Pass(c)
  <2>1. Running /\ now' >= now /\ UNCHANGED <<n, tasks, cur, ws, status>>
    BY <1>1, <1>2 DEF Tick, SleepAlone, Free
  <2>2. F!Step(c)
    BY <2>1, CurCanStep
  <2> QED
    BY <2>1, <2>2 DEF F!Pass, View
<1>3. ASSUME NEW k \in Int, Free, ws' = [ws EXCEPT !.depth = k],
             UNCHANGED <<n, tasks, cur, now, status>>
      PROVE  /\ F!FreeStep(c)
             /\ [t \in TaskId |-> View(t).depth]'
                  = [[t \in TaskId |-> View(t).depth] EXCEPT ![c] = k]
             /\ [t \in TaskId |-> View(t).pend]' = [t \in TaskId |-> View(t).pend]
             /\ [t \in TaskId |-> View(t).got]' = [t \in TaskId |-> View(t).got]
  <2>1. now' >= now /\ Running /\ ws.pend = None
    BY <1>1, <1>3 DEF Free
  <2>2. F!FreeStep(c)
    BY <2>1, CurCanStep
  <2>3. View(c)' = ws' /\ \A t \in TaskId : t # c => View(t)' = View(t)
    BY <1>3 DEF View
  <2>4. ws'.depth = k /\ ws'.pend = ws.pend /\ ws'.got = ws.got
    BY <1>1, <1>3 DEF WorkingSet
  <2> QED
    BY <1>1, <2>2, <2>3, <2>4
<1>4. ws.depth \in Int /\ [t \in TaskId |-> View(t).depth][c] = ws.depth
  BY <1>1 DEF WorkingSet
<1>5. ASSUME Call PROVE F!Call(c)
  <2>1. /\ Free /\ ws.depth < MaxDepth /\ ws.depth + 1 \in Int
        /\ ws' = [ws EXCEPT !.depth = ws.depth + 1]
        /\ UNCHANGED <<n, tasks, cur, now, status>>
    BY <1>4, <1>5 DEF Call
  <2>2. PICK k \in Int : k = ws.depth + 1
    BY <2>1
  <2> QED
    BY <1>3, <1>4, <2>1, <2>2 DEF F!Call
<1>6. ASSUME Return PROVE F!Return(c)
  <2>1. /\ Free /\ ws.depth > 1 /\ ws.depth - 1 \in Int
        /\ ws' = [ws EXCEPT !.depth = ws.depth - 1]
        /\ UNCHANGED <<n, tasks, cur, now, status>>
    BY <1>4, <1>6 DEF Return
  <2>2. PICK k \in Int : k = ws.depth - 1
    BY <2>1
  <2> QED
    BY <1>3, <1>4, <2>1, <2>2 DEF F!Return
<1> QED
  BY <1>2, <1>5, <1>6

\* A spawn only adds a task: Futures already counts it as untouched.
LEMMA SpawnSpawns ==
  ASSUME IInv, Unspawned, Spawn, NEW c, c = cur
  PROVE  F!Spawn(c)
<1>1. Running /\ ws.pend = None /\ n < MaxTasks /\ n' = n + 1
      /\ tasks' = [tasks EXCEPT ![n] = NewTask]
      /\ UNCHANGED <<cur, ws, now, status>>
  BY DEF Spawn, Free
<1>2. n \in TaskId /\ now' >= now /\ tasks \in [TaskId -> Task]
  BY <1>1, SchedulerAssumption DEF IInv, TypeOK, TaskId
<1>3. tasks' = tasks
  <2>1. tasks[n] = NewTask
    BY <1>2 DEF Unspawned, TaskId
  <2> QED
    BY <1>1, <1>2, <2>1
<1>4. F!FreeStep(c)
  BY <1>1, <1>2, CurCanStep
<1> QED
  BY <1>1, <1>3, <1>4 DEF F!Spawn, View

\* Awaiting a finished task obtains its result.
LEMMA AwaitDoneObtains ==
  ASSUME IInv, NEW f \in TaskId, AwaitDone(f), NEW c, c = cur
  PROVE  F!Obtain(c, f)
<1>1. /\ Running /\ ws.pend \in {None, f} /\ f < n /\ f # c /\ tasks[f].done
      /\ tasks' = [tasks EXCEPT ![c].awaiting = None]
      /\ ws' = [ws EXCEPT !.pend = None, !.got = tasks[f].result]
      /\ UNCHANGED <<n, cur, now, status>>
  BY DEF AwaitDone, AtAwait
<1>2. /\ c \in TaskId /\ ws \in WorkingSet /\ tasks \in [TaskId -> Task]
      /\ now' >= now /\ View(c) = ws
  BY <1>1, SchedulerAssumption DEF IInv, TypeOK, TaskId, View
<1>3. F!Step(c)
  BY <1>1, <1>2, CurCanStep
<1>4. \A t \in TaskId : /\ tasks'[t].done = tasks[t].done
                        /\ tasks'[t].result = tasks[t].result
                        /\ tasks'[t].wakeAt = tasks[t].wakeAt
                        /\ t # c => tasks'[t] = tasks[t]
  BY <1>1, <1>2 DEF Task
<1>5. ws'.pend = None /\ ws'.got = tasks[f].result /\ ws'.depth = ws.depth
  BY <1>1, <1>2 DEF WorkingSet
<1>6. View(c)' = ws' /\ \A t \in TaskId : t # c => View(t)' = View(t)
  BY <1>1, <1>4 DEF View
<1>7. /\ [t \in TaskId |-> tasks'[t].done] = [t \in TaskId |-> tasks[t].done]
      /\ [t \in TaskId |-> tasks'[t].result] = [t \in TaskId |-> tasks[t].result]
      /\ [t \in TaskId |-> tasks'[t].wakeAt] = [t \in TaskId |-> tasks[t].wakeAt]
  BY <1>4
<1>8. /\ [t \in TaskId |-> View(t).pend]'
           = [[t \in TaskId |-> View(t).pend] EXCEPT ![c] = None]
      /\ [t \in TaskId |-> View(t).got]'
           = [[t \in TaskId |-> View(t).got] EXCEPT ![c] = tasks[f].result]
      /\ [t \in TaskId |-> View(t).depth]' = [t \in TaskId |-> View(t).depth]
  BY <1>2, <1>5, <1>6
<1>9. /\ [t \in TaskId |-> View(t).pend][c] \in {None, f}
      /\ [t \in TaskId |-> tasks[t].done][f]
      /\ [t \in TaskId |-> tasks[t].result][f] = tasks[f].result
  BY <1>1, <1>2
<1> QED
  BY <1>1, <1>3, <1>7, <1>8, <1>9 DEF F!Obtain, F!None, None

\* Every way the program ends is a Stop of the task that ended it.
LEMMA EndsStop ==
  ASSUME IInv, ReturnMain \/ Halt \/ Fatal \/ AwaitSelf, NEW c, c = cur
  PROVE  F!Stop(c)
<1>1. /\ Running /\ RunningTask /\ status' \in {"exit", "fatal"}
      /\ UNCHANGED <<n, tasks, cur, ws, now>>
  BY DEF ReturnMain, Halt, Fatal, AwaitSelf, AtAwait, Free, IInv
<1>2. ws.pend = None
  BY <1>1 DEF ReturnMain, Halt, Fatal, AwaitSelf, AtAwait, Free, RunningTask
<1>3. now' >= now
  BY <1>1, SchedulerAssumption DEF IInv, TypeOK
<1>4. F!FreeStep(c)
  BY <1>1, <1>2, <1>3, CurCanStep
<1> QED
  BY <1>1, <1>4 DEF F!Stop, View

\* One instruction of the VM is one step of one task, or none.
LEMMA StepMaps ==
  ASSUME IInv, Unspawned, [Next]_vars
  PROVE  [F!Next]_(F!vars)
<1>1. PICK c : c = cur
  OBVIOUS
<1>2. c \in TaskId
  BY <1>1, SchedulerAssumption DEF IInv, TypeOK, TaskId
<1>3. CASE Tick \/ Call \/ Return
  BY <1>1, <1>2, <1>3, LocalSteps DEF F!Next, F!TaskId, TaskId
<1>4. CASE RetEntry
  BY <1>1, <1>2, <1>4, EndsStop, FinishCompletes DEF RetEntry, F!Next, F!TaskId, TaskId
<1>5. CASE Halt \/ Fatal
  BY <1>1, <1>2, <1>5, EndsStop DEF F!Next, F!TaskId, TaskId
<1>6. CASE Spawn
  BY <1>1, <1>2, <1>6, SpawnSpawns DEF F!Next, F!TaskId, TaskId
<1>7. CASE Await
  BY <1>1, <1>2, <1>7, EndsStop, AwaitDoneObtains, AwaitBlockSuspends
     DEF Await, F!Next, F!TaskId, TaskId
<1>8. CASE Sleep
  BY <1>1, <1>2, <1>8, LocalSteps, SleepYieldSleeps DEF Sleep, F!Next, F!TaskId, TaskId
<1>9. CASE Ended \/ UNCHANGED vars
  BY <1>9 DEF Ended, vars, F!vars, View
<1> QED
  BY <1>3, <1>4, <1>5, <1>6, <1>7, <1>8, <1>9 DEF Next

\* No step touches a struct that has not been spawned.
LEMMA UnspawnedPreserved ==
  ASSUME IInv, Unspawned, [Next]_vars
  PROVE  Unspawned'
<1>1. /\ TypeOK /\ n \in Nat /\ cur \in TaskId /\ cur < n
      /\ tasks \in [TaskId -> Task] /\ \A t \in TaskId : t \in Int
  BY SchedulerAssumption DEF IInv, TypeOK, TaskId
<1>2. CASE Switching
  <2>1. PICK ts : Parked(ts) /\ Switch(ts) /\ OthersKept(ts)
    BY <1>2, FinishParks, AwaitBlockParks, SleepYieldParks DEF Switching
  <2>2. n' = n /\ \A u \in TaskId : u >= n => tasks'[u] = ts[u]
    BY <1>1, <2>1, SwitchSeen DEF Parked
  <2> QED
    BY <1>1, <2>1, <2>2 DEF Unspawned, OthersKept
<1>3. CASE Spawn
  <2>1. n' = n + 1 /\ \A t \in TaskId : t >= n => tasks'[t] = NewTask
    BY <1>1, <1>3 DEF Spawn, Unspawned
  <2> QED
    BY <1>1, <2>1 DEF Unspawned
<1>4. CASE \E f \in TaskId : AwaitDone(f)
  <2>1. n' = n /\ \A t \in TaskId : t # cur => tasks'[t] = tasks[t]
    BY <1>1, <1>4 DEF AwaitDone
  <2> QED
    BY <1>1, <2>1 DEF Unspawned
<1>5. CASE UNCHANGED <<n, tasks>>
  BY <1>5 DEF Unspawned
<1> QED
  BY <1>2, <1>3, <1>4, <1>5
     DEF Next, Tick, Call, Return, RetEntry, ReturnMain, Halt, Await, AwaitSelf,
         Sleep, SleepAlone, Fatal, Ended, vars, Switching

\* The scheduler implements independent tasks: whatever pick, save and load
\* do, a program sees only what Futures allows (main.go:654, 1107-1172).
THEOREM SchedulerImplementsFutures == Spec => ImplementsFutures
<1>1. Init => Unspawned /\ F!Init
  <2>1. SUFFICES ASSUME Init
                 PROVE  Unspawned /\ F!Init
    OBVIOUS
  <2>2. /\ n = 1 /\ cur = 0 /\ ws = FreshWorkingSet /\ now = 0 /\ status = "run"
        /\ \A t \in TaskId : tasks[t] = NewTask
    BY <2>1 DEF Init
  <2>3. \A t \in TaskId : View(t) = FreshWorkingSet
    BY <2>2 DEF View, NewTask
  <2>4. /\ [t \in TaskId |-> tasks[t].done] = [t \in TaskId |-> FALSE]
        /\ [t \in TaskId |-> tasks[t].result] = [t \in TaskId |-> NoResult]
        /\ [t \in TaskId |-> tasks[t].wakeAt] = [t \in TaskId |-> 0]
    <3>1. NewTask.done = FALSE /\ NewTask.result = NoResult /\ NewTask.wakeAt = 0
      BY DEF NewTask
    <3> QED
      BY <2>2, <3>1
  <2>5. /\ [t \in TaskId |-> View(t).depth] = [t \in TaskId |-> 1]
        /\ [t \in TaskId |-> View(t).pend] = [t \in TaskId |-> None]
        /\ [t \in TaskId |-> View(t).got] = [t \in TaskId |-> NoResult]
    BY <2>3 DEF FreshWorkingSet
  <2> QED
    BY <2>2, <2>4, <2>5 DEF Unspawned, F!Init, F!None, None, F!TaskId, TaskId
<1>2. IInv /\ Unspawned /\ [Next]_vars => Unspawned' /\ [F!Next]_(F!vars)
  BY StepMaps, UnspawnedPreserved
<1> QED
  BY <1>1, <1>2, Invariance, PTL DEF Spec, ImplementsFutures, F!Spec

-----------------------------------------------------------------------------
(* What waiting costs, on an ideal host.                                   *)

\* Where the path p of a parked task stands when the clock reads c: at the
\* deadline of a sleeper, unless that has passed; at the clock for a task
\* that has not started; and behind the clock for one that awaits, which
\* catches up with the task it awaits at the instant that one finishes.
ParkedPath(ts, p, c, t) ==
  IF ts[t].done THEN p[t] <= c
  ELSE IF ts[t].sleeping THEN p[t] = IF ts[t].wakeAt > c THEN ts[t].wakeAt ELSE c
  ELSE IF ts[t].awaiting = None THEN p[t] = c
  ELSE p[t] <= c /\ (ts[ts[t].awaiting].done => p[ts[t].awaiting] = c)

\* Where the path of the running task stands.
RunningPath ==
  IF ws.pend = None THEN path[cur] = now
  ELSE path[cur] <= now /\ path[ws.pend] = now

\* The inductive invariant of the costs.
CostInv ==
  /\ IInv
  /\ path \in [TaskId -> Int]
  /\ Running => /\ RunningPath
                /\ \A t \in 0 .. n - 1 : t # cur => ParkedPath(tasks, path, now, t)

\* pick advances the clock only when nobody is ready, and then to the first
\* deadline: no parked path falls behind, and the one resumed is on time.
LEMMA SwitchCosts ==
  ASSUME Slack = 0, TypeOK, IInv', NEW ts, Parked(ts), Switch(ts),
         path' \in [TaskId -> Int],
         \A t \in 0 .. n - 1 : ParkedPath(ts, path', now, t)
  PROVE  CostInv'
<1>t. /\ n' = n /\ n \in Nat /\ MaxTime \in Nat /\ now \in Int
      /\ 0 .. n - 1 \subseteq TaskId /\ ts \in [TaskId -> Task]
  BY SchedulerAssumption DEF TypeOK, TaskId, Parked, Switch
<1>w. \A t \in 0 .. n - 1 : /\ ts[t] \in Task /\ ts[t].wakeAt \in Int
                            /\ path'[t] \in Int
  BY <1>t DEF Task
<1>1. ASSUME NEW t \in 0 .. n - 1, NEW c \in Int, Ready(ts, t, c), Resume(ts, t, c),
             \A u \in 0 .. n - 1 : ParkedPath(ts, path', c, u)
      PROVE  CostInv'
  <2>1. /\ cur' = t /\ now' = c /\ ws' = ts[t].saved
        /\ tasks' = [ts EXCEPT ![t].sleeping = FALSE]
    BY <1>1 DEF Resume
  <2>2. /\ tasks'[t].done = ts[t].done /\ tasks'[t].awaiting = ts[t].awaiting
        /\ \A u \in TaskId : u # t => tasks'[u] = ts[u]
    BY <1>t, <1>w, <2>1 DEF Task
  <2>3. \A u \in TaskId : tasks'[u].done = ts[u].done
    BY <2>2
  <2>4. /\ ~ts[t].done /\ ts[t].awaiting = ts[t].saved.pend
        /\ ts[t].sleeping => ts[t].awaiting = None
    BY <1>1 DEF Ready, Parked, ParkedTask
  <2>5. ParkedPath(ts, path', c, t)
    BY <1>1
  <2>6. RunningPath'
    <3>1. CASE ts[t].sleeping
      <4>1. ts[t].wakeAt <= c
        BY <1>1, <3>1 DEF Ready
      <4>2. path'[t] = c
        BY <1>w, <2>4, <2>5, <3>1, <4>1 DEF ParkedPath
      <4> QED
        BY <2>1, <2>4, <3>1, <4>2 DEF RunningPath
    <3>2. CASE ~ts[t].sleeping /\ ts[t].awaiting = None
      <4>1. path'[t] = c
        BY <2>4, <2>5, <3>2 DEF ParkedPath
      <4> QED
        BY <2>1, <2>4, <3>2, <4>1 DEF RunningPath
    <3>3. CASE ~ts[t].sleeping /\ ts[t].awaiting # None
      <4>1. ts[ts[t].awaiting].done
        BY <1>1, <3>3 DEF Ready
      <4>2. path'[t] <= c /\ path'[ts[t].awaiting] = c
        BY <2>4, <2>5, <3>3, <4>1 DEF ParkedPath
      <4> QED
        BY <2>1, <2>4, <3>3, <4>2 DEF RunningPath
    <3> QED
      BY <3>1, <3>2, <3>3
  <2>7. ASSUME NEW u \in 0 .. n - 1, u # t
        PROVE  ParkedPath(tasks', path', c, u)
    <3>1. tasks'[u] = ts[u] /\ ParkedPath(ts, path', c, u)
      BY <1>1, <1>t, <2>2, <2>7
    <3>2. ~ts[u].done /\ ts[u].awaiting # None =>
             tasks'[ts[u].awaiting].done = ts[ts[u].awaiting].done
      BY <1>t, <2>3 DEF Parked, ParkedTask
    <3> QED
      BY <3>1, <3>2 DEF ParkedPath
  <2> QED
    BY <1>t, <2>1, <2>6, <2>7 DEF CostInv, ParkedPath
<1>2. CASE PickReady(ts)
  <2>1. PICK t \in 0 .. n - 1, t1 \in Until(now) :
          Scan(ts, now, t1, t) /\ Resume(ts, t, t1)
    BY <1>2 DEF PickReady
  <2>2. t1 = now
    BY <1>t DEF Until
  <2> QED
    BY <1>1, <1>t, <2>1, <2>2 DEF Scan
<1>3. CASE PickSleeper(ts)
  <2>1. PICK s \in Sleepers(ts) :
          /\ \A u \in Sleepers(ts) : ts[s].wakeAt <= ts[u].wakeAt
          /\ \E t \in 0 .. n - 1, t1 \in Until(ts[s].wakeAt) :
               Scan(ts, ts[s].wakeAt, t1, t) /\ Resume(ts, t, t1)
    BY <1>3 DEF PickSleeper
  <2>2. PICK t \in 0 .. n - 1, t1 \in Until(ts[s].wakeAt) :
          Scan(ts, ts[s].wakeAt, t1, t) /\ Resume(ts, t, t1)
    BY <2>1
  <2>3. /\ s \in 0 .. n - 1 /\ ~ts[s].done /\ ts[s].sleeping
        /\ \A u \in 0 .. n - 1 : ~Ready(ts, u, now)
    BY <1>3, <2>1 DEF PickSleeper, Sleepers, NoneReady
  <2>4. PICK c \in Int : c = ts[s].wakeAt
    BY <1>w, <2>3
  <2>5. t1 = c /\ now < c
    BY <1>t, <2>3, <2>4 DEF Until, Ready
  <2>6. ASSUME NEW u \in 0 .. n - 1
        PROVE  ParkedPath(ts, path', c, u)
    <3>0. ParkedPath(ts, path', now, u) /\ ~Ready(ts, u, now)
          /\ path'[u] \in Int /\ ts[u].wakeAt \in Int
      BY <1>w, <2>3
    <3>1. CASE ts[u].done
      BY <1>t, <2>5, <3>0, <3>1 DEF ParkedPath
    <3>2. CASE ~ts[u].done /\ ts[u].sleeping
      <4>1. c <= ts[u].wakeAt
        BY <2>1, <2>4, <3>2 DEF Sleepers
      <4> QED
        BY <1>t, <2>5, <3>0, <3>2, <4>1 DEF ParkedPath
    <3>3. CASE ~ts[u].done /\ ~ts[u].sleeping
      <4>1. ts[u].awaiting # None /\ ~ts[ts[u].awaiting].done
        BY <3>0, <3>3 DEF Ready
      <4> QED
        BY <1>t, <2>5, <3>0, <3>3, <4>1 DEF ParkedPath
    <3> QED
      BY <3>1, <3>2, <3>3
  <2> QED
    BY <1>1, <2>2, <2>4, <2>5, <2>6 DEF Scan
<1>4. CASE Deadlock(ts)
  BY <1>4 DEF Deadlock, CostInv, Running
<1> QED
  BY <1>2, <1>3, <1>4 DEF Switch

\* What the invariant says of the tasks, with their types.
LEMMA CostFacts ==
  ASSUME CostInv, Running
  PROVE  /\ TypeOK /\ RunningTask /\ RunningPath /\ status = "run"
         /\ n \in 1 .. MaxTasks /\ MaxTasks \in Nat /\ now \in Int
         /\ cur \in 0 .. n - 1 /\ cur \in TaskId
         /\ 0 .. n - 1 \subseteq TaskId /\ TaskId \subseteq Int
         /\ tasks \in [TaskId -> Task] /\ path \in [TaskId -> Int]
         /\ \A t \in 0 .. n - 1 : t # cur => ParkedPath(tasks, path, now, t)
         /\ \A t \in 0 .. n - 1 : t # cur => ParkedTask(tasks, t)
  BY SchedulerAssumption DEF CostInv, IInv, TypeOK, TaskId, Running

\* A task that yields with nothing pending is on time; if it parks at its
\* deadline, at its end or before an unfinished task, so are all the others.
LEMMA YieldCosts ==
  ASSUME Slack = 0, CostInv, IInv', Free, NEW ts, Parked(ts), Switch(ts),
         OthersKept(ts), path' \in [TaskId -> Int],
         \A t \in TaskId : t # cur => path'[t] = path[t],
         ParkedPath(ts, path', now, cur), ts[cur].done => path'[cur] = now
  PROVE  CostInv'
<1>1. Running /\ ws.pend = None
  BY DEF Free
<1>2. ASSUME NEW t \in 0 .. n - 1, t # cur
      PROVE  ParkedPath(ts, path', now, t)
  <2>1. t \in TaskId /\ ts[t] = tasks[t] /\ path'[t] = path[t]
    BY <1>1, <1>2, CostFacts DEF OthersKept
  <2>2. ParkedPath(tasks, path, now, t) /\ ParkedTask(tasks, t)
    BY <1>1, <1>2, CostFacts
  <2>3. ASSUME ~ts[t].done, ts[t].awaiting # None, ts[ts[t].awaiting].done,
               path[t] <= now, tasks[ts[t].awaiting].done => path[ts[t].awaiting] = now
        PROVE  path'[ts[t].awaiting] = now
    <3>1. ts[t].awaiting \in TaskId
      BY <1>1, <2>1, <2>2, <2>3, CostFacts DEF ParkedTask
    <3>2. CASE ts[t].awaiting = cur
      BY <2>3, <3>2
    <3>3. CASE ts[t].awaiting # cur
      BY <2>3, <3>1, <3>3 DEF OthersKept
    <3> QED
      BY <3>2, <3>3
  <2> QED
    BY <2>1, <2>2, <2>3 DEF ParkedPath
<1>3. \A t \in 0 .. n - 1 : ParkedPath(ts, path', now, t)
  BY <1>2
<1> QED
  BY <1>1, <1>3, CostFacts, SwitchCosts

\* The three steps that switch tasks keep the paths on time.
LEMMA SwitchingCosts ==
  ASSUME Slack = 0, CostInv, IInv',
         \/ \E v \in Results : Finish(v) /\ UNCHANGED path
         \/ \E f \in TaskId : AwaitBlock(f) /\ UNCHANGED path
         \/ \E d \in Durations : SleepYield(d) /\ Extend(cur, d)
  PROVE  CostInv'
<1>0. IInv
  BY DEF CostInv
<1>r. ASSUME Free
      PROVE  /\ path[cur] = now /\ path \in [TaskId -> Int] /\ cur \in TaskId
             /\ ~tasks[cur].done /\ now \in Int
  BY <1>r, CostFacts DEF Free, RunningPath, RunningTask
<1>1. CASE \E v \in Results : Finish(v) /\ UNCHANGED path
  <2>1. PICK v \in Results : Finish(v)
    BY <1>1
  <2>2. Free
    BY <2>1 DEF Finish
  <2>3. PICK ts : Parked(ts) /\ Switch(ts) /\ OthersKept(ts) /\ ts[cur].done
    BY <1>0, <2>1, FinishParks
  <2>4. path' = path /\ path'[cur] = now /\ path' \in [TaskId -> Int]
    BY <1>1, <1>r, <2>2
  <2>5. ParkedPath(ts, path', now, cur)
    BY <1>r, <2>2, <2>3, <2>4 DEF ParkedPath
  <2> QED
    BY <2>2, <2>3, <2>4, <2>5, YieldCosts
<1>2. CASE \E f \in TaskId : AwaitBlock(f) /\ UNCHANGED path
  <2>1. PICK f \in TaskId : AwaitBlock(f)
    BY <1>2
  <2>2. Running /\ ~tasks[f].done /\ ws.pend \in {None, f} /\ f < n
    BY <2>1 DEF AwaitBlock, AtAwait
  <2>3. ws.pend = None
    BY <2>2, CostFacts DEF RunningTask
  <2>4. Free
    BY <2>2, <2>3 DEF Free
  <2>5. PICK ts : /\ Parked(ts) /\ Switch(ts) /\ OthersKept(ts)
                  /\ ts[cur].done = tasks[cur].done
                  /\ ts[cur].saved = [ws EXCEPT !.pend = f]
    BY <1>0, <2>1, AwaitBlockParks
  <2>6. path' = path /\ path'[cur] = now /\ path' \in [TaskId -> Int]
    BY <1>2, <1>r, <2>4
  <2>7. f # cur /\ f # None /\ ts[f] = tasks[f]
    <3>1. f # cur
      BY <2>1 DEF AwaitBlock
    <3>2. f # None
      BY SchedulerAssumption DEF TaskId, None
    <3> QED
      BY <3>1, <3>2, <2>5 DEF OthersKept
  <2>8. ~ts[cur].done /\ ts[cur].awaiting = f /\ ~ts[cur].sleeping
    <3>1. ws \in WorkingSet /\ cur \in 0 .. n - 1
      BY <2>2, CostFacts DEF TypeOK
    <3>2. ts[cur].saved.pend = f
      BY <2>5, <3>1 DEF WorkingSet
    <3>3. ~ts[cur].done
      BY <1>r, <2>4, <2>5
    <3>4. ParkedTask(ts, cur)
      BY <2>5, <3>1 DEF Parked
    <3> QED
      BY <2>7, <3>2, <3>3, <3>4 DEF ParkedTask
  <2>9. ParkedPath(ts, path', now, cur)
    BY <1>r, <2>2, <2>4, <2>6, <2>7, <2>8 DEF ParkedPath
  <2> QED
    BY <2>4, <2>5, <2>6, <2>9, YieldCosts
<1>3. CASE \E d \in Durations : SleepYield(d) /\ Extend(cur, d)
  <2>1. PICK d \in Durations : SleepYield(d) /\ Extend(cur, d)
    BY <1>3
  <2>2. Free /\ d \in Int
    BY <2>1, SchedulerAssumption DEF SleepYield
  <2>3. PICK ts : /\ Parked(ts) /\ Switch(ts) /\ OthersKept(ts)
                  /\ ts[cur].done = tasks[cur].done
                  /\ ts[cur].sleeping /\ ts[cur].wakeAt = now + d
    BY <1>0, <2>1, SleepYieldParks
  <2>4. /\ path' \in [TaskId -> Int]
        /\ path'[cur] = IF d > 0 THEN now + d ELSE now
        /\ \A t \in TaskId : t # cur => path'[t] = path[t]
    BY <1>r, <2>1, <2>2 DEF Extend
  <2>5. ~ts[cur].done /\ now \in Int
    BY <1>r, <2>2, <2>3
  <2>6. ParkedPath(ts, path', now, cur)
    BY <2>2, <2>3, <2>4, <2>5 DEF ParkedPath
  <2> QED
    BY <2>2, <2>3, <2>4, <2>5, <2>6, YieldCosts
<1> QED
  BY <1>1, <1>2, <1>3

\* A spawned task starts on time.
LEMMA SpawnCosts ==
  ASSUME CostInv, IInv', Spawn, Start(n)
  PROVE  CostInv'
<1>1. /\ Running /\ ws.pend = None /\ n < MaxTasks /\ n' = n + 1
      /\ tasks' = [tasks EXCEPT ![n] = NewTask]
      /\ cur' = cur /\ ws' = ws /\ now' = now /\ status' = status
      /\ path' = [path EXCEPT ![n] = path[cur]]
  BY DEF Spawn, Free, Start
<1>2. path[cur] = now
  BY <1>1, CostFacts DEF RunningPath
<1>3. n \in TaskId /\ n # cur /\ n \notin 0 .. n - 1
  BY <1>1, CostFacts DEF TaskId
<1>4. /\ path' \in [TaskId -> Int] /\ path'[n] = now
      /\ \A t \in TaskId : t # n => path'[t] = path[t] /\ tasks'[t] = tasks[t]
      /\ tasks'[n] = NewTask
  BY <1>1, <1>2, <1>3, CostFacts
<1>5. RunningPath'
  BY <1>1, <1>2, <1>3, <1>4, CostFacts DEF RunningPath
<1>6. ASSUME NEW t \in 0 .. n, t # cur
      PROVE  ParkedPath(tasks', path', now, t)
  <2>1. CASE t = n
    BY <1>4, <2>1 DEF ParkedPath, NewTask
  <2>2. CASE t # n
    <3>1. t \in 0 .. n - 1 /\ t \in TaskId
      BY <1>1, <2>2, CostFacts
    <3>2. tasks'[t] = tasks[t] /\ path'[t] = path[t]
      BY <1>4, <2>2, <3>1
    <3>3. ParkedPath(tasks, path, now, t) /\ ParkedTask(tasks, t)
      BY <1>1, <1>6, <3>1, CostFacts
    <3>4. ~tasks[t].done /\ tasks[t].awaiting # None =>
            /\ tasks'[tasks[t].awaiting] = tasks[tasks[t].awaiting]
            /\ path'[tasks[t].awaiting] = path[tasks[t].awaiting]
      BY <1>1, <1>3, <1>4, <3>3, CostFacts DEF ParkedTask
    <3> QED
      BY <3>2, <3>3, <3>4 DEF ParkedPath
  <2> QED
    BY <2>1, <2>2
<1>7. 0 .. n' - 1 = 0 .. n
  BY <1>1, CostFacts
<1>8. \A t \in 0 .. n : t # cur => ParkedPath(tasks, path, now, t)'
  <2>1. ASSUME NEW t \in 0 .. n, t # cur PROVE ParkedPath(tasks, path, now, t)'
    <3>1. ParkedPath(tasks', path', now, t)
      BY <1>6, <2>1
    <3> QED
      BY <1>1, <3>1 DEF ParkedPath
  <2> QED
    BY <2>1
<1>9. \A t \in 0 .. n' - 1 : t # cur' => ParkedPath(tasks, path, now, t)'
  BY <1>1, <1>7, <1>8, Zenon
<1> QED
  BY <1>4, <1>5, <1>9 DEF CostInv

\* An await that obtains its result leaves the task on time: a task that
\* blocked was resumed at the instant the awaited one finished, and one that
\* did not block is not behind it.
LEMMA JoinCosts ==
  ASSUME CostInv, IInv', NEW f \in TaskId, AwaitDone(f), Join(f)
  PROVE  CostInv'
<1>1. /\ Running /\ ws.pend \in {None, f} /\ f < n /\ f # cur /\ tasks[f].done
      /\ tasks' = [tasks EXCEPT ![cur].awaiting = None]
      /\ ws' = [ws EXCEPT !.pend = None, !.got = tasks[f].result]
      /\ n' = n /\ cur' = cur /\ now' = now /\ status' = status
      /\ path' = [path EXCEPT ![cur] = IF path[f] > path[cur] THEN path[f] ELSE path[cur]]
  BY DEF AwaitDone, AtAwait, Join
<1>2. f \in 0 .. n - 1 /\ f # None /\ path[f] \in Int /\ path[cur] \in Int /\ now \in Int
  BY <1>1, CostFacts DEF TaskId, None
<1>3. path[f] <= now /\ path[cur] <= now /\ (path[f] = now \/ path[cur] = now)
  <2>1. path[f] <= now
    BY <1>1, <1>2, CostFacts DEF ParkedPath
  <2>2. CASE ws.pend = None
    BY <1>1, <1>2, <2>1, <2>2, CostFacts DEF RunningPath
  <2>3. CASE ws.pend = f
    BY <1>1, <1>2, <2>1, <2>3, CostFacts DEF RunningPath
  <2> QED
    BY <1>1, <2>2, <2>3
<1>4. /\ path' \in [TaskId -> Int] /\ path'[cur] = now
      /\ \A t \in TaskId : t # cur => path'[t] = path[t] /\ tasks'[t] = tasks[t]
  <2>1. (IF path[f] > path[cur] THEN path[f] ELSE path[cur]) = now
    BY <1>2, <1>3
  <2>2. path' = [path EXCEPT ![cur] = now]
    BY <1>1, <2>1
  <2> QED
    BY <1>1, <2>2, CostFacts
<1>5. ws'.pend = None
  BY <1>1, CostFacts DEF TypeOK, WorkingSet
<1>6. RunningPath'
  BY <1>1, <1>4, <1>5 DEF RunningPath
<1>7. tasks'[cur].done = tasks[cur].done /\ ~tasks[cur].done
  BY <1>1, CostFacts DEF RunningTask, Task
<1>8. ASSUME NEW t \in 0 .. n - 1, t # cur
      PROVE  ParkedPath(tasks', path', now, t)
  <2>1. t \in TaskId /\ ParkedPath(tasks, path, now, t) /\ ParkedTask(tasks, t)
    BY <1>1, <1>8, CostFacts
  <2>2. tasks'[t] = tasks[t] /\ path'[t] = path[t]
    BY <1>4, <1>8, <2>1
  <2>3. ~tasks[t].done /\ tasks[t].awaiting # None =>
          \/ ~tasks'[tasks[t].awaiting].done
          \/ /\ tasks'[tasks[t].awaiting] = tasks[tasks[t].awaiting]
             /\ path'[tasks[t].awaiting] = path[tasks[t].awaiting]
    BY <1>1, <1>4, <1>7, <2>1, CostFacts DEF ParkedTask
  <2> QED
    BY <2>1, <2>2, <2>3 DEF ParkedPath
<1> QED
  BY <1>1, <1>4, <1>6, <1>8 DEF CostInv, ParkedPath

\* The steps of the running task on its own: a sleep of the only task moves
\* the clock and the path alike.
LEMMA LocalCosts ==
  ASSUME CostInv, IInv',
         \/ (Call \/ Return) /\ UNCHANGED path
         \/ \E d \in Durations : SleepAlone(d) /\ Extend(cur, d)
  PROVE  CostInv'
<1>1. CASE (Call \/ Return) /\ UNCHANGED path
  <2>1. /\ Running /\ ws.pend = None /\ n' = n /\ tasks' = tasks /\ cur' = cur
        /\ now' = now /\ status' = status /\ path' = path
        /\ \/ ws' = [ws EXCEPT !.depth = @ + 1]
           \/ ws' = [ws EXCEPT !.depth = @ - 1]
    BY <1>1 DEF Call, Return, Free
  <2>2. ws'.pend = None
    BY <2>1, CostFacts DEF TypeOK, WorkingSet
  <2>3. RunningPath'
    BY <2>1, <2>2, CostFacts DEF RunningPath
  <2> QED
    BY <2>1, <2>3, CostFacts DEF CostInv, ParkedPath
<1>2. CASE \E d \in Durations : SleepAlone(d) /\ Extend(cur, d)
  <2>1. PICK d \in Durations : SleepAlone(d) /\ Extend(cur, d)
    BY <1>2
  <2>2. /\ Running /\ ws.pend = None /\ n = 1 /\ d \in Int
        /\ now' = (IF d > 0 THEN now + d ELSE now)
        /\ path' = [path EXCEPT ![cur] = IF d > 0 THEN path[cur] + d ELSE path[cur]]
        /\ n' = n /\ tasks' = tasks /\ cur' = cur /\ ws' = ws
    BY <2>1, SchedulerAssumption DEF SleepAlone, Free, Extend
  <2>3. path[cur] = now /\ cur = 0
    BY <2>2, CostFacts DEF RunningPath
  <2>4. path' \in [TaskId -> Int] /\ path'[cur] = now'
    BY <2>2, <2>3, CostFacts
  <2>5. RunningPath'
    BY <2>2, <2>4 DEF RunningPath
  <2>6. \A t \in 0 .. n - 1 : t = cur
    BY <2>2, <2>3
  <2> QED
    BY <2>2, <2>4, <2>5, <2>6 DEF CostInv
<1> QED
  BY <1>1, <1>2

\* Every step of the ideal host keeps the paths on time.
LEMMA CostNextPreserves ==
  ASSUME Slack = 0, CostInv, [CostNext]_cvars
  PROVE  CostInv'
<1>1. IInv /\ path \in [TaskId -> Int]
  BY DEF CostInv
<1>2. [Next]_vars
  BY DEF CostNext, cvars, Next, Await, Sleep
<1>3. IInv'
  BY <1>1, <1>2, NextPreserves
<1>4. ASSUME status' # "run", path' = path PROVE CostInv'
  BY <1>1, <1>3, <1>4 DEF CostInv, Running
<1>5. CASE UNCHANGED cvars
  BY <1>3, <1>5 DEF cvars, vars, CostInv, Running, RunningPath, ParkedPath
<1>6. CASE CostNext
  <2>1. CASE Spawn /\ Start(n)
    BY <1>3, <2>1, SpawnCosts
  <2>2. CASE \E f \in TaskId : AwaitDone(f) /\ Join(f)
    BY <1>3, <2>2, JoinCosts
  <2>3. CASE \E d \in Durations : (SleepYield(d) \/ SleepAlone(d)) /\ Extend(cur, d)
    BY <1>3, <2>3, SwitchingCosts, LocalCosts
  <2>4. CASE (Call \/ Return) /\ UNCHANGED path
    BY <1>3, <2>4, LocalCosts
  <2>5. CASE (ReturnMain \/ Halt \/ Fatal \/ AwaitSelf \/ Ended) /\ UNCHANGED path
    <3>1. status' # "run"
      BY <2>5 DEF ReturnMain, Halt, Fatal, AwaitSelf, Ended, Running, vars
    <3> QED
      BY <1>4, <2>5, <3>1
  <2>6. CASE (\E v \in Results : Finish(v)) /\ UNCHANGED path
    BY <1>3, <2>6, SwitchingCosts
  <2>7. CASE (\E f \in TaskId : AwaitBlock(f)) /\ UNCHANGED path
    BY <1>3, <2>7, SwitchingCosts
  <2> QED
    BY <1>6, <2>1, <2>2, <2>3, <2>4, <2>5, <2>6, <2>7 DEF CostNext, RetEntry
<1> QED
  BY <1>5, <1>6

\* On an ideal host a program takes as long as its longest chain of sleeps
\* and awaits, whatever tasks it spawns and however they interleave: the
\* clock of a task that runs is exactly the length of the chain that led to
\* it (main.go:1143-1145).
THEOREM WaitsOverlap == ASSUME Slack = 0 PROVE CostSpec => []WaitingOverlaps
<1>1. CostInit => CostInv
  <2> SUFFICES ASSUME CostInit PROVE CostInv
    OBVIOUS
  <2>1. IInv
    BY InitIInv DEF CostInit
  <2>2. n = 1 /\ cur = 0 /\ ws.pend = None /\ now = 0 /\ path = [t \in TaskId |-> 0]
    BY DEF CostInit, Init, FreshWorkingSet
  <2>3. path \in [TaskId -> Int] /\ path[cur] = 0
    BY <2>2, SchedulerAssumption DEF TaskId
  <2> QED
    BY <2>1, <2>2, <2>3 DEF CostInv, RunningPath
<1>2. CostInv /\ [CostNext]_cvars => CostInv'
  BY CostNextPreserves
<1>3. CostInv => WaitingOverlaps
  BY DEF CostInv, RunningPath, WaitingOverlaps
<1> QED
  BY <1>1, <1>2, <1>3, PTL DEF CostSpec
=============================================================================
