------------------------------ MODULE Scheduler ------------------------------
(***************************************************************************)
(* The cooperative task scheduler of the Go VM (vm/main.go, run()): the    *)
(* task structs, the running task's working set that save/load swap, pick, *)
(* deadlock, and the instructions that reach them (SPAWN, AWAIT, RET from  *)
(* an entry function, the sleep native).                                   *)
(*                                                                         *)
(* The program is the environment: the running task may execute any of     *)
(* those instructions next. One action is one instruction, the switch to   *)
(* another task it causes included. A future can reach any task through a  *)
(* global, so a task may await any task spawned so far, itself included.   *)
(***************************************************************************)
EXTENDS Integers

CONSTANTS
  MaxTasks,   \* bound on len(tasks), main included
  MaxDepth,   \* bound on len(frames) of one task
  MaxTime,    \* bound on the clock
  Durations,  \* the arguments of sleep(ms) the program uses
  Results,    \* the values a task can return
  NoResult,   \* a Value not yet assigned
  Slack       \* how far the clock may move while pick scans the tasks

ASSUME SchedulerAssumption ==
  /\ MaxTasks \in Nat \ {0}
  /\ MaxDepth \in Nat \ {0}
  /\ MaxTime \in Nat
  /\ Durations \subseteq Int
  /\ NoResult \notin Results
  /\ Slack \in Nat

VARIABLES
  n,       \* len(tasks)
  tasks,   \* the task structs, by id
  cur,     \* id of the running task
  ws,      \* run()'s own stack/frames/pc: the running task's working set
  now,     \* the host's clock
  status   \* "run", or how the process ended

vars == <<n, tasks, cur, ws, now, status>>

None   == -1
TaskId == 0 .. MaxTasks - 1

\* What save() copies out and load() copies in: len(frames); the future that
\* is back on top of the stack of a task whose pc was rewound to its AWAIT;
\* the value its last completed await pushed.
WorkingSet == [depth : 0 .. MaxDepth,
               pend  : TaskId \cup {None},
               got   : Results \cup {NoResult}]

Task == [done     : BOOLEAN,
         result   : Results \cup {NoResult},
         sleeping : BOOLEAN,
         wakeAt   : Int,
         awaiting : TaskId \cup {None},
         saved    : WorkingSet]

FreshWorkingSet == [depth |-> 1, pend |-> None, got |-> NoResult]

NewTask == [done |-> FALSE, result |-> NoResult, sleeping |-> FALSE,
            wakeAt |-> 0, awaiting |-> None, saved |-> FreshWorkingSet]

TypeOK ==
  /\ n \in 1 .. MaxTasks
  /\ tasks \in [TaskId -> Task]
  /\ cur \in 0 .. n - 1
  /\ ws \in WorkingSet
  /\ now \in 0 .. MaxTime
  /\ status \in {"run", "exit", "fatal", "deadlock"}

Init ==
  /\ n = 1
  /\ tasks = [t \in TaskId |-> NewTask]
  /\ cur = 0
  /\ ws = FreshWorkingSet
  /\ now = 0
  /\ status = "run"

-----------------------------------------------------------------------------
(* pick: which task runs next.                                             *)

\* Broken variant: ready() forgets that the awaited task must have finished.
ReadyIgnoringAwait(ts, t, t0) ==
  ~ts[t].done /\ (ts[t].sleeping => ts[t].wakeAt <= t0)

\* Broken variant: ready() forgets the deadline of a sleeping task.
ReadyIgnoringDeadline(ts, t, t0) ==
  ~ts[t].done /\ (ts[t].awaiting # None => ts[ts[t].awaiting].done)

\* ready(t), with the clock reading t0 that the call makes.
Ready(ts, t, t0) ==
  /\ ~ts[t].done
  /\ IF ts[t].sleeping
     THEN ts[t].wakeAt <= t0
     ELSE ts[t].awaiting # None => ts[ts[t].awaiting].done

\* Broken variant: the scan always starts from main.
OffsetFromMain(t) == t + 1

\* The off of pick's loop at which (cur.id+off) % n is t.
Offset(t) == IF t > cur THEN t - cur ELSE t - cur + n

\* try() run between the instants t0 and t1 takes t: each call of ready reads
\* the clock anew, so a task passed over was not ready at t0 and t is at t1.
Scan(ts, t0, t1, t) ==
  /\ Ready(ts, t, t1)
  /\ \A u \in 0 .. n - 1 : Offset(u) < Offset(t) => ~Ready(ts, u, t0)

NoneReady(ts, t0) == \A t \in 0 .. n - 1 : ~Ready(ts, t, t0)

\* Broken variant: the task that just went to sleep is not looked at.
SleepersButCurrent(ts) ==
  {t \in 0 .. n - 1 : t # cur /\ ~ts[t].done /\ ts[t].sleeping}

Sleepers(ts) == {t \in 0 .. n - 1 : ~ts[t].done /\ ts[t].sleeping}

\* The clock readings possible up to Slack after t0.
Until(t0) == {t1 \in t0 .. t0 + Slack : t1 <= MaxTime}

\* Broken variant: pick switches but load() is forgotten.
ResumeWithoutLoad(ts, t, t1) ==
  /\ cur' = t
  /\ tasks' = [ts EXCEPT ![t].sleeping = FALSE]
  /\ ws' = ws
  /\ now' = t1
  /\ UNCHANGED status

\* Broken variant: the sleeping flag of the resumed task is not cleared.
ResumeStillSleeping(ts, t, t1) ==
  /\ cur' = t
  /\ tasks' = ts
  /\ ws' = ts[t].saved
  /\ now' = t1
  /\ UNCHANGED status

\* pick makes t current and load() installs its working set.
Resume(ts, t, t1) ==
  /\ cur' = t
  /\ tasks' = [ts EXCEPT ![t].sleeping = FALSE]
  /\ ws' = ts[t].saved
  /\ now' = t1
  /\ UNCHANGED status

PickReady(ts) ==
  \E t \in 0 .. n - 1, t1 \in Until(now) :
    Scan(ts, now, t1, t) /\ Resume(ts, t, t1)

\* Broken variant: blocks until the latest wake.
PickLastSleeper(ts) ==
  /\ NoneReady(ts, now)
  /\ \E s \in Sleepers(ts) :
       /\ \A u \in Sleepers(ts) : ts[s].wakeAt >= ts[u].wakeAt
       /\ \E t \in 0 .. n - 1, t1 \in Until(ts[s].wakeAt) :
            Scan(ts, ts[s].wakeAt, t1, t) /\ Resume(ts, t, t1)

\* Nobody can run: block until the earliest wake, then scan again.
PickSleeper(ts) ==
  /\ NoneReady(ts, now)
  /\ \E s \in Sleepers(ts) :
       /\ \A u \in Sleepers(ts) : ts[s].wakeAt <= ts[u].wakeAt
       /\ \E t \in 0 .. n - 1, t1 \in Until(ts[s].wakeAt) :
            Scan(ts, ts[s].wakeAt, t1, t) /\ Resume(ts, t, t1)

\* pick returns false and deadlock() ends the process.
Deadlock(ts) ==
  /\ NoneReady(ts, now)
  /\ Sleepers(ts) = {}
  /\ status' = "deadlock"
  /\ tasks' = ts
  /\ ws' = ts[cur].saved
  /\ UNCHANGED <<cur, now>>

\* save(); if !pick() { deadlock() }; load(), where ts is what the
\* instruction and save() made of the task structs.
Switch(ts) ==
  /\ PickReady(ts) \/ PickSleeper(ts) \/ Deadlock(ts)
  /\ UNCHANGED n

-----------------------------------------------------------------------------
(* The instructions.                                                       *)

Running == status = "run"

\* The running task is not at a rewound AWAIT: it may do anything.
Free == Running /\ ws.pend = None

\* Time passes while the running task computes or blocks in a native.
Tick ==
  /\ Running
  /\ now < MaxTime
  /\ now' = now + 1
  /\ UNCHANGED <<n, tasks, cur, ws, status>>

Call ==
  /\ Free
  /\ ws.depth < MaxDepth
  /\ ws' = [ws EXCEPT !.depth = @ + 1]
  /\ UNCHANGED <<n, tasks, cur, now, status>>

\* Broken variant: the entry frame is popped like any other.
ReturnAny ==
  /\ Free
  /\ ws' = [ws EXCEPT !.depth = @ - 1]
  /\ UNCHANGED <<n, tasks, cur, now, status>>

Return ==
  /\ Free
  /\ ws.depth > 1
  /\ ws' = [ws EXCEPT !.depth = @ - 1]
  /\ UNCHANGED <<n, tasks, cur, now, status>>

\* RET from the entry function of main: the program ends, whatever the other
\* tasks were doing. HALT does the same in any task.
ReturnMain ==
  /\ Free
  /\ cur = 0
  /\ ws.depth = 1
  /\ status' = "exit"
  /\ UNCHANGED <<n, tasks, cur, ws, now>>

Halt ==
  /\ Free
  /\ status' = "exit"
  /\ UNCHANGED <<n, tasks, cur, ws, now>>

\* RET from the entry function of a spawned task.
Finish(v) ==
  /\ Free
  /\ cur # 0
  /\ ws.depth = 1
  /\ Switch([tasks EXCEPT ![cur].done   = TRUE,
                          ![cur].result = v,
                          ![cur].saved  = [ws EXCEPT !.depth = 0]])

Spawn ==
  /\ Free
  /\ n < MaxTasks
  /\ tasks' = [tasks EXCEPT ![n] = NewTask]
  /\ n' = n + 1
  /\ UNCHANGED <<cur, ws, now, status>>

\* AWAIT of the future of task f, first executed or re-executed.
AtAwait(f) ==
  /\ Running
  /\ ws.pend \in {None, f}
  /\ f < n

AwaitSelf ==
  /\ AtAwait(cur)
  /\ status' = "fatal"
  /\ UNCHANGED <<n, tasks, cur, ws, now>>

\* Broken variant: a completed await leaves task.awaiting set.
AwaitDoneStillAwaiting(f) ==
  /\ AtAwait(f)
  /\ f # cur
  /\ tasks[f].done
  /\ ws' = [ws EXCEPT !.pend = None, !.got = tasks[f].result]
  /\ UNCHANGED <<n, tasks, cur, now, status>>

AwaitDone(f) ==
  /\ AtAwait(f)
  /\ f # cur
  /\ tasks[f].done
  /\ tasks' = [tasks EXCEPT ![cur].awaiting = None]
  /\ ws' = [ws EXCEPT !.pend = None, !.got = tasks[f].result]
  /\ UNCHANGED <<n, cur, now, status>>

AwaitBlock(f) ==
  /\ AtAwait(f)
  /\ f # cur
  /\ ~tasks[f].done
  /\ Switch([tasks EXCEPT ![cur].awaiting = f,
                          ![cur].saved    = [ws EXCEPT !.pend = f]])

\* sleep(d) with other tasks alive parks the task and yields.
SleepYield(d) ==
  /\ Free
  /\ n > 1
  /\ now + d <= MaxTime
  /\ Switch([tasks EXCEPT ![cur].sleeping = TRUE,
                          ![cur].wakeAt   = now + d,
                          ![cur].saved    = ws])

\* With a single task it is an ordinary sleep (native 26).
SleepAlone(d) ==
  /\ Free
  /\ n = 1
  /\ now + d <= MaxTime
  /\ now' = IF d > 0 THEN now + d ELSE now
  /\ UNCHANGED <<n, tasks, cur, ws, status>>

\* An uncaught exception or a runtime error in any task.
Fatal ==
  /\ Free
  /\ status' = "fatal"
  /\ UNCHANGED <<n, tasks, cur, ws, now>>

\* The process has ended.
Ended == ~Running /\ UNCHANGED vars

Await  == AwaitSelf \/ \E f \in TaskId : AwaitDone(f) \/ AwaitBlock(f)
Sleep  == \E d \in Durations : SleepYield(d) \/ SleepAlone(d)
RetEntry == ReturnMain \/ \E v \in Results : Finish(v)

Next == Tick \/ Call \/ Return \/ RetEntry \/ Halt \/ Spawn \/ Await \/ Sleep
          \/ Fatal \/ Ended

Spec == Init /\ [][Next]_vars

\* The steps that end a task's slice: it yields to the others, ...
Switching ==
  \/ \E v \in Results : Finish(v)
  \/ \E f \in TaskId : AwaitBlock(f)
  \/ \E d \in Durations : SleepYield(d)

\* ... or the program ends.
Leaving == ReturnMain \/ Halt \/ AwaitSelf \/ Fatal

(***************************************************************************)
(* The VM keeps executing, the host's clock keeps moving, and no task runs *)
(* forever without reaching a sleep, an await or its end: scheduling is    *)
(* cooperative, and a task that spins starves the others by design         *)
(* (main.go:658).                                                          *)
(***************************************************************************)
Fairness == WF_vars(Next) /\ WF_vars(Tick) /\ WF_vars(Switching \/ Leaving)

-----------------------------------------------------------------------------
(* Properties.                                                             *)

\* AWAIT rewinds the pc and is executed again when its task is resumed
\* (main.go:1499): by then the awaited task must have finished, or the task
\* would be suspended a second time by the same await.
AwaitResumesWhenDone == Running /\ ws.pend # None => tasks[ws.pend].done

\* The task that runs is one that may: not finished, not parked, and past
\* the deadline of its last sleep, however pick came to choose it.
RunsOnlyWhenDue ==
  Running => /\ ~tasks[cur].done
             /\ ~tasks[cur].sleeping
             /\ tasks[cur].wakeAt <= now

\* What ready() believes a task waits for (task.awaiting) is what the task's
\* saved pc and operand stack say it is going to execute on resuming; a task
\* that sleeps is not also waiting for a future.
AwaitingMatchesPC ==
  Running =>
    /\ tasks[cur].awaiting = ws.pend
    /\ \A t \in (0 .. n - 1) \ {cur} : ~tasks[t].done =>
         /\ tasks[t].awaiting = tasks[t].saved.pend
         /\ tasks[t].sleeping => tasks[t].awaiting = None

\* deadlock() says that no task can make progress and names, for each task it
\* lists, a task "which has not finished" (main.go:1161-1172): every
\* unfinished task is listed, and the awaits it names close a cycle.
Unfinished == {t \in 0 .. n - 1 : ~tasks[t].done}
DeadlockIsReal ==
  status = "deadlock" =>
    /\ 0 \in Unfinished
    /\ \A t \in Unfinished : /\ ~tasks[t].sleeping
                             /\ tasks[t].awaiting \in Unfinished \ {t}

\* A task suspended on a future obtains its result once the awaited task has
\* finished, unless the program ends first: no wake-up is lost.
AwaitedResultArrives ==
  \A t, f \in TaskId :
    (t < n /\ tasks[t].awaiting = f /\ tasks[f].done)
      ~> (tasks[t].awaiting # f \/ ~Running)

\* A task that sleeps is resumed, unless the program ends first.
SleeperWakes ==
  \A t \in TaskId : tasks[t].sleeping ~> (~tasks[t].sleeping \/ ~Running)
=============================================================================
