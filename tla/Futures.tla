------------------------------- MODULE Futures -------------------------------
(***************************************************************************)
(* What `spawn`, `await` and `sleep` promise a program, with no scheduler  *)
(* in sight: every task is an independent execution context, any task that *)
(* is not waiting may take its next step, an `await` obtains the result of *)
(* a finished task exactly once, nobody runs before the deadline it asked  *)
(* to sleep until, and a deadlock is declared in exactly the step that     *)
(* leaves every unfinished task waiting for an unfinished one.             *)
(*                                                                         *)
(* The cooperative scheduler of vm/main.go (module Scheduler) is one       *)
(* implementation: its refinement mapping is at the end of that module.    *)
(***************************************************************************)
EXTENDS Integers

CONSTANTS
  MaxTasks,  \* bound on the number of tasks ever spawned, main included
  MaxDepth,  \* bound on the call depth of one task
  Results,   \* the values a task can return
  NoResult   \* stands for "no value yet"

VARIABLES
  n,       \* tasks spawned so far: their ids are 0 .. n-1, main is 0
  done,    \* done[t]: t has returned
  result,  \* result[t]: what it returned
  depth,   \* depth[t]: its call depth
  waits,   \* waits[t]: the task whose future t is suspended on, or None
  got,     \* got[t]: the value t's last completed await produced
  until,   \* until[t]: the instant before which t may not run
  clock,   \* the host's clock
  status   \* "run", or how the program ended

vars == <<n, done, result, depth, waits, got, until, clock, status>>

None   == -1
TaskId == 0 .. MaxTasks - 1
Live   == {t \in 0 .. n - 1 : ~done[t]}

\* Every unfinished task waits for an unfinished task.
Stuck == \A t \in Live : waits[t] # None /\ ~done[waits[t]]

Init ==
  /\ n = 1
  /\ done = [t \in TaskId |-> FALSE]
  /\ result = [t \in TaskId |-> NoResult]
  /\ depth = [t \in TaskId |-> 1]
  /\ waits = [t \in TaskId |-> None]
  /\ got = [t \in TaskId |-> NoResult]
  /\ until = [t \in TaskId |-> 0]
  /\ clock = 0
  /\ status = "run"

\* t may take a step of its own; time passes meanwhile.
Step(t) ==
  /\ status = "run"
  /\ t \in Live
  /\ until[t] <= clock
  /\ clock' >= clock

\* ... and is not in the middle of an await.
FreeStep(t) == Step(t) /\ waits[t] = None

SettleStatus == status' = IF Stuck' THEN "deadlock" ELSE "run"

Spawn(t) ==
  /\ FreeStep(t)
  /\ n < MaxTasks
  /\ n' = n + 1
  /\ UNCHANGED <<done, result, depth, waits, got, until, status>>

Call(t) ==
  /\ FreeStep(t)
  /\ depth[t] < MaxDepth
  /\ depth' = [depth EXCEPT ![t] = @ + 1]
  /\ UNCHANGED <<n, done, result, waits, got, until, status>>

Return(t) ==
  /\ FreeStep(t)
  /\ depth[t] > 1
  /\ depth' = [depth EXCEPT ![t] = @ - 1]
  /\ UNCHANGED <<n, done, result, waits, got, until, status>>

\* The entry function of a spawned task returns v.
Complete(t, v) ==
  /\ FreeStep(t)
  /\ t # 0
  /\ depth[t] = 1
  /\ done' = [done EXCEPT ![t] = TRUE]
  /\ result' = [result EXCEPT ![t] = v]
  /\ depth' = [depth EXCEPT ![t] = 0]
  /\ UNCHANGED <<n, waits, got, until>>
  /\ SettleStatus

Suspend(t, f) ==
  /\ FreeStep(t)
  /\ f \in Live \ {t}
  /\ waits' = [waits EXCEPT ![t] = f]
  /\ UNCHANGED <<n, done, result, depth, got, until>>
  /\ SettleStatus

\* An await obtains its value, at once or after having been suspended.
Obtain(t, f) ==
  /\ Step(t)
  /\ waits[t] \in {None, f}
  /\ f < n
  /\ done[f]
  /\ waits' = [waits EXCEPT ![t] = None]
  /\ got' = [got EXCEPT ![t] = result[f]]
  /\ UNCHANGED <<n, done, result, depth, until, status>>

\* t picks the instant it will sleep until.
Sleep(t) ==
  /\ FreeStep(t)
  /\ until' = [until EXCEPT ![t] = until'[t]]
  /\ UNCHANGED <<n, done, result, depth, waits, got, status>>

Pass(t) ==
  /\ Step(t)
  /\ UNCHANGED <<n, done, result, depth, waits, got, until, status>>

\* Main returned, or some task halted the program or hit a fatal error.
Stop(t) ==
  /\ FreeStep(t)
  /\ status' \in {"exit", "fatal"}
  /\ UNCHANGED <<n, done, result, depth, waits, got, until>>

Next ==
  \E t \in TaskId :
    \/ Spawn(t) \/ Call(t) \/ Return(t) \/ Sleep(t) \/ Pass(t) \/ Stop(t)
    \/ \E v \in Results : Complete(t, v)
    \/ \E f \in TaskId : Suspend(t, f) \/ Obtain(t, f)

Spec == Init /\ [][Next]_vars
=============================================================================
