--------------------------- MODULE SchedulerFutures ---------------------------
(***************************************************************************)
(* The cooperative scheduler implements Futures: seen through the working  *)
(* set of each task, wherever it is kept, one VM instruction is one step   *)
(* of an independent task.                                                 *)
(***************************************************************************)
EXTENDS Scheduler

\* The working set of t: run()'s locals while t runs, the task struct else.
View(t) == IF t = cur THEN ws ELSE tasks[t].saved

F == INSTANCE Futures WITH
       done   <- [t \in TaskId |-> tasks[t].done],
       result <- [t \in TaskId |-> tasks[t].result],
       depth  <- [t \in TaskId |-> View(t).depth],
       waits  <- [t \in TaskId |-> View(t).pend],
       got    <- [t \in TaskId |-> View(t).got],
       until  <- [t \in TaskId |-> tasks[t].wakeAt],
       clock  <- now

\* "A task is one independent execution context" (main.go:654): save, pick
\* and load neither mix up nor lose a task's frames, pending await or values;
\* results go to whoever awaits them; nobody runs before its deadline; and
\* deadlock() ends the program in the very step that leaves everyone stuck.
ImplementsFutures == F!Spec
=============================================================================
