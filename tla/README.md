# Pyro VM: specifications, model checking and proofs

Pyro is a bytecode virtual machine for the Cryo language. The same `.pyro` file runs on
four interpreters: the Go VM (`vm/main.go`, with the debugger `debug.go`, the profiler
`profile.go` and the signatures `sign.go`), the C VM (`vm/main.c` over the runtime
`pyro_runtime.c`), a C++ VM over the same runtime (`vm/main.cpp`) and a C# VM
(`vm/csharp/PyroVM.cs`). Their documentation promises that they behave alike, byte for
byte. The Go VM is the only one with tasks, a debugger and a profiler.

The modules here are written from that code. Each is small: control is kept, data is
reduced to what the properties tell apart.

## 1. Inventory

| Part | State it keeps | Operations | What is hard | What makes it correct |
|---|---|---|---|---|
| Task scheduler, Go (`main.go` 652-687, 1097-1172, `SPAWN`/`AWAIT`/`RET`/`sleep`) | task structs, the running task's working set in `run()`'s locals | spawn, await (rewind and re-execute), sleep, finish, pick, deadlock | a switch in the middle of an instruction, wake-ups, deadlines, fairness, deadlock | tasks behave as independent contexts; no lost wake-up; nobody runs early; deadlock reported when and only when real; waits overlap |
| Interpreter loop, Go (`main.go` 971-1095, 1178-1543) | growing operand stack, frames with their own locals, handlers, globals | one per opcode | limits that must equal the C VM's, unwinding several frames | stacks bounded, handlers belong to live frames |
| Interpreter loop, C (`main.c` 41-122, 345-921) | four static arrays and their tops | one per opcode | region reuse in `locals_stack`, limits, order of checks | never out of its arrays; does what the Go VM does |
| Interpreter loop, C++ (`main.cpp`) | as the C VM, in vectors | one per opcode | who owns a reference after each instruction | every count is exact; nothing held is freed |
| Debugger (`debug.go`) | `dbgOn`, mode, recorded depth and line, breakpoints | break, delete, step, next, stepi, finish, continue, quit; the hook before each instruction | a cached on/off switch, depths across calls, unwinds and tasks | no breakpoint passed by; steps end where asked; no cost when nothing can stop |
| Reference-counted heap (`pyro_runtime.c` 91-200, 330-380) | `ref_count` of strings, arrays, maps, closures | retain, release, every opcode that moves a value | ownership across calls, unwinds, containers, cycles | nothing reachable freed; nothing freed twice |
| Hash map, equality (`pyro_runtime.c` 203-328, 489-520; `main.go` 455-505, 2387-2420) | buckets | set, get, has, remove, resize, keys | hash against equality, resize | a map; the same map on both engines |
| Arithmetic (`pyro_runtime.c` 3256-3370; `main.go` 2276-2386) | none | `bin_op` | overflow, division, shifts | defined results, equal on all engines |
| Loader (`main.go` 752-866; `main.c` 124-343) | program, assets, permissions | read the sections in order | order of optional sections, bounds | reads what the generator wrote |
| Policies (`main.go` 70-243; `pyro_runtime.c` 1553-1830) | operator's and artifact's grants | four decision functions | two policies at once with the sandbox flag | nothing allowed unless both allow it |
| Atomic file replacement (`main.go` 2177-2213; `pyro_runtime.c` 3070-3110) | the target and its `.tmp` sibling | create, write, flush, close, rename, remove | crash or failure between two steps | a reader sees the old or the new file |
| HTTP server natives (52-54) | one listener, one connection | listen, accept, respond | calls out of order, failed listen | one connection at a time, none leaked |
| HTTP client, socket deadlines (`pyro_runtime.c` 885-1510) | sockets, a deadline | dial, send, receive | deadline against partial progress | ends by the deadline |
| Profiler (`profile.go`) | current function, sample counts | `profSet` at each frame change, a sampling goroutine | missed updates on unwind or switch | a sample is charged to the function that runs |
| Signatures (`sign.go`), command line, pure natives | none | - | - | not modelled, see 7 |

**How they interact.** `main` loads the file, builds the policies, optionally creates
the debugger, and calls `run`. `run` keeps the *running* task's stack, frames, pc and
handlers in its locals; `save` and `load` exchange them with the task structs, and every
switch goes through `save(); if !pick() { deadlock() }; load()`. Globals and the heap are
shared by all tasks. The debugger is called before each instruction when `dbgOn` is set
and sees the pc and the frames of whichever task runs. `raise` unwinds the frames of the
running task only. `fatal` prints a trace from the current frames and exits. The profiler
is told of each frame change. The natives call into policies, files, sockets.

## 2. Modules

| Module | Models | Notes |
|---|---|---|
| `Futures` | what spawn, await and sleep promise (abstract) | tasks as independent contexts, no scheduler |
| `Scheduler` | the scheduler of the Go VM | one action per instruction, the switch it causes included |
| `SchedulerFutures` | refinement mapping from `Scheduler` to `Futures` | `View(t)` is where save/load keep the working set of `t` |
| `SchedulerBypass` | `Scheduler` with a history variable counting the switches that passed over a ready task | |
| `SchedulerCost` | `Scheduler` on an ideal host with the longest chain of waits as a history variable | |
| `SchedulerTwin` | one program on two hosts in lockstep | two instances of `Scheduler` |
| `SchedulerProofs` | theorems about `Scheduler`, `SchedulerBypass`, `SchedulerCost` and the refinement of `Futures` | TLAPS |
| `Bytecode` | functions, values (`Null` and the int `Zero` among them), the contract of compiled code | constants only |
| `GoEngine` | the Go interpreter loop, one task | growing stack, frames own their locals |
| `CEngine` | the C interpreter loop | one shared locals array |
| `EngineParity` | refinement mapping from `CEngine` to `GoEngine`; the two stack traces | |
| `EngineProofs` | theorems about `CEngine`, `GoEngine` and the refinement | TLAPS |
| `Debugger`, `DebuggerProofs` | the debugger and its hook | the program is the environment; TLAPS |
| `RcHeap` | retain, release, the constructors, the natives that store, copy or drop values | operators on a heap |
| `CppEngine` | the C++ interpreter loop, followed for the references it moves | over `RcHeap` |
| `OwnershipProofs` | theorems about `RcHeap` and `CppEngine` | TLAPS |
| `Dictionary` | what a map promises (abstract) | |
| `ValueMap` | the hash map and `value_eq` of the C runtime | implements `Dictionary` |
| `Arithmetic` | `bin_op` on integers and its overflow tests | every width |
| `Policy`, `PolicyPaths` | capability policies and the gates; the meaning of a path | |
| `Loader` | `load_program` of the C, C++ and Go VMs, over intact, cut and damaged files | |
| `HttpServer`, `HttpServerProofs` | natives 52-54 and `http_serve` over descriptors and deadlines | TLAPS |
| `HttpClient`, `HttpClientProofs` | `http_get`, `http_post`: dial, exchange, framings, redirects | TLAPS |
| `AtomicFile` | `write_file_atomic` with failures and crashes | |
| `RuntimeProofs` | theorems about `ValueMap`, `Arithmetic`, `Policy`, `PolicyPaths`, `Loader` and `AtomicFile` | TLAPS |
| `Induction` | induction on the numbers and the existence of functions defined by recursion | TLAPS, cited by `OwnershipProofs` and `RuntimeProofs` |
| `MCScheduler`, `MCSchedulerCost`, `MCEngine`, `MCDebugger`, `MCRuntime` | values of the constants for TLC | |

### Scheduler

State: `n` is `len(tasks)`; `tasks[t]` holds `done`, `result`, `sleeping`, `wakeAt`,
`awaiting` and `saved`, the working set `save()` stored; `cur` is the running task and
`ws` its working set, that is `run()`'s locals. A working set is reduced to three things:
the call depth, `pend` (the future that `AWAIT` put back on the stack when it rewound the
pc, or none) and `got` (the value the last completed await pushed). `now` is the host's
clock.

`pick` is two disjuncts: `PickReady` (the scan finds someone) and `PickSleeper` (block
until the earliest wake and scan again); `Deadlock` is its failure. Every call of
`ready()` reads the clock anew, so a scan that starts at `t0` may end at any `t1` up to
`Slack` later: tasks passed over were not ready at `t0`, the one taken is ready at `t1`.
`Switch(ts)` is the whole `save; pick; load` sequence on the task structs `ts` the
instruction left, so it is part of the instruction's action, never a step of its own.
A program can hand a future to any task through a global, so a task may await any other.

### Engines

`GoEngine` and `CEngine` are written separately, each from its own file, with the same
set of instructions. Code is reduced to which instruction comes next: any of the current
function's, as long as the compiled code's contract (`Bytecode`) holds. The contract is
external, because the compiler is not in the repository: a function consumes only
operands it pushed, a try block only those pushed inside it, `RET` finds exactly one
operand and no handler of its own frame. The history variables `base` and `unset` are what
the compiler knows statically: the operand depth at which each activation began, and which
locals of the live frames have not been stored since their call.

The two engines do not fill such locals alike. `callFn` of the C VM writes `val_null()`;
`make([]Value, nlocals)` of the Go VM leaves zero values, which are the int 0. A `LOAD` of
one would push different values. The constant `LoadsUnset` says whether compiled code does
that: with `FALSE` (the contract, as a compiler that initialises its variables meets it) the
refinement is checked and proved; with `TRUE` the engines part at the first such load (section 4).
The mapping (`Local` in `EngineParity`) takes an unset null of the C VM to the `Zero` the Go VM
has there, so nothing about these slots is assumed equal.

All instructions that compute (constants, arithmetic, jumps, containers, natives) are
`Compute(k, r)`: they consume `k` operands and push at most one, which is the property
of the instruction set both headroom checks rely on. In the C engine only
`locals_stack` is kept as an array with its stale contents; entries of the other arrays
above their tops are always written before they are read.

### Debugger

Each instruction is `Hook` (the decision of `before`), any number of commands when it
stops, then one program step. The debugged program may do anything: jump, call, return,
unwind several frames, spawn, switch tasks. `home` is a history variable: the activation
in which the last `next` or `finish` was given, until it is gone.

### Heap and ownership

`RcHeap` keeps, for each object, its kind, its count and the values it holds. A count
that reaches zero frees the object and puts a release of each thing it held before the
releases still to be made, which is the order of the recursive `release_value`;
`Releasing` tabulates what is left after each of these steps. Two history components say why
a count exceeds the references there are. `extra`, a field of the object, is the reference
that `val_array`, `val_map` or `val_str_rc` counted beyond the one it hands out. `lost`,
a variable, counts references that were handed out and then given up without a release:
by `asset()` of a name that is found, by the natives that list strings (`list_dir`,
`asset_names`, `http_accept`), whose array retains what `val_str` had already counted, and by `HALT`, which
abandons the operands and locals of all frames. After `HALT` these are no roots.
`CppEngine` has one action per instruction (or group of instructions that treat
references alike) of `run_program`; every slot of the operand stack, locals, globals and
constants owns one reference. Contents of strings and immediates are left out, so a map
look-up may match any entry whose key could be equal, and any branch may be taken. The
operand discipline is that of `Bytecode`; the one addition is that `opNEG` and `opBNOT` are
compiled for numbers only, since they pop without releasing. The C VM's loop moves
references the same way and differs only at exit, where it does not release the globals.

### The parts of the runtime

These share no state, and `MCRuntime` explores each from its own initial state.

- *Map.* `buckets` are chains; `rc_map_set` grows the array before it looks for the key;
  the position of a node in its chain after a growth is the code's. The program uses
  keys that are pairwise unequal under `value_eq`, which is the condition under which the
  code is a dictionary: `value_eq` is not symmetric between an int and a bool, and equal keys of
  different kinds (the int 1 and the text "1") hash differently.
- *Arithmetic.* The register holds the last operation. `Eval` gives a C expression the
  value the builds in use give it, so that the overflow tests cannot rely on an
  overflow of their own unnoticed.
- *Policy.* One action per step of `main()`, in its order: `PYRO_POLICY`, `PYRO_SANDBOX`,
  the artifact's permissions, its sandbox bit, then the running program. `FlatDeny` is the
  state the operator leaves with `PYRO_SANDBOX=1` and no policy. `cap_abs` is the
  loop over segments (`Push`, `Kept`); `PolicyPaths` gives an independent meaning to a path, by
  cancelling its first `.` or `..` until there is none, against which it is checked.
- *Loader.* A file is a header and cells, one per fixed-width field. Each section is an
  action that reads at the cursor and stops the load as the code does (`fatal`), or
  overruns where it does not check. The generator, outside this repository, follows
  `PYRO_BYTECODE.md`; it is written as a function of the image, table by table, so that what
  the reader should find at every offset can be said, and proved.
- *HTTP server.* The system hands out the lowest free descriptor, so a stale number can
  come to mean another socket; the code's own variables `g_http_srv` and `g_http_conn` are
  `srv` and `conn`. The peers connect, send any number of pieces at any pace, stop
  reading, and hang up. `waited` is a history variable.
- *HTTP client.* A response is a sequence of items that the peer sends at its own pace;
  the header says how its body is framed. `budget` is what is left of the deadline,
  `idled` (history) what was spent blocked on sockets. Curl, for https, is given what is left
  of the deadline rounded up to whole seconds of `Second` ticks (`CurlSeconds`), and once it has closed
  its output the process is waited for during at most `CurlGrace` ticks more (5 s on
  Windows); `curled` (history) is what was spent on it. That curl keeps to its `-m` is
  external: on systems other than Windows the runtime itself has no limit there.
- *Atomic file.* Content is a version and how many of its blocks are in the file. Every
  call may fail and the process may die between any two; it may run again on what it left.

## 3. Runs

| Run | Question | Bounds | Result |
|---|---|---|---|
| `scheduler` | does the scheduler implement independent tasks; are its wake-ups, deadlines, deadlock and fairness right; does every awaited result arrive, every sleeper wake | 3 tasks, depth 2, clock 0..2, sleeps of 0 and 1, slack 1 | holds, 137 186 states |
| `scheduler_cost` | is elapsed time the longest chain of waits | 3 tasks, depth 2, clock 0..5, sleeps of -1, 1, 2, slack 0 | holds, 1.76 M states |
| `scheduler_twin` | does the schedule depend on the host | 3 tasks, clock 0..3, sleeps of 1, 2 | violated (finding 1) |
| `engine` | does the C VM implement the Go VM, and every `LOAD` push the same value, when no unset local is loaded | 3 functions, 3 plain values, operand stack 4 growing to 6, 4 frames, 4 locals, 3 handlers; frames and handlers together above 4 only with at most one operand | holds, 1.90 M states |
| `engine_trace` | do both print the same stack trace | as `engine`, 2 addresses per function | violated (finding 2) |
| `debugger` | breakpoints, cost, step rules | 4 debug entries on 3 pcs, 2 functions, 2 tasks, depth 3 | holds, 1.34 M states |
| `debugger_tasks` | do next and finish end where asked, with tasks | as `debugger` | violated (finding 3) |
| `debugger_delete` | are step commands armed | as `debugger` | violated (finding 4) |
| `ownership_rules` | does any of the three rules hold that counting rests on (`PYRO_RUNTIME.md` 78-82) | as the heap of `runtime`, 7 references | violated (findings 7 to 9) |
| `runtime` | is the map a dictionary; is arithmetic exact; do policies only narrow, and paths stay inside their grants; does the file load as written; do server and client keep their descriptors, deadlines and framing; is replacement atomic; is anything in the heap freed while held, is every count accounted for, does every leak have a known cause | below | holds, 518 470 states |
| `loader_go` | does the Go VM load what was written | as the loader of `runtime`, no cell damaged | violated (finding 5) |
| `policy_flat_deny` | does a flat deny still win | as the policies of `runtime` | violated (finding 6) |

**Why the bounds are enough to be interesting.** Three tasks are the fewest in which two
can await each other while the third sleeps, and in which a ready task can be passed over
by two others. The clock bound lets deadlines lie before, at and after the present. Depth 2 matters for
liveness: a task that only sleeps for 0 ms would repeat a single
state, and a call between two sleeps makes the loop a real cycle. Negative durations are
in `scheduler_cost`. In `engine` the
functions have 0, 2 and 1 locals so that the locals limit and the frame limit are each
reached first in some behaviour; the first length of the operand stack is smaller than its
maximum by less than a doubling, so growth is capped; three handler slots allow nested
try blocks in one frame and in two. Of the plain values one is null, one the int 0 and one
neither, so that an unset local differs between the engines and a stored one from both. The
constraint `FewOperandsInDepth` drops operands, not depth: with frames and handlers together
more than four, at most one operand is on the stack, so both limits are still reached, and so
is a full operand stack, in shallower states. The debug table has a prologue before its first
entry, a pc that begins two statements and a function whose entry is not an entry of the
table. In the heap of `runtime` three objects are the fewest with which a container holds another
that is also on the stack, and a cycle can be made; two items let a container hold the same
object twice; 3 operands, 2 frames, a local each, a handler and a global are the fewest with which
every instruction and an unwind across a call with live operands occur (`DeepOrMany`: 4 of
these in use at a time and 5 references, but not both).

In `runtime` a new map has 2 chains and there are 4 keys, three of which share a
chain, so chains of every length are grown and unlinked at head, middle and end.
`INT_MAX` is 7: every pair of operands of a 4-bit word, whose range is as lopsided as that
of 64 bits. There are 5 policy texts (none, malformed, narrow, wide and repeated, a root
written with `..`) for operator and artifact independently, and paths of 3 segments
over three names, `.` and `..`, the longest of which reach the limit of segments kept. The loader reads 32 images, all 16 combinations of flags in
both versions, each intact, cut at every cell, with every cell damaged, or with a foreign
header. The server has 2 clients, each of which may send a request with a body, a malformed one, or one
whose header comes in pieces and does not fit; 3 descriptors and a queue of 1, so that listeners and
connections compete for numbers; a deadline of one tick; responses of two pieces
of which one fits the buffer. The client meets 9 headers (every framing, a trailer, an empty
body, redirects with and without a location), 2 hops and 2 ticks. A second is 2 ticks, so that
curl's share of an odd budget is rounded up, and an ended curl may take 1 more. Two versions of two blocks
let a crash leave a part of either. Deadlock is not checked there, because these parts
end: the file is loaded, the call has returned, the operation was fatal.

**Fairness.** The liveness properties of `scheduler` and `runtime` need it. `Fairness` of `Scheduler` is `WF(Next)`: the VM keeps executing.
`WF(Tick)`: the host's clock advances. `WF(Switching \/ Leaving)`: no task runs for ever
without a sleep, an await or its end; scheduling is cooperative by design (`main.go` 658)
and a task that spins starves the others. No fairness between tasks is assumed: that is
what `pick` provides (a schedule that starved a task would violate `BoundedBypass`, a safety property of the
same run, before it showed as a cycle). Both properties are conditional on the program not ending first.
With an unbounded number of tasks, a chain of tasks each spawning its successor can keep
the ring growing; `BoundedBypass` is relative to the number of tasks for that reason.

For `ServerComesBack` and `ClientReturns`, `ServerFairness` and `ClientFairness` say that a native
that is not blocked proceeds and that the clock advances while it is blocked. Nothing is
asked of the peer, which may fall silent at any point. What bounds the calls is the
deadline; a peer that always has one more piece ready is bounded here only by the size of
what it sends, because the code tries `recv` before it looks at the clock.

## 4. Findings

1. `ScheduleIndependentOfHost`. A comment says that the schedule does not depend on the
   host; `ready()` compares deadlines with the host's clock, so of a sleeper and a ready
   task the one that runs next depends on how fast the running task was.
2. `SameTrace`. For a frame other than the innermost the C VM prints the line of the
   frame's own return address, which lies in its caller, and for the entry function the
   last line of the debug section. The Go VM prints the line where the frame is suspended.
3. `StepsEndWhereAsked`. `next` and `finish` compare frame depths without regard to the
   task, and stop in another task whose stack is shallow enough. While main is the only
   task they are right (`StepsEndInMain`, a property of run `debugger`).
4. `SteppingIsArmed`. At a prompt reached through `continue` and a breakpoint, `delete`
   of the last breakpoint turns the hook off; `step` given next is never seen again.
5. `GoLoadsWhatWasWritten`. The Go loader defers the reader of the assets and then that of
   the permissions; deferred functions run in reverse, so with both sections in a file each
   reader starts at the wrong place. The C and C++ VMs read them in the order of the format
   (`LoadsWhatWasWritten`, a property of run `runtime`).
6. `FlatDenyWins`. `main.c` 953-954 says that a flat deny still wins, and `PYRO_RUNTIME.md` 377
   that `PYRO_SANDBOX=1` refuses every gated native. The gates ask for the flag only while no
   policy is active, so an artifact that declares permissions replaces the operator's
   flat deny by what it grants itself. `PolicyOnlyNarrows` says that this is the only step
   that ever turns a refusal into an allowance.
7. `CountsStartAtOne`. `val_array`, `val_map` and `val_str_rc` hand out objects counted twice, though
   `PYRO_RUNTIME.md` 78 says that a fresh object starts at one. They are never freed.
8. `DiscardedIsReleased`. `asset()` overwrites the empty string it made, and the natives that list
   strings append without releasing, though `PYRO_RUNTIME.md` 80 asks for a release. Nothing else in
   the loop gives up a reference while the program runs (`CountsExact`, `LeaksHaveACause`).
9. `NoOwnershipCycle`. `PYRO_RUNTIME.md` 81-82 rests counting on cycles that cannot be
   built; `SETIDX` and `push` store a container in itself or in what it holds.

The last three are shown by one run. The document claims all three rules of a running
program; `SomeCountingRuleHolds` claims only that one of them is true, and the run finds a
state in which none is, after `asset()` of a name that is found and an array that is pushed to
itself.

Disagreements that the modules state exactly and no run repeats:

- Locals not stored yet are null in the C VM (`main.c` 354, 582, 652) and an int 0 in the Go VM
  (`main.go` 1056, 1283, 1316), though `PYRO_RUNTIME.md` 546 asks for observationally identical
  runtimes: an `UNWRAP` of one raises on one and not on the other. The compiler is not in the
  repository, so whether it emits such a load is not known here. With `LoadsUnset = TRUE` in
  `MCEngine.cfg`, `LoadsAlike` is violated by the first such load.
- `http_via_curl` gives curl whole seconds and does not look at the deadline again, so with a
  timeout below a second, or a redirect to https when part of it is gone, a call waits longer
  than the one timeout `PYRO_RUNTIME.md` 215-216 promises. `OneDeadlineForAllHops` says by how
  much at most.
- On `HALT` the C++ VM releases globals and constants and abandons the operands and locals that
  are still live; the process ends, so this is counted (`lost`) and not called a finding.
- `write_file_atomic` writes `strlen` bytes, so content ends at its first NUL.

## 5. Proofs

`SchedulerProofs` proves, for all values of the constants that satisfy
`SchedulerAssumption`, with no bound on the number of tasks, the depth or the clock other
than these parameters:

- `Invariance`: `Spec => []IInv`;
- `TypeCorrect`, `AwaitsResumeWhenDone`, `RunsWhenDue`, `AwaitingAgrees`,
  `DeadlocksAreReal`: the five safety invariants of run `scheduler`;
- `RoundRobin`: `BypassSpec => []BoundedBypass`;
- `SchedulerImplementsFutures`: `Spec => ImplementsFutures`;
- `WaitsOverlap`: `CostSpec => []WaitingOverlaps`, for `Slack = 0`.

The invariants are not inductive by themselves. `IInv` adds what a *parked* task looks
like (its saved working set agrees with its flags, an awaiting task does not await
itself) so that installing the working
set of whichever task `pick` takes re-establishes what is claimed of the running one. The
argument goes through one lemma on arrays of task structs: an instruction that yields
first *parks* the current task (`FinishParks`, `AwaitBlockParks`, `SleepYieldParks`), and
`SwitchPreserves` shows that any outcome of `Switch` from an array in which everybody is
parked gives back `IInv`. `RoundRobin` needs `SkipsPlusOffset` as its invariant: the
number of times a task was passed over plus its distance from the current task never
exceeds the number of tasks; every switch that passes over it shortens the distance.

The refinement uses the same lemmas. What `Futures` sees of a task, `View(t)`, is the same
before and after any switch (`SwitchSeen`), because it follows the working set from the
structs into `run()`'s locals and back; so a yielding instruction changes the view of the
current task alone. `SwitchSettles` gives the two obligations of the abstract step about
the whole: time does not go back, and the program ends in deadlock only if nobody can step.
One more invariant is needed, `Unspawned`: a struct not yet handed out is in its initial
state.

`WaitsOverlap` is about an ideal host, so it assumes that the clock stands still during a
scan; nothing else is assumed of durations, which may be zero or negative. Its invariant,
`CostInv`, says where the path of every parked task stands: a sleeper's at its deadline,
or at the clock if that has passed; a fresh task's at the clock; a task that awaits
lags behind until the instant the awaited one finishes, when that one's path is the clock.
The clock moves only when nobody is ready, and then to the first deadline, so none of
these falls behind (`SwitchCosts`).

The other proof modules, each under the named assumption of the module it extends:

- `EngineProofs` (`BytecodeAssumption`: any functions, parameters, captures, locals and sizes of
  the stacks). `CInv` says that of any two frames the outer one's locals end where the inner
  one's begin or before, and its operands likewise (`FramesNested`), and that handlers are
  ordered with the frames they belong to (`HandlersNested`). It speaks of every pair, not of
  neighbours, because a raise may uncover any frame. From it `EngineTypes`,
  `RegionsDisjoint` and `HandlersMatch`. `GoStackFits` from `Headroom`: before every
  instruction the Go VM's slice has room for what one instruction pushes, or is as long as
  it may become. `CVMImplementsGoVM` is the refinement: initial states map to initial
  states, and each instruction of the C VM is the same instruction of the Go VM. It assumes
  `~LoadsUnset`, the part of the contract that section 4 is about; `LoadsAgree` states the same for the
  value each `LOAD` pushes, under the same assumption. What
  needs `CInv` is a write to a local: in the C VM it goes to the shared array, and only
  because regions do not overlap is it invisible in the mapped locals of other frames.
- `DebuggerProofs` (`DebuggerAssumption`: any debug section sorted by address). `DInv` adds to
  the properties `HookArmed` (the hook is off only when there are no breakpoints, and in mode
  `run` it is on exactly when there are), `PromptAsked`, and `DepthOfHome` (the recorded
  depth is that of the activation in which the last `next` or `finish` was given, as long as that
  lives). From it `NoBreakpointSkipped`, `FullSpeed`, `StepsEndAlone` and `DebuggerTypes`. That a
  line looked up for a pc is one of the section is the only use of well-foundedness.
- `RuntimeProofs`, one part after another, each under its own assumption.
  - *Arithmetic* (`ArithmeticAssumption`: `INT_MAX` is a natural number, so every width is
    covered). `AddOvfExact`, `SubOvfExact`, `MulOvfExact`: each test holds exactly when
    the result does not fit. The first two first show that the bound the test computes does not
    itself overflow; multiplication goes by the signs of the operands, over lemmas that
    compare a quotient with a product. `ArithmeticIsExact`: along every
    sequence of operations.
  - *Policy*. `PolicyNarrows`, for any names, texts and paths, needs `ReadInOrder`:
    the operator's policy is read first and only while it is inactive, and there is no artifact
    policy until the artifact's permissions are read, so each later step adds a condition. The one
    step that does not, permissions read under a flat deny, is excepted by the property and
    is finding 6.
    `GrantsAreSubtrees` (`PolicyAssumption`: what a text may list) says that a path is compared with
    a grant by where it leads. What the loop of `cap_abs` keeps does not change when the first `.` or
    `..` of a path is cancelled, because what precedes it are names, all kept
    (`CancelKeeps`); each cancellation shortens the path (`CancelLeaves`), and a path of
    names is kept as it is. The hypothesis that path, working directory and grants together
    stay within `MaxSegments` (256 in the code) is part of the property: past the limit
    segments are dropped while `..` still pops.
  - *Atomic file* (`AtomicFileAssumption`). `FileInv` adds to the two properties
    `TargetUntouched` (until the rename the target is what it was at the call) and `RenamesWhole`
    (when the flag is still set after flush and close, the temporary file is whole).
    From it `TargetStaysWhole` and `ResultIsTrue`.
  - *Hash map* (`MapAssumption`: any keys that `value_eq` tells apart, any hashes, any
    first capacity). `KeysAlwaysFit` and the refinement `ImplementsDictionary`. The invariant:
    every node is in the chain of its hash (`Homed`), no key is held twice (`Single`), and
    `size` counts the nodes. The nodes are then a function from keys to values, which a growth
    must not change: that the rehashing moves each node once, into a chain that has
    no such key yet, is shown by induction over the nodes of a chain and over the chains.
  - *Loader* (`LoaderAssumption`: any set of compiled images). `LoadersStayInside` from
    `Inside`: every read is preceded by a check of the cells left. The one that has no check of
    its own, of a function's number of parameters (`main.c` 226), is covered by that of the
    whole table: what is left is at least the cells of the entries still to be read.
    `LoadersReadBack` from `WrittenInv`: after `k` sections the cursor is where the `k`-th
    section ends in the file as written (`End`), and the program built so far is the first
    `k` parts of the image's (`PartOf`). It needs, by induction over the entries, where each
    entry of a table lies, and that the xor of a byte with the key, applied twice, gives
    the byte back.
- `OwnershipProofs` (`RcHeapAssumption`, `CppEngineAssumption`: any numbers of objects, operands,
  frames, locals, globals and items). The invariant is `CppTypeOK /\ Owned(heap, Held) /\ Nested`.
  `Owned` says that every count is the number of slots and elements that hold the object plus its
  `extra` (`Balanced`), where a reference given up (`lost`) counts as one more slot nobody
  can reach (`Pinned`), that every cell has the shape of its kind, and that closures cannot be
  part of a cycle made of closures only. The theorems are `MachineTyped`, `NothingEverDangles`,
  `CountsStayExact` and `EveryLeakHasACause`, the four invariants of the heap in run `runtime`. The
  recursive release is taken one step at a time: a reference to be released is a slot of its own
  (`Pending`), and each step settles one of them and keeps `Owned`, so `ReleaseOwned` says that a
  release of any owned reference ends with every count exact. What an opcode overwrites (an
  element, a map entry, a local) it releases while the container is still held by a slot, so the
  container is not freed in the middle of the change. `EveryLeakHasACause` follows from `Owned` at
  every instruction boundary, after `HALT` too: what nothing reaches is held by something that
  nothing reaches either; arrays and maps are born with an `extra`, so it is a closure, and closures
  alone make no cycle.
- `Induction`: the library's induction theorems take a predicate as a parameter; these take a
  set and rest on the library's minimal elements (`WFMin`). With them the existence of a
  function defined by recursion over an interval, and invariants along it.
- `HttpClientProofs` (`HttpClientAssumption`). `DeadlineShared` from `BudgetSpent`: what is left
  and what was spent blocked on sockets never exceed the timeout together, redirects included;
  once what is left has been rounded up for curl, the sum exceeds it by less than a second, and
  by the grace of an ended process on top.
  `RedirectsAreFollowedAsDocumented` from `BodyFollowsMoves`: there is a body to send exactly when
  the program posted one and no hop answered 301, 302 or 303. `BodiesAreWhole` from `StreamInv`:
  the pieces held and those under way add up to what the peer sent (nothing is
  lost between recvs), and no piece follows the mark that ends a chunked body. The number of
  pieces held can then reach the declared length, or the end be seen, only when the whole body
  is held. The assumption asks of an answer that its declared length is a natural number.
- `HttpServerProofs` (`HttpServerAssumption`). `WaitsAreBounded` from `DeadlineHolds`.
  `NoDescriptorLost` from `ServerInv`, which says phase by phase which descriptors may be
  open: idle, the listener and the connection; accepting, the listener alone, which is
  `g_http_srv`; reading and sending, also the socket in progress. The case that matters is a
  failed `http_listen`, which leaves a closed number in `g_http_srv` that the next `http_listen`
  closes again: `ListenerOrStale` says that this number has not come to mean a
  connection in between. `LowestIsFree` takes the existence of a lowest free descriptor from the
  well-foundedness of the naturals. `AnswersGoToWhoAsked` from `AnswerInv`, over `ServerInv`: a client
  is behind at most one descriptor or in one place of one queue (`InOnePlace`), nobody in a
  queue has got anything, and while a native reads, the client behind its descriptor has not
  been answered. A number that is closed and handed out again therefore always
  means a client that has to ask before it is answered.

Every safety and action property of a passing run has a theorem. What stays with TLC is
liveness (`AwaitedResultArrives`, `SleeperWakes`, `ServerComesBack`, `ClientReturns`), which is
out of the prover's reach, and the disagreements of section 4, which are counterexamples.

## 6. Plan

1. Done: scheduler, its abstraction and proofs; both interpreter loops, their parity and its
   proof; debugger and its proofs; ownership in the C++ loop; hash map, arithmetic, policies,
   loader, HTTP server and client, atomic replacement, with the proofs of section 5.
2. Worth modelling next: the C# loop against `GoEngine`, the profiler's record of the
   current function.

## 7. Not modelled, and why

- *Signatures* are one library call. *The command line* and *the pure natives* (strings, JSON,
  mathematics, dates) are functions of their arguments whose interest is in characters
  and floating-point bits; floats and shifts are left out of the arithmetic for the same
  reason.
- *The C# VM* is a fourth loop with the same instructions over a managed heap; its frames
  and handlers follow the discipline checked on the Go and C loops.
- *The profiler* keeps statistics nothing else reads.
- *The Go VM's map* is the host's, with keys encoded as text by `keyOf`; only the C
  runtime's own table is modelled.
- *Malformed bytecode* is outside the engines' contract: the loops are modelled on what a
  compiler emits. A damaged file is modelled in the loader, up to the point where it is
  refused or accepted.
- *Globals* are left out of `GoEngine` and `CEngine`: a shared array that grows, untouched by
  calls, unwinds and switches. They are in `CppEngine`. The line tables of the engines map every
  address to a line of its own.
- *Files*: one process replaces a file at a time (two would share one temporary name), and the
  machine stays up, so what is renamed need not have reached the disk.
- *Sockets*: the start-up of Windows sockets, the look-up of host names (which has no
  deadline in the code) and the exchange of `curl` for https are single external steps or omitted; of `curl`
  the time it is given and waited for is modelled.
