------------------------------ MODULE Debugger ------------------------------
(***************************************************************************)
(* The interactive debugger of the Go VM (vm/debug.go) and its hook at the *)
(* top of the dispatch loop (vm/main.go:1183). Each instruction is three   *)
(* steps: the hook decides whether to stop (Hook), the user gives commands *)
(* while it is stopped, the instruction executes.                          *)
(*                                                                         *)
(* The debugged program is the environment: an instruction may jump        *)
(* anywhere, call, return, unwind several frames, spawn a task or switch   *)
(* to another one.                                                         *)
(***************************************************************************)
EXTENDS Integers, Sequences

CONSTANTS
  Dbg,       \* the debug section: <<pc, line>> pairs ordered by pc
  MaxPC,     \* the last pc
  Entries,   \* the entry pcs of the functions that have a name
  MaxTasks,  \* bound on the tasks of the program
  MaxDepth   \* bound on len(frames)

ASSUME DebuggerAssumption ==
  /\ Dbg \in Seq((0 .. MaxPC) \X (Nat \ {0}))
  /\ \A i, j \in DOMAIN Dbg : i < j => Dbg[i][1] <= Dbg[j][1]
  /\ Entries \subseteq 0 .. MaxPC
  /\ MaxTasks \in Nat \ {0}
  /\ MaxDepth \in Nat \ {0}

VARIABLES
  pc, cur, depth,     \* the program: depth[t] is len(frames) of task t, or 0
  dbgOn, mode, stepDepth, lastLine, lineBP,   \* the debugger
  phase,   \* "hook", "prompt", "execute", "ended"
  hit,     \* the stop is a breakpoint's
  asked,   \* the user was prompted before this instruction
  home     \* the activation the last next or finish was given in, while it
           \* lives: <<task, depth>>, or <<>> (history)

program  == <<pc, cur, depth>>
settings == <<dbgOn, mode, stepDepth, lastLine, lineBP>>
vars == <<program, settings, phase, hit, asked, home>>

Tasks == 0 .. MaxTasks - 1
Lines == {Dbg[i][2] : i \in DOMAIN Dbg}

\* stops: pc -> line, the first entry of each pc.
AtStop(p) == \E i \in DOMAIN Dbg : Dbg[i][1] = p
StopLine(p) ==
  Dbg[CHOOSE i \in DOMAIN Dbg :
        Dbg[i][1] = p /\ \A j \in DOMAIN Dbg : Dbg[j][1] = p => i <= j][2]

\* lineAt: the line of the last entry at or before p.
lineAt(p) ==
  IF \A i \in DOMAIN Dbg : Dbg[i][1] > p THEN 0
  ELSE Dbg[CHOOSE i \in DOMAIN Dbg :
             Dbg[i][1] <= p /\ \A j \in DOMAIN Dbg : Dbg[j][1] <= p => j <= i][2]

\* Broken variant: lineAt applied to the entry of a function (debug.go:348).
lineBeforeEntry(p) == lineAt(p)

\* firstStopAtOrAfter(p), where there is one.
HasStopFrom(p) == \E i \in DOMAIN Dbg : Dbg[i][1] >= p
firstStopAtOrAfter(p) ==
  Dbg[CHOOSE i \in DOMAIN Dbg :
        Dbg[i][1] >= p /\ \A j \in DOMAIN Dbg : Dbg[j][1] >= p => i <= j][2]

TypeOK ==
  /\ pc \in 0 .. MaxPC
  /\ cur \in Tasks
  /\ depth \in [Tasks -> 0 .. MaxDepth]
  /\ dbgOn \in BOOLEAN
  /\ mode \in {"run", "line", "over", "instr", "out"}
  /\ stepDepth \in 0 .. MaxDepth
  /\ lastLine \in Lines \cup {0}
  /\ lineBP \subseteq Lines
  /\ phase \in {"hook", "prompt", "execute", "ended"}
  /\ hit \in BOOLEAN /\ asked \in BOOLEAN
  /\ home \in {<<>>} \cup (Tasks \X (1 .. MaxDepth))

Init ==
  /\ pc \in Entries
  /\ cur = 0
  /\ depth = [t \in Tasks |-> IF t = 0 THEN 1 ELSE 0]
  /\ dbgOn = TRUE
  /\ mode = "instr"
  /\ stepDepth = 0
  /\ lastLine = 0
  /\ lineBP = {}
  /\ phase = "hook"
  /\ hit = FALSE /\ asked = FALSE
  /\ home = <<>>

-----------------------------------------------------------------------------
(* before()                                                                *)

NewLine == AtStop(pc) /\ StopLine(pc) # lastLine

\* Broken variant: finish stops in the frame it was given in.
StepStopsEarly ==
  \/ mode = "instr"
  \/ mode = "line" /\ NewLine
  \/ mode = "over" /\ NewLine /\ depth[cur] <= stepDepth
  \/ mode = "out" /\ AtStop(pc) /\ depth[cur] <= stepDepth

StepStops ==
  \/ mode = "instr"
  \/ mode = "line" /\ NewLine
  \/ mode = "over" /\ NewLine /\ depth[cur] <= stepDepth
  \/ mode = "out" /\ AtStop(pc) /\ depth[cur] < stepDepth

\* Broken variant: breakpoints in frames `next` steps over are passed by.
BreakStopsUnlessOver ==
  AtStop(pc) /\ StopLine(pc) \in lineBP /\ ~(mode = "over" /\ depth[cur] > stepDepth)

BreakStops == AtStop(pc) /\ StopLine(pc) \in lineBP

Hook ==
  /\ phase = "hook"
  /\ IF dbgOn /\ (StepStops \/ BreakStops)
     THEN phase' = "prompt" /\ hit' = ~StepStops /\ asked' = TRUE
     ELSE phase' = "execute" /\ hit' = FALSE /\ asked' = FALSE
  /\ UNCHANGED <<program, settings, home>>

-----------------------------------------------------------------------------
(* command(): the commands that change something.                          *)

Prompt == phase = "prompt" /\ UNCHANGED <<program, hit, asked>>

Resume(m) ==
  /\ Prompt
  /\ mode' = m
  /\ phase' = "execute"
  /\ UNCHANGED lineBP

\* setBreak with a line resolveLine accepts ...
AddBreak(l) ==
  /\ Prompt
  /\ lineBP' = lineBP \cup {l}
  /\ dbgOn' = TRUE
  /\ UNCHANGED <<mode, stepDepth, lastLine, phase, home>>

BreakLine == \E l \in Lines : AddBreak(l)

\* ... or with the name of a function.
BreakFunction ==
  \E e \in Entries : HasStopFrom(e) /\ AddBreak(firstStopAtOrAfter(e))

\* delBreak with a set of lines: one of them, or all.
delBreak(ls) ==
  /\ Prompt
  /\ lineBP' = lineBP \ ls
  /\ dbgOn' = (dbgOn /\ ~(lineBP' = {} /\ mode = "run"))
  /\ UNCHANGED <<mode, stepDepth, lastLine, phase, home>>

Delete == delBreak(Lines) \/ \E l \in Lines : delBreak({l})

Here == <<cur, depth[cur]>>

step == /\ Resume("line")
        /\ lastLine' = lineAt(pc)
        /\ UNCHANGED <<dbgOn, stepDepth, home>>
next == /\ Resume("over")
        /\ lastLine' = lineAt(pc)
        /\ stepDepth' = depth[cur]
        /\ home' = Here
        /\ UNCHANGED dbgOn
stepi == Resume("instr") /\ UNCHANGED <<dbgOn, stepDepth, lastLine, home>>
finish == /\ Resume("out")
          /\ stepDepth' = depth[cur]
          /\ home' = Here
          /\ UNCHANGED <<dbgOn, lastLine>>

\* Broken variant: continue leaves the hook on.
continueStillOn == Resume("run") /\ UNCHANGED <<dbgOn, stepDepth, lastLine, home>>

\* `continue`, or the end of standard input.
continue == /\ Resume("run")
            /\ dbgOn' = (lineBP # {})
            /\ UNCHANGED <<stepDepth, lastLine, home>>

quit == Prompt /\ phase' = "ended" /\ UNCHANGED <<settings, home>>

Command == BreakLine \/ BreakFunction \/ Delete \/ step \/ next \/ stepi
             \/ finish \/ continue \/ quit

-----------------------------------------------------------------------------
(* The program executes one instruction.                                   *)

\* The activation of the last next or finish, if it survives the instruction.
Survives == IF home # <<>> /\ depth'[home[1]] >= home[2] THEN home ELSE <<>>

Instruction ==
  /\ phase = "execute"
  /\ phase' = "hook"
  /\ hit' = FALSE /\ asked' = FALSE
  /\ home' = Survives
  /\ pc' \in 0 .. MaxPC
  /\ UNCHANGED settings

Compute == UNCHANGED <<cur, depth>> /\ Instruction
Call    == /\ depth[cur] < MaxDepth
           /\ depth' = [depth EXCEPT ![cur] = @ + 1]
           /\ UNCHANGED cur
           /\ Instruction
\* A return, or an exception that unwinds any number of frames.
Unwind  == /\ \E d \in 1 .. depth[cur] - 1 : depth' = [depth EXCEPT ![cur] = d]
           /\ UNCHANGED cur
           /\ Instruction
Alive(t) == depth[t] > 0
Spawn   == /\ \E t \in Tasks : /\ ~Alive(t)
                               /\ \A u \in Tasks : u < t => Alive(u)
                               /\ depth' = [depth EXCEPT ![t] = 1]
           /\ UNCHANGED cur
           /\ Instruction
\* An await or a sleep switches to another task.
Yield   == /\ cur' \in {t \in Tasks \ {cur} : Alive(t)}
           /\ UNCHANGED depth
           /\ Instruction

\* The entry function of a spawned task returns. Its id may be used again:
\* MaxTasks bounds the tasks alive at once.
TaskEnds == /\ cur # 0
            /\ depth' = [depth EXCEPT ![cur] = 0]
            /\ cur' \in {t \in Tasks \ {cur} : Alive(t)}
            /\ Instruction

\* main returns, HALT, or a fatal error.
End == /\ phase = "execute"
       /\ phase' = "ended"
       /\ UNCHANGED <<program, settings, hit, asked, home>>

Ended == phase = "ended" /\ UNCHANGED vars

Next == Hook \/ Command \/ Compute \/ Call \/ Unwind \/ Spawn \/ Yield \/ TaskEnds
          \/ End \/ Ended

Spec == Init /\ [][Next]_vars

-----------------------------------------------------------------------------
\* "stepping past a call would silently skip a breakpoint inside it, which is
\* the one thing a breakpoint must never do" (debug.go:402-405): no statement
\* with a breakpoint on its line starts without a prompt, in any mode and
\* after any sequence of break, delete, step and continue.
BreakpointsNeverSkipped ==
  phase = "execute" /\ AtStop(pc) /\ StopLine(pc) \in lineBP => asked

\* "`continue` with no breakpoints set turns it back off, so a debugged
\* program runs at full speed" (main.go:1179-1182), and only then.
FullSpeedWithoutBreakpoints ==
  phase = "execute" /\ mode = "run" => dbgOn = (lineBP # {})

\* finish runs "until this function returns", next "one source line, over
\* calls" (debug.go:242-244): when they stop, but for a breakpoint, the
\* activation finish was given in is gone, the one of next runs or is gone.
StepsEndWhereAsked ==
  phase = "prompt" /\ ~hit /\ home # <<>> =>
    /\ mode # "out"
    /\ mode = "over" => home = Here

\* That holds as long as main is the only task.
StepsEndInMain == (\A t \in Tasks \ {0} : ~Alive(t)) => StepsEndWhereAsked

\* step, next, stepi and finish stop the program again: the hook that would
\* do it is on (main.go:1179-1183, debug.go:50).
SteppingIsArmed == phase = "execute" /\ mode # "run" => dbgOn
=============================================================================
