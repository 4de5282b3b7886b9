--------------------------- MODULE DebuggerProofs ---------------------------
(***************************************************************************)
(* The safety properties of the debugger for every debug section, every    *)
(* set of functions, every number of tasks and every call depth.           *)
(*                                                                         *)
(* None of the properties is inductive: each speaks of the moment an       *)
(* instruction executes or a prompt appears, and follows from what the     *)
(* commands keep true between them: the hook is off only when there is     *)
(* nothing to stop at, and the depth a step command recorded is the depth  *)
(* of the activation it was given in.                                      *)
(***************************************************************************)
EXTENDS Debugger, WellFoundedInduction, TLAPS

\* The cached switch dbgOn agrees with the breakpoints and the mode.
HookArmed ==
  /\ ~dbgOn => lineBP = {}
  /\ mode = "run" => dbgOn = (lineBP # {})

\* A prompt, and the execution of the instruction it precedes, were asked for.
PromptAsked == phase = "prompt" => asked

\* stepDepth is where the last next or finish was given, while that
\* activation lives.
DepthOfHome ==
  home # <<>> => stepDepth = home[2] /\ depth[home[1]] >= home[2]

CurAlive == depth[cur] >= 1

DInv ==
  /\ TypeOK
  /\ HookArmed
  /\ PromptAsked
  /\ BreakpointsNeverSkipped
  /\ CurAlive
  /\ DepthOfHome
  /\ StepsEndInMain

-----------------------------------------------------------------------------
\* A nonempty set of positions of the debug section has a first element.
LEMMA FirstPosition ==
  ASSUME NEW S, S \subseteq Nat, S # {}
  PROVE  \E x \in S : \A y \in S : x <= y
<1>1. PICK x \in S : \A y \in S : ~ (<<y, x>> \in OpToRel(<, Nat))
  BY NatLessThanWellFounded, WFMin
<1>2. ASSUME NEW y \in S PROVE x <= y
  <2>1. x \in Nat /\ y \in Nat
    OBVIOUS
  <2>2. y < x => <<y, x>> \in OpToRel(<, Nat)
    BY <2>1 DEF OpToRel
  <2>3. ~ (<<y, x>> \in OpToRel(<, Nat))
    BY <1>1, Zenon
  <2>4. ~ (y < x)
    BY <2>2, <2>3, Zenon
  <2> QED BY <2>1, <2>4
<1> QED BY <1>2

\* ... and, being bounded, a last one.
LEMMA LastPosition ==
  ASSUME NEW S, NEW m \in Nat, S \subseteq 0 .. m, S # {}
  PROVE  \E x \in S : \A y \in S : y <= x
<1> DEFINE T == {m - x : x \in S}
<1>1. T \subseteq Nat /\ T # {}
  <2>1. \A x \in S : x \in Int /\ 0 <= x /\ x <= m
    OBVIOUS
  <2>2. \A x \in S : m - x \in Nat
    BY <2>1
  <2> QED BY <2>2
<1>2. PICK t \in T : \A u \in T : t <= u
  <2> HIDE DEF T
  <2> QED BY <1>1, FirstPosition
<1>3. PICK x \in S : t = m - x
  BY <1>2
<1>4. ASSUME NEW y \in S PROVE y <= x
  <2>1. m - y \in T
    OBVIOUS
  <2>2. m - x <= m - y
    BY <1>2, <1>3, <2>1
  <2> QED BY <2>2
<1> QED BY <1>4

\* lineAt gives a line of the debug section, or 0 before its first entry.
LEMMA LineAtType ==
  ASSUME NEW p \in 0 .. MaxPC PROVE lineAt(p) \in Lines \cup {0}
<1> DEFINE S == {i \in DOMAIN Dbg : Dbg[i][1] <= p}
<1>1. CASE \A i \in DOMAIN Dbg : Dbg[i][1] > p
  BY <1>1 DEF lineAt
<1>2. CASE ~ \A i \in DOMAIN Dbg : Dbg[i][1] > p
  <2>1. Len(Dbg) \in Nat /\ DOMAIN Dbg = 1 .. Len(Dbg)
        /\ \A i \in DOMAIN Dbg : Dbg[i][1] \in Int
    BY DebuggerAssumption
  <2>2. S \subseteq 0 .. Len(Dbg) /\ S # {}
    BY <1>2, <2>1
  <2>3. PICK x \in S : \A y \in S : y <= x
    <3> HIDE DEF S
    <3> QED BY <2>1, <2>2, LastPosition
  <2>4. \E i \in DOMAIN Dbg : /\ Dbg[i][1] <= p
                              /\ \A j \in DOMAIN Dbg : Dbg[j][1] <= p => j <= i
    BY <2>3
  <2> QED BY <1>2, <2>4 DEF lineAt, Lines
<1> QED BY <1>1, <1>2

\* firstStopAtOrAfter gives a line of the debug section.
LEMMA FirstStopType ==
  ASSUME NEW p \in 0 .. MaxPC, HasStopFrom(p) PROVE firstStopAtOrAfter(p) \in Lines
<1> DEFINE S == {i \in DOMAIN Dbg : Dbg[i][1] >= p}
<1>1. S \subseteq Nat /\ S # {}
  BY DebuggerAssumption, SMTT(30) DEF HasStopFrom
<1>2. PICK x \in S : \A y \in S : x <= y
  <2> HIDE DEF S
  <2> QED BY <1>1, FirstPosition
<1>3. \E i \in DOMAIN Dbg : /\ Dbg[i][1] >= p
                            /\ \A j \in DOMAIN Dbg : Dbg[j][1] >= p => i <= j
  BY <1>2
<1> QED BY <1>3 DEF firstStopAtOrAfter, Lines

-----------------------------------------------------------------------------
\* The debugger starts at a prompt before the first instruction, with no
\* breakpoint and main as the only task.
LEMMA DInvInit == Init => DInv
<1> SUFFICES ASSUME Init PROVE DInv
  OBVIOUS
<1>1. TypeOK
  <2>1. 0 \in Tasks /\ {0, 1} \subseteq 0 .. MaxDepth
    BY DebuggerAssumption DEF Tasks
  <2>2. pc \in 0 .. MaxPC /\ stepDepth \in 0 .. MaxDepth
    BY <2>1, DebuggerAssumption DEF Init
  <2>3. depth \in [Tasks -> 0 .. MaxDepth]
    BY <2>1 DEF Init
  <2>4. lineBP \subseteq Lines /\ lastLine \in Lines \cup {0}
    BY DEF Init
  <2> QED BY <2>1, <2>2, <2>3, <2>4 DEF Init, TypeOK
<1>2. CurAlive
  BY DebuggerAssumption DEF Init, CurAlive, Tasks
<1> QED
  BY <1>1, <1>2 DEF Init, DInv, HookArmed, PromptAsked, DepthOfHome,
                    BreakpointsNeverSkipped, StepsEndInMain, StepsEndWhereAsked

\* before() lets a statement with a breakpoint start only after a prompt, and
\* ends next and finish where they were given.
LEMMA HookPreserves == ASSUME DInv, Hook PROVE DInv'
<1>1. /\ phase = "hook" /\ UNCHANGED <<pc, cur, depth>> /\ UNCHANGED home
      /\ UNCHANGED <<dbgOn, mode, stepDepth, lastLine, lineBP>>
  BY DEF Hook, program, settings
<1>2. TypeOK' /\ HookArmed' /\ PromptAsked' /\ CurAlive' /\ DepthOfHome'
  <2>1. phase' \in {"prompt", "execute"} /\ hit' \in BOOLEAN /\ asked' \in BOOLEAN
        /\ (phase' = "prompt" => asked')
    BY DEF Hook
  <2> QED BY <1>1, <2>1 DEF DInv, TypeOK, HookArmed, PromptAsked, CurAlive, DepthOfHome
<1>3. BreakpointsNeverSkipped'
  <2> SUFFICES ASSUME phase' = "execute", AtStop(pc), StopLine(pc) \in lineBP
               PROVE  FALSE
    BY <1>1 DEF BreakpointsNeverSkipped, AtStop, StopLine
  <2>1. BreakStops
    BY DEF BreakStops
  <2>2. dbgOn
    BY DEF DInv, HookArmed
  <2> QED BY <2>1, <2>2 DEF Hook
<1>4. StepsEndInMain'
  <2> SUFFICES ASSUME \A t \in Tasks \ {0} : ~Alive(t),
                      phase' = "prompt", ~hit', home # <<>>
               PROVE  mode # "out" /\ (mode = "over" => home = Here)
    BY <1>1 DEF StepsEndInMain, StepsEndWhereAsked, Alive, Here
  <2>1. StepStops
    BY DEF Hook
  <2>2. /\ home \in Tasks \X (1 .. MaxDepth) /\ cur \in Tasks
        /\ depth \in [Tasks -> 0 .. MaxDepth] /\ MaxDepth \in Nat
        /\ stepDepth = home[2] /\ depth[home[1]] >= home[2] /\ depth[cur] >= 1
    BY DebuggerAssumption DEF DInv, TypeOK, DepthOfHome, CurAlive
  <2>3. home[1] \in Tasks /\ home[2] \in 1 .. MaxDepth /\ home = <<home[1], home[2]>>
    BY <2>2
  <2>4. depth[home[1]] \in 0 .. MaxDepth /\ depth[cur] \in 0 .. MaxDepth
    BY <2>2, <2>3
  <2>5. cur = 0 /\ home[1] = 0
    BY <2>2, <2>3, <2>4 DEF Alive
  <2>6. depth[cur] >= stepDepth
    BY <2>2, <2>5
  <2>7. mode # "out"
    BY <2>1, <2>2, <2>3, <2>4, <2>6 DEF StepStops
  <2>8. mode = "over" => depth[cur] <= stepDepth
    BY <2>1 DEF StepStops
  <2>9. mode = "over" => depth[cur] = home[2]
    BY <2>2, <2>3, <2>4, <2>6, <2>8
  <2> QED BY <2>3, <2>5, <2>7, <2>9 DEF Here
<1> QED BY <1>2, <1>3, <1>4 DEF DInv

\* The commands that stay at the prompt keep the switch in step with the
\* breakpoints.
LEMMA BreakPreserves ==
  ASSUME DInv, BreakLine \/ BreakFunction \/ Delete PROVE DInv'
<1>1. /\ phase = "prompt" /\ UNCHANGED <<pc, cur, depth, hit, asked>>
      /\ UNCHANGED <<mode, stepDepth, lastLine, phase, home>>
  BY DEF BreakLine, BreakFunction, Delete, AddBreak, delBreak, Prompt, program
<1>2. lineBP' \subseteq Lines /\ dbgOn' \in BOOLEAN /\ HookArmed'
  <2>1. lineBP \subseteq Lines /\ dbgOn \in BOOLEAN /\ HookArmed
    BY DEF DInv, TypeOK
  <2>2. ASSUME NEW l \in Lines, AddBreak(l) PROVE <1>2!:
    BY <1>1, <2>1, <2>2 DEF AddBreak, HookArmed
  <2>3. ASSUME NEW ls, delBreak(ls) PROVE <1>2!:
    BY <1>1, <2>1, <2>3 DEF delBreak, HookArmed
  <2>4. CASE BreakFunction
    <3>1. PICK e \in Entries : HasStopFrom(e) /\ AddBreak(firstStopAtOrAfter(e))
      BY <2>4 DEF BreakFunction
    <3>2. firstStopAtOrAfter(e) \in Lines
      BY <3>1, FirstStopType, DebuggerAssumption
    <3> QED BY <2>2, <3>1, <3>2
  <2> QED BY <2>2, <2>3, <2>4 DEF BreakLine, Delete
<1> QED
  BY <1>1, <1>2 DEF DInv, TypeOK, PromptAsked, BreakpointsNeverSkipped, CurAlive,
                    DepthOfHome, StepsEndInMain, StepsEndWhereAsked, Alive, Here

\* The commands that resume the program, and quit.
LEMMA ResumePreserves ==
  ASSUME DInv, step \/ next \/ stepi \/ finish \/ continue \/ quit PROVE DInv'
<1>1. /\ phase = "prompt" /\ UNCHANGED <<pc, cur, depth, hit, asked, lineBP>>
      /\ phase' \in {"execute", "ended"}
  BY DEF step, next, stepi, finish, continue, quit, Resume, Prompt, program, settings
<1>2. /\ pc \in 0 .. MaxPC /\ cur \in Tasks /\ depth \in [Tasks -> 0 .. MaxDepth]
      /\ depth[cur] \in 1 .. MaxDepth /\ asked
  BY <1>1 DEF DInv, TypeOK, CurAlive, PromptAsked
<1>3. lastLine' \in Lines \cup {0} /\ dbgOn' \in BOOLEAN
      /\ mode' \in {"run", "line", "over", "instr", "out"}
  BY <1>2, LineAtType
     DEF DInv, TypeOK, step, next, stepi, finish, continue, quit, Resume, settings
<1>4. \/ UNCHANGED <<stepDepth, home>>
      \/ stepDepth' = depth[cur] /\ home' = <<cur, depth[cur]>>
  BY DEF step, next, stepi, finish, continue, quit, Resume, settings, Here
<1>5. /\ stepDepth' \in 0 .. MaxDepth
      /\ home' \in {<<>>} \cup (Tasks \X (1 .. MaxDepth))
      /\ DepthOfHome'
  <2>1. CASE UNCHANGED <<stepDepth, home>>
    BY <1>1, <2>1 DEF DInv, TypeOK, DepthOfHome
  <2>2. CASE stepDepth' = depth[cur] /\ home' = <<cur, depth[cur]>>
    <3>1. home'[1] = cur /\ home'[2] = depth[cur]
      BY <2>2
    <3> QED BY <1>1, <1>2, <2>2, <3>1 DEF DepthOfHome
  <2> QED BY <1>4, <2>1, <2>2
<1>6. HookArmed'
  BY <1>1 DEF DInv, HookArmed, step, next, stepi, finish, continue, quit, Resume, settings
<1>7. TypeOK'
  BY <1>1, <1>3, <1>5 DEF DInv, TypeOK
<1> QED
  BY <1>1, <1>2, <1>5, <1>6, <1>7
     DEF DInv, PromptAsked, BreakpointsNeverSkipped, CurAlive,
         StepsEndInMain, StepsEndWhereAsked

\* An instruction leaves the debugger alone; the recorded activation is
\* forgotten with its frame.
LEMMA InstructionPreserves ==
  ASSUME DInv, Instruction,
         cur' \in Tasks, depth' \in [Tasks -> 0 .. MaxDepth], depth'[cur'] >= 1
  PROVE  DInv'
<1>1. /\ phase' = "hook" /\ ~hit' /\ ~asked' /\ hit' \in BOOLEAN /\ asked' \in BOOLEAN
      /\ pc' \in 0 .. MaxPC /\ home' = Survives
      /\ UNCHANGED <<dbgOn, mode, stepDepth, lastLine, lineBP>>
  BY DEF Instruction, settings
<1>2. /\ home' \in {<<>>} \cup (Tasks \X (1 .. MaxDepth))
      /\ DepthOfHome'
  BY <1>1 DEF Survives, DInv, TypeOK, DepthOfHome
<1> QED
  BY <1>1, <1>2 DEF DInv, TypeOK, HookArmed, PromptAsked, BreakpointsNeverSkipped,
                    CurAlive, StepsEndInMain, StepsEndWhereAsked

\* Whatever the program does next, a live task runs.
LEMMA ProgramPreserves ==
  ASSUME DInv, Compute \/ Call \/ Unwind \/ Spawn \/ Yield \/ TaskEnds PROVE DInv'
<1>1. /\ cur \in Tasks /\ depth \in [Tasks -> 0 .. MaxDepth] /\ depth[cur] >= 1
      /\ MaxDepth \in Nat \ {0} /\ depth[cur] \in 0 .. MaxDepth
  BY DebuggerAssumption DEF DInv, TypeOK, CurAlive
<1>2. Instruction
  BY DEF Compute, Call, Unwind, Spawn, Yield, TaskEnds
<1>3. cur' \in Tasks /\ depth' \in [Tasks -> 0 .. MaxDepth] /\ depth'[cur'] >= 1
  <2>1. CASE Compute
    BY <1>1, <2>1 DEF Compute
  <2>2. CASE Call
    BY <1>1, <2>2 DEF Call
  <2>3. CASE Unwind
    <3>1. PICK d \in 1 .. depth[cur] - 1 : depth' = [depth EXCEPT ![cur] = d]
      BY <2>3 DEF Unwind
    <3>2. cur' = cur /\ d \in 0 .. MaxDepth /\ d >= 1
      BY <1>1, <2>3, <3>1 DEF Unwind
    <3> QED BY <1>1, <3>1, <3>2
  <2>4. CASE Spawn
    <3>1. PICK t \in Tasks : ~Alive(t) /\ depth' = [depth EXCEPT ![t] = 1]
      BY <2>4 DEF Spawn
    <3>2. cur' = cur /\ t # cur
      BY <1>1, <2>4, <3>1 DEF Spawn, Alive
    <3> QED BY <1>1, <3>1, <3>2
  <2>5. CASE Yield
    <3>1. cur' \in Tasks /\ depth[cur'] > 0 /\ depth' = depth
      BY <2>5 DEF Yield, Alive
    <3>2. depth[cur'] \in 0 .. MaxDepth
      BY <1>1, <3>1
    <3> QED BY <1>1, <3>1, <3>2
  <2>6. CASE TaskEnds
    <3>1. cur' \in Tasks /\ cur' # cur /\ depth[cur'] > 0
          /\ depth' = [depth EXCEPT ![cur] = 0]
      BY <2>6 DEF TaskEnds, Alive
    <3>2. depth[cur'] \in 0 .. MaxDepth /\ depth'[cur'] = depth[cur']
      BY <1>1, <3>1
    <3> QED BY <1>1, <3>1, <3>2
  <2> QED BY <2>1, <2>2, <2>3, <2>4, <2>5, <2>6
<1> QED BY <1>2, <1>3, InstructionPreserves

\* One step of the debugged program or of the debugger preserves the invariant.
LEMMA DInvNext == DInv /\ [Next]_vars => DInv'
<1> SUFFICES ASSUME DInv, [Next]_vars PROVE DInv'
  OBVIOUS
<1>1. CASE Hook
  BY <1>1, HookPreserves
<1>2. CASE Command
  BY <1>2, BreakPreserves, ResumePreserves DEF Command
<1>3. CASE Compute \/ Call \/ Unwind \/ Spawn \/ Yield \/ TaskEnds
  BY <1>3, ProgramPreserves
<1>4. CASE End
  BY <1>4 DEF End, program, settings, DInv, TypeOK, HookArmed, PromptAsked,
              BreakpointsNeverSkipped, CurAlive, DepthOfHome, StepsEndInMain,
              StepsEndWhereAsked
<1>5. CASE UNCHANGED vars
  BY <1>5 DEF vars, program, settings, DInv, TypeOK, HookArmed, PromptAsked,
              BreakpointsNeverSkipped, CurAlive, DepthOfHome, StepsEndInMain,
              StepsEndWhereAsked, AtStop, StopLine, Alive, Here
<1> QED BY <1>1, <1>2, <1>3, <1>4, <1>5 DEF Next, Ended

-----------------------------------------------------------------------------
\* In every reachable state the cached switch of the dispatch loop agrees with
\* the breakpoints and the recorded depth with the activation it stands for
\* (debug.go:50-53, 366-385).
THEOREM DebuggerInvariance == Spec => []DInv
<1> QED BY DInvInit, DInvNext, PTL DEF Spec

\* Every variable of the debugger keeps its type; in particular the line a
\* step remembers is one the debug section has (main.go:697-710).
THEOREM DebuggerTypes == Spec => []TypeOK
<1>1. DInv => TypeOK
  BY DEF DInv
<1> QED BY <1>1, DebuggerInvariance, PTL

\* No mode, no call and no order of commands lets the program run past a
\* breakpoint (debug.go:402-405).
THEOREM NoBreakpointSkipped == Spec => []BreakpointsNeverSkipped
<1>1. DInv => BreakpointsNeverSkipped
  BY DEF DInv
<1> QED BY <1>1, DebuggerInvariance, PTL

\* After `continue` the hook is on exactly when there is a breakpoint left
\* (main.go:1179-1182).
THEOREM FullSpeed == Spec => []FullSpeedWithoutBreakpoints
<1>1. DInv => FullSpeedWithoutBreakpoints
  BY DEF DInv, HookArmed, FullSpeedWithoutBreakpoints
<1> QED BY <1>1, DebuggerInvariance, PTL

\* While main is alone, next and finish stop in the activation they were given
\* in, or after it is gone (debug.go:393-400).
THEOREM StepsEndAlone == Spec => []StepsEndInMain
<1>1. DInv => StepsEndInMain
  BY DEF DInv
<1> QED BY <1>1, DebuggerInvariance, PTL
=============================================================================
