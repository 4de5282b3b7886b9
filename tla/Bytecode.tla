------------------------------ MODULE Bytecode ------------------------------
(***************************************************************************)
(* What the interpreters of vm/ are given to run: the functions of a .pyro *)
(* file, its values, and what a compiled program may be about to execute.  *)
(*                                                                         *)
(* The code section itself is left out. Every instruction of a function    *)
(* may be followed by any other of the same function, as long as operands  *)
(* are used the way the compiler uses them: a function touches only the    *)
(* operands it pushed itself, a try block only those pushed inside it, and *)
(* control leaves neither a function nor a try block with handlers or      *)
(* operands of its own left behind. Unless LoadsUnset, a function loads    *)
(* only the locals it was passed or has stored. The compiler is not in     *)
(* this repository; this contract is external.                             *)
(***************************************************************************)
EXTENDS Integers, Sequences

CONSTANTS
  Plain,       \* values that are not functions
  Captures,    \* the values closures capture
  Null,        \* null
  Zero,        \* int 0, what a Value of the Go VM is until it is assigned
  LoadsUnset,  \* whether compiled code loads a local it has not stored
  NFuncs,      \* number of functions; function 0 is the entry
  NParams,     \* NParams[f]: the arguments a call of f passes
  NCaptured,   \* NCaptured[f]: the values a closure over f captures
  FnValues,    \* the functions used as values
  NLocals,     \* NLocals[f]: local slots, captures and parameters first
  PCs,         \* PCs per function
  MaxPops,     \* most operands one instruction consumes
  StackInit,   \* stackInit: first length of the Go VM's operand stack
  StackMax,    \* stackMax: slots of the C VM's operand stack
  LocalsMax,   \* localsMax
  FrameMax,    \* frameMax
  HandlerMax   \* handlerMax

Funcs == 0 .. NFuncs - 1

ASSUME BytecodeAssumption ==
  /\ Null \in Plain /\ Zero \in Plain /\ Null # Zero
  /\ LoadsUnset \in BOOLEAN
  /\ Captures \subseteq Plain
  /\ NFuncs \in Nat \ {0}
  /\ NParams \in [Funcs -> Nat]
  /\ NCaptured \in [Funcs -> Nat]
  /\ NLocals \in [Funcs -> Nat]
  /\ FnValues \subseteq Funcs
  /\ \A f \in Funcs : NCaptured[f] + NParams[f] <= NLocals[f]
  /\ PCs \in Nat \ {0}
  /\ MaxPops \in Nat
  /\ NLocals[0] <= LocalsMax
  /\ StackInit \in Nat /\ StackInit >= 4
  /\ StackMax \in Nat /\ StackMax >= StackInit
  /\ LocalsMax \in Nat
  /\ FrameMax \in Nat /\ FrameMax >= 2
  /\ HandlerMax \in Nat

\* A function value: vFunc has no captures, vClosure has some.
Closure == UNION {[fn : {f}, cap : [1 .. NCaptured[f] -> Captures]] : f \in FnValues}
Value   == Plain \cup Closure

\* The plain values that are not true; the others are told apart by none.
Falsy == {Null, Zero}

\* The addresses of the code of f; a function starts at its first one.
Body(f)  == f * PCs .. f * PCs + PCs - 1
Start(f) == f * PCs
CodeEnd  == NFuncs * PCs
NoSlot   == -1
Slots(f) == {NoSlot} \cup 0 .. NLocals[f] - 1

\* How fatal() can end a run.
Faults == {"value stack", "locals stack", "call stack", "handler stack",
           "non-function", "uncaught", "runtime error"}

Take(s, k) == SubSeq(s, 1, k)
Drop(s, k) == SubSeq(s, 1, Len(s) - k)
Tail2(s, k) == SubSeq(s, Len(s) - k + 1, Len(s))
Top(s)     == s[Len(s)]

\* The operand depth below which the current function, or the innermost try
\* block it is in, does not reach. base[i] is the operand depth at which the
\* i-th activation began.
Floor(base, handlers) ==
  IF handlers # <<>> /\ Top(handlers).fp = Len(base)
  THEN Top(handlers).sp ELSE Top(base)

InOwnTry(base, handlers) == handlers # <<>> /\ Top(handlers).fp = Len(base)
=============================================================================
