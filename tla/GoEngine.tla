------------------------------ MODULE GoEngine ------------------------------
(***************************************************************************)
(* The interpreter loop of the Go VM (vm/main.go, run()) for one task: the *)
(* growing operand stack, the call frames with their own locals, the       *)
(* exception handlers, and the limits it copies from the C VM. One action  *)
(* is one iteration of the loop: the headroom check, then the instruction. *)
(***************************************************************************)
EXTENDS Bytecode

VARIABLES
  stack,     \* stack[0:sp]
  slen,      \* len(stack): grown on demand up to stackMax
  frames,
  handlers,
  pc,
  status,    \* "run", "exit", or what fatal() said
  base       \* operand depth at which each activation began: the compiler's
             \* knowledge, not the VM's

gvars == <<stack, slen, frames, handlers, pc, status, base>>

Frame   == UNION {[retpc : -1 .. CodeEnd, fn : {f}, localsBase : 0 .. LocalsMax,
                   locals : [0 .. NLocals[f] - 1 -> Value]] : f \in Funcs}
Handler == [catchPC : 0 .. CodeEnd, sp : 0 .. StackMax, fp : 1 .. FrameMax,
            slot : Int]

\* make([]Value, nlocals), then the captures and the arguments copied over it:
\* the slots of no argument hold the zero Value of Go, an int 0.
Bind(f, cap, args) ==
  [s \in 0 .. NLocals[f] - 1 |->
     IF s < Len(cap) + Len(args) THEN (cap \o args)[s + 1] ELSE Zero]

TypeOK ==
  /\ stack \in Seq(Value)
  /\ slen \in StackInit .. StackMax
  /\ frames \in Seq(Frame)
  /\ handlers \in Seq(Handler)
  /\ pc \in 0 .. CodeEnd
  /\ status \in {"run", "exit"} \cup Faults
  /\ base \in Seq(Nat)

Init ==
  /\ stack = <<>>
  /\ slen = StackInit
  /\ frames = <<[retpc |-> -1, fn |-> 0, localsBase |-> 0,
                 locals |-> Bind(0, <<>>, <<>>)]>>
  /\ handlers = <<>>
  /\ pc = Start(0)
  /\ status = "run"
  /\ base = <<0>>

sp == Len(stack)
fn == Top(frames).fn

\* Broken variant: the slice grows past the C VM's array.
DoubledUncapped == 2 * slen

\* if sp+4 > len(stack) { stack = growStack(stack) }
Doubled == IF 2 * slen > StackMax THEN StackMax ELSE 2 * slen
Full    == sp + 4 > slen
Fetch   == /\ status = "run"
           /\ ~(Full /\ Doubled = slen)
           /\ slen' = IF Full THEN Doubled ELSE slen
Overflow ==
  /\ status = "run"
  /\ Full /\ Doubled = slen
  /\ status' = "value stack"
  /\ UNCHANGED <<stack, slen, frames, handlers, pc, base>>

\* The instruction consumes k operands of its own.
Operands(k) == sp - k >= Floor(base, handlers)

Advance == pc' \in Body(fn)
Abort(why) ==
  /\ status' = why
  /\ Advance
  /\ UNCHANGED <<stack, frames, handlers, base>>

\* Every instruction that computes: it pops k operands and pushes at most one.
Compute(k, r) ==
  /\ Fetch /\ Operands(k)
  /\ stack' = Drop(stack, k) \o r
  /\ Advance
  /\ UNCHANGED <<frames, handlers, status, base>>

\* Integer division by zero, an index out of bounds, ...: not catchable.
RuntimeError == Fetch /\ Abort("runtime error")

Halt ==
  /\ Fetch
  /\ status' = "exit"
  /\ UNCHANGED <<stack, frames, handlers, pc, base>>

Load(s) ==
  /\ Fetch
  /\ s \in DOMAIN Top(frames).locals
  /\ stack' = Append(stack, Top(frames).locals[s])
  /\ Advance
  /\ UNCHANGED <<frames, handlers, status, base>>

Store(s) ==
  /\ Fetch /\ Operands(1)
  /\ s \in DOMAIN Top(frames).locals
  /\ frames' = [frames EXCEPT ![Len(frames)].locals[s] = Top(stack)]
  /\ stack' = Drop(stack, 1)
  /\ Advance
  /\ UNCHANGED <<handlers, status, base>>

\* PUSHFN and CLOSURE: the captured operands are copied into the value.
MakeClosure(f) ==
  /\ Fetch /\ Operands(NCaptured[f])
  /\ LET cap == Tail2(stack, NCaptured[f])
     IN  /\ \A i \in DOMAIN cap : cap[i] \in Captures
         /\ stack' = Append(Drop(stack, NCaptured[f]), [fn |-> f, cap |-> cap])
  /\ Advance
  /\ UNCHANGED <<frames, handlers, status, base>>

NextLocalsBase == Top(frames).localsBase + NLocals[fn]

\* checkLocals, the copy of the arguments, checkFrames, the new frame: args
\* are the operands the call consumes on top of rest.
Enter(f, cap, args, rest) ==
  IF NextLocalsBase + NLocals[f] > LocalsMax - 2 THEN Abort("locals stack")
  ELSE IF Len(frames) > FrameMax - 2 THEN Abort("call stack")
  ELSE /\ \E ret \in Body(fn) :
            frames' = Append(frames, [retpc |-> ret, fn |-> f,
                                      localsBase |-> NextLocalsBase,
                                      locals |-> Bind(f, cap, args)])
       /\ stack' = rest
       /\ base' = Append(base, Len(rest))
       /\ pc' = Start(f)
       /\ UNCHANGED <<handlers, status>>

Call(f) ==
  /\ Fetch /\ Operands(NParams[f])
  /\ NCaptured[f] = 0
  /\ Enter(f, <<>>, Tail2(stack, NParams[f]), Drop(stack, NParams[f]))

\* The called value lies beneath its k arguments.
CallValue(k) ==
  /\ Fetch /\ Operands(k + 1)
  /\ LET v == stack[sp - k]
     IN  \/ v \notin Closure /\ Abort("non-function")
         \/ /\ v \in Closure
            /\ k = NParams[v.fn]
            /\ Enter(v.fn, v.cap, Tail2(stack, k), Drop(stack, k + 1))

Return ==
  /\ Fetch
  /\ sp = Top(base) + 1
  /\ ~InOwnTry(base, handlers)
  /\ frames' = Drop(frames, 1)
  /\ IF Top(frames).retpc < 0
     THEN /\ status' = "exit"
          /\ stack' = Drop(stack, 1)
          /\ UNCHANGED <<pc, base>>
     ELSE /\ pc' = Top(frames).retpc
          /\ base' = Drop(base, 1)
          /\ UNCHANGED <<stack, status>>
  /\ UNCHANGED <<handlers>>

TryPush(s, catch) ==
  /\ Fetch
  /\ s \in Slots(fn)
  /\ catch \in Body(fn)
  /\ \/ Len(handlers) > HandlerMax - 2 /\ Abort("handler stack")
     \/ /\ Len(handlers) <= HandlerMax - 2
        /\ handlers' = Append(handlers, [catchPC |-> catch, sp |-> sp,
                                         fp |-> Len(frames), slot |-> s])
        /\ Advance
        /\ UNCHANGED <<stack, frames, status, base>>

TryPop ==
  /\ Fetch
  /\ InOwnTry(base, handlers)
  /\ handlers' = Drop(handlers, 1)
  /\ Advance
  /\ UNCHANGED <<stack, frames, status, base>>

\* raise(v) with the operands left once the instruction popped its own.
Raise(v, left) ==
  LET h == Top(handlers) IN
  /\ handlers' = Drop(handlers, 1)
  /\ stack' = IF h.sp <= Len(left) THEN Take(left, h.sp) ELSE left
  /\ frames' = IF h.slot = NoSlot THEN Take(frames, h.fp)
               ELSE [Take(frames, h.fp) EXCEPT ![h.fp].locals[h.slot] = v]
  /\ base' = Take(base, h.fp)
  /\ pc' = h.catchPC
  /\ UNCHANGED status

\* if !raise(v) { fatal(...) }
RaiseOrDie(v, k) ==
  \/ handlers = <<>> /\ Abort("uncaught")
  \/ handlers # <<>> /\ Raise(v, Drop(stack, k))

Throw == Fetch /\ Operands(1) /\ RaiseOrDie(Top(stack), 1)

\* ASSERT pops the condition and its message; UNWRAP pops a null. Both raise
\* a message of their own, m.
AssertFails(m) ==
  Fetch /\ Operands(2) /\ Top(stack) \in Falsy /\ RaiseOrDie(m, 2)
UnwrapFails(m) ==
  Fetch /\ Operands(1) /\ Top(stack) = Null /\ RaiseOrDie(m, 1)

Ended == status # "run" /\ UNCHANGED gvars

Values == \E s \in 0 .. LocalsMax : Load(s) \/ Store(s)
Calls  == \/ \E f \in FnValues : MakeClosure(f)
          \/ \E f \in Funcs : Call(f)
          \/ \E k \in 0 .. MaxPops - 1 : CallValue(k)
          \/ Return
Tries  == \/ \E s \in NoSlot .. LocalsMax, c \in 0 .. CodeEnd : TryPush(s, c)
          \/ TryPop \/ Throw
          \/ \E m \in Plain \ Falsy : AssertFails(m) \/ UnwrapFails(m)

Next == \/ Overflow \/ RuntimeError \/ Halt \/ Ended
        \/ \E k \in 0 .. MaxPops, r \in {<<>>} \cup {<<v>> : v \in Plain} : Compute(k, r)
        \/ Values \/ Calls \/ Tries

Spec == Init /\ [][Next]_gvars
=============================================================================
