------------------------------ MODULE CEngine ------------------------------
(***************************************************************************)
(* The interpreter loop of the C VM (vm/main.c, run_program) and           *)
(* raise_exception. Its stacks are static arrays: the locals of all active *)
(* frames lie in one array, where a region is reused by the next call      *)
(* without having been cleared by the return that freed it. Entries of the *)
(* other three arrays above sp, fp and hp are never read before they are   *)
(* written and are left out.                                               *)
(***************************************************************************)
EXTENDS Bytecode

VARIABLES
  stack,         \* stack[0..sp-1]
  locals_stack,
  frames,        \* frames[0..fp-1]
  handlers,      \* handlers[0..hp-1]
  pc, status,
  base,          \* as in GoEngine
  unset          \* the slots of locals_stack a call or the start has set to
                 \* null and no instruction has stored since: like base, the
                 \* compiler's knowledge, not the VM's

cvars == <<stack, locals_stack, frames, handlers, pc, status, base, unset>>

sp == Len(stack)
fp == Len(frames)
hp == Len(handlers)
fn == Top(frames).fn

Frame   == UNION {[retpc : -1 .. CodeEnd, locals_base : 0 .. LocalsMax,
                   nlocals : {NLocals[f]}, fn : {f}] : f \in Funcs}
Handler == [catchPC : 0 .. CodeEnd, sp : 0 .. StackMax, fp : 1 .. FrameMax,
            slot : Int]

TypeOK ==
  /\ stack \in Seq(Value) /\ sp <= StackMax
  /\ locals_stack \in [0 .. LocalsMax - 1 -> Value]
  /\ frames \in Seq(Frame) /\ fp <= FrameMax
  /\ handlers \in Seq(Handler) /\ hp <= HandlerMax
  /\ pc \in 0 .. CodeEnd
  /\ status \in {"run", "exit"} \cup Faults
  /\ base \in Seq(Nat)
  /\ unset \subseteq 0 .. LocalsMax - 1

Init ==
  /\ stack = <<>>
  /\ locals_stack = [i \in 0 .. LocalsMax - 1 |-> Null]
  /\ frames = <<[retpc |-> -1, locals_base |-> 0, nlocals |-> NLocals[0], fn |-> 0]>>
  /\ handlers = <<>>
  /\ pc = Start(0)
  /\ status = "run"
  /\ base = <<0>>
  /\ unset = 0 .. LocalsMax - 1

Slot(s) == Top(frames).locals_base + s

Fetch == status = "run" /\ sp <= StackMax - 4
Overflow ==
  /\ status = "run"
  /\ sp > StackMax - 4
  /\ status' = "value stack"
  /\ UNCHANGED <<stack, locals_stack, unset, frames, handlers, pc, base>>

Operands(k) == sp - k >= Floor(base, handlers)
Advance == pc' \in Body(fn)
AbortWith(why) ==
  /\ status' = why
  /\ Advance
  /\ UNCHANGED <<stack, frames, handlers, base>>
Abort(why) == AbortWith(why) /\ UNCHANGED <<locals_stack, unset>>

Compute(k, r) ==
  /\ Fetch /\ Operands(k)
  /\ stack' = Drop(stack, k) \o r
  /\ Advance
  /\ UNCHANGED <<locals_stack, unset, frames, handlers, status, base>>

RuntimeError == Fetch /\ Abort("runtime error")

Halt ==
  /\ Fetch
  /\ status' = "exit"
  /\ UNCHANGED <<stack, locals_stack, unset, frames, handlers, pc, base>>

\* Broken variant: the slot is counted from the first frame's locals.
LoadFromBottom(s) ==
  /\ Fetch
  /\ s \in 0 .. NLocals[fn] - 1
  /\ Slot(s) \in unset => LoadsUnset
  /\ stack' = Append(stack, locals_stack[s])
  /\ Advance
  /\ UNCHANGED <<locals_stack, unset, frames, handlers, status, base>>

\* Unless LoadsUnset, the slot holds an argument, a capture or a stored value.
Load(s) ==
  /\ Fetch
  /\ s \in 0 .. NLocals[fn] - 1
  /\ Slot(s) \in unset => LoadsUnset
  /\ stack' = Append(stack, locals_stack[Slot(s)])
  /\ Advance
  /\ UNCHANGED <<locals_stack, unset, frames, handlers, status, base>>

Store(s) ==
  /\ Fetch /\ Operands(1)
  /\ s \in 0 .. NLocals[fn] - 1
  /\ locals_stack' = [locals_stack EXCEPT ![Slot(s)] = Top(stack)]
  /\ unset' = unset \ {Slot(s)}
  /\ stack' = Drop(stack, 1)
  /\ Advance
  /\ UNCHANGED <<frames, handlers, status, base>>

MakeClosure(f) ==
  /\ Fetch /\ Operands(NCaptured[f])
  /\ LET cap == Tail2(stack, NCaptured[f])
     IN  /\ \A i \in DOMAIN cap : cap[i] \in Captures
         /\ stack' = Append(Drop(stack, NCaptured[f]), [fn |-> f, cap |-> cap])
  /\ Advance
  /\ UNCHANGED <<locals_stack, unset, frames, handlers, status, base>>

\* Broken variant: the caller's own locals are not stepped over.
NextBaseOverCaller == Top(frames).locals_base

\* int next_base = frames[fp - 1].locals_base + frames[fp - 1].nlocals;
NextBase == Top(frames).locals_base + Top(frames).nlocals

\* val_null() for every local of the callee, then captures and arguments.
BindLocals(f, vals) ==
  /\ locals_stack' = [i \in DOMAIN locals_stack |->
       IF i < NextBase \/ i >= NextBase + NLocals[f] THEN locals_stack[i]
       ELSE IF i - NextBase < Len(vals) THEN vals[i - NextBase + 1]
       ELSE Null]
  /\ unset' = {i \in DOMAIN locals_stack :
       IF i < NextBase \/ i >= NextBase + NLocals[f] THEN i \in unset
       ELSE i - NextBase >= Len(vals)}

\* The locals are bounded before they are written, the frames after.
Enter(f, vals, rest) ==
  IF NextBase + NLocals[f] > LocalsMax - 2 THEN Abort("locals stack")
  ELSE /\ BindLocals(f, vals)
       /\ \/ fp > FrameMax - 2 /\ AbortWith("call stack")
          \/ /\ fp <= FrameMax - 2
             /\ \E ret \in Body(fn) :
                  frames' = Append(frames, [retpc |-> ret, locals_base |-> NextBase,
                                            nlocals |-> NLocals[f], fn |-> f])
             /\ stack' = rest
             /\ base' = Append(base, Len(rest))
             /\ pc' = Start(f)
             /\ UNCHANGED <<handlers, status>>

Call(f) ==
  /\ Fetch /\ Operands(NParams[f])
  /\ NCaptured[f] = 0
  /\ Enter(f, Tail2(stack, NParams[f]), Drop(stack, NParams[f]))

CallValue(k) ==
  /\ Fetch /\ Operands(k + 1)
  /\ LET v == stack[sp - k]
     IN  \/ v \notin Closure /\ Abort("non-function")
         \/ /\ v \in Closure
            /\ k = NParams[v.fn]
            /\ Enter(v.fn, v.cap \o Tail2(stack, k), Drop(stack, k + 1))

Return ==
  /\ Fetch
  /\ sp = Top(base) + 1
  /\ ~InOwnTry(base, handlers)
  /\ frames' = Drop(frames, 1)
  /\ IF Top(frames).retpc < 0
     THEN /\ status' = "exit"
          /\ stack' = Drop(stack, 1)
          /\ UNCHANGED <<pc, base>>
     ELSE /\ pc' = Top(frames).retpc
          /\ base' = Drop(base, 1)
          /\ UNCHANGED <<stack, status>>
  /\ UNCHANGED <<locals_stack, unset, handlers>>

\* Broken variant: nothing bounds the handler stack.
TryPushUnbounded(s, catch) ==
  /\ Fetch
  /\ s \in Slots(fn)
  /\ catch \in Body(fn)
  /\ handlers' = Append(handlers, [catchPC |-> catch, sp |-> sp,
                                   fp |-> fp, slot |-> s])
  /\ Advance
  /\ UNCHANGED <<stack, locals_stack, unset, frames, status, base>>

TryPush(s, catch) ==
  /\ Fetch
  /\ s \in Slots(fn)
  /\ catch \in Body(fn)
  /\ \/ hp > HandlerMax - 2 /\ Abort("handler stack")
     \/ /\ hp <= HandlerMax - 2
        /\ handlers' = Append(handlers, [catchPC |-> catch, sp |-> sp,
                                         fp |-> fp, slot |-> s])
        /\ Advance
        /\ UNCHANGED <<stack, locals_stack, unset, frames, status, base>>

TryPop ==
  /\ Fetch
  /\ InOwnTry(base, handlers)
  /\ handlers' = Drop(handlers, 1)
  /\ Advance
  /\ UNCHANGED <<stack, locals_stack, unset, frames, status, base>>

\* while (sp > h.sp) pop; while (fp > h.fp) pop: never the other way.
Unwind(s, n) == IF Len(s) > n THEN Take(s, n) ELSE s

\* Broken variant: the slot is taken in the frame that raises.
CaughtInRaisingFrame(h, rb, v) ==
  IF h.slot = NoSlot THEN UNCHANGED <<locals_stack, unset>>
  ELSE /\ locals_stack' = [locals_stack EXCEPT ![Slot(h.slot)] = v]
       /\ unset' = unset \ {Slot(h.slot)}

\* The caught value goes into a slot of the region at rb.
Caught(h, rb, v) ==
  IF h.slot = NoSlot THEN UNCHANGED <<locals_stack, unset>>
  ELSE /\ locals_stack' = [locals_stack EXCEPT ![rb + h.slot] = v]
       /\ unset' = unset \ {rb + h.slot}

raise_exception(v, left) ==
  LET h == Top(handlers)
      unwound == Unwind(frames, h.fp)
  IN  /\ handlers' = Drop(handlers, 1)
      /\ stack' = Unwind(left, h.sp)
      /\ frames' = unwound
      /\ Caught(h, Top(unwound).locals_base, v)
      /\ base' = Take(base, h.fp)
      /\ pc' = h.catchPC
      /\ UNCHANGED status

RaiseOrDie(v, k) ==
  \/ hp = 0 /\ Abort("uncaught")
  \/ hp # 0 /\ raise_exception(v, Drop(stack, k))

Throw == Fetch /\ Operands(1) /\ RaiseOrDie(Top(stack), 1)
AssertFails(m) ==
  Fetch /\ Operands(2) /\ Top(stack) \in Falsy /\ RaiseOrDie(m, 2)
\* Broken variant: the null is popped after the unwind (main.c:892-898).
UnwrapPopsAfterRaise(m) ==
  /\ Fetch /\ Operands(1) /\ Top(stack) = Null
  /\ \/ hp = 0 /\ Abort("uncaught")
     \/ /\ hp # 0
        /\ LET h == Top(handlers) IN
             /\ handlers' = Drop(handlers, 1)
             /\ stack' = Drop(Unwind(stack, h.sp), 1)
             /\ frames' = Unwind(frames, h.fp)
             /\ base' = Take(base, h.fp)
             /\ pc' = h.catchPC
             /\ UNCHANGED <<locals_stack, unset, status>>

UnwrapFails(m) ==
  Fetch /\ Operands(1) /\ Top(stack) = Null /\ RaiseOrDie(m, 1)

Ended == status # "run" /\ UNCHANGED cvars

Values == \E s \in 0 .. LocalsMax : Load(s) \/ Store(s)
Calls  == \/ \E f \in FnValues : MakeClosure(f)
          \/ \E f \in Funcs : Call(f)
          \/ \E k \in 0 .. MaxPops - 1 : CallValue(k)
          \/ Return
Tries  == \/ \E s \in NoSlot .. LocalsMax, c \in 0 .. CodeEnd : TryPush(s, c)
          \/ TryPop \/ Throw
          \/ \E m \in Plain \ Falsy : AssertFails(m) \/ UnwrapFails(m)

Next == \/ Overflow \/ RuntimeError \/ Halt \/ Ended
        \/ \E k \in 0 .. MaxPops, r \in {<<>>} \cup {<<v>> : v \in Plain} : Compute(k, r)
        \/ Values \/ Calls \/ Tries

Spec == Init /\ [][Next]_cvars

-----------------------------------------------------------------------------
\* The regions of locals_stack that the active frames use follow one another
\* without overlap and stay inside the array, whatever calls, returns and
\* unwinds led here (main.c:564-572: nothing bounded them before).
LocalsRegionsDisjoint ==
  status = "run" =>
    /\ \A i \in 1 .. fp - 1 :
         frames[i].locals_base + frames[i].nlocals = frames[i + 1].locals_base
    /\ frames[fp].locals_base + frames[fp].nlocals <= LocalsMax

\* Each handler belongs to an active frame, handlers of inner frames lie above
\* those of outer ones, and the operand depth a handler restores is one its
\* frame owns: an unwind can cut the operands of the frames it drops and none
\* of the frame that catches (main.c:101-122).
HandlersMatchFrames ==
  status = "run" =>
    /\ \A j \in 1 .. hp :
         /\ handlers[j].fp <= fp
         /\ base[handlers[j].fp] <= handlers[j].sp
         /\ handlers[j].sp <= (IF handlers[j].fp < fp
                               THEN base[handlers[j].fp + 1] ELSE sp)
    /\ \A j \in 1 .. hp - 1 : /\ handlers[j].fp <= handlers[j + 1].fp
                              /\ handlers[j].sp <= handlers[j + 1].sp
=============================================================================
