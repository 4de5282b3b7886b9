----------------------------- MODULE CppEngine -----------------------------
(***************************************************************************)
(* The interpreter loop of the C++ VM (vm/main.cpp, run_program), followed *)
(* for who owns what: every slot of the operand stack, of the locals, of   *)
(* the globals and of the constants owns one reference to the object it    *)
(* refers to. The loop itself, its limits and its unwinding are CEngine's; *)
(* here the locals of a frame are kept with it, and the code is left out:  *)
(* any instruction may follow any other, with the operand discipline of    *)
(* compiled code (Bytecode.tla).                                           *)
(***************************************************************************)
EXTENDS RcHeap

CONSTANTS
  MaxStack,   \* operands
  MaxFrames,
  MaxHandlers,
  NGlobals,
  NLocals,    \* local slots of every function
  MaxDepth,   \* operands, frames, handlers and globals together
  MaxRefs     \* references counted at a time, in the whole heap

ASSUME CppEngineAssumption ==
  /\ NObj >= 1
  /\ {MaxStack, MaxFrames, MaxHandlers, NGlobals, NLocals, MaxDepth, MaxRefs} \subseteq Nat
  /\ MaxFrames >= 1

VARIABLES
  heap,
  consts,    \* Program::consts
  globals,
  stack,     \* g_stack[0..g_sp-1]
  frames,    \* g_frames[0..g_fp-1]: locals, and the operand depth at entry
  handlers,  \* g_handlers[0..g_hp-1]
  status,    \* "run", or "exited": main() has returned
  lost       \* history: references to each object that were given up unreleased

cppvars == <<heap, consts, globals, stack, frames, handlers, status, lost>>

Frame   == [locals : [1 .. NLocals -> Value], base : 0 .. MaxStack]
Handler == [sp : 0 .. MaxStack, fp : 1 .. MaxFrames, slot : 0 .. NLocals]

CppTypeOK ==
  /\ heap \in [Objs -> Cell]
  /\ consts \in Seq(Value)
  /\ globals \in Seq(Value) /\ Len(globals) <= NGlobals
  /\ stack \in Seq(Value) /\ Len(stack) <= MaxStack
  /\ frames \in Seq(Frame) /\ Len(frames) <= MaxFrames
  /\ handlers \in Seq(Handler) /\ Len(handlers) <= MaxHandlers
  /\ status \in {"run", "exited"}
  /\ lost \in [Objs -> Nat]

Nulls(n) == [i \in 1 .. n |-> Imm]

NoObjs   == [o \in Objs |-> FreeCell]

\* One string constant, loaded with the program.
CppInit ==
  /\ heap = NewString(NoObjs)
  /\ consts = <<Fresh(NoObjs)>>
  /\ globals = <<>>
  /\ stack = <<>>
  /\ frames = <<[locals |-> Nulls(NLocals), base |-> 0]>>
  /\ handlers = <<>>
  /\ status = "run"
  /\ lost = [o \in Objs |-> 0]

Locals(fs) == [f \in DOMAIN fs |-> fs[f].locals]
Top(s)     == s[Len(s)]
Drop(s, k) == SubSeq(s, 1, Len(s) - k)
Args(k)    == SubSeq(stack, Len(stack) - k + 1, Len(stack))

\* The operands the current function, or its innermost try, may take.
OwnTry == handlers # <<>> /\ Top(handlers).fp = Len(frames)
Floor  == IF OwnTry THEN Top(handlers).sp ELSE Top(frames).base
Operands(k) == status = "run" /\ Len(stack) - k >= Floor

\* The k operands on top give way to r; every slot else keeps its value.
Exchange(k, r) ==
  /\ Len(stack) - k + Len(r) <= MaxStack
  /\ stack' = Drop(stack, k) \o r
  /\ UNCHANGED <<consts, globals, frames, handlers, status>>
Replace(k, r) == Exchange(k, r) /\ UNCHANGED lost

-----------------------------------------------------------------------------
(* Constants, locals and globals.                                          *)
\* opTRUE, opFALSE, opNULL, opPUSHFN
Immediate == Operands(0) /\ Replace(0, <<Imm>>) /\ UNCHANGED heap

Const(i) == /\ Operands(0) /\ i \in DOMAIN consts
            /\ Replace(0, <<consts[i]>>)
            /\ heap' = retain_value(heap, consts[i])

\* opPOP, opPRINT, opJMPF, opJMPT: the operand is read and released.
Pop == Operands(1) /\ Replace(1, <<>>) /\ heap' = release_value(heap, Top(stack))

Load(s) == /\ Operands(0)
           /\ Replace(0, <<Top(frames).locals[s]>>)
           /\ heap' = retain_value(heap, Top(frames).locals[s])

Store(s) ==
  /\ Operands(1)
  /\ heap' = release_value(heap, Top(frames).locals[s])
  /\ frames' = [frames EXCEPT ![Len(frames)].locals[s] = Top(stack)]
  /\ stack' = Drop(stack, 1)
  /\ UNCHANGED <<consts, globals, handlers, status, lost>>

GetGlobal(s) ==
  LET v == IF s <= Len(globals) THEN globals[s] ELSE Imm
  IN  Operands(0) /\ Replace(0, <<v>>) /\ heap' = retain_value(heap, v)

SetGlobal(s) ==
  LET grown == IF s <= Len(globals) THEN globals
               ELSE globals \o Nulls(s - Len(globals))
  IN  /\ Operands(1)
      /\ heap' = release_value(heap, grown[s])
      /\ globals' = [grown EXCEPT ![s] = Top(stack)]
      /\ stack' = Drop(stack, 1)
      /\ UNCHANGED <<consts, frames, handlers, status, lost>>

-----------------------------------------------------------------------------
(* Instructions that consume operands and produce a value. Each reads its  *)
(* operands, makes or retains the result, and then releases the operands.  *)
Produce(k, r, h) ==
  /\ Operands(k)
  /\ Replace(k, r)
  /\ heap' = ReleaseAll(h, Args(k))

\* opNOT, opLEN, opHAS, comparisons: the result is an immediate.
Measure(k) == Produce(k, <<Imm>>, heap)

\* opADD of a string; opINDEX of a string; natives that return a string.
MakeString(k) ==
  HasRoom(heap) /\ Produce(k, <<Fresh(heap)>>, NewString(heap))

\* join() hands out what val_str_rc retained once more.
Join == /\ HasRoom(heap) /\ Operands(2) /\ Is(heap, Args(2)[1], "arr")
        /\ Produce(2, <<Fresh(heap)>>, val_str_rc(heap))

NewArr(n) ==
  HasRoom(heap) /\ n <= MaxItems
  /\ Produce(n, <<Fresh(heap)>>, val_array(heap, Args(n)))

NewMap(n) ==
  /\ HasRoom(heap) /\ Operands(2 * n) /\ 2 * n <= MaxItems
  /\ \E h \in PutPairs(New(heap, "map", 1, <<>>), Fresh(heap), Args(2 * n)) :
       Produce(2 * n, <<Fresh(heap)>>, h)

\* keys(), and the natives that return an array of a container's elements
\* (sort, reverse, slice).
ElementsOf(m) == IF Is(heap, m, "map") THEN KeyRefs(heap, m) ELSE heap[m].items
CopyOf == /\ HasRoom(heap) /\ Operands(1)
          /\ \E k \in {"map", "arr"} : Is(heap, Top(stack), k)
          /\ Produce(1, <<Fresh(heap)>>, val_array(heap, ElementsOf(Top(stack))))

concat ==
  /\ HasRoom(heap) /\ Operands(2)
  /\ \A v \in {Args(2)[1], Args(2)[2]} : Is(heap, v, "arr")
  /\ LET items == heap[Args(2)[1]].items \o heap[Args(2)[2]].items
     IN  /\ Len(items) <= MaxItems
         /\ Produce(2, <<Fresh(heap)>>, val_array(heap, items))

\* The same, by a native that keeps the reference val_str gave it to s when it
\* returns: nobody is left to release it.
ProduceForgetting(s, k, r, h) ==
  /\ Operands(k)
  /\ Exchange(k, r)
  /\ heap' = ReleaseAll(h, Args(k))
  /\ lost' = [lost EXCEPT ![s] = @ + 1]

\* An array of strings made for it: split, args and json_decode release each
\* after pushing it.
Strings ==
  /\ HasRoom(heap) /\ MaxItems >= 1
  /\ LET s == Fresh(heap)
         h == NewString(heap)
     IN  HasRoom(h) /\ Produce(1, <<Fresh(h)>>, release_value(val_array(h, <<s>>), s))

\* list_dir, asset_names and the map of http_accept do not.
StringsForgotten ==
  /\ HasRoom(heap) /\ MaxItems >= 1
  /\ LET s == Fresh(heap)
         h == NewString(heap)
     IN  HasRoom(h) /\ ProduceForgetting(s, 1, <<Fresh(h)>>, val_array(h, <<s>>))

\* asset(): the empty string made first is given up, not released, when the
\* asset is found.
asset ==
  /\ HasRoom(heap)
  /\ LET s == Fresh(heap)
         h == NewString(heap)
     IN  HasRoom(h) /\ ProduceForgetting(s, 1, <<Fresh(h)>>, NewString(h))

\* What index_get may find for key k: a key that is missing gives null.
Elements(c, k) ==
  IF Is(heap, c, "arr") THEN {heap[c].items[i] : i \in DOMAIN heap[c].items}
  ELSE IF Is(heap, c, "map")
  THEN {IF j = 0 THEN Imm ELSE heap[c].items[j + 1] : j \in Matches(heap, c, k)}
  ELSE {}

\* Broken variant: the element is borrowed, not retained.
IndexBorrows ==
  Operands(2) /\ \E v \in Elements(Args(2)[1], Args(2)[2]) : Produce(2, <<v>>, heap)

Index ==
  Operands(2) /\ \E v \in Elements(Args(2)[1], Args(2)[2]) :
                   Produce(2, <<v>>, retain_value(heap, v))

SetIndex ==
  /\ Operands(3)
  /\ LET c == Args(3)[1]  k == Args(3)[2]  v == Args(3)[3]
     IN  \/ /\ Is(heap, c, "arr")
            /\ \E i \in DOMAIN heap[c].items :
                 Produce(3, <<>>, rc_array_set(heap, c, i, v))
         \/ /\ Is(heap, c, "map")
            /\ \E j \in Matches(heap, c, k) :
                 /\ j # 0 \/ Len(heap[c].items) + 2 <= MaxItems
                 /\ Produce(3, <<>>, SetEntry(heap, c, k, v, j))

PushItem ==
  /\ Operands(2) /\ Is(heap, Args(2)[1], "arr")
  /\ Len(heap[Args(2)[1]].items) < MaxItems
  /\ Produce(2, <<Imm>>, rc_array_push(heap, Args(2)[1], Args(2)[2]))

RemoveKey ==
  /\ Operands(2) /\ Is(heap, Args(2)[1], "map")
  /\ \E j \in Matches(heap, Args(2)[1], Args(2)[2]) :
       Produce(2, <<Imm>>, RemoveEntry(heap, Args(2)[1], j))

\* Broken variant: both operands are released, as every other instruction does.
CoalesceReleasesBoth ==
  /\ Operands(2)
  /\ LET a == Args(2)[1]  b == Args(2)[2]
     IN  \/ a = Imm /\ Produce(2, <<b>>, heap)
         \/ Produce(2, <<a>>, heap)

\* The operand that is kept is moved, the other one released.
Coalesce ==
  /\ Operands(2)
  /\ LET a == Args(2)[1]  b == Args(2)[2]
     IN  \/ a = Imm /\ Replace(2, <<b>>) /\ heap' = release_value(heap, a)
         \/ Replace(2, <<a>>) /\ heap' = release_value(heap, b)

-----------------------------------------------------------------------------
(* Calls, closures and exceptions.                                         *)
MakeClosure(n) ==
  HasRoom(heap) /\ n \in 1 .. MaxItems
  /\ Produce(n, <<Fresh(heap)>>, val_func(heap, Args(n)))

\* The arguments move to the locals of the callee.
Enter(k, vals) ==
  /\ Len(frames) < MaxFrames
  /\ Len(vals) <= NLocals
  /\ frames' = Append(frames, [locals |-> vals \o Nulls(NLocals - Len(vals)),
                               base |-> Len(stack) - k])
  /\ stack' = Drop(stack, k)
  /\ UNCHANGED <<consts, globals, handlers, status, lost>>

Call(argc) == Operands(argc) /\ Enter(argc, Args(argc)) /\ UNCHANGED heap

\* Broken variant: the captured values move to the locals like arguments.
CallValueMovesCaptures(argc) ==
  /\ Operands(argc + 1)
  /\ LET f == Args(argc + 1)[1]
         cap == IF IsRef(f) THEN heap[f].items ELSE <<>>
     IN  /\ f = Imm \/ Is(heap, f, "cap")
         /\ Enter(argc + 1, cap \o Args(argc))
         /\ heap' = release_value(heap, f)

\* The captured values are copied, and so retained, before the closure is
\* released; a function without captures is an immediate.
CallValue(argc) ==
  /\ Operands(argc + 1)
  /\ LET f == Args(argc + 1)[1]
         cap == IF IsRef(f) THEN heap[f].items ELSE <<>>
     IN  /\ f = Imm \/ Is(heap, f, "cap")
         /\ Enter(argc + 1, cap \o Args(argc))
         /\ heap' = release_value(RetainAll(heap, cap), f)

\* The value returned stays; main's return releases it with the globals, and
\* the program is destroyed with its constants (~Program).
Ret ==
  /\ status = "run" /\ Len(stack) = Top(frames).base + 1 /\ ~OwnTry
  /\ frames' = Drop(frames, 1)
  /\ IF Len(frames) > 1
     THEN /\ heap' = ReleaseAll(heap, Top(frames).locals)
          /\ UNCHANGED <<stack, globals, consts, status>>
     ELSE /\ heap' = ReleaseAll(heap, Top(frames).locals \o <<Top(stack)>>
                                         \o globals \o consts)
          /\ stack' = <<>> /\ globals' = <<>> /\ consts' = <<>>
          /\ status' = "exited"
  /\ UNCHANGED <<handlers, lost>>

TryPush(slot) ==
  /\ Operands(0) /\ Len(handlers) < MaxHandlers
  /\ handlers' = Append(handlers, [sp |-> Len(stack), fp |-> Len(frames), slot |-> slot])
  /\ UNCHANGED <<heap, consts, globals, stack, frames, status, lost>>

TryPop ==
  /\ status = "run" /\ OwnTry
  /\ handlers' = Drop(handlers, 1)
  /\ UNCHANGED <<heap, consts, globals, stack, frames, status, lost>>

\* Broken variant: a frame is dropped without its locals.
UnwoundFramesOnly(h, e) == h

\* The locals of the frames above the handler's are released, newest frame first.
Unwinding(h, e) ==
  LET u[j \in 0 .. Len(frames) - e.fp] ==
        IF j = 0 THEN h
        ELSE ReleaseAll(u[j - 1], frames[Len(frames) + 1 - j].locals)
  IN  u
UnwoundFrames(h, e) == Unwinding(h, e)[Len(frames) - e.fp]

\* The operands and frames above the handler's are released, newest first;
\* then v goes to the catch variable, or is released when there is none.
\* left is what remains of the operands, spent what the caller releases last.
raise_exception(h, v, left, spent) ==
  LET e == Top(handlers)
      kept == SubSeq(frames, 1, e.fp)
      h1 == ReleaseAll(h, Reverse(SubSeq(left, e.sp + 1, Len(left))))
      h2 == UnwoundFrames(h1, e)
  IN  /\ handlers # <<>>
      /\ handlers' = Drop(handlers, 1)
      /\ stack' = SubSeq(left, 1, e.sp)
      /\ IF e.slot = 0
         THEN /\ frames' = kept
              /\ heap' = ReleaseAll(h2, <<v>> \o spent)
         ELSE /\ frames' = [kept EXCEPT ![e.fp].locals[e.slot] = v]
              /\ heap' = ReleaseAll(h2, <<kept[e.fp].locals[e.slot]>> \o spent)
      /\ UNCHANGED <<consts, globals, status, lost>>

Throw == Operands(1) /\ raise_exception(heap, Top(stack), Drop(stack, 1), <<>>)

\* The message is a new string; condition and message text are released last.
AssertFails ==
  /\ Operands(2) /\ HasRoom(heap)
  /\ raise_exception(NewString(heap), Fresh(heap), Drop(stack, 2), Reverse(Args(2)))
AssertHolds == Operands(2) /\ Replace(2, <<>>)
               /\ heap' = ReleaseAll(heap, Reverse(Args(2)))

UnwrapFails ==
  /\ Operands(1) /\ Top(stack) = Imm /\ HasRoom(heap)
  /\ raise_exception(NewString(heap), Fresh(heap), Drop(stack, 1), <<>>)

\* opHALT releases the globals and, with the program, the constants. The
\* operands and the locals of all frames are abandoned.
Halt ==
  /\ status = "run"
  /\ heap' = ReleaseAll(heap, globals \o consts)
  /\ globals' = <<>> /\ consts' = <<>> /\ stack' = <<>> /\ frames' = <<>>
  /\ lost' = [o \in Objs |-> lost[o] + Occurrences(stack, o) + Spread(Locals(frames), o)]
  /\ status' = "exited"
  /\ UNCHANGED handlers

Ended == status = "exited" /\ UNCHANGED cppvars

Slots == 1 .. NLocals
Instruction ==
  \/ Immediate \/ Pop \/ Join \/ Strings \/ StringsForgotten \/ asset \/ CopyOf
  \/ concat \/ Index \/ SetIndex \/ PushItem \/ RemoveKey \/ Coalesce \/ Ret \/ TryPop \/ Throw \/ AssertFails
  \/ AssertHolds \/ UnwrapFails \/ Halt \/ Ended
  \/ \E i \in 1 .. 1 : Const(i)
  \/ \E s \in Slots : Load(s) \/ Store(s)
  \/ \E s \in 1 .. NGlobals : GetGlobal(s) \/ SetGlobal(s)
  \/ \E k \in 1 .. 2 : Measure(k) \/ MakeString(k) \/ MakeClosure(k)
  \/ \E n \in 0 .. 2 : NewArr(n) \/ NewMap(n) \/ Call(n) \/ CallValue(n)
  \/ \E s \in 0 .. NLocals : TryPush(s)

Bounded ==
  /\ Len(stack) + Len(frames) + Len(handlers) + Len(globals) <= MaxDepth
  /\ FoldLeft(LAMBDA n, o : n + heap[o].rc, 0, [o \in Objs |-> o]) <= MaxRefs
CppNext == Instruction /\ Bounded'

CppSpec == CppInit /\ [][CppNext]_cppvars

-----------------------------------------------------------------------------
\* The slots that hold o, and with them the elements of containers.
Roots(o) == Occurrences(consts, o) + Occurrences(globals, o) + Occurrences(stack, o)
              + Spread(Locals(frames), o)
Refs(o)  == Roots(o) + References(heap, o)

\* Nothing that still counts refers to a freed object: no sequence of stores,
\* aliasing, calls, unwinds and removals frees what a slot, a live container or
\* a native that forgot to release still holds, and nothing is released twice
\* (release_value, pyro_runtime.c:154-200).
NothingDangling ==
  \A o \in Objs \ Live(heap) : Refs(o) = 0 /\ lost[o] = 0 /\ heap[o].rc = 0

\* The count of a live object is the number of slots and elements that hold
\* it, plus the references that were given up unreleased, plus the one that
\* val_array, val_map and val_str_rc count too much (pyro_runtime.c:108-138):
\* no instruction retains or releases once too often or too seldom.
CountsExact ==
  \A o \in Live(heap) : heap[o].rc = Refs(o) + lost[o] + heap[o].extra

\* The objects reachable from a set of objects: the smallest set around it
\* that no element leads out of.
ClosedUnder(T) == \A p \in T : \A i \in DOMAIN heap[p].items :
               IsRef(heap[p].items[i]) => heap[p].items[i] \in T
Reach(S)  == {o \in Objs : \A T \in SUBSET Objs : S \subseteq T /\ ClosedUnder(T) => o \in T}

\* An object that is no longer reachable from a slot outlives its last use for
\* one of two reasons: it, or a container it can be reached from, counted one
\* reference too many at birth or lost one to asset(), the natives that list
\* strings or HALT. Cycles, which SETIDX and push can make, leak nothing else,
\* and no other instruction, unwind or return of main leaks anything.
LeaksHaveACause ==
  Live(heap) \subseteq
    Reach({o \in Objs : Roots(o) > 0 \/ heap[o].extra = 1 \/ lost[o] > 0})

-----------------------------------------------------------------------------
(* The three rules counting rests on (PYRO_RUNTIME.md:78-82).              *)
\* "A freshly created object starts with ref_count = 1": then counting up to
\* now has led to the number of references there are.
CountsStartAtOne == \A o \in Live(heap) : heap[o].rc = Refs(o) + lost[o]

\* "when overwriting/discarding, release": no reference is given up without.
DiscardedIsReleased == \A o \in Objs : lost[o] = 0

\* "the language exposes no mutation that creates ownership cycles": no
\* container is reachable from what it holds.
NoOwnershipCycle ==
  \A o \in Live(heap) :
    o \notin Reach({p \in Objs : \E i \in DOMAIN heap[o].items : heap[o].items[i] = p})

\* The document claims all three of a running program. A state in which none
\* is true refutes each of them.
SomeCountingRuleHolds ==
  status = "run" => CountsStartAtOne \/ DiscardedIsReleased \/ NoOwnershipCycle
=============================================================================
