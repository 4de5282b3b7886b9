---------------------------- MODULE EngineProofs ----------------------------
(***************************************************************************)
(* The safety properties of the C VM's interpreter loop, the room in the   *)
(* Go VM's operand stack, and that the C VM implements the Go VM, for      *)
(* every program (any number of functions, parameters, captures and        *)
(* locals) and every size of the four stacks. That the C VM implements the *)
(* Go VM is proved of programs that load only locals they have stored      *)
(* (~LoadsUnset): EngineUnset.cfg shows where other programs differ.       *)
(*                                                                         *)
(* Neither property of the stacks is inductive: a return uncovers the      *)
(* frame below and a raise uncovers any of them, so both rest on CInv,     *)
(* which speaks of every pair of frames and of every pair of handlers. The *)
(* refinement rests on the same invariant: locals of the Go VM's frames    *)
(* are separate slices, regions of locals_stack are not, and a write into  *)
(* one region is a write into one frame only because none overlap.         *)
(***************************************************************************)
EXTENDS EngineParity, SequenceTheorems, TLAPS

-----------------------------------------------------------------------------
(* Sequences.                                                              *)

\* What Take, Drop and Tail2 leave of a sequence.
LEMMA TakeIs ==
  ASSUME NEW S, NEW s \in Seq(S), NEW k \in 0 .. Len(s)
  PROVE  /\ Take(s, k) \in Seq(S)
         /\ Len(Take(s, k)) = k
         /\ \A i \in 1 .. k : Take(s, k)[i] = s[i]
  BY DEF Take

\* The same for what lies beneath the last k elements...
LEMMA DropIs ==
  ASSUME NEW S, NEW s \in Seq(S), NEW k \in 0 .. Len(s)
  PROVE  /\ Drop(s, k) \in Seq(S)
         /\ Len(Drop(s, k)) = Len(s) - k
         /\ \A i \in 1 .. Len(s) - k : Drop(s, k)[i] = s[i]
  BY DEF Drop

\* ... and for the last k elements.
LEMMA Tail2Is ==
  ASSUME NEW S, NEW s \in Seq(S), NEW k \in 0 .. Len(s)
  PROVE  /\ Tail2(s, k) \in Seq(S)
         /\ Len(Tail2(s, k)) = k
         /\ \A i \in 1 .. k : Tail2(s, k)[i] = s[Len(s) - k + i]
  BY DEF Tail2

\* A push keeps what is beneath.
LEMMA AppendIs ==
  ASSUME NEW S, NEW s \in Seq(S), NEW e \in S
  PROVE  /\ Append(s, e) \in Seq(S)
         /\ Len(Append(s, e)) = Len(s) + 1
         /\ \A i \in 1 .. Len(s) : Append(s, e)[i] = s[i]
         /\ Append(s, e)[Len(s) + 1] = e
  OBVIOUS

\* Take and Append as functions of the index.
LEMMA TakeBuilt ==
  ASSUME NEW S, NEW s \in Seq(S), NEW k \in 0 .. Len(s)
  PROVE  Take(s, k) = [i \in 1 .. k |-> s[i]]
<1>1. /\ Take(s, k) \in Seq(S) /\ Len(Take(s, k)) = k
      /\ \A i \in 1 .. k : Take(s, k)[i] = s[i]
  BY TakeIs
<1>2. DOMAIN Take(s, k) = 1 .. k
      /\ Take(s, k) = [i \in DOMAIN Take(s, k) |-> Take(s, k)[i]]
  BY <1>1, LenProperties
<1> QED
  BY <1>1, <1>2

\* Append, of any element, as a function of the index.
LEMMA AppendBuilt ==
  ASSUME NEW S, NEW s \in Seq(S), NEW e
  PROVE  Append(s, e) = [i \in 1 .. Len(s) + 1 |-> IF i = Len(s) + 1 THEN e ELSE s[i]]
<1>1. s \in Seq(S \cup {e}) /\ Len(s) \in Nat
  BY SeqMonotonic
<1>2. /\ Append(s, e) \in Seq(S \cup {e}) /\ Len(Append(s, e)) = Len(s) + 1
      /\ \A i \in 1 .. Len(s) : Append(s, e)[i] = s[i]
      /\ Append(s, e)[Len(s) + 1] = e
  BY <1>1, AppendIs
<1>3. DOMAIN Append(s, e) = 1 .. Len(s) + 1
      /\ Append(s, e) = [i \in DOMAIN Append(s, e) |-> Append(s, e)[i]]
  BY <1>2, LenProperties
<1>4. \A i \in 1 .. Len(s) + 1 : Append(s, e)[i] = IF i = Len(s) + 1 THEN e ELSE s[i]
  BY <1>1, <1>2
<1> QED
  BY <1>3, <1>4

\* The elements of a concatenation.
LEMMA ConcatIs ==
  ASSUME NEW S, NEW s \in Seq(S), NEW t \in Seq(S)
  PROVE  /\ s \o t \in Seq(S)
         /\ Len(s \o t) = Len(s) + Len(t)
         /\ \A i \in 1 .. Len(s) + Len(t) : (s \o t)[i] = IF i <= Len(s) THEN s[i] ELSE t[i - Len(s)]
  OBVIOUS

\* raise_exception's loops cut a stack to a depth it has reached.
LEMMA UnwindIs ==
  ASSUME NEW S, NEW s \in Seq(S), NEW k \in 0 .. Len(s)
  PROVE  /\ Unwind(s, k) \in Seq(S)
         /\ Len(Unwind(s, k)) = k
         /\ \A i \in 1 .. k : Unwind(s, k)[i] = s[i]
  BY TakeIs DEF Unwind

\* Every address of a function is an address of the program.
LEMMA BodyRange ==
  ASSUME NEW f \in Funcs
  PROVE  Body(f) \subseteq 0 .. CodeEnd /\ Start(f) \in 0 .. CodeEnd
<1>1. f \in Nat /\ NFuncs \in Nat /\ PCs \in Nat /\ f + 1 <= NFuncs
  BY BytecodeAssumption DEF Funcs
<1>2. f * PCs \in Nat /\ NFuncs * PCs \in Nat /\ f * PCs + PCs <= NFuncs * PCs
  BY <1>1
<1> QED
  BY <1>1, <1>2 DEF Body, Start, CodeEnd

\* What the fields of a frame hold.
LEMMA FrameFields ==
  ASSUME NEW fr \in Frame
  PROVE  /\ fr.fn \in Funcs /\ fr.nlocals = NLocals[fr.fn] /\ fr.nlocals \in Nat
         /\ fr.retpc \in -1 .. CodeEnd /\ fr.locals_base \in 0 .. LocalsMax
         /\ fr.locals_base \in Nat /\ CodeEnd \in Nat
<1>1. PICK f \in Funcs :
        fr \in [retpc : -1 .. CodeEnd, locals_base : 0 .. LocalsMax,
               nlocals : {NLocals[f]}, fn : {f}]
  BY DEF Frame
<1>2. fr.fn = f /\ fr.nlocals = NLocals[f] /\ NLocals[f] \in Nat
      /\ fr.retpc \in -1 .. CodeEnd /\ fr.locals_base \in 0 .. LocalsMax
  BY <1>1, BytecodeAssumption
<1>3. CodeEnd \in Nat /\ LocalsMax \in Nat
  BY BytecodeAssumption DEF CodeEnd
<1> QED
  BY <1>2, <1>3

\* A call pushes a frame.
LEMMA FrameMade ==
  ASSUME NEW f \in Funcs, NEW ret \in -1 .. CodeEnd, NEW lb \in 0 .. LocalsMax
  PROVE  [retpc |-> ret, locals_base |-> lb, nlocals |-> NLocals[f], fn |-> f] \in Frame
  BY DEF Frame

-----------------------------------------------------------------------------
(* The inductive invariant.                                                *)

\* The activations lie one on top of the other: their regions of locals_stack
\* and their operands are in the order of the frames.
FramesNested ==
  /\ fp >= 1
  /\ Len(base) = fp
  /\ frames[1].retpc = -1
  /\ \A i \in 1 .. fp - 1 :
       frames[i].locals_base + frames[i].nlocals = frames[i + 1].locals_base
  /\ \A i, j \in 1 .. fp :
       i < j => frames[i].locals_base + frames[i].nlocals <= frames[j].locals_base
  /\ \A i \in 1 .. fp : frames[i].locals_base + frames[i].nlocals <= LocalsMax
  /\ \A i, j \in 1 .. fp : i <= j => base[i] <= base[j]
  /\ base[fp] <= sp

\* So do the handlers, and each one restores a depth and a slot of the frame
\* it belongs to.
HandlersNested ==
  /\ \A j \in 1 .. hp :
       /\ handlers[j].fp <= fp
       /\ base[handlers[j].fp] <= handlers[j].sp
       /\ handlers[j].fp < fp => handlers[j].sp <= base[handlers[j].fp + 1]
       /\ handlers[j].fp = fp => handlers[j].sp <= sp
       /\ handlers[j].slot \in Slots(frames[handlers[j].fp].fn)
  /\ \A i, j \in 1 .. hp : i <= j => /\ handlers[i].fp <= handlers[j].fp
                                     /\ handlers[i].sp <= handlers[j].sp

\* What the type invariant says of locals_stack.
LocalsTyped == /\ locals_stack \in [0 .. LocalsMax - 1 -> Value]
               /\ unset \subseteq 0 .. LocalsMax - 1

\* The inductive invariant of the C VM. A run that has ended (fatal, HALT, the
\* return of the entry function) executes nothing more on its stacks.
CInv == TypeOK /\ (status = "run" => FramesNested /\ HandlersNested)

\* Handlers are ordered as the frames and the operands they restore.
LEMMA HandlersOrdered ==
  ASSUME HandlersNested, NEW i \in 1 .. hp, NEW j \in 1 .. hp, i <= j
  PROVE  handlers[i].fp <= handlers[j].fp /\ handlers[i].sp <= handlers[j].sp
  BY Zenon DEF HandlersNested

\* A handler restores operands of the frame it belongs to.
LEMMA HandlerOwned ==
  ASSUME HandlersNested, NEW j \in 1 .. hp
  PROVE  base[handlers[j].fp] <= handlers[j].sp
  BY Zenon DEF HandlersNested

\* One doubling is always enough: below its last length the Go VM's slice
\* keeps room for three more pushes between instructions.
Headroom ==
  /\ slen \in StackInit .. StackMax
  /\ sp <= slen
  /\ slen < StackMax => sp + 3 <= slen

\* The inductive invariant of the C VM with the Go VM's slice beside it.
PInv == CInv /\ Headroom

\* What the type invariant says of each element of the stacks.
LEMMA Typed ==
  ASSUME TypeOK
  PROVE  /\ sp \in Nat /\ fp \in Nat /\ hp \in Nat
         /\ StackMax \in Nat /\ LocalsMax \in Nat /\ FrameMax \in Nat /\ HandlerMax \in Nat
         /\ \A i \in 1 .. sp : stack[i] \in Value
         /\ \A i \in 1 .. fp : /\ frames[i] \in Frame
                               /\ frames[i].fn \in Funcs
                               /\ frames[i].nlocals = NLocals[frames[i].fn]
                               /\ frames[i].nlocals \in Nat
                               /\ frames[i].locals_base \in Nat
                               /\ frames[i].retpc \in -1 .. CodeEnd
         /\ \A j \in 1 .. hp : /\ handlers[j] \in Handler
                               /\ handlers[j].sp \in Nat
                               /\ handlers[j].fp \in Nat
                               /\ handlers[j].fp >= 1
                               /\ handlers[j].catchPC \in 0 .. CodeEnd
                               /\ handlers[j].slot \in Int
         /\ \A i \in 1 .. Len(base) : base[i] \in Nat
<1>1. /\ stack \in Seq(Value) /\ frames \in Seq(Frame) /\ handlers \in Seq(Handler)
      /\ base \in Seq(Nat)
  BY DEF TypeOK
<1>2. \A i \in 1 .. fp : frames[i] \in Frame
  BY <1>1 DEF fp
<1>3. \A j \in 1 .. hp : handlers[j] \in Handler
  BY <1>1 DEF hp
<1>4. StackMax \in Nat /\ LocalsMax \in Nat /\ FrameMax \in Nat /\ HandlerMax \in Nat
  BY BytecodeAssumption
<1>5. \A j \in 1 .. hp : /\ handlers[j].sp \in Nat
                         /\ handlers[j].fp \in Nat
                         /\ handlers[j].fp >= 1
                         /\ handlers[j].catchPC \in 0 .. CodeEnd
                         /\ handlers[j].slot \in Int
  BY <1>3, <1>4 DEF Handler
<1>6. sp \in Nat /\ fp \in Nat /\ hp \in Nat
      /\ (\A i \in 1 .. sp : stack[i] \in Value)
      /\ \A i \in 1 .. Len(base) : base[i] \in Nat
  BY <1>1 DEF sp, fp, hp
<1> QED
  BY <1>2, <1>3, <1>4, <1>5, <1>6, FrameFields

\* The operands an instruction may pop are its frame's own, and no handler
\* restores a depth above them.
LEMMA FloorOwned ==
  ASSUME CInv, status = "run"
  PROVE  /\ Floor(base, handlers) \in Nat
         /\ base[fp] <= Floor(base, handlers)
         /\ Floor(base, handlers) <= sp
         /\ \A j \in 1 .. hp : handlers[j].fp = fp => handlers[j].sp <= Floor(base, handlers)
         /\ \A j \in 1 .. hp : handlers[j].sp <= Floor(base, handlers)
         /\ InOwnTry(base, handlers) <=> hp >= 1 /\ handlers[hp].fp = fp
<1>1. TypeOK /\ FramesNested /\ HandlersNested
  BY DEF CInv
<1>2. /\ hp \in Nat /\ sp \in Nat /\ fp \in Nat /\ fp >= 1 /\ Len(base) = fp
      /\ \A j \in 1 .. hp : handlers[j].sp \in Nat /\ handlers[j].fp \in Nat
      /\ \A i \in 1 .. fp : base[i] \in Nat
  BY <1>1, Typed DEF FramesNested
<1>3. Top(base) = base[fp] /\ Top(handlers) = handlers[hp]
      /\ (handlers # <<>> <=> hp >= 1)
  BY <1>1, <1>2 DEF Top, hp, TypeOK
<1>4. CASE hp >= 1 /\ handlers[hp].fp = fp
  <2>1. Floor(base, handlers) = handlers[hp].sp
    BY <1>2, <1>3, <1>4 DEF Floor
  <2>2. hp \in 1 .. hp
    BY <1>2, <1>4
  <2> QED
    BY <1>1, <1>2, <1>3, <1>4, <2>1, <2>2 DEF HandlersNested, InOwnTry
<1>5. CASE ~(hp >= 1 /\ handlers[hp].fp = fp)
  <2>1. Floor(base, handlers) = base[fp] /\ base[fp] <= sp
    BY <1>1, <1>2, <1>3, <1>5 DEF Floor, FramesNested
  <2>2. \A j \in 1 .. hp : handlers[j].fp < fp
    <3> TAKE j \in 1 .. hp
    <3>1. hp \in 1 .. hp
      BY <1>2
    <3>2. handlers[j].fp <= handlers[hp].fp /\ handlers[hp].fp <= fp
      BY <1>1, <1>2, <3>1 DEF HandlersNested
    <3>3. handlers[hp].fp # fp
      BY <1>2, <1>5, <3>1
    <3> QED
      BY <1>2, <3>1, <3>2, <3>3
  <2>3. \A j \in 1 .. hp : handlers[j].sp <= base[fp]
    <3> TAKE j \in 1 .. hp
    <3>1. /\ handlers[j].sp <= base[handlers[j].fp + 1]
          /\ handlers[j].fp + 1 \in 1 .. fp /\ fp \in 1 .. fp
      BY <1>1, <1>2, <2>2 DEF HandlersNested
    <3>2. base[handlers[j].fp + 1] <= base[fp]
      BY <1>1, <3>1 DEF FramesNested
    <3> QED
      BY <1>2, <3>1, <3>2, SMTT(30)
  <2> QED
    BY <1>2, <1>3, <1>5, <2>1, <2>2, <2>3 DEF InOwnTry
<1> QED
  BY <1>4, <1>5


\* t is s cut to its first k elements; t is s with e pushed on it.
CutTo(t, s, k) == Len(t) = k /\ \A i \in 1 .. k : t[i] = s[i]
Pushed(t, s, e) == /\ Len(t) = Len(s) + 1 /\ t[Len(s) + 1] = e
                   /\ \A i \in 1 .. Len(s) : t[i] = s[i]

\* The parts of the invariant while the loop runs.
LEMMA RunTyped ==
  ASSUME CInv, status = "run"
  PROVE  /\ TypeOK /\ FramesNested /\ HandlersNested
         /\ sp \in Nat /\ fp \in Nat /\ hp \in Nat /\ fp >= 1
         /\ Len(stack) = sp /\ Len(frames) = fp /\ Len(base) = fp /\ Len(handlers) = hp
         /\ \A i \in 1 .. fp : /\ base[i] \in Nat
                               /\ frames[i] \in Frame
                               /\ frames[i].fn \in Funcs
                               /\ frames[i].locals_base \in Nat
                               /\ frames[i].nlocals \in Nat
         /\ \A j \in 1 .. hp : /\ handlers[j].sp \in Nat
                               /\ handlers[j].fp \in 1 .. fp
<1>1. TypeOK /\ FramesNested /\ HandlersNested
  BY DEF CInv
<1>2. Len(stack) = sp /\ Len(frames) = fp /\ Len(base) = fp /\ Len(handlers) = hp /\ fp >= 1
  BY <1>1 DEF sp, fp, hp, FramesNested
<1>3. \A j \in 1 .. hp : handlers[j].fp \in 1 .. fp
  BY <1>1, Typed DEF HandlersNested
<1> QED
  BY <1>1, <1>2, <1>3, Typed

\* Cutting frames, base and handlers back to an earlier depth keeps the
\* nesting: a return drops one frame, a raise any number of them.
LEMMA CutBack ==
  ASSUME CInv, status = "run",
         TypeOK', status' \in {"run", "exit"} \cup Faults,
         NEW m \in 1 .. fp, NEW q \in 0 .. hp,
         CutTo(frames', frames, m), CutTo(base', base, m), CutTo(handlers', handlers, q),
         base[m] <= sp',
         \A j \in 1 .. q : handlers[j].fp <= m /\ (handlers[j].fp = m => handlers[j].sp <= sp')
  PROVE  CInv'
<1>1. /\ FramesNested /\ HandlersNested /\ fp \in Nat /\ hp \in Nat
      /\ \A j \in 1 .. hp : handlers[j].fp \in 1 .. fp
  BY RunTyped
<1>2. fp' = m /\ Len(base') = m /\ hp' = q
  BY DEF CutTo, fp, hp
<1>3. /\ \A i \in 1 .. m : i \in 1 .. fp /\ frames'[i] = frames[i] /\ base'[i] = base[i]
      /\ \A j \in 1 .. q : j \in 1 .. hp /\ handlers'[j] = handlers[j]
      /\ 1 \in 1 .. m /\ m \in 1 .. m
      /\ \A i \in 1 .. m - 1 : i \in 1 .. m /\ i + 1 \in 1 .. m /\ i \in 1 .. fp - 1
  BY <1>1 DEF CutTo
<1>4. FramesNested'
  <2>1. /\ \A i \in 1 .. m - 1 :
             frames'[i].locals_base + frames'[i].nlocals = frames'[i + 1].locals_base
        /\ \A i, j \in 1 .. m :
             i < j => frames'[i].locals_base + frames'[i].nlocals <= frames'[j].locals_base
        /\ \A i \in 1 .. m : frames'[i].locals_base + frames'[i].nlocals <= LocalsMax
        /\ \A i, j \in 1 .. m : i <= j => base'[i] <= base'[j]
        /\ frames'[1].retpc = -1 /\ base'[m] <= sp'
    BY <1>1, <1>3 DEF FramesNested
  <2> QED
    BY <1>1, <1>2, <2>1 DEF FramesNested
<1>5. HandlersNested'
  <2>1. ASSUME NEW j \in 1 .. q
        PROVE  /\ handlers[j].fp <= m
               /\ base'[handlers[j].fp] <= handlers[j].sp
               /\ handlers[j].fp < m => handlers[j].sp <= base'[handlers[j].fp + 1]
               /\ handlers[j].fp = m => handlers[j].sp <= sp'
               /\ handlers[j].slot \in Slots(frames'[handlers[j].fp].fn)
    <3>1. handlers[j].fp \in 1 .. m /\ (handlers[j].fp < m => handlers[j].fp + 1 \in 1 .. m)
      BY <1>1, <1>3
    <3>2. handlers[j].fp < m => handlers[j].fp < fp
      BY <1>1, <1>3
    <3> QED
      BY <1>1, <1>3, <3>1, <3>2 DEF HandlersNested
  <2>2. \A i, j \in 1 .. q : i <= j => /\ handlers'[i].fp <= handlers'[j].fp
                                       /\ handlers'[i].sp <= handlers'[j].sp
    BY <1>1, <1>3 DEF HandlersNested
  <2> QED
    BY <1>2, <1>3, <2>1, <2>2 DEF HandlersNested
<1> QED
  BY <1>4, <1>5 DEF CInv

\* Pushing a frame whose region starts where the last one ends keeps it too.
LEMMA PushFrame ==
  ASSUME CInv, status = "run", TypeOK', status' = "run",
         NEW fr \in Frame, fr.locals_base = frames[fp].locals_base + frames[fp].nlocals,
         fr.locals_base + fr.nlocals <= LocalsMax,
         Pushed(frames', frames, fr), Pushed(base', base, sp'), handlers' = handlers,
         sp' >= Floor(base, handlers)
  PROVE  CInv'
<1>1. /\ FramesNested /\ HandlersNested /\ fp \in Nat /\ hp \in Nat /\ fp >= 1 /\ fp \in 1 .. fp
      /\ \A i \in 1 .. fp : /\ base[i] \in Nat
                            /\ frames[i].locals_base \in Nat
                            /\ frames[i].nlocals \in Nat
      /\ \A j \in 1 .. hp : handlers[j].fp \in 1 .. fp
      /\ sp' \in Nat
  BY RunTyped, SMTT(30) DEF TypeOK, sp
<1>2. fp' = fp + 1 /\ Len(base') = fp + 1 /\ hp' = hp
      /\ frames'[fp + 1] = fr /\ base'[fp + 1] = sp'
      /\ \A i \in 1 .. fp : frames'[i] = frames[i] /\ base'[i] = base[i]
  BY RunTyped DEF Pushed, fp, hp
<1>3. fr.locals_base \in Nat /\ fr.nlocals \in Nat
  BY FrameFields
<1>4. /\ base[fp] <= sp'
      /\ \A j \in 1 .. hp : handlers[j].sp <= sp'
  <2>1. \A j \in 1 .. hp : handlers[j].sp \in Nat
    BY RunTyped
  <2> QED
    BY <1>1, <2>1, FloorOwned
<1>5. FramesNested'
  <2>1. \A i \in 1 .. fp : frames[i].locals_base + frames[i].nlocals <= fr.locals_base
    <3> TAKE i \in 1 .. fp
    <3>1. CASE i = fp
      BY <1>1, <3>1
    <3>2. CASE i < fp
      <4>1. frames[i].locals_base + frames[i].nlocals <= frames[fp].locals_base
        BY <1>1, <3>2 DEF FramesNested
      <4> QED
        BY <1>1, <4>1
    <3> QED
      BY <1>1, <3>1, <3>2
  <2>2. \A i \in 1 .. fp : base[i] <= sp'
    <3> TAKE i \in 1 .. fp
    <3>1. base[i] <= base[fp]
      BY <1>1 DEF FramesNested
    <3> QED
      BY <1>1, <1>4, <3>1
  <2>3. /\ \A i \in 1 .. fp - 1 : i \in 1 .. fp /\ i + 1 \in 1 .. fp
        /\ \A i \in 1 .. fp + 1 : i = fp + 1 \/ i \in 1 .. fp
        /\ 1 .. fp' = 1 .. fp + 1 /\ 1 .. fp' - 1 = 1 .. fp
        /\ \A i \in 1 .. fp : i = fp \/ i \in 1 .. fp - 1
        /\ \A i, j \in 1 .. fp + 1 : (i < j => i \in 1 .. fp)
        /\ 1 \in 1 .. fp
    BY <1>1, <1>2
  <2>4. \A i \in 1 .. fp : frames'[i].locals_base + frames'[i].nlocals = frames'[i + 1].locals_base
    <3> TAKE i \in 1 .. fp
    <3>1. CASE i = fp
      BY <1>1, <1>2, <3>1
    <3>2. CASE i \in 1 .. fp - 1
      BY <1>1, <1>2, <2>3, <3>2 DEF FramesNested
    <3> QED
      BY <2>3, <3>1, <3>2
  <2>5. \A i, j \in 1 .. fp + 1 :
          i < j => frames'[i].locals_base + frames'[i].nlocals <= frames'[j].locals_base
    <3> SUFFICES ASSUME NEW i \in 1 .. fp + 1, NEW j \in 1 .. fp + 1, i < j
                 PROVE  frames'[i].locals_base + frames'[i].nlocals <= frames'[j].locals_base
      OBVIOUS
    <3>1. CASE j = fp + 1
      BY <1>2, <2>1, <2>3, <3>1
    <3>2. CASE j \in 1 .. fp
      BY <1>1, <1>2, <2>3, <3>2 DEF FramesNested
    <3> QED
      BY <2>3, <3>1, <3>2
  <2>6. \A i \in 1 .. fp + 1 : frames'[i].locals_base + frames'[i].nlocals <= LocalsMax
    BY <1>1, <1>2, <2>3 DEF FramesNested
  <2>7. \A i, j \in 1 .. fp + 1 : i <= j => base'[i] <= base'[j]
    <3> SUFFICES ASSUME NEW i \in 1 .. fp + 1, NEW j \in 1 .. fp + 1, i <= j
                 PROVE  base'[i] <= base'[j]
      OBVIOUS
    <3>1. CASE j = fp + 1
      BY <1>1, <1>2, <2>2, <2>3, <3>1
    <3>2. CASE j \in 1 .. fp
      <4>1. i \in 1 .. fp
        BY <1>1, <3>2
      <4> QED
        BY <1>1, <1>2, <3>2, <4>1 DEF FramesNested
    <3> QED
      BY <2>3, <3>1, <3>2
  <2>8. frames'[1].retpc = -1 /\ base'[fp + 1] <= sp'
    BY <1>1, <1>2, <2>3 DEF FramesNested
  <2> QED
    BY <1>1, <1>2, <2>3, <2>4, <2>5, <2>6, <2>7, <2>8 DEF FramesNested
<1>6. HandlersNested'
  <2>1. ASSUME NEW j \in 1 .. hp
        PROVE  /\ handlers[j].fp <= fp + 1 /\ handlers[j].fp # fp + 1
               /\ base'[handlers[j].fp] <= handlers[j].sp
               /\ handlers[j].sp <= base'[handlers[j].fp + 1]
               /\ handlers[j].slot \in Slots(frames'[handlers[j].fp].fn)
    <3>1. handlers[j].fp = fp \/ (handlers[j].fp < fp /\ handlers[j].fp + 1 \in 1 .. fp)
      BY <1>1
    <3>2. /\ base[handlers[j].fp] <= handlers[j].sp
          /\ handlers[j].fp < fp => handlers[j].sp <= base[handlers[j].fp + 1]
          /\ handlers[j].slot \in Slots(frames[handlers[j].fp].fn)
      BY <1>1 DEF HandlersNested
    <3>3. handlers[j].sp <= base'[handlers[j].fp + 1]
      BY <1>2, <1>4, <3>1, <3>2
    <3> QED
      BY <1>1, <1>2, <3>2, <3>3, SMTT(30)
  <2>2. \A i, j \in 1 .. hp : i <= j => /\ handlers[i].fp <= handlers[j].fp
                                        /\ handlers[i].sp <= handlers[j].sp
    BY <1>1 DEF HandlersNested
  <2> QED
    BY <1>2, <2>1, <2>2 DEF HandlersNested
<1> QED
  BY <1>5, <1>6 DEF CInv

\* So does pushing a handler for the current frame and depth.
LEMMA PushHandler ==
  ASSUME CInv, status = "run", TypeOK', status' = "run",
         UNCHANGED <<stack, frames, base>>,
         NEW h, h.sp = sp, h.fp = fp, h.slot \in Slots(frames[fp].fn),
         Pushed(handlers', handlers, h)
  PROVE  CInv'
<1>1. /\ FramesNested /\ HandlersNested /\ fp \in Nat /\ hp \in Nat /\ sp \in Nat /\ fp >= 1
      /\ Len(base) = fp /\ \A j \in 1 .. hp : handlers[j].sp \in Nat /\ handlers[j].fp \in 1 .. fp
  BY RunTyped
<1>2. fp' = fp /\ sp' = sp /\ hp' = hp + 1
      /\ handlers'[hp + 1] = h /\ \A j \in 1 .. hp : handlers'[j] = handlers[j]
  BY RunTyped DEF Pushed, fp, hp, sp
<1>3. FramesNested'
  BY <1>1, <1>2 DEF FramesNested
<1>4. \A j \in 1 .. hp + 1 : j = hp + 1 \/ j \in 1 .. hp
  BY <1>1
<1>5. base[fp] <= sp /\ \A j \in 1 .. hp : handlers[j].sp <= sp
  <2>1. Floor(base, handlers) \in Nat /\ Floor(base, handlers) <= sp
        /\ \A j \in 1 .. hp : handlers[j].sp <= Floor(base, handlers)
    BY FloorOwned
  <2> QED
    BY <1>1, <2>1 DEF FramesNested
<1>6. HandlersNested'
  <2>1. ASSUME NEW j \in 1 .. hp + 1
        PROVE  /\ handlers'[j].fp <= fp
               /\ base[handlers'[j].fp] <= handlers'[j].sp
               /\ handlers'[j].fp < fp => handlers'[j].sp <= base[handlers'[j].fp + 1]
               /\ handlers'[j].fp = fp => handlers'[j].sp <= sp
               /\ handlers'[j].slot \in Slots(frames[handlers'[j].fp].fn)
    <3>1. CASE j = hp + 1
      BY <1>1, <1>2, <1>5, <3>1
    <3>2. CASE j \in 1 .. hp
      BY <1>1, <1>2, <3>2 DEF HandlersNested
    <3> QED
      BY <1>4, <3>1, <3>2
  <2>2. ASSUME NEW i \in 1 .. hp + 1, NEW j \in 1 .. hp + 1, i <= j
        PROVE  handlers'[i].fp <= handlers'[j].fp /\ handlers'[i].sp <= handlers'[j].sp
    <3>1. CASE j \in 1 .. hp
      <4>1. i \in 1 .. hp
        BY <1>1, <2>2, <3>1
      <4> QED
        BY <1>1, <1>2, <2>2, <3>1, <4>1 DEF HandlersNested
    <3>2. CASE j = hp + 1
      BY <1>1, <1>2, <1>4, <1>5, <3>2
    <3> QED
      BY <1>4, <3>1, <3>2
  <2> QED
    BY <1>2, <2>1, <2>2 DEF HandlersNested
<1> QED
  BY <1>3, <1>6 DEF CInv

\* The instructions that leave the frames and the handlers alone.
LEMMA KeepFrames ==
  ASSUME CInv, status = "run", UNCHANGED <<frames, handlers, base>>,
         stack' \in Seq(Value), sp' <= StackMax, sp' >= Floor(base, handlers),
         LocalsTyped',
         pc' \in 0 .. CodeEnd, status' \in {"run", "exit"} \cup Faults
  PROVE  CInv'
<1>1. TypeOK'
  BY RunTyped DEF TypeOK, sp, fp, hp, LocalsTyped
<1>2. /\ CutTo(frames', frames, fp) /\ CutTo(base', base, fp) /\ CutTo(handlers', handlers, hp)
      /\ fp \in 1 .. fp /\ hp \in 0 .. hp
  BY RunTyped DEF CutTo, fp, hp
<1>3. sp' \in Nat /\ base[fp] \in Nat /\ Floor(base, handlers) \in Nat
      /\ \A j \in 1 .. hp : handlers[j].sp \in Nat /\ handlers[j].fp <= fp
  BY RunTyped, <1>1, <1>2, FloorOwned DEF sp
<1>4. base[fp] <= sp' /\ \A j \in 1 .. hp : handlers[j].sp <= sp'
  BY <1>3, FloorOwned, SMTT(30)
<1> QED
  BY <1>1, <1>2, <1>3, <1>4, CutBack

\* What the top frame says of the running function, and that its slots lie
\* in locals_stack.
LEMMA CurrentFunction ==
  ASSUME CInv, status = "run"
  PROVE  /\ fn = frames[fp].fn /\ fn \in Funcs /\ Top(frames) = frames[fp]
         /\ Top(frames).nlocals = NLocals[fn] /\ Top(base) = base[fp]
         /\ NextBase = frames[fp].locals_base + frames[fp].nlocals
         /\ NextBase \in 0 .. LocalsMax
         /\ Body(fn) \subseteq 0 .. CodeEnd
         /\ \A s \in 0 .. NLocals[fn] - 1 : Slot(s) \in 0 .. LocalsMax - 1
<1>1. Top(frames) = frames[fp] /\ Top(base) = base[fp] /\ fp \in 1 .. fp
  BY RunTyped DEF Top, fp
<1>2. /\ frames[fp].fn \in Funcs /\ frames[fp].nlocals = NLocals[frames[fp].fn]
      /\ frames[fp].locals_base \in Nat /\ frames[fp].nlocals \in Nat
  BY RunTyped, <1>1, FrameFields
<1>3. frames[fp].locals_base + frames[fp].nlocals <= LocalsMax
  BY RunTyped, <1>1 DEF FramesNested
<1>4. LocalsMax \in Nat
  BY BytecodeAssumption
<1>5. Body(fn) \subseteq 0 .. CodeEnd
  BY <1>1, <1>2, BodyRange DEF fn
<1> QED
  BY <1>1, <1>2, <1>3, <1>4, <1>5 DEF fn, NextBase, Slot

\* The operands an instruction consumes are there, and there is room above.
LEMMA OwnOperands ==
  ASSUME CInv, Fetch, NEW k \in Nat, Operands(k)
  PROVE  /\ status = "run" /\ TypeOK /\ k \in 0 .. sp /\ stack \in Seq(Value) /\ sp \in Nat
         /\ sp <= StackMax - 4 /\ StackMax \in Nat /\ Len(stack) = sp
         /\ Drop(stack, k) \in Seq(Value) /\ Len(Drop(stack, k)) = sp - k
         /\ Len(Drop(stack, k)) >= Floor(base, handlers)
         /\ Floor(base, handlers) \in Nat
         /\ Tail2(stack, k) \in Seq(Value) /\ Len(Tail2(stack, k)) = k
<1>1. /\ status = "run" /\ sp \in Nat /\ stack \in Seq(Value) /\ Len(stack) = sp
      /\ sp <= StackMax - 4 /\ StackMax \in Nat /\ TypeOK
  BY RunTyped, BytecodeAssumption DEF Fetch, TypeOK
<1>2. Floor(base, handlers) \in Nat /\ sp - k >= Floor(base, handlers)
  BY <1>1, FloorOwned DEF Operands
<1>3. k \in 0 .. sp /\ k \in 0 .. Len(stack)
  BY <1>1, <1>2
<1>4. Drop(stack, k) \in Seq(Value) /\ Len(Drop(stack, k)) = sp - k
  BY <1>1, <1>3, DropIs
<1>5. Tail2(stack, k) \in Seq(Value) /\ Len(Tail2(stack, k)) = k
  BY <1>1, <1>3, Tail2Is
<1> QED
  BY <1>1, <1>2, <1>3, <1>4, <1>5

\* fatal() leaves the stacks as they are.
LEMMA AbortPreserves ==
  ASSUME CInv, status = "run", NEW why \in Faults, AbortWith(why),
         LocalsTyped'
  PROVE  CInv'
<1>1. pc' \in 0 .. CodeEnd /\ status' \in {"run", "exit"} \cup Faults
      /\ UNCHANGED <<stack, frames, handlers, base>>
  BY CurrentFunction DEF AbortWith, Advance
<1>2. stack' \in Seq(Value) /\ sp' <= StackMax /\ sp' = sp
  BY <1>1, RunTyped DEF TypeOK, sp
<1> QED
  BY <1>1, <1>2, KeepFrames, FloorOwned

\* Nor do the headroom check, a runtime error and HALT move them.
LEMMA QuietPreserves ==
  ASSUME CInv, Overflow \/ RuntimeError \/ Halt \/ Ended
  PROVE  CInv'
<1>1. CASE Ended
  <2>1. UNCHANGED cvars /\ status # "run"
    BY <1>1 DEF Ended
  <2> QED
    BY <2>1 DEF cvars, CInv, TypeOK, sp, fp, hp
<1>2. CASE RuntimeError
  BY <1>2, AbortPreserves, RunTyped DEF RuntimeError, Fetch, Abort, Faults, TypeOK, LocalsTyped
<1>3. CASE Overflow \/ Halt
  <2>1. /\ status = "run" /\ UNCHANGED <<stack, locals_stack, unset, frames, handlers, pc, base>>
        /\ status' \in {"run", "exit"} \cup Faults
    BY <1>3 DEF Overflow, Halt, Fetch, Faults
  <2>2. /\ stack' \in Seq(Value) /\ sp' <= StackMax /\ sp' = sp
        /\ LocalsTyped' /\ pc' \in 0 .. CodeEnd
    BY <2>1, RunTyped DEF TypeOK, sp, LocalsTyped
  <2> QED
    BY <2>1, <2>2, KeepFrames, FloorOwned
<1> QED
  BY <1>1, <1>2, <1>3

\* An instruction that computes leaves at most one value for its operands.
LEMMA ResultPushed ==
  ASSUME CInv, Fetch, NEW k \in Nat, Operands(k), NEW r \in Seq(Value), Len(r) <= 1,
         stack' = Drop(stack, k) \o r,
         UNCHANGED <<frames, handlers, base, status>>,
         LocalsTyped',
         Advance
  PROVE  CInv' /\ sp' <= sp + 1
<1>1. /\ status = "run" /\ sp \in Nat /\ sp <= StackMax - 4 /\ StackMax \in Nat
      /\ Drop(stack, k) \in Seq(Value) /\ Len(Drop(stack, k)) = sp - k
      /\ sp - k >= Floor(base, handlers) /\ Floor(base, handlers) \in Nat
  BY OwnOperands
<1>2. stack' \in Seq(Value) /\ sp' = sp - k + Len(r)
  BY <1>1, ConcatIs DEF sp
<1>3. pc' \in 0 .. CodeEnd
  BY <1>1, CurrentFunction DEF Advance
<1>4. Len(r) \in Nat
  OBVIOUS
<1>5. sp' <= StackMax /\ sp' >= Floor(base, handlers) /\ sp' <= sp + 1
  BY <1>1, <1>2, <1>4
<1> QED
  BY <1>1, <1>2, <1>3, <1>5, KeepFrames

\* Plain values are values.
LEMMA NullValue == Null \in Value /\ Plain \subseteq Value /\ Captures \subseteq Value
  BY BytecodeAssumption DEF Value

\* Instructions that compute.
LEMMA ComputePreserves ==
  ASSUME CInv, NEW k \in 0 .. MaxPops, NEW r \in {<<>>} \cup {<<v>> : v \in Plain},
         Compute(k, r)
  PROVE  CInv' /\ sp' <= sp + 1
<1>1. r \in Seq(Value) /\ Len(r) <= 1
  <2>1. CASE r = <<>>
    BY <2>1
  <2>2. ASSUME NEW v \in Plain, r = <<v>>
        PROVE  r \in Seq(Value) /\ Len(r) <= 1
    <3>1. v \in Value
      BY NullValue
    <3> QED
      BY <2>2, <3>1
  <2> QED
    BY <2>1, <2>2
<1>2. k \in Nat
  BY BytecodeAssumption
<1>3. Fetch /\ Operands(k) /\ stack' = Drop(stack, k) \o r /\ Advance
      /\ UNCHANGED <<locals_stack, unset, frames, handlers, status, base>>
  BY DEF Compute
<1>4. LocalsTyped'
  BY <1>3 DEF CInv, TypeOK, LocalsTyped
<1> QED
  BY <1>1, <1>2, <1>3, <1>4, ResultPushed

\* LOAD pushes a value of its own region.
LEMMA LoadPreserves ==
  ASSUME CInv, NEW s, Load(s)
  PROVE  CInv' /\ sp' <= sp + 1
<1>1. /\ status = "run" /\ sp <= StackMax - 4 /\ s \in 0 .. NLocals[fn] - 1
      /\ stack' = Append(stack, locals_stack[Slot(s)]) /\ Advance
      /\ UNCHANGED <<locals_stack, unset, frames, handlers, status, base>>
  BY DEF Load, Fetch
<1>2. /\ sp \in Nat /\ StackMax \in Nat /\ stack \in Seq(Value) /\ Len(stack) = sp
      /\ locals_stack \in [0 .. LocalsMax - 1 -> Value] /\ LocalsTyped'
  BY <1>1, RunTyped, BytecodeAssumption DEF TypeOK, LocalsTyped
<1>3. locals_stack[Slot(s)] \in Value
  BY <1>1, <1>2, CurrentFunction
<1>4. stack' \in Seq(Value) /\ sp' = sp + 1
  BY <1>1, <1>2, <1>3, AppendIs DEF sp
<1>5. Floor(base, handlers) \in Nat /\ Floor(base, handlers) <= sp
  BY <1>1, FloorOwned
<1>6. pc' \in 0 .. CodeEnd
  BY <1>1, CurrentFunction DEF Advance
<1>7. sp' <= StackMax /\ sp' >= Floor(base, handlers) /\ sp' <= sp + 1
  BY <1>1, <1>2, <1>4, <1>5
<1> QED
  BY <1>1, <1>2, <1>4, <1>6, <1>7, KeepFrames

\* STORE writes into its own region.
LEMMA StorePreserves ==
  ASSUME CInv, NEW s, Store(s)
  PROVE  CInv' /\ sp' <= sp + 1
<1>1. /\ Fetch /\ Operands(1)
      /\ locals_stack' = [locals_stack EXCEPT ![Slot(s)] = Top(stack)]
      /\ unset' = unset \ {Slot(s)}
      /\ stack' = Drop(stack, 1) /\ Advance
      /\ UNCHANGED <<frames, handlers, status, base>>
  BY DEF Store
<1>2. /\ status = "run" /\ sp \in Nat /\ StackMax \in Nat /\ sp <= StackMax - 4
      /\ 1 \in 0 .. sp /\ stack \in Seq(Value) /\ Len(stack) = sp
      /\ Drop(stack, 1) \in Seq(Value) /\ Len(Drop(stack, 1)) = sp - 1
      /\ sp - 1 >= Floor(base, handlers)
  BY <1>1, OwnOperands
<1>3. Top(stack) \in Value
  BY <1>2 DEF Top
<1>4. LocalsTyped'
  BY <1>1, <1>2, <1>3, RunTyped DEF TypeOK, LocalsTyped
<1>5. stack' \in Seq(Value) /\ sp' = sp - 1
  BY <1>1, <1>2 DEF sp
<1>6. pc' \in 0 .. CodeEnd
  BY <1>1, <1>2, CurrentFunction DEF Advance
<1>7. sp' <= StackMax /\ sp' >= Floor(base, handlers) /\ sp' <= sp + 1
  BY <1>2, <1>5
<1> QED
  BY <1>1, <1>2, <1>4, <1>5, <1>6, <1>7, KeepFrames

\* PUSHFN and CLOSURE push a value that holds the captured ones.
LEMMA MakeClosurePreserves ==
  ASSUME CInv, NEW f \in FnValues, MakeClosure(f)
  PROVE  CInv' /\ sp' <= sp + 1
<1> DEFINE cap == Tail2(stack, NCaptured[f])
<1>1. /\ Fetch /\ Operands(NCaptured[f]) /\ \A i \in DOMAIN cap : cap[i] \in Captures
      /\ stack' = Append(Drop(stack, NCaptured[f]), [fn |-> f, cap |-> cap])
      /\ Advance /\ UNCHANGED <<locals_stack, unset, frames, handlers, status, base>>
  BY DEF MakeClosure
<1>2. NCaptured[f] \in Nat
  BY BytecodeAssumption
<1>3. /\ status = "run" /\ sp \in Nat /\ sp <= StackMax - 4 /\ StackMax \in Nat
      /\ Drop(stack, NCaptured[f]) \in Seq(Value)
      /\ Len(Drop(stack, NCaptured[f])) = sp - NCaptured[f]
      /\ sp - NCaptured[f] >= Floor(base, handlers) /\ Floor(base, handlers) \in Nat
      /\ cap \in Seq(Value) /\ Len(cap) = NCaptured[f]
  BY <1>1, <1>2, OwnOperands
<1> HIDE DEF cap
<1>4. cap \in [1 .. NCaptured[f] -> Captures]
  BY <1>1, <1>2, <1>3
<1>5. [fn |-> f, cap |-> cap] \in Value
  BY <1>4 DEF Value, Closure
<1>6. stack' \in Seq(Value) /\ sp' = sp - NCaptured[f] + 1
  BY <1>1, <1>3, <1>5, AppendIs DEF sp
<1>7. pc' \in 0 .. CodeEnd
  BY <1>1, <1>3, CurrentFunction DEF Advance
<1>8. sp' <= StackMax /\ sp' >= Floor(base, handlers) /\ sp' <= sp + 1
  BY <1>2, <1>3, <1>6, SMTT(30)
<1> QED
  BY <1>1, <1>3, <1>6, <1>7, <1>8, KeepFrames DEF CInv, TypeOK, LocalsTyped

\* Binding the locals of a callee writes values, and only above the caller's.
LEMMA BindTyped ==
  ASSUME CInv, status = "run", NEW f \in Funcs, NEW vals \in Seq(Value),
         BindLocals(f, vals)
  PROVE  LocalsTyped'
<1>1. /\ locals_stack \in [0 .. LocalsMax - 1 -> Value] /\ NextBase \in Nat
      /\ DOMAIN locals_stack = 0 .. LocalsMax - 1 /\ LocalsMax \in Nat
      /\ NLocals[f] \in Nat
  BY RunTyped, CurrentFunction, BytecodeAssumption DEF TypeOK
<1>2. ASSUME NEW i \in 0 .. LocalsMax - 1
      PROVE  (IF i < NextBase \/ i >= NextBase + NLocals[f] THEN locals_stack[i]
              ELSE IF i - NextBase < Len(vals) THEN vals[i - NextBase + 1]
              ELSE Null) \in Value
  <2>1. CASE ~(i < NextBase) /\ i - NextBase < Len(vals)
    <3>1. i - NextBase + 1 \in 1 .. Len(vals)
      BY <1>1, <2>1
    <3> QED
      BY <1>1, <2>1, <3>1
  <2>2. CASE ~(~(i < NextBase) /\ i - NextBase < Len(vals))
    BY <1>1, <2>2, NullValue
  <2> QED
    BY <2>1, <2>2
<1>3. unset' \subseteq 0 .. LocalsMax - 1
  BY <1>1 DEF BindLocals
<1> QED
  BY <1>1, <1>2, <1>3 DEF BindLocals, LocalsTyped

\* A call either aborts on a full stack or pushes a frame with its region.
LEMMA EnterPreserves ==
  ASSUME CInv, status = "run", NEW f \in Funcs, NEW vals \in Seq(Value),
         NEW STATE rest, rest \in Seq(Value), Len(rest) <= sp,
         Len(rest) >= Floor(base, handlers), Enter(f, vals, rest)
  PROVE  CInv' /\ sp' <= sp
<1>0. /\ sp \in Nat /\ sp <= StackMax /\ fp \in Nat /\ StackMax \in Nat
      /\ LocalsMax \in Nat /\ FrameMax \in Nat /\ NLocals[f] \in Nat
      /\ frames \in Seq(Frame) /\ base \in Seq(Nat)
      /\ NextBase \in 0 .. LocalsMax /\ handlers \in Seq(Handler) /\ hp <= HandlerMax
  BY RunTyped, CurrentFunction, BytecodeAssumption DEF TypeOK
<1>1. CASE NextBase + NLocals[f] > LocalsMax - 2
  <2>1. AbortWith("locals stack") /\ UNCHANGED <<locals_stack, unset>>
    BY <1>1 DEF Enter, Abort
  <2>2. sp' = sp /\ LocalsTyped'
    BY <2>1, RunTyped DEF AbortWith, sp, TypeOK, LocalsTyped
  <2>3. "locals stack" \in Faults
    BY DEF Faults
  <2>4. CInv'
    BY <2>1, <2>2, <2>3, AbortPreserves
  <2> QED
    BY <1>0, <2>2, <2>4
<1>2. CASE ~(NextBase + NLocals[f] > LocalsMax - 2) /\ fp > FrameMax - 2
  <2>0. ~(fp <= FrameMax - 2)
    BY <1>0, <1>2
  <2>1. AbortWith("call stack") /\ BindLocals(f, vals)
    BY <1>2, <2>0, Zenon DEF Enter
  <2>2. sp' = sp
    BY <2>1 DEF AbortWith, sp
  <2>3. "call stack" \in Faults
    BY DEF Faults
  <2>4. CInv'
    BY <2>1, <2>3, AbortPreserves, BindTyped
  <2> QED
    BY <1>0, <2>2, <2>4
<1>3. CASE ~(NextBase + NLocals[f] > LocalsMax - 2) /\ ~(fp > FrameMax - 2)
  <2>1. /\ BindLocals(f, vals) /\ stack' = rest /\ base' = Append(base, Len(rest))
        /\ pc' = Start(f) /\ UNCHANGED <<handlers, status>>
    BY <1>0, <1>3 DEF Enter
  <2>2. PICK ret \in Body(fn) :
          frames' = Append(frames, [retpc |-> ret, locals_base |-> NextBase,
                                    nlocals |-> NLocals[f], fn |-> f])
    BY <1>0, <1>3 DEF Enter
  <2>3. PICK fr : fr = [retpc |-> ret, locals_base |-> NextBase,
                        nlocals |-> NLocals[f], fn |-> f]
    OBVIOUS
  <2>4. fr \in Frame /\ fr.locals_base = NextBase /\ fr.nlocals = NLocals[f]
    <3>1. ret \in -1 .. CodeEnd
      BY CurrentFunction, BytecodeAssumption, SMTT(30) DEF CodeEnd
    <3> QED
      BY <1>0, <2>3, <3>1, FrameMade
  <2>5. /\ frames' \in Seq(Frame) /\ fp' = fp + 1 /\ Pushed(frames', frames, fr)
        /\ base' \in Seq(Nat) /\ Pushed(base', base, Len(rest)) /\ sp' = Len(rest)
    <3>1. Len(rest) \in Nat
      OBVIOUS
    <3>2. frames' = Append(frames, fr)
      BY <2>2, <2>3
    <3> QED
      BY <1>0, <2>1, <2>4, <3>1, <3>2, AppendIs DEF Pushed, fp, sp
  <2>6. TypeOK'
    <3>1. sp' <= StackMax /\ fp' <= FrameMax /\ hp' <= HandlerMax
      BY <1>0, <1>3, <2>1, <2>5 DEF hp
    <3>2. pc' \in 0 .. CodeEnd
      BY <2>1, BodyRange
    <3>3. status' \in {"run", "exit"} \cup Faults
      BY <2>1
    <3> QED
      BY <1>0, <2>1, <2>5, <3>1, <3>2, <3>3, BindTyped DEF TypeOK, LocalsTyped
  <2>7. /\ fr.locals_base = frames[fp].locals_base + frames[fp].nlocals
        /\ fr.locals_base + fr.nlocals <= LocalsMax
    BY <1>0, <1>3, <2>4, CurrentFunction, SMTT(30)
  <2>8. status' = "run" /\ handlers' = handlers /\ sp' >= Floor(base, handlers)
        /\ Pushed(base', base, sp')
    BY <2>1, <2>5
  <2> QED
    BY <2>4, <2>5, <2>6, <2>7, <2>8, PushFrame
<1> QED
  BY <1>1, <1>2, <1>3

\* CALL enters a function without captures.
LEMMA CallPreserves ==
  ASSUME CInv, NEW f \in Funcs, Call(f)
  PROVE  CInv' /\ sp' <= sp + 1
<1>1. /\ Fetch /\ Operands(NParams[f]) /\ NParams[f] \in Nat
      /\ Enter(f, Tail2(stack, NParams[f]), Drop(stack, NParams[f]))
  BY BytecodeAssumption DEF Call
<1>2. /\ status = "run" /\ sp \in Nat
      /\ Tail2(stack, NParams[f]) \in Seq(Value)
      /\ Drop(stack, NParams[f]) \in Seq(Value)
      /\ Len(Drop(stack, NParams[f])) = sp - NParams[f]
      /\ Len(Drop(stack, NParams[f])) >= Floor(base, handlers)
  BY <1>1, OwnOperands
<1>3. Len(Drop(stack, NParams[f])) <= sp
  BY <1>1, <1>2
<1>4. CInv' /\ sp' <= sp
  BY <1>1, <1>2, <1>3, EnterPreserves
<1>5. sp' \in Nat
  BY <1>4 DEF CInv, TypeOK, sp
<1> QED
  BY <1>2, <1>4, <1>5

\* The function and the captured values of a function value.
LEMMA ClosureFields ==
  ASSUME NEW v \in Closure
  PROVE  /\ v.fn \in FnValues /\ v.fn \in Funcs
         /\ v.cap \in Seq(Value) /\ Len(v.cap) = NCaptured[v.fn]
<1>1. PICK f \in FnValues : v \in [fn : {f}, cap : [1 .. NCaptured[f] -> Captures]]
  BY DEF Closure
<1>2. v.fn = f /\ v.cap \in [1 .. NCaptured[f] -> Captures] /\ f \in Funcs
      /\ NCaptured[f] \in Nat
  BY <1>1, BytecodeAssumption
<1>3. v.cap \in Seq(Captures) /\ Len(v.cap) = NCaptured[f]
  BY <1>2
<1>4. v.cap \in Seq(Value)
  BY <1>3, NullValue
<1> QED
  BY <1>2, <1>3, <1>4

\* CALL_VALUE enters the function of the value beneath the arguments.
LEMMA CallValuePreserves ==
  ASSUME CInv, NEW k \in 0 .. MaxPops - 1, CallValue(k)
  PROVE  CInv' /\ sp' <= sp + 1
<1> DEFINE v == stack[sp - k]
<1>1. Fetch /\ Operands(k + 1) /\ k \in Nat /\ k + 1 \in Nat
  BY BytecodeAssumption DEF CallValue
<1>2. /\ status = "run" /\ sp \in Nat /\ k + 1 \in 0 .. sp /\ stack \in Seq(Value)
      /\ Len(stack) = sp /\ Drop(stack, k + 1) \in Seq(Value)
      /\ Len(Drop(stack, k + 1)) = sp - (k + 1)
      /\ Len(Drop(stack, k + 1)) >= Floor(base, handlers)
  BY <1>1, OwnOperands
<1>3. k \in 0 .. Len(stack)
  BY <1>1, <1>2
<1>4. Tail2(stack, k) \in Seq(Value) /\ Len(Tail2(stack, k)) = k
  BY <1>2, <1>3, Tail2Is
<1>5. Len(Drop(stack, k + 1)) <= sp
  BY <1>1, <1>2
<1>6. CASE v \notin Closure
  <2>1. AbortWith("non-function") /\ UNCHANGED <<locals_stack, unset>>
    BY <1>6 DEF CallValue, Abort
  <2>2. "non-function" \in Faults /\ LocalsTyped'
    BY <1>2, <2>1, RunTyped DEF Faults, TypeOK, LocalsTyped
  <2>3. CInv'
    BY <1>2, <2>1, <2>2, AbortPreserves
  <2>4. sp' = sp
    BY <2>1 DEF AbortWith, sp
  <2> QED
    BY <1>2, <2>3, <2>4
<1>7. CASE v \in Closure
  <2>1. Enter(v.fn, v.cap \o Tail2(stack, k), Drop(stack, k + 1))
    BY <1>7 DEF CallValue
  <2>2. v.fn \in Funcs /\ v.cap \in Seq(Value)
    BY <1>7, ClosureFields
  <2>3. v.cap \o Tail2(stack, k) \in Seq(Value)
    BY <1>4, <2>2, ConcatIs
  <2>4. CInv' /\ sp' <= sp
    <3> HIDE DEF v
    <3>1. PICK f \in Funcs : f = v.fn
      BY <2>2
    <3>2. PICK vals \in Seq(Value) : vals = v.cap \o Tail2(stack, k)
      BY <2>3
    <3>3. Enter(f, vals, Drop(stack, k + 1))
      BY <2>1, <3>1, <3>2
    <3> QED
      BY <1>2, <1>5, <3>3, EnterPreserves
  <2>5. sp' \in Nat
    BY <2>4 DEF CInv, TypeOK, sp
  <2> QED
    BY <1>2, <2>4, <2>5
<1> QED
  BY <1>6, <1>7

\* RET uncovers the frame below, outside of its own try blocks.
LEMMA ReturnPreserves ==
  ASSUME CInv, Return
  PROVE  CInv' /\ sp' <= sp + 1
<1>1. /\ status = "run" /\ sp = Top(base) + 1 /\ ~InOwnTry(base, handlers)
      /\ frames' = Drop(frames, 1) /\ UNCHANGED <<locals_stack, unset, handlers>>
  BY DEF Return, Fetch
<1>2. /\ TypeOK /\ FramesNested /\ HandlersNested
      /\ fp \in Nat /\ hp \in Nat /\ sp \in Nat /\ fp >= 1
      /\ Len(frames) = fp /\ Len(base) = fp /\ Len(stack) = sp /\ Len(handlers) = hp
      /\ \A i \in 1 .. fp : base[i] \in Nat /\ frames[i] \in Frame
      /\ \A j \in 1 .. hp : handlers[j].sp \in Nat /\ handlers[j].fp \in 1 .. fp
  BY <1>1, RunTyped
<1>3. /\ Top(frames) = frames[fp] /\ Top(base) = base[fp] /\ fp \in 1 .. fp
      /\ frames[fp].retpc \in -1 .. CodeEnd /\ CodeEnd \in Nat
  BY <1>1, <1>2, CurrentFunction, FrameFields
<1>4. /\ frames' \in Seq(Frame) /\ Len(frames') = fp - 1 /\ fp' = fp - 1
      /\ \A i \in 1 .. fp - 1 : frames'[i] = frames[i]
  <2>1. frames \in Seq(Frame) /\ 1 \in 0 .. Len(frames)
    BY <1>2 DEF TypeOK
  <2> QED
    BY <1>1, <1>2, <2>1, DropIs DEF fp
<1>5. CASE Top(frames).retpc < 0
  <2>1. status' = "exit" /\ stack' = Drop(stack, 1) /\ UNCHANGED <<pc, base>>
    BY <1>5 DEF Return
  <2>2. stack' \in Seq(Value) /\ sp' = sp - 1
    <3>1. stack \in Seq(Value) /\ 1 \in 0 .. Len(stack)
      BY <1>1, <1>2, <1>3 DEF TypeOK
    <3> QED
      BY <1>2, <2>1, <3>1, DropIs DEF sp
  <2>3. TypeOK'
    <3>1. sp' <= StackMax /\ fp' <= FrameMax /\ hp' = hp
      BY <1>1, <1>2, <1>4, <2>2, BytecodeAssumption DEF TypeOK, hp
    <3> QED
      BY <1>1, <1>2, <1>4, <2>1, <2>2, <3>1 DEF TypeOK
  <2> QED
    BY <1>2, <2>1, <2>2, <2>3 DEF CInv
<1>6. CASE ~(Top(frames).retpc < 0)
  <2>1. pc' = Top(frames).retpc /\ base' = Drop(base, 1) /\ UNCHANGED <<stack, status>>
    BY <1>6 DEF Return
  <2>2. fp # 1
    BY <1>2, <1>3, <1>6 DEF FramesNested
  <2>3. /\ base' \in Seq(Nat) /\ Len(base') = fp - 1
        /\ \A i \in 1 .. fp - 1 : base'[i] = base[i]
    <3>1. base \in Seq(Nat) /\ 1 \in 0 .. Len(base)
      BY <1>2 DEF TypeOK
    <3> QED
      BY <1>2, <2>1, <3>1, DropIs, ZenonT(30)
  <2>4. pc' \in 0 .. CodeEnd /\ sp' = sp /\ hp' = hp
    BY <1>1, <1>3, <1>6, <2>1 DEF sp, hp
  <2>5. TypeOK'
    <3>1. fp' <= FrameMax
      BY <1>2, <1>4, BytecodeAssumption DEF TypeOK
    <3> QED
      BY <1>1, <1>2, <1>4, <2>1, <2>3, <2>4, <3>1 DEF TypeOK
  <2>6. CutTo(frames', frames, fp - 1) /\ CutTo(base', base, fp - 1)
        /\ CutTo(handlers', handlers, hp) /\ fp - 1 \in 1 .. fp /\ hp \in 0 .. hp
    BY <1>1, <1>2, <1>4, <2>2, <2>3 DEF CutTo
  <2>7. base[fp - 1] <= sp'
    <3>1. fp - 1 <= fp /\ fp \in 1 .. fp
      BY <1>2
    <3>2. base[fp - 1] <= base[fp] /\ base[fp] <= sp
      BY <1>2, <2>6, <3>1 DEF FramesNested
    <3> QED
      BY <1>2, <1>3, <2>4, <2>6, <3>2
  <2>8. \A j \in 1 .. hp : handlers[j].fp <= fp - 1 /\ handlers[j].sp <= sp'
    <3> TAKE j \in 1 .. hp
    <3>1. hp \in 1 .. hp /\ handlers[hp].fp # fp
      BY <1>1, <1>2, FloorOwned
    <3>2. handlers[j].fp <= handlers[hp].fp
      <4>1. j <= hp /\ HandlersNested
        BY <1>2
      <4> QED
        BY <3>1, <4>1, HandlersOrdered
    <3>3. handlers[j].sp <= sp
      BY <1>1, <1>2, FloorOwned
    <3> QED
      BY <1>2, <2>4, <3>1, <3>2, <3>3, SMTT(30)
  <2>9. CInv'
    BY <1>1, <2>1, <2>5, <2>6, <2>7, <2>8, CutBack
  <2> QED
    BY <1>2, <2>4, <2>9
<1> QED
  BY <1>5, <1>6

\* TRY_PUSH records the current depth of frames and operands.
LEMMA TryPushPreserves ==
  ASSUME CInv, NEW s, NEW catch, TryPush(s, catch)
  PROVE  CInv' /\ sp' <= sp + 1
<1>1. /\ status = "run" /\ s \in Slots(fn) /\ catch \in Body(fn)
  BY DEF TryPush, Fetch
<1>2. /\ TypeOK /\ sp \in Nat /\ fp \in Nat /\ fp >= 1 /\ hp \in Nat /\ Len(handlers) = hp
      /\ HandlerMax \in Nat
  BY <1>1, RunTyped, BytecodeAssumption
<1>3. /\ fn = frames[fp].fn /\ catch \in 0 .. CodeEnd /\ fn \in Funcs
  BY <1>1, CurrentFunction
<1>4. CASE Abort("handler stack")
  <2>1. "handler stack" \in Faults /\ LocalsTyped'
    BY <1>2, <1>4 DEF Faults, TypeOK, Abort, LocalsTyped
  <2>2. CInv' /\ sp' = sp
    BY <1>1, <1>4, <2>1, AbortPreserves DEF Abort, AbortWith, sp
  <2> QED
    BY <1>2, <2>2
<1>5. CASE ~Abort("handler stack")
  <2>1. PICK h : h = [catchPC |-> catch, sp |-> sp, fp |-> fp, slot |-> s]
    OBVIOUS
  <2>2. /\ hp <= HandlerMax - 2 /\ handlers' = Append(handlers, h) /\ Advance
        /\ UNCHANGED <<stack, locals_stack, unset, frames, status, base>>
    BY <1>5, <2>1 DEF TryPush
  <2>3. h \in Handler /\ h.sp = sp /\ h.fp = fp /\ h.slot = s
    <3>1. s \in Int
      BY <1>1, <1>3, BytecodeAssumption DEF Slots, NoSlot
    <3>2. sp \in 0 .. StackMax /\ fp \in 1 .. FrameMax
      BY <1>2, BytecodeAssumption DEF TypeOK
    <3> QED
      BY <1>3, <2>1, <3>1, <3>2 DEF Handler
  <2>4. handlers' \in Seq(Handler) /\ hp' = hp + 1 /\ Pushed(handlers', handlers, h)
    <3>1. handlers \in Seq(Handler)
      BY <1>2 DEF TypeOK
    <3> QED
      BY <1>2, <2>2, <2>3, <3>1, AppendIs DEF Pushed, hp
  <2>5. pc' \in 0 .. CodeEnd /\ sp' = sp /\ fp' = fp
    BY <1>1, <2>2, CurrentFunction DEF Advance, sp, fp
  <2>6. TypeOK'
    <3>1. hp' <= HandlerMax
      BY <1>2, <2>2, <2>4
    <3> QED
      BY <1>2, <2>2, <2>4, <2>5, <3>1 DEF TypeOK
  <2>7. CInv'
    BY <1>1, <1>3, <2>2, <2>3, <2>4, <2>6, PushHandler
  <2> QED
    BY <1>2, <2>5, <2>7
<1> QED
  BY <1>4, <1>5

\* TRY_POP drops the innermost handler of the running function.
LEMMA TryPopPreserves ==
  ASSUME CInv, TryPop
  PROVE  CInv' /\ sp' <= sp + 1
<1>1. /\ status = "run" /\ InOwnTry(base, handlers) /\ handlers' = Drop(handlers, 1)
      /\ Advance /\ UNCHANGED <<stack, locals_stack, unset, frames, status, base>>
  BY DEF TryPop, Fetch
<1>2. /\ TypeOK /\ FramesNested /\ HandlersNested /\ sp \in Nat /\ fp \in Nat /\ hp \in Nat
      /\ Len(handlers) = hp /\ Len(frames) = fp /\ Len(base) = fp /\ fp >= 1
      /\ handlers \in Seq(Handler) /\ hp >= 1 /\ HandlerMax \in Nat
      /\ \A j \in 1 .. hp : handlers[j].fp \in 1 .. fp
  BY <1>1, RunTyped, FloorOwned, BytecodeAssumption DEF TypeOK
<1>3. /\ handlers' \in Seq(Handler) /\ hp' = hp - 1 /\ CutTo(handlers', handlers, hp - 1)
  <2>1. 1 \in 0 .. Len(handlers)
    BY <1>2
  <2> QED
    BY <1>1, <1>2, <2>1, DropIs DEF CutTo, hp
<1>4. pc' \in 0 .. CodeEnd /\ sp' = sp /\ fp' = fp
  BY <1>1, CurrentFunction DEF Advance, sp, fp
<1>5. TypeOK'
  <2>1. hp' <= HandlerMax
    BY <1>2, <1>3 DEF TypeOK
  <2> QED
    BY <1>1, <1>2, <1>3, <1>4, <2>1 DEF TypeOK
<1>6. /\ CutTo(frames', frames, fp) /\ CutTo(base', base, fp)
      /\ fp \in 1 .. fp /\ hp - 1 \in 0 .. hp /\ base[fp] <= sp'
  BY <1>1, <1>2, <1>4 DEF CutTo, FramesNested
<1>7. \A j \in 1 .. hp - 1 : /\ handlers[j].fp <= fp
                             /\ handlers[j].fp = fp => handlers[j].sp <= sp'
  BY <1>2, <1>4 DEF HandlersNested
<1>8. CInv'
  BY <1>1, <1>3, <1>5, <1>6, <1>7, CutBack
<1> QED
  BY <1>2, <1>4, <1>8

\* What raise_exception leaves: the handler's frame, its operands, and the
\* handlers below it.
LEMMA RaiseUnwinds ==
  ASSUME CInv, Fetch, NEW k \in Nat, Operands(k), NEW v, hp # 0,
         raise_exception(v, Drop(stack, k))
  PROVE  /\ handlers[hp].fp \in 1 .. fp /\ Top(handlers) = handlers[hp] /\ hp >= 1
         /\ frames' \in Seq(Frame) /\ CutTo(frames', frames, handlers[hp].fp)
         /\ base' \in Seq(Nat) /\ CutTo(base', base, handlers[hp].fp)
         /\ handlers' \in Seq(Handler) /\ CutTo(handlers', handlers, hp - 1)
         /\ handlers[hp].sp \in 0 .. sp - k
         /\ stack' \in Seq(Value) /\ sp' = handlers[hp].sp
         /\ pc' = handlers[hp].catchPC /\ status' = status
<1>1. /\ status = "run" /\ sp \in Nat /\ stack \in Seq(Value) /\ Len(stack) = sp
      /\ Drop(stack, k) \in Seq(Value) /\ Len(Drop(stack, k)) = sp - k
      /\ Floor(base, handlers) \in Nat /\ sp - k >= Floor(base, handlers) /\ k \in 0 .. sp
  BY OwnOperands
<1>2. /\ TypeOK /\ FramesNested /\ HandlersNested /\ fp \in Nat /\ hp \in Nat
      /\ Len(handlers) = hp /\ Len(frames) = fp /\ Len(base) = fp
      /\ handlers \in Seq(Handler) /\ frames \in Seq(Frame) /\ base \in Seq(Nat)
      /\ \A j \in 1 .. hp : handlers[j].sp \in Nat /\ handlers[j].fp \in 1 .. fp
  BY <1>1, RunTyped DEF TypeOK
<1>3. hp >= 1 /\ hp \in 1 .. hp /\ Top(handlers) = handlers[hp]
  BY <1>2 DEF Top
<1>4. PICK h : h = handlers[hp]
  OBVIOUS
<1>5. h.fp \in 1 .. fp /\ h.sp \in Nat /\ h.sp <= Floor(base, handlers)
  BY <1>1, <1>2, <1>3, <1>4, FloorOwned
<1>6. h.sp \in 0 .. sp - k /\ h.fp \in 0 .. Len(frames) /\ h.fp \in 0 .. Len(base)
      /\ 1 \in 0 .. Len(handlers)
  BY <1>1, <1>2, <1>3, <1>5, SMTT(30)
<1>7. /\ handlers' = Drop(handlers, 1) /\ stack' = Unwind(Drop(stack, k), h.sp)
      /\ frames' = Unwind(frames, h.fp) /\ base' = Take(base, h.fp)
      /\ pc' = h.catchPC /\ status' = status
  BY <1>3, <1>4 DEF raise_exception
<1>8. handlers' \in Seq(Handler) /\ CutTo(handlers', handlers, hp - 1)
  BY <1>2, <1>6, <1>7, DropIs DEF CutTo
<1>9. frames' \in Seq(Frame) /\ CutTo(frames', frames, h.fp)
  BY <1>2, <1>6, <1>7, UnwindIs DEF CutTo
<1>10. base' \in Seq(Nat) /\ CutTo(base', base, h.fp)
  BY <1>2, <1>6, <1>7, TakeIs, ZenonT(30) DEF CutTo
<1>11. stack' \in Seq(Value) /\ sp' = h.sp
  BY <1>1, <1>6, <1>7, UnwindIs DEF sp
<1> QED
  BY <1>3, <1>4, <1>5, <1>6, <1>7, <1>8, <1>9, <1>10, <1>11

\* A raise unwinds to the innermost handler, or ends the run.
LEMMA RaisePreserves ==
  ASSUME CInv, Fetch, NEW k \in Nat, Operands(k), NEW v \in Value, RaiseOrDie(v, k)
  PROVE  CInv' /\ sp' <= sp + 1
<1>1. /\ status = "run" /\ TypeOK /\ FramesNested /\ HandlersNested
      /\ sp \in Nat /\ fp \in Nat /\ hp \in Nat
      /\ \A j \in 1 .. hp : handlers[j].sp \in Nat /\ handlers[j].fp \in 1 .. fp
  BY RunTyped DEF Fetch
<1>2. CASE Abort("uncaught")
  <2>1. "uncaught" \in Faults /\ LocalsTyped'
    BY <1>1, <1>2 DEF Faults, TypeOK, Abort, LocalsTyped
  <2>2. CInv' /\ sp' = sp
    BY <1>1, <1>2, <2>1, AbortPreserves DEF Abort, AbortWith, sp
  <2> QED
    BY <1>1, <2>2
<1>3. CASE hp # 0 /\ raise_exception(v, Drop(stack, k))
  <2>1. /\ handlers[hp].fp \in 1 .. fp /\ hp >= 1
        /\ frames' \in Seq(Frame) /\ CutTo(frames', frames, handlers[hp].fp)
        /\ base' \in Seq(Nat) /\ CutTo(base', base, handlers[hp].fp)
        /\ handlers' \in Seq(Handler) /\ CutTo(handlers', handlers, hp - 1)
        /\ handlers[hp].sp \in 0 .. sp - k
        /\ stack' \in Seq(Value) /\ sp' = handlers[hp].sp
        /\ pc' = handlers[hp].catchPC /\ status' = status
    BY <1>3, RaiseUnwinds
  <2>2. LocalsTyped'
    BY <1>1, <1>3 DEF raise_exception, Caught, TypeOK, LocalsTyped
  <2>3. pc' \in 0 .. CodeEnd
    BY <1>1, <2>1, Typed
  <2>4. TypeOK'
    <3>1. sp' <= StackMax /\ fp' <= FrameMax /\ hp' <= HandlerMax
      <4>1. fp' = handlers[hp].fp /\ hp' = hp - 1
        BY <2>1 DEF CutTo, fp, hp
      <4>2. /\ sp <= StackMax /\ fp <= FrameMax /\ hp <= HandlerMax
            /\ StackMax \in Nat /\ FrameMax \in Nat /\ HandlerMax \in Nat
        BY <1>1, BytecodeAssumption DEF TypeOK
      <4>3. sp' <= StackMax
        BY <1>1, <2>1, <4>2, SMTT(30)
      <4>4. fp' <= FrameMax
        BY <1>1, <2>1, <4>1, <4>2, SMTT(30)
      <4>5. hp' <= HandlerMax
        BY <1>1, <4>1, <4>2
      <4> QED
        BY <4>3, <4>4, <4>5
    <3> QED
      BY <1>1, <2>1, <2>2, <2>3, <3>1 DEF TypeOK, LocalsTyped
  <2>5. hp \in 1 .. hp /\ base[handlers[hp].fp] <= sp'
    <3>1. hp \in 1 .. hp
      BY <1>1, <2>1
    <3>2. base[handlers[hp].fp] <= handlers[hp].sp
      BY <1>1, <3>1, HandlerOwned
    <3> QED
      BY <2>1, <3>1, <3>2
  <2>6. \A j \in 1 .. hp - 1 : /\ handlers[j].fp <= handlers[hp].fp
                               /\ handlers[j].sp <= sp'
    <3> TAKE j \in 1 .. hp - 1
    <3>1. j \in 1 .. hp /\ j <= hp /\ HandlersNested
      BY <1>1
    <3>2. handlers[j].fp <= handlers[hp].fp /\ handlers[j].sp <= handlers[hp].sp
      BY <2>5, <3>1, HandlersOrdered
    <3> QED
      BY <2>1, <3>2
  <2>7. CInv'
    <3>1. PICK m \in 1 .. fp : m = handlers[hp].fp
      BY <2>1
    <3>2. PICK q \in 0 .. hp : q = hp - 1
      BY <1>1, <2>1
    <3> QED
      BY <1>1, <2>1, <2>4, <2>5, <2>6, <3>1, <3>2, CutBack
  <2> QED
    BY <1>1, <2>1, <2>7
<1> QED
  BY <1>2, <1>3 DEF RaiseOrDie

\* The exception instructions together.
LEMMA TriesPreserve ==
  ASSUME CInv, Tries
  PROVE  CInv' /\ sp' <= sp + 1
<1>1. CASE \E s \in NoSlot .. LocalsMax, c \in 0 .. CodeEnd : TryPush(s, c)
  BY <1>1, TryPushPreserves
<1>2. CASE TryPop
  BY <1>2, TryPopPreserves
<1>3. CASE Throw
  <2>1. Fetch /\ Operands(1) /\ RaiseOrDie(Top(stack), 1)
    BY <1>3 DEF Throw
  <2>2. 1 \in 0 .. sp /\ stack \in Seq(Value) /\ Len(stack) = sp
    BY <2>1, OwnOperands
  <2>3. PICK v \in Value : v = Top(stack)
    BY <2>2 DEF Top
  <2> QED
    BY <2>1, <2>3, RaisePreserves
<1>4. CASE \E m \in Plain \ Falsy : AssertFails(m) \/ UnwrapFails(m)
  BY <1>4, RaisePreserves, NullValue DEF AssertFails, UnwrapFails
<1> QED
  BY <1>1, <1>2, <1>3, <1>4 DEF Tries

\* One instruction of the C VM preserves the invariant and grows the operand
\* stack by at most one.
LEMMA StepPreserves ==
  ASSUME CInv, Next
  PROVE  CInv' /\ sp' <= sp + 1
<1>1. CASE Overflow \/ RuntimeError \/ Halt \/ Ended
  <2>1. stack' = stack
    BY <1>1 DEF Overflow, RuntimeError, Halt, Ended, Abort, AbortWith, cvars
  <2>2. sp' = sp /\ sp \in Nat
    BY <2>1 DEF sp, CInv, TypeOK
  <2> QED
    BY <1>1, <2>2, QuietPreserves
<1>2. CASE \E k \in 0 .. MaxPops, r \in {<<>>} \cup {<<v>> : v \in Plain} : Compute(k, r)
  BY <1>2, ComputePreserves
<1>3. CASE Values
  BY <1>3, LoadPreserves, StorePreserves DEF Values
<1>4. CASE Calls
  BY <1>4, MakeClosurePreserves, CallPreserves, CallValuePreserves, ReturnPreserves DEF Calls
<1>5. CASE Tries
  BY <1>5, TriesPreserve
<1> QED
  BY <1>1, <1>2, <1>3, <1>4, <1>5 DEF Next

\* The invariant holds when run_program enters its loop.
LEMMA InitCInv == Init => CInv
<1> SUFFICES ASSUME Init
             PROVE  CInv
  OBVIOUS
<1>1. /\ StackMax \in Nat /\ LocalsMax \in Nat /\ FrameMax \in Nat /\ FrameMax >= 2
      /\ HandlerMax \in Nat /\ NLocals[0] \in Nat /\ NLocals[0] <= LocalsMax
      /\ 0 \in Funcs /\ CodeEnd \in Nat
  BY BytecodeAssumption DEF Funcs, CodeEnd
<1>2. PICK fr : fr = [retpc |-> -1, locals_base |-> 0, nlocals |-> NLocals[0], fn |-> 0]
  OBVIOUS
<1>3. fr \in Frame /\ fr.locals_base = 0 /\ fr.nlocals = NLocals[0] /\ fr.retpc = -1
  BY <1>1, <1>2, FrameMade
<1>4. /\ stack = <<>> /\ frames = <<fr>> /\ handlers = <<>> /\ base = <<0>>
      /\ pc \in 0 .. CodeEnd /\ status = "run"
      /\ locals_stack = [i \in 0 .. LocalsMax - 1 |-> Null]
      /\ unset = 0 .. LocalsMax - 1
  BY <1>1, <1>2, BodyRange DEF Init
<1>5. /\ frames \in Seq(Frame) /\ fp = 1 /\ frames[1] = fr /\ sp = 0 /\ hp = 0
      /\ Len(base) = 1 /\ base[1] = 0 /\ base \in Seq(Nat)
      /\ stack \in Seq(Value) /\ handlers \in Seq(Handler)
  BY <1>3, <1>4 DEF fp, sp, hp
<1>6. locals_stack \in [0 .. LocalsMax - 1 -> Value]
  BY <1>4, NullValue
<1>7. TypeOK
  BY <1>1, <1>4, <1>5, <1>6 DEF TypeOK
<1>8. FramesNested
  BY <1>1, <1>3, <1>5 DEF FramesNested
<1>9. HandlersNested
  BY <1>5 DEF HandlersNested
<1> QED
  BY <1>7, <1>8, <1>9 DEF CInv

\* The invariant speaks of the variables of the C VM only.
LEMMA StutterCInv == CInv /\ UNCHANGED cvars => CInv'
  BY DEF CInv, cvars, TypeOK, sp, fp, hp, FramesNested, HandlersNested

\* Every step preserves the invariant.
LEMMA NextCInv == CInv /\ [Next]_cvars => CInv'
  BY StepPreserves, StutterCInv

\* The stacks of the C VM are nested in every reachable state.
THEOREM EngineInvariance == Spec => []CInv
  BY InitCInv, NextCInv, PTL DEF Spec

\* Every stack of the C VM stays typed and inside its array: no program makes
\* the loop write past the static arrays (main.c:57-63).
THEOREM EngineTypes == Spec => []TypeOK
<1>1. CInv => TypeOK
  BY DEF CInv
<1> QED
  BY <1>1, EngineInvariance, PTL

\* The regions of locals_stack that active frames use follow one another and
\* end inside the array, after any calls, returns and raises (main.c:564-572).
THEOREM RegionsDisjoint == Spec => []LocalsRegionsDisjoint
<1>1. CInv => LocalsRegionsDisjoint
  <2> SUFFICES ASSUME CInv, status = "run"
               PROVE  LocalsRegionsDisjoint
    BY DEF LocalsRegionsDisjoint
  <2> QED
    BY RunTyped DEF FramesNested, LocalsRegionsDisjoint
<1> QED
  BY <1>1, EngineInvariance, PTL

\* Each handler belongs to an active frame and restores a depth of operands
\* that its frame owns: raise_exception never cuts into, nor leaves garbage on,
\* the operands of the frame that catches (main.c:101-122).
THEOREM HandlersMatch == Spec => []HandlersMatchFrames
<1>1. CInv => HandlersMatchFrames
  <2> SUFFICES ASSUME CInv, status = "run"
               PROVE  HandlersMatchFrames
    BY DEF HandlersMatchFrames
  <2>1. HandlersNested /\ hp \in Nat /\ fp \in Nat
        /\ \A j \in 1 .. hp : handlers[j].fp \in 1 .. fp
    BY RunTyped
  <2>2. \A j \in 1 .. hp - 1 : j \in 1 .. hp /\ j + 1 \in 1 .. hp /\ j <= j + 1
    BY <2>1
  <2> QED
    BY <2>1, <2>2 DEF HandlersNested, HandlersMatchFrames
<1> QED
  BY <1>1, EngineInvariance, PTL

-----------------------------------------------------------------------------
(* The Go VM's operand stack.                                              *)

\* With three free places below its last length, doubling a slice of at least
\* four leaves three free places above one more push.
LEMMA DoublingMakesRoom ==
  ASSUME NEW i \in Nat, NEW l \in Nat, NEW j \in Nat, NEW l2 \in Int,
         4 <= StackInit, StackInit \in Nat, StackMax \in Nat,
         StackInit <= l, l <= StackMax, i <= l, l < StackMax => i + 3 <= l,
         j <= i + 1, j <= StackMax,
         l2 = IF i + 4 > l THEN (IF 2 * l > StackMax THEN StackMax ELSE 2 * l) ELSE l
  PROVE  /\ StackInit <= l2 /\ l2 <= StackMax /\ j <= l2
         /\ l2 < StackMax => j + 3 <= l2
<1>1. CASE i + 4 > l /\ 2 * l > StackMax
  BY <1>1
<1>2. CASE i + 4 > l /\ ~(2 * l > StackMax)
  BY <1>2
<1>3. CASE ~(i + 4 > l)
  BY <1>3
<1> QED
  BY <1>1, <1>2, <1>3

\* Each iteration of the Go loop, which grows the slice at most once, keeps it.
LEMMA HeadroomKept ==
  ASSUME PInv, ParityNext
  PROVE  PInv'
<1>1. CInv /\ CInv' /\ sp' <= sp + 1
  BY StepPreserves DEF PInv, ParityNext
<1>a. sp \in Nat /\ sp' \in Nat /\ sp' <= StackMax
  BY <1>1 DEF CInv, TypeOK, sp
<1>2. /\ slen \in StackInit .. StackMax /\ sp <= slen
      /\ slen < StackMax => sp + 3 <= slen
      /\ StackInit \in Nat /\ StackInit >= 4 /\ StackMax \in Nat
  BY BytecodeAssumption DEF PInv, Headroom
<1>3. CASE status = "run"
  <2>1. slen' = IF sp + 4 > slen
                THEN (IF 2 * slen > StackMax THEN StackMax ELSE 2 * slen) ELSE slen
    BY <1>3 DEF ParityNext, G!Full, G!Doubled, G!sp, sp
  <2>2. Headroom'
    <3>1. /\ slen' \in StackInit .. StackMax /\ sp' <= slen'
          /\ slen' < StackMax => sp' + 3 <= slen'
      <4>1. PICK l2 : l2 = slen'
        OBVIOUS
      <4>a. PICK i \in Nat, j \in Nat, l \in Nat : i = sp /\ j = sp' /\ l = slen
        BY <1>a, <1>2
      <4>2. l2 = IF i + 4 > l THEN (IF 2 * l > StackMax THEN StackMax ELSE 2 * l) ELSE l
        BY <2>1, <4>a, <4>1
      <4>3. l2 \in Int
        BY <1>2, <4>2
      <4>4. /\ StackInit \in Nat /\ StackMax \in Nat /\ 4 <= StackInit
            /\ StackInit <= l /\ l <= StackMax /\ i <= l /\ (l < StackMax => i + 3 <= l)
        BY <1>2, <4>a, <4>1
      <4>5. j <= i + 1 /\ j <= StackMax
        BY <1>1, <1>a, <4>a, <4>1
      <4>6. /\ StackInit <= l2 /\ l2 <= StackMax /\ j <= l2
            /\ l2 < StackMax => j + 3 <= l2
        BY <4>2, <4>3, <4>4, <4>5, DoublingMakesRoom
      <4>7. slen' \in StackInit .. StackMax
        BY <4>a, <4>1, <4>3, <4>4, <4>6
      <4>8. sp' <= slen'
        BY <4>a, <4>1, <4>6
      <4>9. slen' < StackMax => sp' + 3 <= slen'
        BY <4>a, <4>1, <4>6
      <4> QED
        BY <4>7, <4>8, <4>9
    <3> QED
      BY <3>1 DEF Headroom
  <2> QED
    BY <1>1, <2>2 DEF PInv
<1>4. CASE status # "run"
  <2>1. UNCHANGED cvars
    BY <1>4 DEF ParityNext, Next, Overflow, RuntimeError, Halt, Ended, Compute, Values, Load,
         Store, Calls, MakeClosure, Call, CallValue, Return, Tries, TryPush, TryPop, Throw,
         AssertFails, UnwrapFails, Fetch
  <2>2. sp' = sp /\ slen' = slen
    BY <1>4, <2>1 DEF cvars, sp, ParityNext
  <2> QED
    BY <1>1, <2>2 DEF PInv, Headroom
<1> QED
  BY <1>3, <1>4

\* Both parts of the invariant hold in every state of the two engines.
LEMMA ParityInvariance == ParitySpec => []PInv
<1>1. ParityInit => PInv
  <2> SUFFICES ASSUME ParityInit
               PROVE  PInv
    OBVIOUS
  <2>1. CInv /\ sp = 0 /\ slen = StackInit
    BY InitCInv DEF ParityInit, Init, sp
  <2> QED
    BY <2>1, BytecodeAssumption DEF PInv, Headroom
<1>2. PInv /\ [ParityNext]_pvars => PInv'
  <2> SUFFICES ASSUME PInv, [ParityNext]_pvars
               PROVE  PInv'
    OBVIOUS
  <2>1. CASE UNCHANGED pvars
    <3>1. CInv' /\ slen' = slen /\ stack' = stack
      BY <2>1, StutterCInv DEF PInv, pvars, cvars
    <3> QED
      BY <3>1 DEF PInv, Headroom, sp
  <2> QED
    BY <2>1, HeadroomKept
<1> QED
  BY <1>1, <1>2, PTL DEF ParitySpec

\* The operands always fit the Go VM's slice, whatever the program: the single
\* growStack per iteration is enough for the unchecked pushes of the
\* instruction, and the slice never outgrows the C VM's array
\* (main.go:1188-1193).
THEOREM GoStackFits == ParitySpec => []StackFits
<1>1. PInv => StackFits
  BY BytecodeAssumption DEF PInv, Headroom, StackFits
<1> QED
  BY <1>1, ParityInvariance, PTL

-----------------------------------------------------------------------------
(* The C VM implements the Go VM.                                          *)

\* A frame of the Go VM, with locals of its own.
GoFrame == [retpc : Int, fn : Int, localsBase : Int,
            locals : UNION {[0 .. k - 1 -> Value] : k \in Nat}]

\* The Go VM's frame for a frame of the C VM.
GoFrameOf(fr) == [retpc |-> fr.retpc, fn |-> fr.fn, localsBase |-> fr.locals_base,
                  locals |-> Region(fr)]

\* What the Go VM holds for a slot of locals_stack is a value.
LEMMA LocalTyped ==
  ASSUME TypeOK, NEW i \in 0 .. LocalsMax - 1
  PROVE  Local(i) \in Value
  BY BytecodeAssumption DEF Local, TypeOK, Value

\* The region of an active frame lies inside locals_stack.
LEMMA RegionInside ==
  ASSUME CInv, status = "run", NEW i \in 1 .. fp
  PROVE  /\ frames[i].nlocals \in Nat /\ frames[i].locals_base \in Nat
         /\ \A s \in 0 .. frames[i].nlocals - 1 :
              frames[i].locals_base + s \in 0 .. LocalsMax - 1
         /\ GoFrameOf(frames[i]) \in GoFrame
<1>1. /\ frames[i] \in Frame /\ FramesNested /\ LocalsMax \in Nat
      /\ locals_stack \in [0 .. LocalsMax - 1 -> Value]
  BY RunTyped, BytecodeAssumption DEF TypeOK
<1>2. /\ frames[i].nlocals \in Nat /\ frames[i].locals_base \in Nat
      /\ frames[i].retpc \in Int /\ frames[i].fn \in Int
  BY <1>1, FrameFields DEF Funcs
<1>3. frames[i].locals_base + frames[i].nlocals <= LocalsMax
  BY <1>1 DEF FramesNested
<1>4. \A s \in 0 .. frames[i].nlocals - 1 : frames[i].locals_base + s \in 0 .. LocalsMax - 1
  <2> DEFINE b == frames[i].locals_base
             n == frames[i].nlocals
  <2>1. b \in Nat /\ n \in Nat /\ b + n <= LocalsMax /\ LocalsMax \in Nat
    BY <1>1, <1>2, <1>3
  <2> HIDE DEF b, n
  <2>2. \A s \in 0 .. n - 1 : b + s \in 0 .. LocalsMax - 1
    BY <2>1
  <2> QED BY <2>2 DEF b, n
<1>5. Region(frames[i]) \in [0 .. frames[i].nlocals - 1 -> Value]
  BY <1>1, <1>4, RunTyped, LocalTyped DEF Region
<1>6. GoFrameOf(frames[i]) \in GoFrame
  BY <1>2, <1>5, SMTT(30) DEF GoFrame, GoFrameOf
<1> QED
  BY <1>2, <1>4, <1>6

\* The mapped frames are a sequence of Go frames, one for each C frame.
LEMMA GoFramesAre ==
  ASSUME CInv, status = "run"
  PROVE  /\ GoFrames \in Seq(GoFrame) /\ Len(GoFrames) = fp
         /\ \A i \in 1 .. fp : GoFrames[i] = GoFrameOf(frames[i])
<1>1. fp \in Nat /\ DOMAIN frames = 1 .. fp
  BY RunTyped DEF TypeOK, fp
<1>2. GoFrames = [i \in 1 .. fp |-> GoFrameOf(frames[i])]
  BY <1>1 DEF GoFrames, GoFrameOf
<1>3. \A i \in 1 .. fp : GoFrameOf(frames[i]) \in GoFrame
  BY RegionInside
<1>4. GoFrames \in [1 .. fp -> GoFrame]
  BY <1>2, <1>3
<1> QED
  BY <1>1, <1>2, <1>4

\* What the Go VM reads of its top frame.
LEMMA GoTop ==
  ASSUME CInv, status = "run"
  PROVE  /\ G!Top(GoFrames) = GoFrameOf(frames[fp])
         /\ G!fn = fn /\ G!NextLocalsBase = NextBase
         /\ G!Top(GoFrames).retpc = Top(frames).retpc
         /\ DOMAIN G!Top(GoFrames).locals = 0 .. NLocals[fn] - 1
         /\ \A s \in 0 .. NLocals[fn] - 1 : G!Top(GoFrames).locals[s] = Local(Slot(s))
<1>1. G!Top(GoFrames) = GoFrameOf(frames[fp])
  BY RunTyped, GoFramesAre DEF G!Top
<1>2. /\ Top(frames) = frames[fp] /\ fn = frames[fp].fn /\ Top(frames).nlocals = NLocals[fn]
      /\ NextBase = frames[fp].locals_base + frames[fp].nlocals
  BY CurrentFunction
<1>3. /\ GoFrameOf(frames[fp]).retpc = frames[fp].retpc
      /\ GoFrameOf(frames[fp]).fn = frames[fp].fn
      /\ GoFrameOf(frames[fp]).localsBase = frames[fp].locals_base
      /\ GoFrameOf(frames[fp]).locals = Region(frames[fp])
  BY DEF GoFrameOf
<1>4. G!fn = fn /\ G!NextLocalsBase = NextBase
  BY <1>1, <1>2, <1>3 DEF G!fn, G!NextLocalsBase
<1> QED
  BY <1>1, <1>2, <1>3, <1>4 DEF Region, Slot

\* The headroom check of both VMs stops the same instruction.
LEMMA GoFetches ==
  ASSUME PInv, status = "run", slen' = IF status = "run" /\ G!Full THEN G!Doubled ELSE slen
  PROVE  /\ Fetch => G!Fetch
         /\ Overflow => G!Overflow
<1>1. /\ sp \in Nat /\ slen \in Nat /\ StackMax \in Nat /\ 4 <= slen /\ slen <= StackMax
      /\ slen < StackMax => sp + 3 <= slen
  BY BytecodeAssumption, RunTyped, SMTT(30) DEF PInv, Headroom
<1>2. /\ G!Full <=> sp + 4 > slen
      /\ G!Doubled = IF 2 * slen > StackMax THEN StackMax ELSE 2 * slen
  BY DEF G!Full, G!Doubled, G!sp, sp
<1>3. (G!Full /\ G!Doubled = slen) <=> sp > StackMax - 4
  <2>1. ASSUME sp > StackMax - 4
        PROVE  G!Full /\ G!Doubled = slen
    <3>1. slen = StackMax
      BY <1>1, <2>1
    <3> QED
      BY <1>1, <1>2, <2>1, <3>1
  <2>2. ASSUME ~(sp > StackMax - 4), G!Full, G!Doubled = slen
        PROVE  FALSE
    <3>1. sp + 4 > slen /\ sp + 4 <= StackMax
      BY <1>1, <1>2, <2>2
    <3>2. slen # StackMax /\ slen # 2 * slen
      BY <1>1, <3>1
    <3> QED
      BY <1>2, <2>2, <3>2
  <2> QED
    BY <2>1, <2>2
<1>4. (sp <= StackMax - 4) <=> ~(sp > StackMax - 4)
  BY <1>1
<1>5. Fetch => G!Fetch
  BY <1>3, <1>4 DEF Fetch, G!Fetch
<1>6. Overflow => G!Overflow
  <2> SUFFICES ASSUME Overflow
               PROVE  G!Overflow
    OBVIOUS
  <2>1. slen' = slen /\ G!Full /\ G!Doubled = slen
    BY <1>3 DEF Overflow
  <2>2. UNCHANGED GoFrames
    BY DEF Overflow, GoFrames, Region, Local
  <2> QED
    BY <2>1, <2>2 DEF Overflow, G!Overflow
<1> QED
  BY <1>5, <1>6

\* Both VMs find the same operands.
LEMMA GoOperands ==
  ASSUME NEW k
  PROVE  Operands(k) <=> G!Operands(k)
  BY DEF Operands, G!Operands, Floor, G!Floor, Top, G!Top, sp, G!sp

\* The operators of Bytecode mean the same on both sides of the mapping.
LEMMA SameSequences ==
  ASSUME NEW s, NEW k
  PROVE  G!Drop(s, k) = Drop(s, k) /\ G!Take(s, k) = Take(s, k) /\ G!Tail2(s, k) = Tail2(s, k) /\ G!Top(s) = Top(s)
  BY DEF G!Drop, Drop, G!Take, Take, G!Tail2, Tail2, G!Top, Top

\* An instruction that stays in its frame advances to the same addresses.
LEMMA GoAdvances ==
  ASSUME CInv, status = "run", Advance
  PROVE  G!Advance
  BY GoTop DEF Advance, G!Advance, Body, G!Body

\* The step leaves the slot x of locals_stack as it is.
SameSlot(x) == locals_stack'[x] = locals_stack[x] /\ (x \in unset' <=> x \in unset)

\* Writes outside the active regions change no frame of the Go VM.
LEMMA GoFramesKept ==
  ASSUME CInv, status = "run", frames' = frames,
         \A i \in 1 .. fp : \A s \in 0 .. frames[i].nlocals - 1 :
           SameSlot(frames[i].locals_base + s)
  PROVE  GoFrames' = GoFrames
<1>1. DOMAIN frames = 1 .. fp
  BY RunTyped DEF TypeOK, fp
<1>2. \A i \in 1 .. fp : Region(frames[i])' = Region(frames[i])
  BY DEF SameSlot, Region, Local
<1> QED
  BY <1>1, <1>2 DEF GoFrames

\* slen grows as the Go VM grows it.
SliceGrows == slen' = IF status = "run" /\ G!Full THEN G!Doubled ELSE slen

\* Both VMs end with the same fault.
LEMMA GoAborts ==
  ASSUME CInv, status = "run", NEW why, AbortWith(why), GoFrames' = GoFrames
  PROVE  G!Abort(why)
  BY GoAdvances DEF AbortWith, G!Abort

\* The mapping reads frames and locals_stack only.
LEMMA UnchangedFrames ==
  ASSUME UNCHANGED <<frames, locals_stack, unset>>
  PROVE  GoFrames' = GoFrames
  BY DEF GoFrames, Region, Local

\* The instructions that write no local.
LEMMA GoSimpleSteps ==
  ASSUME PInv, SliceGrows, ~LoadsUnset
  PROVE  /\ RuntimeError => G!RuntimeError
         /\ Halt => G!Halt
         /\ Ended => G!Ended
         /\ \A k, r : Compute(k, r) => G!Compute(k, r)
         /\ \A s : Load(s) => G!Load(s)
         /\ \A f : MakeClosure(f) => G!MakeClosure(f)
         /\ TryPop => G!TryPop
<1>0. CInv
  BY DEF PInv
<1>1. ASSUME RuntimeError PROVE G!RuntimeError
  <2>1. Fetch /\ status = "run" /\ AbortWith("runtime error") /\ UNCHANGED <<frames, locals_stack, unset>>
    BY <1>1 DEF RuntimeError, Abort, AbortWith, Fetch
  <2> QED
    BY <1>0, <2>1, GoFetches, GoAborts, UnchangedFrames DEF SliceGrows, G!RuntimeError
<1>2. ASSUME Halt PROVE G!Halt
  <2>1. Fetch /\ status = "run" /\ UNCHANGED <<frames, locals_stack, unset>>
    BY <1>2 DEF Halt, Fetch
  <2> QED
    BY <1>2, <2>1, GoFetches, UnchangedFrames DEF SliceGrows, Halt, G!Halt
<1>3. ASSUME Ended PROVE G!Ended
  BY <1>3, UnchangedFrames DEF SliceGrows, Ended, G!Ended, cvars, G!gvars
<1>4. ASSUME NEW k, NEW r, Compute(k, r) PROVE G!Compute(k, r)
  <2>1. Fetch /\ status = "run" /\ UNCHANGED <<frames, locals_stack, unset>> /\ Advance
    BY <1>4 DEF Compute, Fetch
  <2>2. G!Fetch /\ G!Advance /\ GoFrames' = GoFrames
    BY <1>0, <2>1, GoFetches, GoAdvances, UnchangedFrames DEF SliceGrows
  <2> QED
    BY <1>4, <2>2, GoOperands, SameSequences DEF Compute, G!Compute
<1>5. ASSUME NEW s, Load(s) PROVE G!Load(s)
  <2>1. Fetch /\ status = "run" /\ UNCHANGED <<frames, locals_stack, unset>> /\ Advance
    BY <1>5 DEF Load, Fetch
  <2>2. G!Fetch /\ G!Advance /\ GoFrames' = GoFrames
    BY <1>0, <2>1, GoFetches, GoAdvances, UnchangedFrames DEF SliceGrows
  <2> QED
    <3>1. s \in 0 .. NLocals[fn] - 1 /\ stack' = Append(stack, locals_stack[Slot(s)])
          /\ Slot(s) \notin unset
      BY <1>5 DEF Load
    <3>2. Local(Slot(s)) = locals_stack[Slot(s)]
      BY <3>1 DEF Local
    <3>3. G!Top(GoFrames).locals[s] = locals_stack[Slot(s)]
          /\ s \in DOMAIN G!Top(GoFrames).locals
      BY <1>0, <2>1, <3>1, <3>2, GoTop
    <3>4. UNCHANGED <<handlers, status, base>>
      BY <1>5 DEF Load
    <3> QED
      BY <2>2, <3>1, <3>3, <3>4 DEF G!Load
<1>6. ASSUME NEW f, MakeClosure(f) PROVE G!MakeClosure(f)
  <2>1. Fetch /\ status = "run" /\ UNCHANGED <<frames, locals_stack, unset>> /\ Advance
    BY <1>6 DEF MakeClosure, Fetch
  <2>2. G!Fetch /\ G!Advance /\ GoFrames' = GoFrames
    BY <1>0, <2>1, GoFetches, GoAdvances, UnchangedFrames DEF SliceGrows
  <2> QED
    BY <1>6, <2>2, GoOperands, SameSequences DEF MakeClosure, G!MakeClosure
<1>7. ASSUME TryPop PROVE G!TryPop
  <2>1. Fetch /\ status = "run" /\ UNCHANGED <<frames, locals_stack, unset>> /\ Advance
    BY <1>7 DEF TryPop, Fetch
  <2>2. G!Fetch /\ G!Advance /\ GoFrames' = GoFrames
    BY <1>0, <2>1, GoFetches, GoAdvances, UnchangedFrames DEF SliceGrows
  <2> QED
    BY <1>7, <2>2, SameSequences DEF TryPop, G!TryPop, InOwnTry, G!InOwnTry
<1> QED
  BY <1>1, <1>2, <1>3, <1>4, <1>5, <1>6, <1>7

\* TRY_PUSH fills the handler stack of both on the same instruction.
LEMMA GoTryPush ==
  ASSUME PInv, SliceGrows, NEW s, NEW catch, TryPush(s, catch)
  PROVE  G!TryPush(s, catch)
<1>1. CInv /\ Fetch /\ status = "run" /\ UNCHANGED <<frames, locals_stack, unset>> /\ Advance
  BY DEF PInv, TryPush, Fetch, Abort, AbortWith
<1>2. G!Fetch /\ G!Advance /\ GoFrames' = GoFrames /\ Len(GoFrames) = fp /\ G!fn = fn
  BY <1>1, GoFetches, GoAdvances, UnchangedFrames, GoFramesAre, GoTop DEF SliceGrows
<1>3. s \in G!Slots(G!fn) /\ catch \in G!Body(G!fn)
  BY <1>2 DEF TryPush, Slots, G!Slots, Body, G!Body, NoSlot, G!NoSlot
<1>4. Abort("handler stack") => G!Abort("handler stack")
  BY <1>1, <1>2, GoAborts DEF Abort
<1> QED
  BY <1>2, <1>3, <1>4 DEF TryPush, G!TryPush, hp, sp, G!sp

\* The regions do not overlap: a store changes the top frame's locals only.
LEMMA GoStore ==
  ASSUME PInv, SliceGrows, NEW s, Store(s)
  PROVE  G!Store(s)
<1>1. /\ CInv /\ Fetch /\ status = "run" /\ frames' = frames /\ Advance /\ Operands(1)
      /\ s \in 0 .. NLocals[fn] - 1
      /\ locals_stack' = [locals_stack EXCEPT ![Slot(s)] = Top(stack)]
      /\ unset' = unset \ {Slot(s)}
  BY DEF PInv, Store, Fetch
<1>2. G!Fetch /\ G!Advance /\ s \in DOMAIN G!Top(GoFrames).locals
  BY <1>1, GoFetches, GoAdvances, GoTop DEF SliceGrows
<1>3. /\ fp \in Nat /\ fp >= 1 /\ fp \in 1 .. fp /\ DOMAIN frames = 1 .. fp /\ FramesNested
      /\ locals_stack \in [0 .. LocalsMax - 1 -> Value] /\ fp' = fp
  BY <1>1, RunTyped DEF TypeOK, fp
<1>4. /\ Slot(s) = frames[fp].locals_base + s /\ frames[fp].nlocals = NLocals[fn]
      /\ Slot(s) \in 0 .. LocalsMax - 1
  BY <1>1, CurrentFunction DEF Slot
<1>5. PICK v : v = Top(stack)
  OBVIOUS
<1>6. ASSUME NEW i \in 1 .. fp - 1
      PROVE  Region(frames[i])' = Region(frames[i])
  <2>1. i \in 1 .. fp /\ i < fp
    BY <1>3
  <2>2. /\ frames[i].nlocals \in Nat /\ frames[i].locals_base \in Nat
        /\ frames[fp].locals_base \in Nat
    BY <1>1, <1>3, <2>1, RegionInside
  <2>3. frames[i].locals_base + frames[i].nlocals <= frames[fp].locals_base
    BY <1>3, <2>1 DEF FramesNested
  <2>4. \A r \in 0 .. frames[i].nlocals - 1 : frames[i].locals_base + r # Slot(s)
    BY <1>1, <1>4, <2>2, <2>3
  <2>5. \A r \in 0 .. frames[i].nlocals - 1 :
          SameSlot(frames[i].locals_base + r)
    BY <1>1, <1>3, <2>4 DEF SameSlot
  <2> QED
    BY <1>1, <2>5 DEF SameSlot, Region, Local
<1>7. Region(frames[fp])' = [Region(frames[fp]) EXCEPT ![s] = v]
  <2>1. frames[fp].nlocals \in Nat /\ frames[fp].locals_base \in Nat
    BY <1>1, <1>3, RegionInside
  <2>2. \A r \in 0 .. frames[fp].nlocals - 1 :
          Local(frames[fp].locals_base + r)'
            = IF r = s THEN v ELSE Local(frames[fp].locals_base + r)
    <3> TAKE r \in 0 .. frames[fp].nlocals - 1
    <3>1. CASE r = s
      BY <1>1, <1>3, <1>4, <1>5, <3>1 DEF Local
    <3>2. CASE r # s
      <4>1. frames[fp].locals_base + r # Slot(s) /\ s \in Int
        BY <1>1, <1>4, <2>1, <3>2
      <4> QED
        BY <1>1, <1>3, <3>2, <4>1 DEF Local
    <3> QED
      BY <3>1, <3>2
  <2>3. s \in 0 .. frames[fp].nlocals - 1
    BY <1>1, <1>4
  <2>4. Region(frames[fp])' = [r \in 0 .. frames[fp].nlocals - 1 |->
                                 Local(frames[fp].locals_base + r)']
    BY <1>1, <1>3 DEF Region
  <2> QED
    BY <2>2, <2>3, <2>4 DEF Region
<1>8. GoFrames' = [GoFrames EXCEPT ![Len(GoFrames)].locals[s] = v]
  <2>1. Len(GoFrames) = fp /\ GoFrames = [i \in 1 .. fp |-> GoFrameOf(frames[i])]
    BY <1>1, <1>3, GoFramesAre DEF GoFrames, GoFrameOf
  <2>2. GoFrames' = [i \in 1 .. fp |-> GoFrameOf(frames[i])']
    BY <1>1, <1>3 DEF GoFrames, GoFrameOf
  <2>3. \A i \in 1 .. fp - 1 : GoFrameOf(frames[i])' = GoFrameOf(frames[i])
    BY <1>1, <1>6 DEF GoFrameOf
  <2>4. GoFrameOf(frames[fp])' = [GoFrameOf(frames[fp]) EXCEPT !.locals[s] = v]
    BY <1>1, <1>3, <1>7 DEF GoFrameOf
  <2>5. \A i \in 1 .. fp : i = fp \/ i \in 1 .. fp - 1
    BY <1>3
  <2>6. ASSUME NEW i \in 1 .. fp
        PROVE  GoFrameOf(frames[i])' = IF i = fp THEN [GoFrames[fp] EXCEPT !.locals[s] = v]
                                       ELSE GoFrames[i]
    <3>1. GoFrames[i] = GoFrameOf(frames[i])
      BY <2>1
    <3> QED
      BY <1>3, <2>3, <2>4, <2>5, <3>1
  <2>7. [GoFrames EXCEPT ![Len(GoFrames)].locals[s] = v]
          = [i \in 1 .. fp |-> IF i = fp THEN [GoFrames[fp] EXCEPT !.locals[s] = v]
                              ELSE GoFrames[i]]
    BY <1>3, <2>1
  <2> QED
    BY <2>2, <2>6, <2>7
<1> QED
  BY <1>1, <1>2, <1>5, <1>8, GoOperands, SameSequences DEF Store, G!Store

\* The regions of the active frames lie below the next one.
LEMMA RegionsBelow ==
  ASSUME CInv, status = "run", NEW i \in 1 .. fp
  PROVE  frames[i].locals_base + frames[i].nlocals <= NextBase
<1>1. /\ frames[i].nlocals \in Nat /\ frames[i].locals_base \in Nat
      /\ frames[fp].nlocals \in Nat /\ frames[fp].locals_base \in Nat
      /\ FramesNested /\ fp \in Nat /\ fp \in 1 .. fp
  BY RunTyped
<1>2. NextBase = frames[fp].locals_base + frames[fp].nlocals
  BY CurrentFunction
<1>3. CASE i = fp
  BY <1>1, <1>2, <1>3
<1>4. CASE i < fp
  <2>1. frames[i].locals_base + frames[i].nlocals <= frames[fp].locals_base
    BY <1>1, <1>4 DEF FramesNested
  <2> QED
    BY <1>1, <1>2, <2>1
<1> QED
  BY <1>1, <1>3, <1>4

\* The slots written for a callee lie above every active region.
LEMMA BindKeepsRegions ==
  ASSUME CInv, status = "run", NEW f \in Funcs, NEW vals, BindLocals(f, vals),
         NEW i \in 1 .. fp
  PROVE  \A s \in 0 .. frames[i].nlocals - 1 :
           SameSlot(frames[i].locals_base + s)
<1> TAKE s \in 0 .. frames[i].nlocals - 1
<1>1. /\ frames[i].nlocals \in Nat /\ frames[i].locals_base \in Nat
      /\ frames[i].locals_base + s \in 0 .. LocalsMax - 1
      /\ locals_stack \in [0 .. LocalsMax - 1 -> Value] /\ NextBase \in Int
  <2>1. /\ frames[i].nlocals \in Nat /\ frames[i].locals_base \in Nat
        /\ frames[i].locals_base + s \in 0 .. LocalsMax - 1
    BY RegionInside
  <2>2. locals_stack \in [0 .. LocalsMax - 1 -> Value]
    BY RunTyped DEF TypeOK
  <2>3. NextBase \in Int
    BY CurrentFunction
  <2> QED
    BY <2>1, <2>2, <2>3
<1>2. frames[i].locals_base + frames[i].nlocals <= NextBase
  BY RegionsBelow
<1>3. frames[i].locals_base + s < NextBase
  BY <1>1, <1>2
<1>4. PICK x : x = frames[i].locals_base + s
  OBVIOUS
<1>5. SameSlot(x)
  BY <1>1, <1>3, <1>4 DEF BindLocals, SameSlot
<1> QED
  BY <1>4, <1>5

\* The new region holds what Bind says: captures, arguments, and for the nulls
\* of the C VM the zeros of the Go VM.
LEMMA BindIsBind ==
  ASSUME CInv, status = "run", NEW f \in Funcs, NEW cap \in Seq(Value), NEW args \in Seq(Value),
         NextBase + NLocals[f] <= LocalsMax - 2, BindLocals(f, cap \o args),
         NEW fr, fr.locals_base = NextBase, fr.nlocals = NLocals[f]
  PROVE  Region(fr)' = G!Bind(f, cap, args)
<1>1. /\ NextBase \in Nat /\ LocalsMax \in Nat /\ NLocals[f] \in Nat
      /\ locals_stack \in [0 .. LocalsMax - 1 -> Value]
  BY CurrentFunction, RunTyped, BytecodeAssumption DEF TypeOK
<1>2. Len(cap \o args) = Len(cap) + Len(args) /\ Len(cap) \in Nat /\ Len(args) \in Nat
  BY ConcatIs
<1>3. ASSUME NEW s \in 0 .. NLocals[f] - 1
      PROVE  Local(fr.locals_base + s)'
               = IF s < Len(cap) + Len(args) THEN (cap \o args)[s + 1] ELSE Zero
  <2>1. PICK x : x = NextBase + s
    OBVIOUS
  <2>2. /\ x \in 0 .. LocalsMax - 1 /\ x - NextBase = s
        /\ ~(x < NextBase) /\ ~(x >= NextBase + NLocals[f])
    BY <1>1, <2>1
  <2>3. x \in DOMAIN locals_stack
    BY <1>1, <2>2
  <2>4. locals_stack'[x] = IF s < Len(cap \o args) THEN (cap \o args)[s + 1] ELSE Null
    BY <2>2, <2>3 DEF BindLocals
  <2>5. x \in unset' <=> s >= Len(cap \o args)
    BY <2>2, <2>3 DEF BindLocals
  <2>6. Local(x)' = IF s < Len(cap \o args) THEN (cap \o args)[s + 1] ELSE Zero
    <3>1. CASE s < Len(cap \o args)
      BY <1>2, <2>4, <2>5, <3>1 DEF Local
    <3>2. CASE ~(s < Len(cap \o args))
      BY <1>2, <2>4, <2>5, <3>2 DEF Local
    <3> QED
      BY <3>1, <3>2
  <2> QED
    BY <1>2, <2>1, <2>6
<1>4. Region(fr)' = [s \in 0 .. NLocals[f] - 1 |-> Local(fr.locals_base + s)']
  BY DEF Region
<1> QED
  BY <1>3, <1>4 DEF G!Bind

\* A call binds the same locals, and meets the same limit in the same order:
\* locals first, then frames. The C VM has already overwritten the free slots
\* when it finds the frames full; no frame can see them.
LEMMA GoEnter ==
  ASSUME CInv, CInv', status = "run", NEW f \in Funcs,
         NEW cap \in Seq(Value), NEW args \in Seq(Value), NEW STATE rest,
         Enter(f, cap \o args, rest)
  PROVE  G!Enter(f, cap, args, rest)
<1>0. /\ fp \in Nat /\ LocalsMax \in Nat /\ FrameMax \in Nat /\ NLocals[f] \in Nat
      /\ NextBase \in Nat /\ frames \in Seq(Frame) /\ G!NextLocalsBase = NextBase /\ G!fn = fn
      /\ Len(GoFrames) = fp /\ GoFrames \in Seq(GoFrame) /\ cap \o args \in Seq(Value)
  BY RunTyped, CurrentFunction, BytecodeAssumption, GoTop, GoFramesAre, ConcatIs DEF TypeOK
<1>1. CASE NextBase + NLocals[f] > LocalsMax - 2
  <2>1. AbortWith("locals stack") /\ UNCHANGED <<locals_stack, unset>>
    BY <1>1 DEF Enter, Abort
  <2>2. GoFrames' = GoFrames
    BY <2>1, UnchangedFrames DEF AbortWith
  <2>3. G!Abort("locals stack")
    BY <2>1, <2>2, GoAborts
  <2> QED
    BY <1>0, <1>1, <2>3 DEF G!Enter
<1>2. CASE ~(NextBase + NLocals[f] > LocalsMax - 2) /\ fp > FrameMax - 2
  <2>1. ~(fp <= FrameMax - 2)
    BY <1>0, <1>2
  <2>2. AbortWith("call stack") /\ BindLocals(f, cap \o args)
    BY <1>2, <2>1, Zenon DEF Enter
  <2>3. frames' = frames
    BY <2>2 DEF AbortWith
  <2>4. GoFrames' = GoFrames
    BY <2>2, <2>3, BindKeepsRegions, GoFramesKept
  <2>5. G!Abort("call stack")
    BY <2>2, <2>4, GoAborts
  <2> QED
    BY <1>0, <1>2, <2>5 DEF G!Enter
<1>3. CASE ~(NextBase + NLocals[f] > LocalsMax - 2) /\ ~(fp > FrameMax - 2)
  <2>1. /\ BindLocals(f, cap \o args) /\ stack' = rest /\ base' = Append(base, Len(rest))
        /\ pc' = Start(f) /\ UNCHANGED <<handlers, status>>
    BY <1>0, <1>3 DEF Enter
  <2>2. PICK ret \in Body(fn) :
          frames' = Append(frames, [retpc |-> ret, locals_base |-> NextBase,
                                    nlocals |-> NLocals[f], fn |-> f])
    BY <1>0, <1>3 DEF Enter
  <2>3. PICK fr : fr = [retpc |-> ret, locals_base |-> NextBase,
                        nlocals |-> NLocals[f], fn |-> f]
    OBVIOUS
  <2>4. fr.retpc = ret /\ fr.locals_base = NextBase /\ fr.nlocals = NLocals[f] /\ fr.fn = f
    BY <2>3
  <2>5. fp' = fp + 1 /\ frames'[fp + 1] = fr /\ \A i \in 1 .. fp : frames'[i] = frames[i]
    <3>1. fr \in Frame
      <4>1. ret \in -1 .. CodeEnd /\ NextBase \in 0 .. LocalsMax
        BY CurrentFunction, BytecodeAssumption, SMTT(30) DEF CodeEnd
      <4> QED
        BY <2>3, <4>1, FrameMade
    <3>2. Len(frames) = fp /\ frames' = Append(frames, fr)
      BY <2>2, <2>3 DEF fp
    <3> QED
      BY <1>0, <3>1, <3>2, AppendIs DEF fp
  <2>6. DOMAIN frames' = 1 .. fp + 1
    <3>1. frames' \in Seq(Frame) /\ Len(frames') = fp + 1
      BY <2>5 DEF CInv, TypeOK, fp
    <3> QED
      BY <3>1
  <2>7. \A i \in 1 .. fp : Region(frames[i])' = Region(frames[i])
    BY <2>1, <2>5, BindKeepsRegions DEF SameSlot, Region, Local
  <2>8. PICK g : g = [retpc |-> ret, fn |-> f, localsBase |-> NextBase,
                      locals |-> G!Bind(f, cap, args)]
    OBVIOUS
  <2>9. Region(fr)' = G!Bind(f, cap, args)
    <3>1. NextBase + NLocals[f] <= LocalsMax - 2
      BY <1>0, <1>3
    <3> QED
      BY <2>1, <2>4, <3>1, BindIsBind
  <2>10. GoFrames' = Append(GoFrames, g)
    <3>1. GoFrames' = [i \in 1 .. fp + 1 |-> GoFrameOf(frames[i])']
      BY <2>6 DEF GoFrames, GoFrameOf
    <3>2. ASSUME NEW i \in 1 .. fp
          PROVE  GoFrameOf(frames[i])' = GoFrames[i]
      <4>1. GoFrameOf(frames[i])' = GoFrameOf(frames[i])
        BY <2>5, <2>7 DEF GoFrameOf
      <4> QED
        BY <4>1, GoFramesAre
    <3>3. PICK m \in 1 .. fp + 1 : m = fp + 1
      BY <1>0
    <3>4. GoFrameOf(frames[m])' = g
      <4>1. frames'[m] = fr
        BY <2>5, <3>3
      <4>2. Region(frames[m])' = Region(fr)'
        BY <4>1 DEF Region
      <4> QED
        BY <2>4, <2>8, <2>9, <4>1, <4>2 DEF GoFrameOf
    <3>5. ASSUME NEW i \in 1 .. fp + 1
          PROVE  GoFrameOf(frames[i])' = IF i = fp + 1 THEN g ELSE GoFrames[i]
      <4>1. i = m \/ (i \in 1 .. fp /\ i # fp + 1)
        BY <1>0, <3>3
      <4> QED
        BY <3>2, <3>3, <3>4, <4>1
    <3>6. Append(GoFrames, g) = [i \in 1 .. fp + 1 |-> IF i = fp + 1 THEN g ELSE GoFrames[i]]
      <4>1. GoFrames \in Seq(GoFrame) /\ Len(GoFrames) = fp
        BY <1>0
      <4>2. Append(GoFrames, g) = [i \in 1 .. Len(GoFrames) + 1 |->
                                     IF i = Len(GoFrames) + 1 THEN g ELSE GoFrames[i]]
        BY <4>1, AppendBuilt, Zenon
      <4> QED
        BY <4>1, <4>2
    <3> QED
      BY <3>1, <3>5, <3>6
  <2>11. ret \in G!Body(G!fn) /\ pc' = G!Start(f)
    BY <1>0, <2>1 DEF G!Body, Body, G!Start, Start
  <2>12. \E r \in G!Body(G!fn) :
           GoFrames' = Append(GoFrames, [retpc |-> r, fn |-> f, localsBase |-> G!NextLocalsBase,
                                         locals |-> G!Bind(f, cap, args)])
    BY <1>0, <2>8, <2>10, <2>11
  <2> QED
    BY <1>0, <1>3, <2>1, <2>11, <2>12 DEF G!Enter
<1> QED
  BY <1>1, <1>2, <1>3

\* CALL passes its arguments alike.
LEMMA GoCall ==
  ASSUME PInv, CInv', SliceGrows, NEW f \in Funcs, Call(f)
  PROVE  G!Call(f)
<1>1. /\ CInv /\ Fetch /\ status = "run" /\ Operands(NParams[f]) /\ NCaptured[f] = 0
      /\ Enter(f, Tail2(stack, NParams[f]), Drop(stack, NParams[f])) /\ NParams[f] \in Nat
  BY BytecodeAssumption DEF PInv, Call, Fetch
<1>2. G!Fetch /\ G!Operands(NParams[f])
  BY <1>1, GoFetches, GoOperands DEF SliceGrows
<1>3. PICK args \in Seq(Value) : args = Tail2(stack, NParams[f])
  BY <1>1, OwnOperands
<1>4. PICK cap \in Seq(Value) : cap = <<>>
  <2>1. <<>> \in Seq(Value)
    BY EmptySeq
  <2> QED
    BY <2>1, Zenon
<1>5. cap \o args = args
  BY <1>4, ConcatEmptySeq
<1>6. Enter(f, cap \o args, Drop(stack, NParams[f]))
  BY <1>1, <1>3, <1>5
<1>7. G!Enter(f, cap, args, Drop(stack, NParams[f]))
  BY <1>1, <1>6, GoEnter
<1> QED
  BY <1>1, <1>2, <1>3, <1>4, <1>7, SameSequences DEF G!Call

\* So does CALL_VALUE, captures first.
LEMMA GoCallValue ==
  ASSUME PInv, CInv', SliceGrows, NEW k \in 0 .. MaxPops - 1, CallValue(k)
  PROVE  G!CallValue(k)
<1>1. /\ CInv /\ Fetch /\ status = "run" /\ Operands(k + 1) /\ k \in Nat /\ k + 1 \in Nat
  BY BytecodeAssumption DEF PInv, CallValue, Fetch
<1>2. G!Fetch /\ G!Operands(k + 1)
  BY <1>1, GoFetches, GoOperands DEF SliceGrows
<1>3. PICK v : v = stack[sp - k]
  OBVIOUS
<1>4. G!sp = sp /\ (v \in G!Closure <=> v \in Closure)
  BY DEF G!sp, sp, G!Closure, Closure
<1>5. CASE v \notin Closure
  <2>1. AbortWith("non-function") /\ UNCHANGED <<frames, locals_stack, unset>>
    BY <1>3, <1>5 DEF CallValue, Abort, AbortWith
  <2>2. G!Abort("non-function")
    BY <1>1, <2>1, UnchangedFrames, GoAborts, SMTT(30)
  <2> QED
    BY <1>2, <1>3, <1>4, <1>5, <2>2 DEF G!CallValue
<1>6. CASE v \in Closure
  <2>1. k = NParams[v.fn] /\ Enter(v.fn, v.cap \o Tail2(stack, k), Drop(stack, k + 1))
    BY <1>3, <1>6 DEF CallValue
  <2>2. v.fn \in Funcs /\ v.cap \in Seq(Value)
    BY <1>6, ClosureFields
  <2>3. PICK args \in Seq(Value) : args = Tail2(stack, k)
    <3>1. stack \in Seq(Value) /\ k + 1 \in 0 .. sp /\ Len(stack) = sp /\ sp \in Nat
      BY <1>1, OwnOperands
    <3>2. k \in 0 .. Len(stack)
      BY <1>1, <3>1
    <3> QED
      BY <3>1, <3>2, Tail2Is
  <2>4. G!Enter(v.fn, v.cap, args, Drop(stack, k + 1))
    BY <1>1, <2>1, <2>2, <2>3, GoEnter
  <2> QED
    BY <1>2, <1>3, <1>4, <1>6, <2>1, <2>3, <2>4, SameSequences DEF G!CallValue
<1> QED
  BY <1>5, <1>6

\* RET drops one frame, and its locals with it.
LEMMA GoReturn ==
  ASSUME PInv, SliceGrows, Return
  PROVE  G!Return
<1>1. /\ CInv /\ Fetch /\ status = "run" /\ frames' = Drop(frames, 1)
      /\ UNCHANGED <<locals_stack, unset, handlers>>
  BY DEF PInv, Return, Fetch
<1>2. G!Fetch
  BY <1>1, GoFetches DEF SliceGrows
<1>3. /\ fp \in Nat /\ fp >= 1 /\ frames \in Seq(Frame) /\ Len(frames) = fp
      /\ 1 \in 0 .. Len(frames)
  BY <1>1, RunTyped DEF TypeOK
<1>4. DOMAIN frames' = 1 .. fp - 1 /\ \A i \in 1 .. fp - 1 : frames'[i] = frames[i]
  <2>1. PICK rest : rest = Drop(frames, 1)
    OBVIOUS
  <2>2. rest \in Seq(Frame) /\ Len(rest) = fp - 1 /\ \A i \in 1 .. fp - 1 : rest[i] = frames[i]
    BY <1>3, <2>1, DropIs
  <2>3. frames' = rest
    BY <1>1, <2>1
  <2> QED
    BY <2>2, <2>3
<1>5. GoFrames' = [i \in 1 .. fp - 1 |-> GoFrames[i]]
  <2>1. GoFrames' = [i \in 1 .. fp - 1 |-> GoFrameOf(frames[i])']
    BY <1>4 DEF GoFrames, GoFrameOf
  <2>2. ASSUME NEW i \in 1 .. fp - 1
        PROVE  GoFrameOf(frames[i])' = GoFrames[i]
    <3>1. i \in 1 .. fp
      BY <1>3
    <3>2. GoFrameOf(frames[i])' = GoFrameOf(frames[i])
      BY <1>1, <1>4 DEF GoFrameOf, Region, Local
    <3> QED
      BY <1>1, <3>1, <3>2, GoFramesAre
  <2> QED
    BY <2>1, <2>2
<1>6. G!Drop(GoFrames, 1) = [i \in 1 .. fp - 1 |-> GoFrames[i]]
  <2>1. GoFrames \in Seq(GoFrame) /\ Len(GoFrames) = fp
    BY <1>1, GoFramesAre
  <2>2. fp - 1 \in 0 .. Len(GoFrames) /\ G!Drop(GoFrames, 1) = Take(GoFrames, fp - 1)
    BY <1>3, <2>1 DEF G!Drop, Take
  <2> QED
    BY <2>1, <2>2, TakeBuilt
<1>7. /\ G!Top(GoFrames).retpc = Top(frames).retpc /\ G!sp = sp /\ G!Top(base) = Top(base)
      /\ G!InOwnTry(base, handlers) <=> InOwnTry(base, handlers)
  BY <1>1, GoTop, SameSequences DEF G!sp, sp, G!InOwnTry, InOwnTry, G!Top, Top
<1> QED
  BY <1>1, <1>2, <1>5, <1>6, <1>7, SameSequences DEF Return, G!Return

\* raise_exception writes the caught value into the frame that catches.
LEMMA GoRaises ==
  ASSUME CInv, Fetch, NEW k \in Nat, Operands(k), NEW v, hp # 0,
         raise_exception(v, Drop(stack, k))
  PROVE  G!Raise(v, Drop(stack, k))
<1>1. /\ handlers[hp].fp \in 1 .. fp /\ Top(handlers) = handlers[hp] /\ hp >= 1
      /\ frames' \in Seq(Frame) /\ CutTo(frames', frames, handlers[hp].fp)
      /\ handlers[hp].sp \in 0 .. sp - k
  BY RaiseUnwinds
<1>2. PICK h : h = handlers[hp]
  OBVIOUS
<1>3. PICK m \in 1 .. fp : m = h.fp
  BY <1>1, <1>2
<1>4. /\ status = "run" /\ FramesNested /\ HandlersNested /\ fp \in Nat /\ hp \in Nat
      /\ locals_stack \in [0 .. LocalsMax - 1 -> Value]
  BY RunTyped DEF Fetch, TypeOK
<1>5. /\ handlers' = Drop(handlers, 1) /\ stack' = Unwind(Drop(stack, k), h.sp)
      /\ base' = Take(base, h.fp) /\ pc' = h.catchPC /\ UNCHANGED status
      /\ frames' = Unwind(frames, h.fp)
      /\ Caught(h, Top(frames').locals_base, v)
  BY <1>1, <1>2 DEF raise_exception
<1>6. DOMAIN frames' = 1 .. m /\ Top(frames') = frames[m] /\ \A i \in 1 .. m : frames'[i] = frames[i]
  BY <1>1, <1>2, <1>3, <1>4 DEF CutTo, Top
<1>7. stack' = IF h.sp <= Len(Drop(stack, k)) THEN Take(Drop(stack, k), h.sp) ELSE Drop(stack, k)
  <2>1. PICK left \in Seq(Value) : left = Drop(stack, k)
    BY OwnOperands
  <2>2. h.sp \in 0 .. Len(left)
    BY <1>1, <1>2, <2>1, OwnOperands
  <2>3. stack' = IF Len(left) > h.sp THEN Take(left, h.sp) ELSE left
    BY <1>5, <2>1 DEF Unwind
  <2>4. CASE Len(left) > h.sp
    BY <2>1, <2>2, <2>3, <2>4
  <2>5. CASE ~(Len(left) > h.sp)
    <3>1. h.sp = Len(left)
      BY <2>2, <2>5
    <3>2. Take(left, h.sp) = left
      <4>1. Take(left, h.sp) \in Seq(Value) /\ Len(Take(left, h.sp)) = Len(left)
            /\ \A i \in 1 .. Len(left) : Take(left, h.sp)[i] = left[i]
        BY <2>2, <3>1, TakeIs
      <4> QED
        BY <4>1, SeqEqual
    <3> QED
      BY <2>1, <2>2, <2>3, <2>5, <3>1, <3>2
  <2> QED
    BY <2>4, <2>5
<1>8. /\ frames[m].nlocals \in Nat /\ frames[m].locals_base \in Nat
      /\ \A s \in 0 .. frames[m].nlocals - 1 : frames[m].locals_base + s \in 0 .. LocalsMax - 1
  BY <1>4, RegionInside
<1>9. h.slot = NoSlot \/ h.slot \in 0 .. frames[m].nlocals - 1
  <2>1. hp \in 1 .. hp
    BY <1>1, <1>4
  <2>2. h.slot \in Slots(frames[m].fn)
    BY <1>2, <1>3, <1>4, <2>1 DEF HandlersNested
  <2>3. frames[m].nlocals = NLocals[frames[m].fn]
    BY <1>4, RunTyped, FrameFields
  <2> QED
    BY <2>2, <2>3 DEF Slots
<1>10. GoFrames' = [i \in 1 .. m |-> GoFrameOf(frames[i])']
  BY <1>6 DEF GoFrames, GoFrameOf
<1>11. \A i \in 1 .. m : i \in 1 .. fp /\ GoFrames[i] = GoFrameOf(frames[i])
  BY <1>4, GoFramesAre
<1>12. G!Take(GoFrames, h.fp) = [i \in 1 .. m |-> GoFrames[i]]
  <2>1. GoFrames \in Seq(GoFrame) /\ m \in 0 .. Len(GoFrames)
    BY <1>4, GoFramesAre
  <2>2. Take(GoFrames, m) = [i \in 1 .. m |-> GoFrames[i]]
    BY <2>1, TakeBuilt, Zenon
  <2>3. G!Take(GoFrames, m) = Take(GoFrames, m)
    BY SameSequences
  <2> QED
    BY <1>3, <2>2, <2>3
<1>13. GoFrames' = IF h.slot = NoSlot THEN G!Take(GoFrames, h.fp)
                   ELSE [G!Take(GoFrames, h.fp) EXCEPT ![h.fp].locals[h.slot] = v]
  <2>1. CASE h.slot = NoSlot
    <3>1. \A i \in 1 .. m : GoFrameOf(frames[i])' = GoFrameOf(frames[i])
      BY <1>5, <1>6, <2>1 DEF Caught, GoFrameOf, Region, Local
    <3> QED
      BY <1>10, <1>11, <1>12, <2>1, <3>1
  <2>2. CASE h.slot # NoSlot
    <3>1. /\ h.slot \in 0 .. frames[m].nlocals - 1
          /\ locals_stack' = [locals_stack EXCEPT ![frames[m].locals_base + h.slot] = v]
          /\ unset' = unset \ {frames[m].locals_base + h.slot}
      BY <1>5, <1>6, <1>9, <2>2 DEF Caught
    <3>2. ASSUME NEW i \in 1 .. m, i # m
          PROVE  GoFrameOf(frames[i])' = GoFrames[i]
      <4>0. i \in 1 .. fp /\ m \in 1 .. fp /\ i < m
        BY <1>3, <1>4, <3>2
      <4>1. frames[i].nlocals \in Nat /\ frames[i].locals_base \in Nat
        BY <1>4, <4>0, RegionInside
      <4>2. frames[i].locals_base + frames[i].nlocals <= frames[m].locals_base
        BY <1>4, <4>0 DEF FramesNested
      <4>3. \A r \in 0 .. frames[i].nlocals - 1 :
              frames[i].locals_base + r # frames[m].locals_base + h.slot
        BY <1>8, <3>1, <4>1, <4>2
      <4>4. \A r \in 0 .. frames[i].nlocals - 1 :
              SameSlot(frames[i].locals_base + r)
        BY <1>4, <3>1, <4>3 DEF SameSlot
      <4>5. Region(frames[i])' = Region(frames[i])
        BY <1>6, <4>4 DEF SameSlot, Region, Local
      <4> QED
        BY <1>6, <1>11, <4>5 DEF GoFrameOf
    <3>3. Region(frames[m])' = [Region(frames[m]) EXCEPT ![h.slot] = v]
      <4>0. PICK rb : rb = frames[m].locals_base
        OBVIOUS
      <4>1. \A r \in 0 .. frames[m].nlocals - 1 :
              Local(rb + r)' = IF r = h.slot THEN v ELSE Local(rb + r)
        <5> TAKE r \in 0 .. frames[m].nlocals - 1
        <5>0. rb \in Nat /\ r \in Int /\ h.slot \in Int
          BY <1>8, <3>1, <4>0
        <5>1. CASE r = h.slot
          <6>1. locals_stack'[rb + r] = v /\ rb + r \notin unset'
            BY <1>4, <1>8, <3>1, <4>0, <5>1
          <6> QED
            BY <5>1, <6>1 DEF Local
        <5>2. CASE r # h.slot
          <6>1. rb + r # rb + h.slot
            BY <5>0, <5>2
          <6>2. SameSlot(rb + r)
            BY <1>4, <1>8, <3>1, <4>0, <6>1 DEF SameSlot
          <6> QED
            BY <5>2, <6>2 DEF SameSlot, Local
        <5> QED
          BY <5>1, <5>2
      <4>2. Region(frames[m])' = [r \in 0 .. frames[m].nlocals - 1 |-> Local(rb + r)']
        BY <1>3, <1>6, <4>0 DEF Region
      <4> QED
        BY <3>1, <4>0, <4>1, <4>2, ZenonT(30) DEF Region
    <3>4. GoFrameOf(frames[m])' = [GoFrames[m] EXCEPT !.locals[h.slot] = v]
      <4>1. GoFrameOf(frames[m])' = [GoFrameOf(frames[m]) EXCEPT !.locals[h.slot] = v]
        BY <1>3, <1>6, <3>3 DEF GoFrameOf
      <4> QED
        BY <1>3, <1>11, <4>1
    <3>5. ASSUME NEW i \in 1 .. m
          PROVE  GoFrameOf(frames[i])' = IF i = m THEN [GoFrames[m] EXCEPT !.locals[h.slot] = v]
                                         ELSE GoFrames[i]
      BY <3>2, <3>4
    <3>6. [G!Take(GoFrames, h.fp) EXCEPT ![h.fp].locals[h.slot] = v]
            = [i \in 1 .. m |-> IF i = m THEN [GoFrames[m] EXCEPT !.locals[h.slot] = v]
                                ELSE GoFrames[i]]
      BY <1>3, <1>12
    <3> QED
      BY <1>10, <2>2, <3>5, <3>6
  <2> QED
    BY <2>1, <2>2
<1>14. G!Top(handlers) = h /\ G!NoSlot = NoSlot
  BY <1>1, <1>2, SameSequences DEF NoSlot, G!NoSlot
<1> QED
  BY <1>5, <1>7, <1>13, <1>14, SameSequences DEF G!Raise

\* What is not caught ends both runs; what is caught lands in both alike.
LEMMA GoRaisesOrDies ==
  ASSUME CInv, Fetch, NEW k \in Nat, Operands(k), NEW v, RaiseOrDie(v, k)
  PROVE  G!RaiseOrDie(v, k)
<1>1. status = "run" /\ handlers \in Seq(Handler) /\ Len(handlers) = hp
  BY RunTyped DEF Fetch, TypeOK
<1>2. hp = 0 <=> handlers = <<>>
  BY <1>1, EmptySeq
<1>3. G!Drop(stack, k) = Drop(stack, k)
  BY SameSequences
<1>4. CASE hp = 0
  <2>1. AbortWith("uncaught") /\ UNCHANGED <<frames, locals_stack, unset>>
    BY <1>4 DEF RaiseOrDie, Abort, AbortWith
  <2>2. G!Abort("uncaught")
    BY <1>1, <2>1, UnchangedFrames, GoAborts
  <2> QED
    BY <1>2, <1>4, <2>2 DEF G!RaiseOrDie
<1>5. CASE hp # 0
  <2>1. raise_exception(v, Drop(stack, k))
    BY <1>5 DEF RaiseOrDie
  <2>2. G!Raise(v, Drop(stack, k))
    BY <1>5, <2>1, GoRaises
  <2> QED
    BY <1>2, <1>3, <1>5, <2>2 DEF G!RaiseOrDie
<1> QED
  BY <1>4, <1>5

\* THROW, ASSERT and UNWRAP pop the same operands before they raise.
LEMMA GoThrows ==
  ASSUME PInv, SliceGrows
  PROVE  /\ Throw => G!Throw
         /\ \A m : AssertFails(m) => G!AssertFails(m)
         /\ \A m : UnwrapFails(m) => G!UnwrapFails(m)
<1>0. CInv /\ G!Top(stack) = Top(stack)
  BY SameSequences DEF PInv
<1>1. ASSUME Fetch
      PROVE  G!Fetch
  BY <1>1, GoFetches DEF SliceGrows, Fetch
<1>2. ASSUME Throw
      PROVE  G!Throw
  <2>1. Fetch /\ Operands(1) /\ RaiseOrDie(Top(stack), 1)
    BY <1>2 DEF Throw
  <2>2. PICK v : v = Top(stack)
    OBVIOUS
  <2>3. G!RaiseOrDie(v, 1)
    BY <1>0, <2>1, <2>2, GoRaisesOrDies
  <2> QED
    BY <1>0, <1>1, <2>1, <2>2, <2>3, GoOperands DEF G!Throw
<1>3. ASSUME NEW m, AssertFails(m)
      PROVE  G!AssertFails(m)
  <2>1. Fetch /\ Operands(2) /\ Top(stack) \in Falsy /\ RaiseOrDie(m, 2)
    BY <1>3 DEF AssertFails
  <2>2. G!RaiseOrDie(m, 2)
    BY <1>0, <2>1, GoRaisesOrDies
  <2> QED
    BY <1>0, <1>1, <2>1, <2>2, GoOperands DEF G!AssertFails, G!Falsy, Falsy
<1>4. ASSUME NEW m, UnwrapFails(m)
      PROVE  G!UnwrapFails(m)
  <2>1. Fetch /\ Operands(1) /\ Top(stack) = Null /\ RaiseOrDie(m, 1)
    BY <1>4 DEF UnwrapFails
  <2>2. G!RaiseOrDie(m, 1)
    BY <1>0, <2>1, GoRaisesOrDies
  <2> QED
    BY <1>0, <1>1, <2>1, <2>2, GoOperands DEF G!UnwrapFails
<1> QED
  BY <1>2, <1>3, <1>4

\* Every instruction of the C VM is the same instruction of the Go VM.
LEMMA GoSteps ==
  ASSUME PInv, ParityNext, ~LoadsUnset
  PROVE  G!Next
<1>1. CInv' /\ SliceGrows /\ Next /\ CInv
  BY StepPreserves DEF PInv, ParityNext, SliceGrows
<1>2. G!CodeEnd = CodeEnd /\ G!NoSlot = NoSlot /\ G!Funcs = Funcs
  BY DEF G!CodeEnd, CodeEnd, G!NoSlot, NoSlot, G!Funcs, Funcs
<1>3. CASE Overflow \/ RuntimeError \/ Halt \/ Ended
  <2>1. Overflow => G!Overflow
    BY <1>1, GoFetches DEF SliceGrows, Overflow
  <2> QED
    BY <1>1, <1>3, <2>1, GoSimpleSteps DEF G!Next
<1>4. CASE \E k \in 0 .. MaxPops, r \in {<<>>} \cup {<<v>> : v \in Plain} : Compute(k, r)
  BY <1>1, <1>4, GoSimpleSteps DEF G!Next
<1>5. CASE Values
  <2>1. G!Values
    BY <1>1, <1>5, GoSimpleSteps, GoStore DEF Values, G!Values
  <2> QED
    BY <2>1 DEF G!Next
<1>6. CASE Calls
  <2>1. G!Calls
    BY <1>1, <1>2, <1>6, GoSimpleSteps, GoCall, GoCallValue, GoReturn DEF Calls, G!Calls
  <2> QED
    BY <2>1 DEF G!Next
<1>7. CASE Tries
  <2>1. G!Tries
    BY <1>1, <1>2, <1>7, GoSimpleSteps, GoTryPush, GoThrows DEF Tries, G!Tries, G!Falsy, Falsy
  <2> QED
    BY <2>1 DEF G!Next
<1> QED
  BY <1>1, <1>3, <1>4, <1>5, <1>6, <1>7 DEF Next

\* Both VMs start in the entry function with no local of it stored.
LEMMA GoStarts ==
  ASSUME ParityInit
  PROVE  G!Init
<1>1. /\ 0 \in Funcs /\ NLocals[0] \in Nat /\ NLocals[0] <= LocalsMax /\ LocalsMax \in Nat
  BY BytecodeAssumption DEF Funcs
<1>2. PICK fr : fr = [retpc |-> -1, locals_base |-> 0, nlocals |-> NLocals[0], fn |-> 0]
  OBVIOUS
<1>3. /\ fr.retpc = -1 /\ fr.locals_base = 0 /\ fr.nlocals = NLocals[0] /\ fr.fn = 0
      /\ frames = <<fr>> /\ locals_stack = [i \in 0 .. LocalsMax - 1 |-> Null]
      /\ unset = 0 .. LocalsMax - 1
  BY <1>2 DEF ParityInit, Init
<1>4. Region(fr) = [s \in 0 .. NLocals[0] - 1 |-> Zero]
  <2>1. \A s \in 0 .. NLocals[0] - 1 : Local(0 + s) = Zero
    BY <1>1, <1>3 DEF Local
  <2> QED
    BY <1>3, <2>1 DEF Region
<1>5. G!Bind(0, <<>>, <<>>) = [s \in 0 .. NLocals[0] - 1 |-> Zero]
  BY <1>1 DEF G!Bind
<1>6. GoFrames = <<[retpc |-> -1, fn |-> 0, localsBase |-> 0,
                    locals |-> G!Bind(0, <<>>, <<>>)]>>
  <2>1. PICK g : g = [retpc |-> -1, fn |-> 0, localsBase |-> 0,
                      locals |-> G!Bind(0, <<>>, <<>>)]
    OBVIOUS
  <2>2. DOMAIN frames = 1 .. 1 /\ frames[1] = fr
    BY <1>3
  <2>3. GoFrameOf(frames[1]) = g
    BY <1>3, <1>4, <1>5, <2>1, <2>2 DEF GoFrameOf
  <2>4. GoFrames = [i \in 1 .. 1 |-> GoFrameOf(frames[i])]
    BY <2>2 DEF GoFrames, GoFrameOf
  <2>5. GoFrames = [i \in 1 .. 1 |-> g]
    BY <2>3, <2>4
  <2>6. <<g>> = [i \in 1 .. 1 |-> g]
    OBVIOUS
  <2> QED
    BY <2>1, <2>5, <2>6
<1> QED
  BY <1>6 DEF ParityInit, Init, G!Init, Start, G!Start

\* Every run of the C VM is a run of the Go VM, for every size of the stacks
\* and every program that loads only the locals it was passed or has stored:
\* same operands, same locals, same control, same fault on the same
\* instruction. The fixed arrays of main.c and their shared locals_stack
\* (main.c:564-572) implement the growing slice and the per-frame locals of
\* main.go (main.go:1188-1193).
THEOREM CVMImplementsGoVM ==
  ASSUME ~LoadsUnset
  PROVE  ParitySpec => CImplementsGo
<1>1. ParityInit => G!Init
  BY GoStarts
<1>2. PInv /\ [ParityNext]_pvars => [G!Next]_G!gvars
  <2> SUFFICES ASSUME PInv, [ParityNext]_pvars
               PROVE  [G!Next]_G!gvars
    OBVIOUS
  <2>1. CASE UNCHANGED pvars
    BY <2>1, UnchangedFrames DEF pvars, cvars, G!gvars
  <2> QED
    BY <2>1, GoSteps
<1> QED
  BY <1>1, <1>2, ParityInvariance, PTL DEF ParitySpec, CImplementsGo, G!Spec

\* For the same programs a LOAD pushes the same value on both VMs, whatever
\* calls and unwinds have moved the region it loads from.
THEOREM LoadsAgree ==
  ASSUME ~LoadsUnset
  PROVE  ParitySpec => LoadsAlike
<1>1. PInv /\ [ParityNext]_pvars => [\A s \in 0 .. LocalsMax : Load(s) => G!Load(s)]_pvars
  <2> SUFFICES ASSUME PInv, ParityNext, NEW s \in 0 .. LocalsMax, Load(s)
               PROVE  G!Load(s)
    OBVIOUS
  <2>1. SliceGrows
    BY DEF ParityNext, SliceGrows
  <2> QED
    BY <2>1, GoSimpleSteps
<1> QED
  BY <1>1, ParityInvariance, PTL DEF ParitySpec, LoadsAlike
=============================================================================
