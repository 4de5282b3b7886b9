---------------------------- MODULE EngineParity ----------------------------
(***************************************************************************)
(* The C VM and the Go VM run the same program (PYRO_RUNTIME.md 6.1, "both *)
(* engines abort on the same call"): the fixed arrays of the C VM          *)
(* implement the growing slices of the Go VM. slen, the length the Go VM's *)
(* operand stack would have, is the only state the C VM has no             *)
(* counterpart of; it is computed along.                                   *)
(***************************************************************************)
EXTENDS CEngine

VARIABLE slen

\* The locals of a frame are its region of locals_stack, but for one thing: a
\* local not stored yet is null in the C VM (main.c:354, 582, 652) and an
\* int 0 in the Go VM, whose make() fills a slice with zero Values.
Local(i)   == IF i \in unset /\ locals_stack[i] = Null THEN Zero ELSE locals_stack[i]
Region(fr) == [s \in 0 .. fr.nlocals - 1 |-> Local(fr.locals_base + s)]
GoFrames ==
  [i \in DOMAIN frames |->
     [retpc |-> frames[i].retpc, fn |-> frames[i].fn,
      localsBase |-> frames[i].locals_base, locals |-> Region(frames[i])]]

G == INSTANCE GoEngine WITH frames <- GoFrames

pvars == <<cvars, slen>>

ParityInit == Init /\ slen = StackInit
ParityNext ==
  /\ Next
  /\ slen' = IF status = "run" /\ G!Full THEN G!Doubled ELSE slen
ParitySpec == ParityInit /\ [][ParityNext]_pvars

\* Whatever the C VM does, the Go VM does in the same step: same operands, same
\* locals once they are stored, same control, same limit reached on the same
\* instruction. Where compiled code loads locals it has not stored, this says
\* nothing of what it loads (a LOAD of a plain value may be read as any
\* instruction that computes one); LoadsAlike does.
CImplementsGo == G!Spec

\* "The Go and C runtimes must be observationally identical"
\* (PYRO_RUNTIME.md:546): a LOAD pushes the same value on both VMs.
LoadsAlike == [][\A s \in 0 .. LocalsMax : Load(s) => G!Load(s)]_pvars

\* The push of any instruction finds room in the Go VM's slice: one doubling
\* per instruction is enough (main.go:1188-1193).
StackFits == sp <= slen /\ slen <= StackMax

-----------------------------------------------------------------------------
(* The stack trace printed by fatal().                                     *)

\* lineAt and get_line_number: the last debug entry at or before pc. Here
\* every address is an entry of its own.
LineAt(at) == IF at >= CodeEnd THEN CodeEnd - 1 ELSE at

GoTrace == [i \in DOMAIN frames |->
              LineAt(IF i = fp THEN pc ELSE frames[i + 1].retpc)]

\* (uint32_t)-1, the return address of the entry function, is past every pc.
Unsigned(x) == IF x < 0 THEN CodeEnd ELSE x
CTrace  == [i \in DOMAIN frames |->
              LineAt(IF i = fp THEN pc ELSE Unsigned(frames[i].retpc))]

\* "the Go VM and the C VM produce byte-for-byte the same output"
\* (PYRO_RUNTIME.md:453): the two name the same line for every active frame.
SameTrace == status \notin {"run", "exit"} => GoTrace = CTrace
=============================================================================
