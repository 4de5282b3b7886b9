------------------------------ MODULE MCEngine ------------------------------
(* An entry function without locals, a function with one parameter, and one *)
(* used as a closure over one value: frames of different sizes, so that     *)
(* either limit on calls can be the first to be reached.                    *)
EXTENDS EngineParity
MCNParams   == [f \in 0 .. 2 |-> IF f = 1 THEN 1 ELSE 0]
MCNCaptured == [f \in 0 .. 2 |-> IF f = 2 THEN 1 ELSE 0]
MCNLocals   == [f \in 0 .. 2 |-> IF f = 0 THEN 0 ELSE IF f = 1 THEN 2 ELSE 1]

(* The bound: with three frames and two handlers only one operand is left on *)
(* the stack; any fewer of either leave room for all of it.                  *)
FewOperandsInDepth == fp + hp <= 4 \/ sp <= 1
=============================================================================
