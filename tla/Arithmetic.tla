----------------------------- MODULE Arithmetic -----------------------------
(***************************************************************************)
(* Integer arithmetic of vm/pyro_runtime.c: bin_op's + - * / % on ints of  *)
(* a fixed width, with the portable overflow tests of pyro_add_ovf,        *)
(* pyro_sub_ovf and pyro_mul_ovf. A program is a register to which one     *)
(* operation after the other is applied.                                   *)
(***************************************************************************)
EXTENDS Integers

CONSTANT INT_MAX     \* INT64_MAX

ASSUME ArithmeticAssumption == INT_MAX \in Nat

VARIABLE
  sum   \* the last operation: its operands, and its result unless it is fatal

INT_MIN == -INT_MAX - 1
Ints    == INT_MIN .. INT_MAX
Ops     == {"ADD", "SUB", "MUL", "DIV", "MOD"}

\* A C expression on ints: exact while it fits. What an overflow gives is
\* undefined; the builds that run this code wrap around.
Eval(n) == IF n \in Ints THEN n ELSE ((n - INT_MIN) % (2 * INT_MAX + 2)) + INT_MIN

Abs(n) == IF n < 0 THEN -n ELSE n

\* C division truncates towards zero.
Quot(x, y) == IF (x < 0) = (y < 0) THEN Abs(x) \div Abs(y) ELSE -(Abs(x) \div Abs(y))
Rem(x, y)  == x - y * Quot(x, y)

\* Broken variant: INT_MAX itself counts as an overflow.
AddOvfTooEager(a, b) ==
  \/ b > 0 /\ a >= Eval(INT_MAX - b)
  \/ b < 0 /\ a < Eval(INT_MIN - b)

pyro_add_ovf(a, b) ==
  \/ b > 0 /\ a > Eval(INT_MAX - b)
  \/ b < 0 /\ a < Eval(INT_MIN - b)

pyro_sub_ovf(a, b) ==
  \/ b < 0 /\ a > Eval(INT_MAX + b)
  \/ b > 0 /\ a < Eval(INT_MIN + b)

pyro_mul_ovf(a, b) ==
  IF a > 0
  THEN IF b > 0 THEN a > Eval(Quot(INT_MAX, b)) ELSE b < Eval(Quot(INT_MIN, a))
  ELSE IF b > 0 THEN a < Eval(Quot(INT_MIN, b))
                ELSE a # 0 /\ b < Eval(Quot(INT_MAX, a))

Fatal(op, x, y) ==
  \/ op = "ADD" /\ pyro_add_ovf(x, y)
  \/ op = "SUB" /\ pyro_sub_ovf(x, y)
  \/ op = "MUL" /\ pyro_mul_ovf(x, y)
  \/ op = "DIV" /\ (y = 0 \/ (x = INT_MIN /\ y = -1))
  \/ op = "MOD" /\ y = 0

Result(op, x, y) ==
  CASE op = "ADD" -> Eval(x + y)
    [] op = "SUB" -> Eval(x - y)
    [] op = "MUL" -> Eval(x * y)
    [] op = "DIV" -> Eval(Quot(x, y))
    [] op = "MOD" -> IF x = INT_MIN /\ y = -1 THEN 0 ELSE Eval(Rem(x, y))

ArithInit == sum = [op |-> "ADD", x |-> 0, y |-> 0, ok |-> TRUE, r |-> 0]

bin_op(op, y) ==
  /\ sum.ok
  /\ sum' = [op |-> op, x |-> sum.r, y |-> y, ok |-> ~Fatal(op, sum.r, y),
             r |-> IF Fatal(op, sum.r, y) THEN 0 ELSE Result(op, sum.r, y)]

ArithNext == \E op \in Ops, y \in Ints : bin_op(op, y)

ArithSpec == ArithInit /\ [][ArithNext]_sum

-----------------------------------------------------------------------------
\* What the language defines: the mathematical result. The quotient is the one
\* that leaves a remainder smaller than the divisor with the dividend's sign.
Exact(op, x, y, r) ==
  CASE op = "ADD" -> r = x + y
    [] op = "SUB" -> r = x - y
    [] op = "MUL" -> r = x * y
    [] op = "DIV" -> LET m == x - y * r IN Abs(m) < Abs(y) /\ m * x >= 0
    [] op = "MOD" -> \E q \in -INT_MAX - 1 .. INT_MAX + 1 :
                        x = y * q + r /\ Abs(r) < Abs(y) /\ r * x >= 0

\* The program stops with an overflow or a division by zero exactly when the
\* operation has no result that fits, and otherwise the register holds the
\* mathematical result: the portable tests (pyro_runtime.c:3256-3290) neither
\* miss an overflow nor refuse a sum that fits, and no test overflows itself.
ArithmeticExact ==
  /\ sum.ok => sum.r \in Ints /\ Exact(sum.op, sum.x, sum.y, sum.r)
  /\ ~sum.ok => ~ \E r \in Ints : Exact(sum.op, sum.x, sum.y, r)

\* No operation leaves the range of an int.
ArithTypeOK == sum \in [op : Ops, x : Ints, y : Ints, ok : BOOLEAN, r : Ints]
=============================================================================
