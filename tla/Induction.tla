------------------------------ MODULE Induction ------------------------------
(***************************************************************************)
(* Induction and recursion over the numbers, stated with sets: the well-   *)
(* founded induction of the library takes a predicate as a parameter, its  *)
(* existence of a minimal element (WFMin) takes a set.                     *)
(***************************************************************************)
EXTENDS Integers, Sequences, WellFoundedInduction, TLAPS

\* A set that has 0 and every successor has every number.
LEMMA NatInd ==
  ASSUME NEW S, 0 \in S, \A n \in Nat : n \in S => n + 1 \in S
  PROVE  Nat \subseteq S
<1> SUFFICES ASSUME Nat \ S # {} PROVE FALSE
  OBVIOUS
<1> DEFINE T == Nat \ S
           R == OpToRel(<, Nat)
<1>1. \E x \in T : \A y \in T : ~ (<<y, x>> \in R)
  <2>1. IsWellFoundedOn(R, Nat)
    BY NatLessThanWellFounded
  <2>2. T \subseteq Nat /\ T # {}
    OBVIOUS
  <2> HIDE DEF T, R
  <2> QED BY <2>1, <2>2, WFMin
<1>2. PICK x \in T : \A y \in T : ~ (<<y, x>> \in R)
  BY <1>1
<1>3. x # 0 /\ x - 1 \in Nat
  OBVIOUS
<1>4. x - 1 \in T
  BY <1>3
<1>5. <<x - 1, x>> \in R
  BY <1>3 DEF OpToRel
<1> QED BY <1>2, <1>4, <1>5

\* A set of numbers that is not empty has a least one.
LEMMA HasLeast ==
  ASSUME NEW A \in SUBSET Nat, A # {}
  PROVE  \E i \in A : \A j \in A : i <= j
<1> DEFINE R == OpToRel(<, Nat)
<1>1. \E x \in A : \A y \in A : ~ (<<y, x>> \in R)
  <2>1. IsWellFoundedOn(R, Nat)
    BY NatLessThanWellFounded
  <2> HIDE DEF R
  <2> QED BY <2>1, WFMin
<1>2. PICK x \in A : \A y \in A : ~ (<<y, x>> \in R)
  BY <1>1
<1>3. \A y \in A : ~ (y < x)
  BY <1>2 DEF OpToRel
<1> QED BY <1>3

\* The functions that take a step on T at each of N indices, and what they
\* give when they are iterated from a.
Steps(N, T) == [1 .. N -> [T -> T]]

Iteration(f, a, N, T, step) ==
  /\ f \in [0 .. N -> T]
  /\ f[0] = a
  /\ \A i \in 1 .. N : f[i] = step[i][f[i - 1]]

\* A function defined by recursion over 0 .. N exists.
LEMMA Iterate ==
  ASSUME NEW T, NEW a \in T, NEW N \in Nat, NEW step \in Steps(N, T)
  PROVE  \E f : Iteration(f, a, N, T, step)
<1> USE DEF Steps
<1> DEFINE Upto(f, n) == f[0] = a /\ \A i \in 1 .. n : f[i] = step[i][f[i - 1]]
           S == {n \in Nat : n <= N => \E f \in [0 .. n -> T] : Upto(f, n)}
<1>1. 0 \in S
  <2>1. [i \in 0 .. 0 |-> a] \in [0 .. 0 -> T] /\ Upto([i \in 0 .. 0 |-> a], 0)
    OBVIOUS
  <2> QED BY <2>1
<1>2. ASSUME NEW n \in Nat, n \in S PROVE n + 1 \in S
  <2> SUFFICES ASSUME n + 1 <= N PROVE \E g \in [0 .. n + 1 -> T] : Upto(g, n + 1)
    OBVIOUS
  <2>1. n <= N
    OBVIOUS
  <2>2. PICK f \in [0 .. n -> T] : Upto(f, n)
    BY <1>2, <2>1
  <2> DEFINE g == [i \in 0 .. n + 1 |-> IF i <= n THEN f[i] ELSE step[n + 1][f[n]]]
  <2>3. n + 1 \in 1 .. N /\ f[n] \in T
    BY <2>1
  <2>4. step[n + 1] \in [T -> T]
    BY <2>3
  <2>5. step[n + 1][f[n]] \in T
    BY <2>3, <2>4
  <2>6. g \in [0 .. n + 1 -> T]
    BY <2>5
  <2>7. g[0] = a
    BY <2>2
  <2>8. ASSUME NEW i \in 1 .. n + 1 PROVE g[i] = step[i][g[i - 1]]
    <3>1. CASE i <= n
      <4>1. g[i] = f[i] /\ g[i - 1] = f[i - 1]
        BY <3>1
      <4>2. i \in 1 .. n
        BY <3>1
      <4> QED BY <2>2, <4>1, <4>2
    <3>2. CASE i = n + 1
      <4>1. g[i] = step[n + 1][f[n]] /\ g[i - 1] = f[n]
        BY <3>2
      <4> QED BY <3>2, <4>1
    <3> QED BY <3>1, <3>2
  <2> QED BY <2>6, <2>7, <2>8
<1>3. N \in S
  <2> HIDE DEF S
  <2> QED BY <1>1, <1>2, NatInd
<1> QED BY <1>3 DEF Iteration

\* A sequence that stays in G at every step is in it throughout.
LEMMA StaysWithin ==
  ASSUME NEW N \in Nat, NEW G, NEW f, f[0] \in G[0],
         \A i \in 1 .. N : f[i - 1] \in G[i - 1] => f[i] \in G[i]
  PROVE  \A i \in 0 .. N : f[i] \in G[i]
<1> DEFINE S == {i \in Nat : i <= N => f[i] \in G[i]}
<1>1. 0 \in S
  OBVIOUS
<1>2. ASSUME NEW i \in Nat, i \in S PROVE i + 1 \in S
  <2> SUFFICES ASSUME i + 1 <= N PROVE f[i + 1] \in G[i + 1]
    OBVIOUS
  <2>1. i + 1 \in 1 .. N /\ (i + 1) - 1 = i /\ i <= N
    OBVIOUS
  <2>2. f[i] \in G[i]
    BY <1>2, <2>1
  <2> QED BY <2>1, <2>2
<1>3. Nat \subseteq S
  <2> HIDE DEF S
  <2> QED BY <1>1, <1>2, NatInd
<1> QED BY <1>3

\* Step i leads from G[i - 1] to G[i].
Leads(step, G, N) == \A i \in 1 .. N : \A x \in G[i - 1] : step[i][x] \in G[i]

Path(f, a, N, step, G) ==
  /\ f = [i \in 0 .. N |-> f[i]]
  /\ f[0] = a
  /\ \A i \in 1 .. N : f[i] = step[i][f[i - 1]]
  /\ \A i \in 0 .. N : f[i] \in G[i]

\* Then a function defined by recursion over 0 .. N exists, and stays in G.
LEMMA IterateWithin ==
  ASSUME NEW N \in Nat, NEW G, NEW a \in G[0], NEW step, Leads(step, G, N)
  PROVE  \E f : Path(f, a, N, step, G)
<1> USE DEF Leads
<1> DEFINE T == UNION {G[i] : i \in 0 .. N}
           next == [i \in 1 .. N |-> [x \in T |-> IF x \in G[i - 1] THEN step[i][x] ELSE x]]
<1>1. a \in T
  <2>1. 0 \in 0 .. N
    OBVIOUS
  <2> QED BY <2>1
<1>2. next \in Steps(N, T)
  <2>1. ASSUME NEW i \in 1 .. N, NEW x \in T
        PROVE  (IF x \in G[i - 1] THEN step[i][x] ELSE x) \in T
    <3>1. i \in 0 .. N
      OBVIOUS
    <3>2. x \in G[i - 1] => step[i][x] \in T
      BY <3>1
    <3> HIDE DEF T
    <3> QED BY <3>2
  <2> HIDE DEF T
  <2>2. \A i \in 1 .. N : [x \in T |-> IF x \in G[i - 1] THEN step[i][x] ELSE x] \in [T -> T]
    BY <2>1
  <2> QED BY <2>2 DEF Steps
<1>3. PICK f : Iteration(f, a, N, T, next)
  <2> HIDE DEF T, next
  <2> QED BY <1>1, <1>2, Iterate
<1> HIDE DEF T
<1>4. f = [i \in 0 .. N |-> f[i]] /\ f[0] = a /\ \A i \in 0 .. N : f[i] \in T
  <2> HIDE DEF next
  <2> QED BY <1>3 DEF Iteration
<1>5. ASSUME NEW i \in 1 .. N, f[i - 1] \in G[i - 1]
      PROVE  f[i] = step[i][f[i - 1]] /\ f[i] \in G[i]
  <2>1. f[i] = next[i][f[i - 1]]
    <3> HIDE DEF next
    <3> QED BY <1>3 DEF Iteration
  <2>2. i - 1 \in 0 .. N
    OBVIOUS
  <2>3. f[i - 1] \in T
    BY <1>4, <2>2
  <2>4. next[i][f[i - 1]] = step[i][f[i - 1]]
    BY <1>5, <2>3
  <2> HIDE DEF next
  <2> QED BY <1>5, <2>1, <2>4
<1> HIDE DEF next
<1>6. \A i \in 0 .. N : f[i] \in G[i]
  BY <1>4, <1>5, StaysWithin
<1>7. \A i \in 1 .. N : f[i] = step[i][f[i - 1]]
  <2> TAKE i \in 1 .. N
  <2>1. i - 1 \in 0 .. N
    OBVIOUS
  <2> QED BY <1>5, <1>6, <2>1
<1> QED BY <1>4, <1>6, <1>7 DEF Path

=============================================================================
