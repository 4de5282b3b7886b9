--------------------------- MODULE OwnershipProofs ---------------------------
(***************************************************************************)
(* Reference counting in the C++ VM: for every size of the heap, of the    *)
(* stacks and of the containers, the count of an object is the number of   *)
(* slots and elements that hold it, with what was given up unreleased and  *)
(* the extra reference of its birth; nothing freed is still held, and what *)
(* leaks does for one of these two reasons. A heap is Owned by E when its  *)
(* counts are E, its own elements and the extra references, and no closure *)
(* holds itself; every operator of RcHeap keeps that for the E it leaves,  *)
(* by induction on the references a release settles, and every instruction *)
(* of CppEngine leaves a heap owned by its slots and what was given up.    *)
(***************************************************************************)
EXTENDS CppEngine, Induction, FiniteSetTheorems, TLAPS

-----------------------------------------------------------------------------
(* How often an object is in a sequence.                                   *)
\* How often o occurs at the indices from a to b.
At(s, a, b, o) == {i \in a .. b : s[i] = o}

\* The indices of an interval where o occurs are finitely many, and those of
\* two adjacent intervals add up.
LEMMA AtSplit ==
  ASSUME NEW s, NEW o, NEW a \in Int, NEW b \in Int, NEW c \in Int, a <= b + 1, b <= c
  PROVE  /\ Cardinality(At(s, a, b, o)) \in Nat
         /\ Cardinality(At(s, a, c, o)) =
              Cardinality(At(s, a, b, o)) + Cardinality(At(s, b + 1, c, o))
<1> DEFINE A == At(s, a, b, o)
           B == At(s, b + 1, c, o)
<1>1. IsFiniteSet(a .. b) /\ IsFiniteSet(b + 1 .. c)
  BY FS_Interval
<1>2. A \in SUBSET (a .. b) /\ B \in SUBSET (b + 1 .. c)
  BY DEF At
<1>3. IsFiniteSet(A) /\ IsFiniteSet(B)
  <2> HIDE DEF A, B
  <2> QED BY <1>1, <1>2, FS_Subset
<1>4. At(s, a, c, o) = A \cup B /\ A \cap B = {}
  BY DEF At
<1>5. Cardinality(A) \in Nat /\ Cardinality(B) \in Nat
  <2> HIDE DEF A, B
  <2> QED BY <1>3, FS_CardinalityType
<1>6. Cardinality(A \cup B) = Cardinality(A) + Cardinality(B) - Cardinality(A \cap B)
  <2> HIDE DEF A, B
  <2> QED BY <1>3, FS_Union
<1>7. Cardinality(A \cap B) = 0
  BY <1>4, FS_EmptySet
<1>8. Cardinality(A \cup B) = Cardinality(A) + Cardinality(B)
  <2> HIDE DEF A, B
  <2> QED BY <1>5, <1>6, <1>7
<1> QED BY <1>4, <1>5, <1>8, Zenon

\* t is s from a to b, its indices moved by d.
Moved(s, t, a, b, d) == \A i \in a .. b : t[i + d] = s[i]

\* The indices of an interval where o occurs, moved to another interval.
LEMMA AtMoved ==
  ASSUME NEW s, NEW t, NEW o, NEW a \in Int, NEW b \in Int, NEW d \in Int, Moved(s, t, a, b, d)
  PROVE  Cardinality(At(t, a + d, b + d, o)) = Cardinality(At(s, a, b, o))
<1> DEFINE A == At(s, a, b, o)
           B == At(t, a + d, b + d, o)
           f == [i \in A |-> i + d]
<1>1. IsFiniteSet(A)
  <2>1. IsFiniteSet(a .. b) /\ A \in SUBSET (a .. b)
    BY FS_Interval DEF At
  <2> HIDE DEF A
  <2> QED BY <2>1, FS_Subset
<1>2. f \in Bijection(A, B)
  <2>1. \A i \in A : i + d \in B
    BY DEF At, Moved
  <2>2. f \in [A -> B]
    BY <2>1
  <2>3. \A i, j \in A : f[i] = f[j] => i = j
    BY DEF At
  <2>4. \A j \in B : \E i \in A : f[i] = j
    <3> TAKE j \in B
    <3>1. j - d \in A /\ (j - d) + d = j
      BY DEF At, Moved
    <3> QED BY <3>1
  <2> HIDE DEF f, A, B
  <2> QED BY <2>2, <2>3, <2>4 DEF Bijection, Injection, Surjection, IsInjective
<1>3. ExistsBijection(A, B)
  <2> HIDE DEF f, A, B
  <2> QED BY <1>2 DEF ExistsBijection
<1>4. Cardinality(B) = Cardinality(A)
  <2> HIDE DEF A, B
  <2> QED BY <1>1, <1>3, FS_Bijection
<1> QED BY <1>4, Zenon

\* The occurrences in a sequence are those at its positions.
LEMMA OccAt ==
  ASSUME NEW s \in Seq(Value), NEW o
  PROVE  Occurrences(s, o) = Cardinality(At(s, 1, Len(s), o)) /\ Occurrences(s, o) \in Nat
<1>1. DOMAIN s = 1 .. Len(s) /\ Len(s) \in Nat
  OBVIOUS
<1>2. {i \in DOMAIN s : s[i] = o} = At(s, 1, Len(s), o)
  BY <1>1 DEF At
<1>3. Cardinality(At(s, 1, Len(s), o)) \in Nat
  BY <1>1, AtSplit
<1> QED BY <1>2, <1>3 DEF Occurrences

\* There is none at no position.
LEMMA AtEmpty ==
  ASSUME NEW s, NEW o, NEW a \in Int, NEW b \in Int, b < a
  PROVE  Cardinality(At(s, a, b, o)) = 0
<1>1. At(s, a, b, o) = {}
  BY DEF At
<1> QED BY <1>1, FS_EmptySet

\* One position counts once.
LEMMA AtOne ==
  ASSUME NEW s, NEW o, NEW a \in Int
  PROVE  Cardinality(At(s, a, a, o)) = IF s[a] = o THEN 1 ELSE 0
<1>1. CASE s[a] = o
  <2>1. At(s, a, a, o) = {a}
    BY <1>1 DEF At
  <2> QED BY <1>1, <2>1, FS_Singleton
<1>2. CASE s[a] # o
  <2>1. At(s, a, a, o) = {}
    BY <1>2 DEF At
  <2> QED BY <1>2, <2>1, FS_EmptySet
<1> QED BY <1>1, <1>2

\* How often o occurs in a part of a sequence.
LEMMA OccPart ==
  ASSUME NEW s \in Seq(Value), NEW o, NEW a \in 1 .. Len(s) + 1, NEW b \in 0 .. Len(s), a <= b + 1
  PROVE  /\ SubSeq(s, a, b) \in Seq(Value)
         /\ Occurrences(SubSeq(s, a, b), o) = Cardinality(At(s, a, b, o))
<1> DEFINE t == SubSeq(s, a, b)
           d == 1 - a
<1>1. t \in Seq(Value) /\ Len(t) = b - a + 1 /\ Len(s) \in Nat
  OBVIOUS
<1>2. Moved(s, t, a, b, d)
  BY SMTT(30) DEF Moved
<1>3. a \in Int /\ b \in Int /\ d \in Int
  OBVIOUS
<1>4. Cardinality(At(t, a + d, b + d, o)) = Cardinality(At(s, a, b, o))
  <2> HIDE DEF t, d
  <2> QED BY <1>2, <1>3, AtMoved
<1>5. a + d = 1 /\ b + d = Len(t)
  BY <1>1
<1> HIDE DEF d
<1> QED
  <2> HIDE DEF t
  <2> SUFFICES t \in Seq(Value) /\ Occurrences(t, o) = Cardinality(At(s, a, b, o))
    BY DEF t
  <2> QED BY <1>1, <1>4, <1>5, OccAt

\* A sequence without elements holds nothing.
LEMMA OccNone ==
  ASSUME NEW s \in Seq(Value), NEW o, Len(s) = 0
  PROVE  Occurrences(s, o) = 0
<1>1. Occurrences(s, o) = Cardinality(At(s, 1, Len(s), o))
  BY OccAt
<1>2. Cardinality(At(s, 1, 0, o)) = 0
  BY AtEmpty
<1> QED BY <1>1, <1>2

\* The empty sequence.
LEMMA OccEmpty ==
  ASSUME NEW o
  PROVE  <<>> \in Seq(Value) /\ Occurrences(<<>>, o) = 0
<1> DEFINE s == <<>>
<1>1. s \in Seq(Value) /\ Len(s) = 0
  OBVIOUS
<1> HIDE DEF s
<1>2. Occurrences(s, o) = 0
  BY <1>1, OccNone
<1> QED BY <1>1, <1>2 DEF s

\* The sequence of one value.
LEMMA OccOne ==
  ASSUME NEW v \in Value, NEW o
  PROVE  <<v>> \in Seq(Value) /\ Occurrences(<<v>>, o) = IF v = o THEN 1 ELSE 0
<1> DEFINE s == <<v>>
<1>1. s \in Seq(Value) /\ Len(s) = 1 /\ s[1] = v
  OBVIOUS
<1> HIDE DEF s
<1>2. Occurrences(s, o) = Cardinality(At(s, 1, 1, o))
  BY <1>1, OccAt
<1>3. Cardinality(At(s, 1, 1, o)) = IF s[1] = o THEN 1 ELSE 0
  BY AtOne
<1> QED BY <1>1, <1>2, <1>3 DEF s

\* What two sequences hold together.
LEMMA OccConcat ==
  ASSUME NEW s \in Seq(Value), NEW t \in Seq(Value), NEW o
  PROVE  /\ s \o t \in Seq(Value)
         /\ Occurrences(s \o t, o) = Occurrences(s, o) + Occurrences(t, o)
<1> DEFINE u == s \o t
           m == Len(s)
           n == Len(t)
<1>1. m \in Nat /\ n \in Nat /\ u \in Seq(Value) /\ Len(u) = m + n
  OBVIOUS
<1>2. Moved(s, u, 1, m, 0) /\ Moved(t, u, 1, n, m)
  BY DEF Moved
<1>3. Occurrences(s, o) = Cardinality(At(s, 1, m, o)) /\ Occurrences(s, o) \in Nat
  BY OccAt
<1>4. Occurrences(t, o) = Cardinality(At(t, 1, n, o)) /\ Occurrences(t, o) \in Nat
  BY OccAt
<1> HIDE DEF u, m, n
<1>5. Cardinality(At(u, 1 + 0, m + 0, o)) = Cardinality(At(s, 1, m, o))
  BY <1>1, <1>2, AtMoved
<1>6. Cardinality(At(u, 1 + m, n + m, o)) = Cardinality(At(t, 1, n, o))
  BY <1>1, <1>2, AtMoved
<1>7. 1 + 0 = 1 /\ m + 0 = m /\ 1 + m = m + 1 /\ n + m = m + n
  BY <1>1
<1>8. Cardinality(At(u, 1, m + n, o)) = Cardinality(At(u, 1, m, o)) + Cardinality(At(u, m + 1, m + n, o))
  <2>1. 1 <= m + 1 /\ m <= m + n /\ m + n \in Int
    BY <1>1
  <2> QED BY <1>1, <2>1, AtSplit
<1>9. Occurrences(u, o) = Cardinality(At(u, 1, m + n, o))
  BY <1>1, OccAt
<1>10. Occurrences(u, o) = Occurrences(s, o) + Occurrences(t, o)
  BY <1>3, <1>4, <1>5, <1>6, <1>7, <1>8, <1>9
<1> QED BY <1>1, <1>10 DEF u

\* A sequence cut in three.
LEMMA OccCut ==
  ASSUME NEW s \in Seq(Value), NEW o, NEW a \in Nat, NEW b \in Nat, a <= b, b <= Len(s)
  PROVE  /\ SubSeq(s, 1, a) \in Seq(Value)
         /\ SubSeq(s, a + 1, b) \in Seq(Value)
         /\ SubSeq(s, b + 1, Len(s)) \in Seq(Value)
         /\ Occurrences(s, o) = Occurrences(SubSeq(s, 1, a), o)
              + Occurrences(SubSeq(s, a + 1, b), o) + Occurrences(SubSeq(s, b + 1, Len(s)), o)
<1> DEFINE n == Len(s)
<1>0. n \in Nat
  OBVIOUS
<1>1. 1 \in 1 .. n + 1 /\ a \in 0 .. n /\ 1 <= a + 1 /\ a + 1 \in 1 .. n + 1
      /\ b \in 0 .. n /\ a + 1 <= b + 1 /\ b + 1 \in 1 .. n + 1 /\ n \in 0 .. n /\ b + 1 <= n + 1
  BY <1>0
<1>2. Occurrences(s, o) = Cardinality(At(s, 1, n, o))
  BY OccAt
<1> HIDE DEF n
<1>3. /\ SubSeq(s, 1, a) \in Seq(Value)
      /\ Occurrences(SubSeq(s, 1, a), o) = Cardinality(At(s, 1, a, o))
  BY <1>1, OccPart DEF n
<1>4. /\ SubSeq(s, a + 1, b) \in Seq(Value)
      /\ Occurrences(SubSeq(s, a + 1, b), o) = Cardinality(At(s, a + 1, b, o))
  BY <1>1, OccPart DEF n
<1>5. /\ SubSeq(s, b + 1, n) \in Seq(Value)
      /\ Occurrences(SubSeq(s, b + 1, n), o) = Cardinality(At(s, b + 1, n, o))
  BY <1>1, OccPart DEF n
<1>6. /\ Cardinality(At(s, 1, n, o)) = Cardinality(At(s, 1, b, o)) + Cardinality(At(s, b + 1, n, o))
      /\ Cardinality(At(s, 1, b, o)) \in Nat
  <2>1. 1 \in Int /\ b \in Int /\ n \in Int /\ 1 <= b + 1 /\ b <= n
    BY <1>0, <1>1
  <2> QED BY <2>1, AtSplit
<1>7. /\ Cardinality(At(s, 1, b, o)) = Cardinality(At(s, 1, a, o)) + Cardinality(At(s, a + 1, b, o))
      /\ Cardinality(At(s, 1, a, o)) \in Nat
  <2>1. 1 \in Int /\ a \in Int /\ b \in Int /\ 1 <= a + 1 /\ a <= b
    BY <1>0, <1>1
  <2> QED BY <2>1, AtSplit
<1>8. Occurrences(s, o) = Occurrences(SubSeq(s, 1, a), o)
              + Occurrences(SubSeq(s, a + 1, b), o) + Occurrences(SubSeq(s, b + 1, n), o)
  BY <1>2, <1>3, <1>4, <1>5, <1>6, <1>7
<1> QED BY <1>3, <1>4, <1>5, <1>8 DEF n

\* A sequence cut in two.
LEMMA OccCutTwo ==
  ASSUME NEW s \in Seq(Value), NEW o, NEW a \in Nat, a <= Len(s)
  PROVE  /\ SubSeq(s, 1, a) \in Seq(Value)
         /\ SubSeq(s, a + 1, Len(s)) \in Seq(Value)
         /\ Occurrences(s, o) = Occurrences(SubSeq(s, 1, a), o)
              + Occurrences(SubSeq(s, a + 1, Len(s)), o)
<1>1. SubSeq(s, a + 1, a) \in Seq(Value) /\ Len(SubSeq(s, a + 1, a)) = 0
  OBVIOUS
<1>2. Occurrences(SubSeq(s, a + 1, a), o) = 0
  BY <1>1, OccNone
<1>3. /\ SubSeq(s, 1, a) \in Seq(Value)
      /\ SubSeq(s, a + 1, Len(s)) \in Seq(Value)
      /\ Occurrences(s, o) = Occurrences(SubSeq(s, 1, a), o)
              + Occurrences(SubSeq(s, a + 1, a), o) + Occurrences(SubSeq(s, a + 1, Len(s)), o)
  BY OccCut
<1>4. Occurrences(SubSeq(s, 1, a), o) \in Nat /\ Occurrences(SubSeq(s, a + 1, Len(s)), o) \in Nat
  BY <1>3, OccAt
<1> QED BY <1>2, <1>3, <1>4

\* An object occurs where some element is that object.
LEMMA OccZero ==
  ASSUME NEW s \in Seq(Value), NEW o
  PROVE  Occurrences(s, o) = 0 <=> \A i \in DOMAIN s : s[i] # o
<1> DEFINE A == At(s, 1, Len(s), o)
<1>1. Occurrences(s, o) = Cardinality(A)
  BY OccAt
<1>2. DOMAIN s = 1 .. Len(s) /\ Len(s) \in Nat
  OBVIOUS
<1>3. IsFiniteSet(A)
  <2>1. IsFiniteSet(1 .. Len(s)) /\ A \in SUBSET (1 .. Len(s))
    BY <1>2, FS_Interval DEF At
  <2> HIDE DEF A
  <2> QED BY <2>1, FS_Subset
<1>4. Cardinality(A) = 0 <=> A = {}
  <2> HIDE DEF A
  <2> QED BY <1>3, FS_EmptySet
<1>5. A = {} <=> \A i \in DOMAIN s : s[i] # o
  BY <1>2 DEF At
<1> QED BY <1>1, <1>4, <1>5, Zenon

\* t is s with v in the place i.
Changed(s, t, i, v) ==
  /\ s \in Seq(Value) /\ t \in Seq(Value) /\ i \in DOMAIN s /\ v \in Value
  /\ Len(t) = Len(s)
  /\ t[i] = v
  /\ \A j \in DOMAIN s : j # i => t[j] = s[j]

\* EXCEPT changes one element.
LEMMA ChangedBy ==
  ASSUME NEW s \in Seq(Value), NEW i \in DOMAIN s, NEW v \in Value
  PROVE  Changed(s, [s EXCEPT ![i] = v], i, v)
<1> DEFINE t == [s EXCEPT ![i] = v]
<1>1. t \in Seq(Value) /\ Len(t) = Len(s)
  OBVIOUS
<1>2. t[i] = v /\ \A j \in DOMAIN s : j # i => t[j] = s[j]
  OBVIOUS
<1> QED
  <2> HIDE DEF t
  <2> SUFFICES Changed(s, t, i, v)
    BY DEF t
  <2> QED BY <1>1, <1>2 DEF Changed

\* A value in the place of another.
LEMMA OccChanged ==
  ASSUME NEW s, NEW t, NEW i, NEW v, Changed(s, t, i, v), NEW o
  PROVE  /\ s[i] \in Value
         /\ Occurrences(t, o) + Occurrences(<<s[i]>>, o) = Occurrences(s, o) + Occurrences(<<v>>, o)
<1> DEFINE n == Len(s)
           x == s[i]
<1>1. /\ s \in Seq(Value) /\ t \in Seq(Value) /\ n \in Nat /\ i \in 1 .. n /\ v \in Value /\ x \in Value
      /\ Len(t) = n /\ t[i] = v
      /\ i - 1 \in Int /\ i \in Int /\ i + 1 \in Int /\ n \in Int /\ 1 \in Int
      /\ 1 <= i /\ i <= n /\ i - 1 <= i /\ i <= n /\ 1 <= (i - 1) + 1 /\ 1 <= i + 1
      /\ (i - 1) + 1 = i
  BY DEF Changed
<1>2. Moved(s, t, 1, i - 1, 0) /\ Moved(s, t, i + 1, n, 0)
  BY SMTT(30) DEF Changed, Moved
<1>3. Occurrences(s, o) = Cardinality(At(s, 1, n, o)) /\ Occurrences(t, o) = Cardinality(At(t, 1, n, o))
  BY <1>1, OccAt
<1>4. Occurrences(<<x>>, o) = (IF x = o THEN 1 ELSE 0) /\ Occurrences(<<v>>, o) = (IF v = o THEN 1 ELSE 0)
  <2> HIDE DEF x
  <2> QED BY <1>1, OccOne
<1>5. Cardinality(At(s, i, i, o)) = (IF x = o THEN 1 ELSE 0) /\ Cardinality(At(t, i, i, o)) = (IF v = o THEN 1 ELSE 0)
  BY <1>1, AtOne
<1> HIDE DEF n, x
<1>6. \A u : /\ Cardinality(At(u, 1, n, o)) = Cardinality(At(u, 1, i, o)) + Cardinality(At(u, i + 1, n, o))
             /\ Cardinality(At(u, 1, i, o)) = Cardinality(At(u, 1, i - 1, o)) + Cardinality(At(u, i, i, o))
             /\ Cardinality(At(u, 1, i - 1, o)) \in Nat /\ Cardinality(At(u, i, i, o)) \in Nat
             /\ Cardinality(At(u, i + 1, n, o)) \in Nat
  <2> TAKE u
  <2>1. Cardinality(At(u, 1, n, o)) = Cardinality(At(u, 1, i, o)) + Cardinality(At(u, i + 1, n, o))
    BY <1>1, AtSplit
  <2>2. Cardinality(At(u, 1, i, o)) = Cardinality(At(u, 1, i - 1, o)) + Cardinality(At(u, (i - 1) + 1, i, o))
        /\ Cardinality(At(u, 1, i - 1, o)) \in Nat
    BY <1>1, AtSplit
  <2>3. Cardinality(At(u, i, i, o)) \in Nat
    <3>1. i <= i + 1 /\ i <= i
      BY <1>1
    <3> QED BY <1>1, <3>1, AtSplit
  <2>4. Cardinality(At(u, i + 1, n, o)) \in Nat
    <3>1. i + 1 <= n + 1 /\ n <= n
      BY <1>1
    <3> QED BY <1>1, <3>1, AtSplit
  <2> QED BY <1>1, <2>1, <2>2, <2>3, <2>4
<1>7. Cardinality(At(t, 1, i - 1, o)) = Cardinality(At(s, 1, i - 1, o))
  <2>1. Cardinality(At(t, 1 + 0, (i - 1) + 0, o)) = Cardinality(At(s, 1, i - 1, o))
    BY <1>1, <1>2, AtMoved
  <2> QED BY <1>1, <2>1
<1>8. Cardinality(At(t, i + 1, n, o)) = Cardinality(At(s, i + 1, n, o))
  <2>1. Cardinality(At(t, (i + 1) + 0, n + 0, o)) = Cardinality(At(s, i + 1, n, o))
    BY <1>1, <1>2, AtMoved
  <2>2. (i + 1) + 0 = i + 1 /\ n + 0 = n
    BY <1>1
  <2> QED BY <2>1, <2>2
<1>9. Occurrences(t, o) + Occurrences(<<x>>, o) = Occurrences(s, o) + Occurrences(<<v>>, o)
  BY <1>3, <1>4, <1>5, <1>6, <1>7, <1>8
<1> QED BY <1>1, <1>9 DEF x

\* The elements in the opposite order.
LEMMA OccReverse ==
  ASSUME NEW s \in Seq(Value), NEW o
  PROVE  /\ Reverse(s) \in Seq(Value)
         /\ Occurrences(Reverse(s), o) = Occurrences(s, o)
<1> DEFINE n == Len(s)
           t == Reverse(s)
           A == At(s, 1, n, o)
           B == At(t, 1, n, o)
           f == [i \in A |-> n + 1 - i]
<1>1. n \in Nat /\ t \in Seq(Value) /\ Len(t) = n /\ \A i \in 1 .. n : t[i] = s[(n - i) + 1]
  BY DEF Reverse
<1>2. IsFiniteSet(A)
  <2>1. IsFiniteSet(1 .. n) /\ A \in SUBSET (1 .. n)
    BY <1>1, FS_Interval DEF At
  <2> HIDE DEF A
  <2> QED BY <2>1, FS_Subset
<1>3. f \in Bijection(A, B)
  <2> HIDE DEF t, n
  <2>1. \A i \in A : n + 1 - i \in B
    <3> TAKE i \in A
    <3>1. i \in 1 .. n /\ s[i] = o
      BY DEF At
    <3>2. n + 1 - i \in 1 .. n /\ (n - (n + 1 - i)) + 1 = i
      BY <1>1, <3>1
    <3>3. t[n + 1 - i] = s[(n - (n + 1 - i)) + 1]
      BY <1>1, <3>2
    <3> QED BY <3>1, <3>2, <3>3 DEF At
  <2>2. f \in [A -> B]
    BY <2>1
  <2>3. \A i, j \in A : f[i] = f[j] => i = j
    BY <1>1 DEF At
  <2>4. \A j \in B : \E i \in A : f[i] = j
    <3> TAKE j \in B
    <3>1. j \in 1 .. n /\ t[j] = o
      BY DEF At
    <3>2. n + 1 - j \in 1 .. n /\ (n - j) + 1 = n + 1 - j /\ n + 1 - (n + 1 - j) = j
      BY <1>1, <3>1
    <3>3. n + 1 - j \in A
      BY <1>1, <3>1, <3>2 DEF At
    <3> QED BY <3>2, <3>3
  <2> HIDE DEF f, A, B
  <2> QED BY <2>2, <2>3, <2>4 DEF Bijection, Injection, Surjection, IsInjective
<1>4. Cardinality(B) = Cardinality(A)
  <2>1. ExistsBijection(A, B)
    <3> HIDE DEF f, A, B
    <3> QED BY <1>3 DEF ExistsBijection
  <2> HIDE DEF A, B
  <2> QED BY <1>2, <2>1, FS_Bijection
<1>5. Occurrences(s, o) = Cardinality(A)
  BY OccAt
<1>6. Occurrences(t, o) = Cardinality(At(t, 1, Len(t), o))
  <2> HIDE DEF t
  <2> QED BY <1>1, OccAt
<1>7. Occurrences(t, o) = Occurrences(s, o)
  <2> HIDE DEF t, n
  <2> QED BY <1>1, <1>4, <1>5, <1>6
<1> QED BY <1>1, <1>7

-----------------------------------------------------------------------------
(* How often an object is in a family of sequences.                        *)
\* A family of sequences of values, one for each element of a finite set.
Family(F, D) ==
  /\ IsFiniteSet(D)
  /\ DOMAIN F = D
  /\ \A d \in D : F[d] \in Seq(Value)

\* The places where o is, those of one member, and those of the others.
Hits(F, o)    == {q \in Places(F) : F[q[1]][q[2]] = o}
Row(Q, d)     == {i \in Nat : <<d, i>> \in Q}
Others(Q, d)  == {q \in Q : q[1] # d}

\* A place is a sequence of the family and a position in it.
LEMMA PlaceOf ==
  ASSUME NEW F, NEW D, Family(F, D)
  PROVE  /\ \A q \in Places(F) : q = <<q[1], q[2]>> /\ q[1] \in D /\ q[2] \in DOMAIN F[q[1]]
         /\ \A d \in D : \A i \in DOMAIN F[d] : <<d, i>> \in Places(F)
         /\ \A d, i : <<d, i>> \in Places(F) => d \in D /\ i \in DOMAIN F[d] /\ i \in Nat
<1>1. DOMAIN F = D /\ \A d \in D : F[d] \in Seq(Value)
  BY DEF Family
<1>2. \A d \in D : \A i \in DOMAIN F[d] : i \in Nat
  BY <1>1
<1>3. \A q \in Places(F) : \E d \in D : \E i \in DOMAIN F[d] : q = <<d, i>>
  BY <1>1 DEF Places
<1>4. \A d \in D : \A i \in DOMAIN F[d] : <<d, i>> \in Places(F)
  BY <1>1 DEF Places
<1> QED BY <1>2, <1>3, <1>4

\* Finitely many sequences have finitely many places.
LEMMA PlacesFinite ==
  ASSUME NEW F, NEW D, Family(F, D)
  PROVE  IsFiniteSet(Places(F))
<1> DEFINE row(d) == {<<d, i>> : i \in DOMAIN F[d]}
           f == [d \in D |-> row(d)]
           T == {row(d) : d \in D}
<1>1. IsFiniteSet(D) /\ DOMAIN F = D /\ \A d \in D : F[d] \in Seq(Value)
  BY DEF Family
<1>2. f \in Surjection(D, T)
  BY DEF Surjection
<1>3. IsFiniteSet(T)
  <2> HIDE DEF f, T
  <2> QED BY <1>1, <1>2, FS_Surjection
<1>4. \A d \in D : IsFiniteSet(row(d))
  <2> TAKE d \in D
  <2> DEFINE J == 1 .. Len(F[d])
             g == [i \in J |-> <<d, i>>]
             R == row(d)
  <2>1. DOMAIN F[d] = J /\ Len(F[d]) \in Nat
    BY <1>1
  <2>2. g \in Surjection(J, R)
    <3>1. R = {<<d, i>> : i \in J}
      BY <2>1
    <3> HIDE DEF J
    <3> QED BY <3>1 DEF Surjection
  <2>3. IsFiniteSet(J)
    <3>1. 1 \in Int /\ Len(F[d]) \in Int
      BY <2>1
    <3> QED BY <3>1, FS_Interval
  <2> HIDE DEF J, g, R
  <2> SUFFICES IsFiniteSet(R)
    BY DEF R
  <2> QED BY <2>2, <2>3, FS_Surjection
<1>5. \A U \in T : IsFiniteSet(U)
  BY <1>4
<1>6. Places(F) = UNION T
  BY <1>1 DEF Places
<1> HIDE DEF T
<1> QED BY <1>3, <1>5, <1>6, FS_UNION

\* Places are those in one sequence and those in the others.
LEMMA RowSplit ==
  ASSUME NEW F, NEW D, Family(F, D), NEW Q \in SUBSET Places(F), NEW d
  PROVE  /\ Cardinality(Q) \in Nat /\ Cardinality(Row(Q, d)) \in Nat
         /\ Cardinality(Others(Q, d)) \in Nat
         /\ Cardinality(Q) = Cardinality(Row(Q, d)) + Cardinality(Others(Q, d))
<1> DEFINE A == {q \in Q : q[1] = d}
           B == Others(Q, d)
           R == Row(Q, d)
           f == [q \in A |-> q[2]]
<1>1. IsFiniteSet(Q)
  BY PlacesFinite, FS_Subset
<1>2. A \in SUBSET Q /\ B \in SUBSET Q /\ Q = A \cup B /\ A \cap B = {}
  BY DEF Others
<1>3. IsFiniteSet(A) /\ IsFiniteSet(B)
  <2> HIDE DEF A, B
  <2> QED BY <1>1, <1>2, FS_Subset
<1>4. f \in Bijection(A, R)
  <2>0. \A q \in A : q = <<d, q[2]>> /\ q[2] \in Nat /\ q \in Q
    BY PlaceOf
  <2>1. \A q \in A : q[2] \in R
    BY <2>0 DEF Row
  <2>2. f \in [A -> R]
    BY <2>1
  <2>3. \A p, q \in A : f[p] = f[q] => p = q
    BY <2>0
  <2>4. \A i \in R : \E q \in A : f[q] = i
    <3> TAKE i \in R
    <3>1. <<d, i>> \in A
      BY DEF Row
    <3>2. f[<<d, i>>] = i
      BY <3>1
    <3> HIDE DEF f, A
    <3> QED BY <3>1, <3>2
  <2> HIDE DEF f, A, R
  <2> QED BY <2>2, <2>3, <2>4 DEF Bijection, Injection, Surjection, IsInjective
<1>5. IsFiniteSet(R) /\ Cardinality(R) = Cardinality(A)
  <2>1. ExistsBijection(A, R)
    <3> HIDE DEF f, A, R
    <3> QED BY <1>4 DEF ExistsBijection
  <2> HIDE DEF A, R
  <2> QED BY <1>3, <2>1, FS_Bijection
<1>6. Cardinality(A) \in Nat /\ Cardinality(B) \in Nat
  <2> HIDE DEF A, B
  <2> QED BY <1>3, FS_CardinalityType
<1>7. Cardinality(A \cup B) = Cardinality(A) + Cardinality(B) - Cardinality(A \cap B)
  <2> HIDE DEF A, B
  <2> QED BY <1>3, FS_Union
<1>8. Cardinality(A \cap B) = 0
  BY <1>2, FS_EmptySet
<1>9. Cardinality(Q) = Cardinality(R) + Cardinality(B) /\ Cardinality(Q) \in Nat /\ Cardinality(R) \in Nat
  <2> HIDE DEF A, B, R
  <2> QED BY <1>2, <1>5, <1>6, <1>7, <1>8
<1> QED BY <1>6, <1>9, Zenon

\* What one member contributes.
LEMMA SpreadSplit ==
  ASSUME NEW F, NEW D, Family(F, D), NEW d \in D, NEW o
  PROVE  /\ Spread(F, o) \in Nat
         /\ Cardinality(Others(Hits(F, o), d)) \in Nat
         /\ Occurrences(F[d], o) \in Nat
         /\ Spread(F, o) = Occurrences(F[d], o) + Cardinality(Others(Hits(F, o), d))
<1> DEFINE Q == Hits(F, o)
<1>1. Q \in SUBSET Places(F)
  BY DEF Hits
<1>2. Spread(F, o) = Cardinality(Q)
  BY DEF Spread, Hits
<1>3. Row(Q, d) = {i \in DOMAIN F[d] : F[d][i] = o}
  <2>1. \A i \in Row(Q, d) : i \in DOMAIN F[d] /\ F[d][i] = o
    <3> TAKE i \in Row(Q, d)
    <3>1. <<d, i>> \in Places(F) /\ F[<<d, i>>[1]][<<d, i>>[2]] = o
      BY DEF Row, Hits
    <3> QED BY <3>1, PlaceOf
  <2>2. \A i \in DOMAIN F[d] : F[d][i] = o => i \in Row(Q, d)
    <3> SUFFICES ASSUME NEW i \in DOMAIN F[d], F[d][i] = o PROVE i \in Row(Q, d)
      OBVIOUS
    <3>1. <<d, i>> \in Places(F) /\ i \in Nat
      BY PlaceOf
    <3> QED BY <3>1 DEF Row, Hits
  <2> HIDE DEF Q
  <2> QED BY <2>1, <2>2
<1>4. Occurrences(F[d], o) = Cardinality(Row(Q, d))
  BY <1>3 DEF Occurrences
<1>5. /\ Cardinality(Q) \in Nat /\ Cardinality(Row(Q, d)) \in Nat
      /\ Cardinality(Others(Q, d)) \in Nat
      /\ Cardinality(Q) = Cardinality(Row(Q, d)) + Cardinality(Others(Q, d))
  <2> HIDE DEF Q
  <2> QED BY <1>1, RowSplit
<1> QED BY <1>2, <1>4, <1>5, Zenon

\* The places of a family, those of one of its sequences apart.
LEMMA SizeSplit ==
  ASSUME NEW F, NEW D, Family(F, D), NEW d \in D
  PROVE  /\ Cardinality(Places(F)) \in Nat
         /\ Cardinality(Others(Places(F), d)) \in Nat
         /\ Len(F[d]) \in Nat
         /\ Cardinality(Places(F)) = Len(F[d]) + Cardinality(Others(Places(F), d))
<1> DEFINE Q == Places(F)
<1>1. F[d] \in Seq(Value)
  BY DEF Family
<1>2. DOMAIN F[d] = 1 .. Len(F[d]) /\ Len(F[d]) \in Nat
  BY <1>1
<1>3. Row(Q, d) = DOMAIN F[d]
  <2>1. \A i \in Row(Q, d) : i \in DOMAIN F[d]
    BY PlaceOf DEF Row
  <2>2. \A i \in DOMAIN F[d] : i \in Row(Q, d)
    BY <1>2, PlaceOf DEF Row
  <2> HIDE DEF Q
  <2> QED BY <2>1, <2>2
<1>4. Cardinality(Row(Q, d)) = Len(F[d])
  <2>1. Cardinality(1 .. Len(F[d])) = IF 1 > Len(F[d]) THEN 0 ELSE Len(F[d]) - 1 + 1
    <3> DEFINE m == Len(F[d])
    <3>1. m \in Nat
      BY <1>2
    <3> HIDE DEF m
    <3>2. Cardinality(1 .. m) = IF 1 > m THEN 0 ELSE m - 1 + 1
      BY <3>1, FS_Interval
    <3> QED BY <3>2 DEF m
  <2> HIDE DEF Q
  <2> QED BY <1>2, <1>3, <2>1
<1>5. /\ Cardinality(Q) \in Nat
      /\ Cardinality(Others(Q, d)) \in Nat
      /\ Cardinality(Q) = Cardinality(Row(Q, d)) + Cardinality(Others(Q, d))
  <2>1. Q \in SUBSET Places(F)
    OBVIOUS
  <2> HIDE DEF Q
  <2> QED BY <2>1, RowSplit
<1> QED BY <1>2, <1>4, <1>5, Zenon

\* The same family but for the member d, which one of them may lack.
Apart(F, D, G, E, d) ==
  /\ Family(F, D) /\ Family(G, E)
  /\ D \ {d} = E \ {d}
  /\ \A x \in D \ {d} : F[x] = G[x]

\* Two families that differ in one sequence have the other places in common.
LEMMA OthersApart ==
  ASSUME NEW F, NEW D, NEW G, NEW E, NEW d, Apart(F, D, G, E, d)
  PROVE  /\ Others(Places(F), d) = Others(Places(G), d)
         /\ \A o : Others(Hits(F, o), d) = Others(Hits(G, o), d)
<1>0. /\ Family(F, D) /\ Family(G, E) /\ D \ {d} = E \ {d}
      /\ \A x \in D \ {d} : F[x] = G[x]
  BY DEF Apart
<1>1. \A q \in Others(Places(F), d) : q \in Others(Places(G), d) /\ F[q[1]] = G[q[1]]
  <2> TAKE q \in Others(Places(F), d)
  <2>1. q \in Places(F) /\ q[1] # d
    BY DEF Others
  <2>2. q = <<q[1], q[2]>> /\ q[1] \in D /\ q[2] \in DOMAIN F[q[1]]
    BY <1>0, <2>1, PlaceOf
  <2>3. q[1] \in E /\ F[q[1]] = G[q[1]]
    BY <1>0, <2>1, <2>2
  <2>4. <<q[1], q[2]>> \in Places(G)
    BY <1>0, <2>2, <2>3, PlaceOf
  <2> QED BY <2>1, <2>2, <2>3, <2>4 DEF Others
<1>2. \A q \in Others(Places(G), d) : q \in Others(Places(F), d)
  <2> TAKE q \in Others(Places(G), d)
  <2>1. q \in Places(G) /\ q[1] # d
    BY DEF Others
  <2>2. q = <<q[1], q[2]>> /\ q[1] \in E /\ q[2] \in DOMAIN G[q[1]]
    BY <1>0, <2>1, PlaceOf
  <2>3. q[1] \in D /\ F[q[1]] = G[q[1]]
    BY <1>0, <2>1, <2>2
  <2>4. <<q[1], q[2]>> \in Places(F)
    BY <1>0, <2>2, <2>3, PlaceOf
  <2> QED BY <2>1, <2>2, <2>3, <2>4 DEF Others
<1>3. Others(Places(F), d) = Others(Places(G), d)
  BY <1>1, <1>2
<1>4. \A o : Others(Hits(F, o), d) = Others(Hits(G, o), d)
  <2> TAKE o
  <2>1. /\ Others(Hits(F, o), d) = {q \in Others(Places(F), d) : F[q[1]][q[2]] = o}
        /\ Others(Hits(G, o), d) = {q \in Others(Places(G), d) : G[q[1]][q[2]] = o}
    BY DEF Others, Hits
  <2> QED BY <1>1, <1>3, <2>1
<1> QED BY <1>3, <1>4

\* A family with one member changed.
LEMMA SpreadChange ==
  ASSUME NEW F, NEW G, NEW D, NEW d \in D, Apart(F, D, G, D, d), NEW o
  PROVE  /\ Spread(F, o) \in Nat /\ Spread(G, o) \in Nat
         /\ Occurrences(F[d], o) \in Nat /\ Occurrences(G[d], o) \in Nat
         /\ Spread(G, o) + Occurrences(F[d], o) = Spread(F, o) + Occurrences(G[d], o)
<1>1. Family(F, D) /\ Family(G, D)
  BY DEF Apart
<1>2. Others(Hits(F, o), d) = Others(Hits(G, o), d)
  BY OthersApart
<1>3. /\ Spread(F, o) \in Nat
      /\ Cardinality(Others(Hits(F, o), d)) \in Nat
      /\ Occurrences(F[d], o) \in Nat
      /\ Spread(F, o) = Occurrences(F[d], o) + Cardinality(Others(Hits(F, o), d))
  BY <1>1, SpreadSplit
<1>4. /\ Spread(G, o) \in Nat
      /\ Occurrences(G[d], o) \in Nat
      /\ Spread(G, o) = Occurrences(G[d], o) + Cardinality(Others(Hits(G, o), d))
  BY <1>1, SpreadSplit
<1> QED BY <1>2, <1>3, <1>4

\* The number of places changes with the length of the one sequence.
LEMMA SizeChange ==
  ASSUME NEW F, NEW G, NEW D, NEW d \in D, Apart(F, D, G, D, d)
  PROVE  /\ Cardinality(Places(F)) \in Nat /\ Cardinality(Places(G)) \in Nat
         /\ Len(F[d]) \in Nat /\ Len(G[d]) \in Nat
         /\ Cardinality(Places(G)) + Len(F[d]) = Cardinality(Places(F)) + Len(G[d])
<1>1. Family(F, D) /\ Family(G, D)
  BY DEF Apart
<1>2. Others(Places(F), d) = Others(Places(G), d)
  BY OthersApart
<1>3. /\ Cardinality(Places(F)) \in Nat
      /\ Cardinality(Others(Places(F), d)) \in Nat
      /\ Len(F[d]) \in Nat
      /\ Cardinality(Places(F)) = Len(F[d]) + Cardinality(Others(Places(F), d))
  BY <1>1, SizeSplit
<1>4. /\ Cardinality(Places(G)) \in Nat
      /\ Len(G[d]) \in Nat
      /\ Cardinality(Places(G)) = Len(G[d]) + Cardinality(Others(Places(G), d))
  BY <1>1, SizeSplit
<1> QED BY <1>2, <1>3, <1>4

\* A family with one more member.
LEMMA SpreadAdd ==
  ASSUME NEW F, NEW G, NEW D, NEW E, NEW d \in E, d \notin D, Apart(F, D, G, E, d), NEW o
  PROVE  /\ Spread(F, o) \in Nat /\ Spread(G, o) \in Nat /\ Occurrences(G[d], o) \in Nat
         /\ Spread(G, o) = Spread(F, o) + Occurrences(G[d], o)
<1>1. Family(F, D) /\ Family(G, E)
  BY DEF Apart
<1>2. Others(Hits(F, o), d) = Others(Hits(G, o), d)
  BY OthersApart
<1>3. Others(Hits(F, o), d) = Hits(F, o)
  <2>1. \A q \in Hits(F, o) : q[1] # d
    BY <1>1, PlaceOf DEF Hits
  <2> QED BY <2>1 DEF Others
<1>4. Spread(F, o) = Cardinality(Hits(F, o))
  BY DEF Spread, Hits
<1>5. /\ Spread(G, o) \in Nat
      /\ Cardinality(Others(Hits(G, o), d)) \in Nat
      /\ Occurrences(G[d], o) \in Nat
      /\ Spread(G, o) = Occurrences(G[d], o) + Cardinality(Others(Hits(G, o), d))
  BY <1>1, SpreadSplit
<1>6. Cardinality(Others(Hits(G, o), d)) = Spread(F, o)
  BY <1>2, <1>3, <1>4, Zenon
<1> QED BY <1>5, <1>6

\* What is nowhere.
LEMMA SpreadNat ==
  ASSUME NEW F, NEW D, Family(F, D), NEW o
  PROVE  /\ Spread(F, o) \in Nat
         /\ Spread(F, o) = 0 <=> \A d \in D : \A i \in DOMAIN F[d] : F[d][i] # o
<1> DEFINE Q == Hits(F, o)
<1>1. IsFiniteSet(Q)
  <2>1. Q \in SUBSET Places(F)
    BY DEF Hits
  <2> HIDE DEF Q
  <2> QED BY <2>1, PlacesFinite, FS_Subset
<1>2. Spread(F, o) = Cardinality(Q)
  BY DEF Spread, Hits
<1>3. Cardinality(Q) \in Nat /\ (Cardinality(Q) = 0 <=> Q = {})
  <2> HIDE DEF Q
  <2> QED BY <1>1, FS_CardinalityType, FS_EmptySet
<1>4. Q = {} <=> \A d \in D : \A i \in DOMAIN F[d] : F[d][i] # o
  <2>1. ASSUME NEW d \in D, NEW i \in DOMAIN F[d], F[d][i] = o PROVE <<d, i>> \in Q
    BY <2>1, PlaceOf DEF Hits
  <2>2. ASSUME NEW q \in Q PROVE q[1] \in D /\ q[2] \in DOMAIN F[q[1]] /\ F[q[1]][q[2]] = o
    BY PlaceOf DEF Hits
  <2> HIDE DEF Q
  <2> QED BY <2>1, <2>2
<1> QED BY <1>2, <1>3, <1>4, Zenon

-----------------------------------------------------------------------------
(* Heaps, and the steps of a release.                                      *)
\* What a cell is when nothing is known of its count, and the states of a
\* release over such heaps.
RawCell == [kind : Kinds, rc : Int, items : Seq(Value), extra : {0, 1}]
Raw     == [Objs -> RawCell]
State   == [heap : Raw, due : Seq(Value)]

\* The outside holders E, and one reference for each value of vs.
Plus(E, vs) == [o \in Objs |-> E[o] + Occurrences(vs, o)]

\* A heap whose counts are natural is a heap.
LEMMA CellIsRaw == [Objs -> Cell] \subseteq Raw
  BY DEF Raw, RawCell, Cell

\* The objects are finitely many.
LEMMA ObjsFinite == IsFiniteSet(Objs)
  BY RcHeapAssumption, FS_Interval DEF Objs

\* The elements of the objects are a family of sequences.
LEMMA ItemsFamily ==
  ASSUME NEW h \in Raw
  PROVE  Family(Items(h), Objs) /\ \A o \in Objs : Items(h)[o] = h[o].items
  BY ObjsFinite DEF Raw, RawCell, Items, Family

\* An object nobody refers to is an element of none.
LEMMA References0 ==
  ASSUME NEW h \in Raw, NEW o
  PROVE  /\ References(h, o) \in Nat
         /\ References(h, o) = 0 <=> \A p \in Objs : \A i \in DOMAIN h[p].items : h[p].items[i] # o
<1>1. Family(Items(h), Objs) /\ \A p \in Objs : Items(h)[p] = h[p].items
  BY ItemsFamily
<1>2. /\ Spread(Items(h), o) \in Nat
      /\ Spread(Items(h), o) = 0 <=> \A d \in Objs : \A i \in DOMAIN Items(h)[d] : Items(h)[d][i] # o
  BY <1>1, SpreadNat
<1> QED BY <1>1, <1>2 DEF References

\* The first of a sequence and the others.
LEMMA OccTail ==
  ASSUME NEW s \in Seq(Value), s # <<>>
  PROVE  /\ Head(s) \in Value /\ Tail(s) \in Seq(Value) /\ Len(s) \in Nat /\ Len(Tail(s)) = Len(s) - 1
         /\ \A o : /\ Occurrences(Tail(s), o) \in Nat
                   /\ Occurrences(s, o) = (IF Head(s) = o THEN 1 ELSE 0) + Occurrences(Tail(s), o)
<1> DEFINE v == Head(s)
           t == Tail(s)
<1>1. v \in Value /\ t \in Seq(Value) /\ Len(s) \in Nat /\ Len(t) = Len(s) - 1
  OBVIOUS
<1>2. s = <<v>> \o t
  OBVIOUS
<1> HIDE DEF v, t
<1>3. \A o : /\ Occurrences(t, o) \in Nat
             /\ Occurrences(s, o) = (IF v = o THEN 1 ELSE 0) + Occurrences(t, o)
  <2> TAKE o
  <2>1. Occurrences(t, o) \in Nat
    BY <1>1, OccAt
  <2>2. <<v>> \in Seq(Value) /\ Occurrences(<<v>>, o) = IF v = o THEN 1 ELSE 0
    BY <1>1, OccOne
  <2>3. Occurrences(<<v>> \o t, o) = Occurrences(<<v>>, o) + Occurrences(t, o)
    BY <1>1, <2>2, OccConcat
  <2> QED BY <1>2, <2>1, <2>2, <2>3
<1> QED BY <1>1, <1>3 DEF v, t

\* One release.
LEMMA HeadTyped ==
  ASSUME NEW s \in State
  PROVE  ReleaseHead(s) \in State
<1> DEFINE h == s.heap
           v == Head(s.due)
<1>1. s.heap \in Raw /\ s.due \in Seq(Value)
  BY DEF State
<1>2. CASE s.due = <<>>
  BY <1>2 DEF ReleaseHead
<1>3. CASE s.due # <<>>
  <2>1. v \in Value /\ Tail(s.due) \in Seq(Value)
    BY <1>1, <1>3
  <2>2. CASE ~IsRef(v)
    BY <1>1, <1>3, <2>1, <2>2 DEF ReleaseHead, State
  <2>3. CASE IsRef(v)
    <3>1. v \in Objs /\ h[v] \in RawCell
      BY <1>1, <2>3 DEF IsRef, Raw
    <3>2. h[v].items \o Tail(s.due) \in Seq(Value)
      BY <2>1, <3>1 DEF RawCell
    <3>3. FreeCell \in RawCell /\ [h[v] EXCEPT !.rc = @ - 1] \in RawCell
      BY <3>1 DEF FreeCell, RawCell, Kinds
    <3>4. [h EXCEPT ![v] = FreeCell] \in Raw
      BY <1>1, <3>3 DEF Raw
    <3>5. [h EXCEPT ![v].rc = @ - 1] \in Raw
      <4>1. [h EXCEPT ![v].rc = @ - 1] = [h EXCEPT ![v] = [h[v] EXCEPT !.rc = @ - 1]]
        OBVIOUS
      <4> QED BY <1>1, <3>3, <4>1 DEF Raw
    <3>6. CASE h[v].rc = 1
      BY <1>3, <2>3, <3>2, <3>4, <3>6 DEF ReleaseHead, State
    <3>7. CASE h[v].rc # 1
      BY <1>3, <2>1, <2>3, <3>5, <3>7 DEF ReleaseHead, State
    <3> QED BY <3>6, <3>7
  <2> QED BY <2>2, <2>3
<1> QED BY <1>2, <1>3

\* The steps of a release.
LEMMA ReleasingStep ==
  ASSUME NEW h \in Raw, NEW vs \in Seq(Value)
  PROVE  LET n == Pending(h, vs)
             r == Releasing(h, vs)
         IN  /\ n \in Nat
             /\ r \in [0 .. n -> State]
             /\ r[0] = [heap |-> h, due |-> vs]
             /\ \A i \in 1 .. n : r[i] = ReleaseHead(r[i - 1])
<1> DEFINE n == Pending(h, vs)
           r == Releasing(h, vs)
           a == [heap |-> h, due |-> vs]
           release == [s \in State |-> ReleaseHead(s)]
           advance == [i \in 1 .. n |-> release]
<1>1. n \in Nat
  <2>1. IsFiniteSet(Places(Items(h)))
    BY ItemsFamily, PlacesFinite
  <2>2. Cardinality(Places(Items(h))) \in Nat
    BY <2>1, FS_CardinalityType
  <2> QED BY <2>2 DEF Pending
<1>2. a \in State
  BY DEF State
<1>3. release \in [State -> State]
  BY HeadTyped
<1> HIDE DEF n
<1>4. PICK f : Iteration(f, a, n, State, advance)
  <2>1. advance \in Steps(n, State)
    BY <1>3 DEF Steps
  <2> HIDE DEF advance, a
  <2> QED BY <1>1, <1>2, <2>1, Iterate
<1>5. ASSUME NEW i \in 0 .. n
      PROVE  f[i] = IF i = 0 THEN a ELSE ReleaseHead(f[i - 1])
  <2>1. CASE i # 0
    <3>1. i \in 1 .. n /\ i - 1 \in 0 .. n
      BY <1>1, <2>1
    <3>2. f[i] = advance[i][f[i - 1]] /\ f[i - 1] \in State
      BY <1>4, <3>1 DEF Iteration
    <3> QED BY <2>1, <3>1, <3>2
  <2> QED BY <1>4, <2>1 DEF Iteration
<1>6. f = [i \in 0 .. n |-> IF i = 0 THEN a ELSE ReleaseHead(f[i - 1])]
  BY <1>4, <1>5 DEF Iteration
<1>7. r = [i \in 0 .. n |-> IF i = 0 THEN a ELSE ReleaseHead(r[i - 1])]
  <2> HIDE DEF release, advance
  <2> QED BY <1>6 DEF Releasing, n
<1> HIDE DEF r, a, release, advance
<1>8. r[0] = a /\ \A i \in 1 .. n : r[i] = ReleaseHead(r[i - 1])
  <2>1. r[0] = a
    BY <1>1, <1>7
  <2>2. ASSUME NEW i \in 1 .. n PROVE r[i] = ReleaseHead(r[i - 1])
    <3>1. i \in 0 .. n /\ i # 0
      BY <1>1
    <3> QED BY <1>7, <3>1
  <2> QED BY <2>1, <2>2
<1> DEFINE S == {i \in Nat : i <= n => r[i] \in State}
<1>9. 0 \in S
  BY <1>2, <1>8
<1>10. ASSUME NEW i \in Nat, i \in S PROVE i + 1 \in S
  <2> SUFFICES ASSUME i + 1 <= n PROVE r[i + 1] \in State
    OBVIOUS
  <2>1. r[i] \in State /\ i + 1 \in 1 .. n /\ (i + 1) - 1 = i
    BY <1>1, <1>10
  <2> QED BY <1>8, <2>1, HeadTyped
<1>11. Nat \subseteq S
  <2> HIDE DEF S
  <2> QED BY <1>9, <1>10, NatInd
<1>12. r \in [0 .. n -> State]
  BY <1>1, <1>7, <1>11
<1> QED BY <1>1, <1>8, <1>12 DEF n, r, a

-----------------------------------------------------------------------------
(* The invariant of the heap, and one step of a release.                   *)
\* Every count is the number of outside references, of elements, and the extra one.
Balanced(h, E) ==
  \A o \in Objs : h[o].rc = E[o] + References(h, o) + h[o].extra

\* What the constructors and the release leave of each kind of object.
Even(s) == Len(s) % 2 = 0
Formed(c) ==
  /\ c.kind = "free" => c.rc = 0 /\ c.items = <<>> /\ c.extra = 0
  /\ c.kind # "free" => c.rc >= 1
  /\ c.kind = "str" => c.items = <<>>
  /\ c.kind \in {"arr", "map"} => c.extra = 1
  /\ c.kind = "map" => Even(c.items)
\* Every cell is as its kind asks.
Shaped(h) == \A o \in Objs : Formed(h[o])

\* Captured values never refer to the closure that holds them, however far:
\* every set of objects has one that no closure of the set holds.
HoldsObj(h, p, o) == \E i \in DOMAIN h[p].items : h[p].items[i] = o
Acyclic(h) ==
  \A S \in SUBSET Objs : S # {} =>
    \E o \in S : \A p \in S : h[p].kind = "cap" => ~HoldsObj(h, p, o)

\* The invariant of the heap, for the references E held outside it.
Owned(h, E) == h \in [Objs -> Cell] /\ Balanced(h, E) /\ Shaped(h) /\ Acyclic(h)

\* What is not freed keeps its kind, its elements and its extra reference.
Survives(h, g) ==
  \A o \in Objs : g[o].kind # "free" =>
    g[o].kind = h[o].kind /\ g[o].items = h[o].items /\ g[o].extra = h[o].extra

\* The parts of a cell.
LEMMA CellOf ==
  ASSUME NEW h \in [Objs -> Cell], NEW o \in Objs
  PROVE  /\ h[o].kind \in Kinds /\ h[o].rc \in Nat /\ h[o].items \in Seq(Value)
         /\ h[o].extra \in {0, 1} /\ h \in Raw
<1>1. h[o] \in Cell
  OBVIOUS
<1> QED BY <1>1, CellIsRaw DEF Cell

\* A release makes no closure hold more than it did.
LEMMA AcyclicSurvives ==
  ASSUME NEW h, NEW g, Survives(h, g), Acyclic(h)
  PROVE  Acyclic(g)
<1> SUFFICES ASSUME NEW S \in SUBSET Objs, S # {}
             PROVE  \E o \in S : \A p \in S : g[p].kind = "cap" => ~HoldsObj(g, p, o)
  BY DEF Acyclic
<1>1. PICK o \in S : \A p \in S : h[p].kind = "cap" => ~HoldsObj(h, p, o)
  BY DEF Acyclic
<1>2. ASSUME NEW p \in S, g[p].kind = "cap" PROVE ~HoldsObj(g, p, o)
  <2>1. p \in Objs
    OBVIOUS
  <2>2. h[p].kind = "cap" /\ g[p].items = h[p].items
    BY <1>2, <2>1 DEF Survives
  <2>3. ~HoldsObj(h, p, o)
    BY <1>1, <2>2
  <2> QED BY <2>2, <2>3 DEF HoldsObj
<1> QED BY <1>2

\* Surviving two releases is surviving both.
LEMMA SurvivesTwice ==
  ASSUME NEW h, NEW g, NEW f, Survives(h, g), Survives(g, f)
  PROVE  Survives(h, f)
  BY DEF Survives

\* g is h without the object v, or with one reference less to it.
Freed(h, g, v) ==
  /\ h \in [Objs -> Cell] /\ g \in [Objs -> Cell] /\ v \in Objs
  /\ g[v].kind = "free" /\ g[v].rc = 0 /\ g[v].items = <<>> /\ g[v].extra = 0
  /\ \A o \in Objs : o # v => g[o] = h[o]

\* g is h with one reference to v less.
Lowered(h, g, v) ==
  /\ h \in [Objs -> Cell] /\ g \in [Objs -> Cell] /\ v \in Objs
  /\ g[v].rc = h[v].rc - 1
  /\ \A o \in Objs : /\ g[o].kind = h[o].kind /\ g[o].items = h[o].items /\ g[o].extra = h[o].extra
                     /\ o # v => g[o].rc = h[o].rc

\* Freeing an object takes the references of its elements away.
LEMMA FreedSpread ==
  ASSUME NEW h, NEW g, NEW v, Freed(h, g, v)
  PROVE  /\ h[v].items \in Seq(Value)
         /\ \A o : /\ References(g, o) \in Nat /\ References(h, o) \in Nat
                   /\ Occurrences(h[v].items, o) \in Nat
                   /\ References(g, o) + Occurrences(h[v].items, o) = References(h, o)
         /\ Cardinality(Places(Items(g))) \in Nat /\ Cardinality(Places(Items(h))) \in Nat
         /\ Len(h[v].items) \in Nat
         /\ Cardinality(Places(Items(g))) + Len(h[v].items) = Cardinality(Places(Items(h)))
<1> DEFINE F == Items(h)
           G == Items(g)
<1>1. h \in Raw /\ g \in Raw /\ v \in Objs /\ g[v].items = <<>> /\ h[v].items \in Seq(Value)
  BY CellIsRaw, CellOf DEF Freed
<1>2. /\ Family(F, Objs) /\ Family(G, Objs)
      /\ F[v] = h[v].items /\ G[v] = <<>>
      /\ \A x \in Objs \ {v} : F[x] = G[x]
  BY <1>1, ItemsFamily DEF Freed
<1>3. Apart(F, Objs, G, Objs, v)
  <2> HIDE DEF F, G
  <2> QED BY <1>2 DEF Apart
<1>4. \A o : /\ References(g, o) \in Nat /\ References(h, o) \in Nat
             /\ Occurrences(h[v].items, o) \in Nat
             /\ References(g, o) + Occurrences(h[v].items, o) = References(h, o)
  <2> TAKE o
  <2>1. /\ Spread(F, o) \in Nat /\ Spread(G, o) \in Nat
        /\ Occurrences(F[v], o) \in Nat /\ Occurrences(G[v], o) \in Nat
        /\ Spread(G, o) + Occurrences(F[v], o) = Spread(F, o) + Occurrences(G[v], o)
    <3> HIDE DEF F, G
    <3> QED BY <1>1, <1>3, SpreadChange
  <2>2. Occurrences(G[v], o) = 0
    <3> HIDE DEF F, G
    <3> QED BY <1>2, OccEmpty
  <2>3. References(g, o) = Spread(G, o) /\ References(h, o) = Spread(F, o)
    BY DEF References
  <2>4. Occurrences(h[v].items, o) = Occurrences(F[v], o)
    <3> HIDE DEF F, G
    <3> QED BY <1>2
  <2> HIDE DEF F, G
  <2> QED BY <2>1, <2>2, <2>3, <2>4
<1>5. /\ Cardinality(Places(F)) \in Nat /\ Cardinality(Places(G)) \in Nat
      /\ Len(F[v]) \in Nat /\ Len(G[v]) \in Nat
      /\ Cardinality(Places(G)) + Len(F[v]) = Cardinality(Places(F)) + Len(G[v])
  <2> HIDE DEF F, G
  <2> QED BY <1>1, <1>3, SizeChange
<1>6. Len(G[v]) = 0 /\ Len(F[v]) = Len(h[v].items)
  <2>1. Len(<<>>) = 0
    OBVIOUS
  <2> HIDE DEF F, G
  <2> QED BY <1>2, <2>1
<1>7. /\ Cardinality(Places(F)) \in Nat /\ Cardinality(Places(G)) \in Nat
      /\ Len(h[v].items) \in Nat
      /\ Cardinality(Places(G)) + Len(h[v].items) = Cardinality(Places(F))
  <2> HIDE DEF F, G
  <2> QED BY <1>5, <1>6
<1> QED BY <1>1, <1>4, <1>7

\* The counts of references depend on the elements only.
LEMMA SameItems ==
  ASSUME NEW h, NEW g, \A o \in Objs : g[o].items = h[o].items
  PROVE  Items(g) = Items(h) /\ \A o : References(g, o) = References(h, o)
<1>1. Items(g) = Items(h)
  BY DEF Items
<1> QED BY <1>1 DEF References

\* After a step from h and vs to g and ws one step less is left.
Shortens(h, vs, g, ws) == Pending(g, ws) = Pending(h, vs) - 1

\* The first value due is an object with no other reference.
LEMMA FreeOwned ==
  ASSUME NEW E \in [Objs -> Nat], NEW h, NEW due \in Seq(Value), due # <<>>,
         Owned(h, Plus(E, due)), NEW v, v = Head(due), NEW g, Freed(h, g, v), h[v].rc = 1,
         NEW left, left = h[v].items \o Tail(due)
  PROVE  /\ left \in Seq(Value)
         /\ Owned(g, Plus(E, left))
         /\ Survives(h, g)
         /\ Shortens(h, due, g, left)
<1>1. /\ v \in Objs /\ h \in [Objs -> Cell] /\ g \in [Objs -> Cell]
      /\ g[v].kind = "free" /\ g[v].rc = 0 /\ g[v].items = <<>> /\ g[v].extra = 0
      /\ \A o \in Objs : o # v => g[o] = h[o]
  BY DEF Freed
<1>2. /\ Tail(due) \in Seq(Value) /\ Len(due) \in Nat /\ Len(Tail(due)) = Len(due) - 1
      /\ \A o : /\ Occurrences(Tail(due), o) \in Nat
                /\ Occurrences(due, o) = (IF v = o THEN 1 ELSE 0) + Occurrences(Tail(due), o)
  BY OccTail
<1>3. /\ h[v].items \in Seq(Value)
      /\ \A o : /\ References(g, o) \in Nat /\ References(h, o) \in Nat
                /\ Occurrences(h[v].items, o) \in Nat
                /\ References(g, o) + Occurrences(h[v].items, o) = References(h, o)
  BY FreedSpread
<1>4. /\ left \in Seq(Value)
      /\ \A o : Occurrences(left, o) = Occurrences(h[v].items, o) + Occurrences(Tail(due), o)
  <2> DEFINE a == h[v].items
             b == Tail(due)
  <2>0. left = a \o b
    OBVIOUS
  <2>1. a \in Seq(Value) /\ b \in Seq(Value)
    BY <1>2, <1>3
  <2> HIDE DEF a, b
  <2>2. a \o b \in Seq(Value) /\ \A o : Occurrences(a \o b, o) = Occurrences(a, o) + Occurrences(b, o)
    BY <2>1, OccConcat
  <2> QED BY <2>0, <2>2 DEF a, b
<1>5. Len(left) = Len(h[v].items) + Len(Tail(due))
  BY <1>2, <1>3
<1>6. Shortens(h, due, g, left)
  <2>1. /\ Cardinality(Places(Items(g))) \in Nat /\ Cardinality(Places(Items(h))) \in Nat
        /\ Len(h[v].items) \in Nat
        /\ Cardinality(Places(Items(g))) + Len(h[v].items) = Cardinality(Places(Items(h)))
    BY FreedSpread
  <2> DEFINE a == Len(left)
             b == Len(h[v].items)
             c == Len(due)
             e == Len(Tail(due))
  <2>2. a = b + e /\ e = c - 1 /\ c \in Nat /\ b \in Nat
    BY <1>2, <1>5, <2>1
  <2>3. Cardinality(Places(Items(g))) + b = Cardinality(Places(Items(h)))
    BY <2>1
  <2> HIDE DEF a, b, c, e
  <2>4. a + Cardinality(Places(Items(g))) = (c + Cardinality(Places(Items(h)))) - 1
    BY <2>1, <2>2, <2>3
  <2> QED BY <2>4 DEF a, c, Pending, Shortens
<1>7. \A o \in Objs : E[o] \in Nat /\ h[o].rc = (E[o] + Occurrences(due, o)) + References(h, o) + h[o].extra
  BY DEF Owned, Balanced, Plus
<1>8. /\ E[v] = 0 /\ Occurrences(Tail(due), v) = 0 /\ References(h, v) = 0 /\ h[v].extra = 0
  <2>1. h[v].extra \in {0, 1}
    BY <1>1, CellOf
  <2> DEFINE x == h[v].rc
             a == E[v]
             b == Occurrences(due, v)
             c == Occurrences(Tail(due), v)
             d == References(h, v)
             y == h[v].extra
  <2>2. x = 1 /\ x = (a + b) + d + y /\ y \in {0, 1} /\ a \in Nat
    BY <1>1, <1>7, <2>1
  <2>3. b = 1 + c /\ c \in Nat /\ d \in Nat
    BY <1>1, <1>2, <1>3
  <2> HIDE DEF x, a, b, c, d, y
  <2>4. a = 0 /\ c = 0 /\ d = 0 /\ y = 0
    BY <2>2, <2>3
  <2> QED BY <2>4 DEF a, c, d, y
<1>9. Balanced(g, Plus(E, left))
  <2> SUFFICES ASSUME NEW o \in Objs
               PROVE  g[o].rc = (E[o] + Occurrences(left, o)) + References(g, o) + g[o].extra
    BY DEF Balanced, Plus
  <2>1. /\ References(g, o) \in Nat /\ References(h, o) \in Nat
        /\ Occurrences(h[v].items, o) \in Nat
        /\ References(g, o) + Occurrences(h[v].items, o) = References(h, o)
        /\ Occurrences(left, o) = Occurrences(h[v].items, o) + Occurrences(Tail(due), o)
        /\ Occurrences(Tail(due), o) \in Nat
        /\ Occurrences(due, o) = (IF v = o THEN 1 ELSE 0) + Occurrences(Tail(due), o)
    BY <1>2, <1>3, <1>4
  <2>2. CASE o = v
    <3>1. /\ g[o].rc = 0 /\ g[o].extra = 0 /\ E[o] = 0 /\ Occurrences(Tail(due), o) = 0
          /\ References(h, o) = 0
      BY <1>1, <1>8, <2>2
    <3> QED BY <2>1, <3>1
  <2>3. CASE o # v
    <3>1. g[o] = h[o] /\ h[o].extra \in {0, 1}
      BY <1>1, <2>3, CellOf
    <3>2. E[o] \in Nat /\ h[o].rc = (E[o] + Occurrences(due, o)) + References(h, o) + h[o].extra
      BY <1>7
    <3> QED BY <2>1, <2>3, <3>1, <3>2, SMTT(30)
  <2> QED BY <2>2, <2>3
<1>10. Survives(h, g)
  BY <1>1 DEF Survives
<1>11. Shaped(g)
  <2>1. Shaped(h)
    BY DEF Owned
  <2> SUFFICES ASSUME NEW o \in Objs PROVE Formed(g[o])
    BY DEF Shaped
  <2>3. CASE o = v
    BY <1>1, <2>3 DEF Formed
  <2>4. CASE o # v
    <3>1. g[o] = h[o]
      BY <1>1, <2>4
    <3> QED BY <2>1, <3>1 DEF Shaped
  <2> QED BY <2>3, <2>4
<1>12. Acyclic(g)
  BY <1>10, AcyclicSurvives DEF Owned
<1>13. Owned(g, Plus(E, left))
  BY <1>1, <1>9, <1>11, <1>12 DEF Owned
<1> QED BY <1>4, <1>6, <1>10, <1>13

\* The first value due is an object that other references hold.
LEMMA LowerOwned ==
  ASSUME NEW E \in [Objs -> Nat], NEW h, NEW due \in Seq(Value), due # <<>>,
         Owned(h, Plus(E, due)), NEW v, v = Head(due), NEW g, Lowered(h, g, v), h[v].rc # 1
  PROVE  /\ Tail(due) \in Seq(Value)
         /\ Owned(g, Plus(E, Tail(due)))
         /\ Survives(h, g)
         /\ Items(g) = Items(h)
<1>1. /\ v \in Objs /\ h \in [Objs -> Cell] /\ g \in [Objs -> Cell]
      /\ g[v].rc = h[v].rc - 1
      /\ \A o \in Objs : /\ g[o].kind = h[o].kind /\ g[o].items = h[o].items /\ g[o].extra = h[o].extra
                         /\ o # v => g[o].rc = h[o].rc
  BY DEF Lowered
<1>2. /\ Tail(due) \in Seq(Value)
      /\ \A o : /\ Occurrences(Tail(due), o) \in Nat
                /\ Occurrences(due, o) = (IF v = o THEN 1 ELSE 0) + Occurrences(Tail(due), o)
  BY OccTail
<1>3. Items(g) = Items(h) /\ \A o : References(g, o) = References(h, o)
  BY <1>1, SameItems, ZenonT(30)
<1>4. \A o \in Objs : E[o] \in Nat /\ h[o].rc = (E[o] + Occurrences(due, o)) + References(h, o) + h[o].extra
  BY DEF Owned, Balanced, Plus
<1>5. \A o \in Objs : References(h, o) \in Nat /\ h[o].extra \in {0, 1}
  BY <1>1, CellIsRaw, CellOf, References0
<1>6. Balanced(g, Plus(E, Tail(due)))
  <2> SUFFICES ASSUME NEW o \in Objs
               PROVE  g[o].rc = (E[o] + Occurrences(Tail(due), o)) + References(g, o) + g[o].extra
    BY DEF Balanced, Plus
  <2>1. /\ g[o].extra = h[o].extra /\ References(g, o) = References(h, o)
        /\ References(h, o) \in Nat /\ h[o].extra \in {0, 1} /\ E[o] \in Nat
        /\ h[o].rc = (E[o] + Occurrences(due, o)) + References(h, o) + h[o].extra
    BY <1>1, <1>3, <1>4, <1>5
  <2>2. /\ Occurrences(Tail(due), o) \in Nat
        /\ Occurrences(due, o) = (IF v = o THEN 1 ELSE 0) + Occurrences(Tail(due), o)
    BY <1>2
  <2>3. g[o].rc = IF v = o THEN h[o].rc - 1 ELSE h[o].rc
    BY <1>1
  <2> DEFINE x == h[o].rc
             a == E[o]
             b == Occurrences(due, o)
             c == Occurrences(Tail(due), o)
             d == References(h, o)
             y == h[o].extra
             z == g[o].rc
  <2>4. x = (a + b) + d + y /\ a \in Nat /\ c \in Nat /\ d \in Nat /\ y \in {0, 1}
    BY <2>1, <2>2
  <2>5. b = (IF v = o THEN 1 ELSE 0) + c /\ z = IF v = o THEN x - 1 ELSE x
    BY <2>2, <2>3
  <2>6. g[o].extra = y /\ References(g, o) = d
    BY <2>1
  <2> HIDE DEF x, a, b, c, d, y, z
  <2>7. z = (a + c) + d + y
    <3>1. CASE v = o
      <4>1. b = 1 + c /\ z = x - 1
        BY <2>5, <3>1
      <4> QED BY <2>4, <4>1
    <3>2. CASE v # o
      <4>1. b = c /\ z = x
        BY <2>4, <2>5, <3>2
      <4> QED BY <2>4, <4>1
    <3> QED BY <3>1, <3>2
  <2> QED BY <2>6, <2>7 DEF a, c, z
<1>7. Survives(h, g)
  BY <1>1 DEF Survives
<1>8. h[v].rc >= 2 /\ h[v].kind # "free"
  <2>1. h[v].rc >= 1 /\ h[v].rc \in Nat
    <3>1. /\ References(h, v) \in Nat /\ h[v].extra \in {0, 1} /\ E[v] \in Nat
          /\ h[v].rc = (E[v] + Occurrences(due, v)) + References(h, v) + h[v].extra
      BY <1>1, <1>4, <1>5
    <3>2. Occurrences(Tail(due), v) \in Nat /\ Occurrences(due, v) = 1 + Occurrences(Tail(due), v)
      BY <1>2
    <3> QED BY <3>1, <3>2
  <2>2. h[v].kind # "free"
    <3>1. Formed(h[v])
      BY <1>1 DEF Owned, Shaped
    <3> QED BY <2>1, <3>1 DEF Formed
  <2> QED BY <2>1, <2>2
<1>9. Shaped(g)
  <2>1. Shaped(h)
    BY DEF Owned
  <2>2. h[v].rc \in Nat
    BY <1>1, CellOf
  <2> SUFFICES ASSUME NEW o \in Objs PROVE Formed(g[o])
    BY DEF Shaped
  <2>3. Formed(h[o])
    BY <2>1 DEF Shaped
  <2>4. h[o].kind = "free" => o # v
    BY <1>8
  <2> DEFINE x == h[o].rc
             z == g[o].rc
  <2>9. z = x \/ (x \in Nat /\ x >= 2 /\ z = x - 1)
    <3>1. CASE o = v
      <4>1. g[v].rc = h[v].rc - 1 /\ h[v].rc \in Nat /\ h[v].rc >= 2
        BY <1>1, <1>8, <2>2
      <4> QED BY <3>1, <4>1
    <3>2. CASE o # v
      BY <1>1, <3>2
    <3> QED BY <3>1, <3>2
  <2> HIDE DEF x, z
  <2>10. (z >= 1 <=> x >= 1) /\ (z = 0 <=> x = 0)
    BY <2>9
  <2>5. g[o].rc >= 1 <=> h[o].rc >= 1
    BY <2>10 DEF x, z
  <2>6. g[o].rc = 0 <=> h[o].rc = 0
    BY <2>10 DEF x, z
  <2>7. g[o].kind = h[o].kind /\ g[o].items = h[o].items /\ g[o].extra = h[o].extra
    BY <1>1
  <2> QED BY <2>3, <2>5, <2>6, <2>7 DEF Formed
<1>10. Acyclic(g)
  BY <1>7, AcyclicSurvives DEF Owned
<1>11. Owned(g, Plus(E, Tail(due)))
  BY <1>1, <1>6, <1>9, <1>10 DEF Owned
<1> QED BY <1>2, <1>3, <1>7, <1>11

-----------------------------------------------------------------------------
(* A whole release (release_value).                                        *)
\* A release that has started from h0, and what it has still to do at most.
Releases(E, h0, s) ==
  /\ s \in State
  /\ Owned(s.heap, Plus(E, s.due))
  /\ Survives(h0, s.heap)

\* How many references are still to be settled.
Left(s) == Pending(s.heap, s.due)

\* ReleaseHead frees by writing the free cell.
LEMMA FreedBy ==
  ASSUME NEW h \in [Objs -> Cell], NEW v \in Objs
  PROVE  Freed(h, [h EXCEPT ![v] = FreeCell], v)
<1> DEFINE g == [h EXCEPT ![v] = FreeCell]
<1>1. FreeCell \in Cell
  BY DEF FreeCell, Cell, Kinds
<1>2. g \in [Objs -> Cell] /\ g[v] = FreeCell /\ \A o \in Objs : o # v => g[o] = h[o]
  BY <1>1
<1> QED
  <2> HIDE DEF g
  <2> SUFFICES Freed(h, g, v)
    BY DEF g
  <2> QED BY <1>2 DEF Freed, FreeCell

\* ReleaseHead lowers by writing the count.
LEMMA LoweredBy ==
  ASSUME NEW h \in [Objs -> Cell], NEW v \in Objs, h[v].rc >= 1
  PROVE  Lowered(h, [h EXCEPT ![v].rc = @ - 1], v)
<1> DEFINE g == [h EXCEPT ![v].rc = @ - 1]
           c == [h[v] EXCEPT !.rc = @ - 1]
<1>0. h[v] \in Cell
  OBVIOUS
<1>1. c \in Cell /\ c.rc = h[v].rc - 1 /\ c.kind = h[v].kind /\ c.items = h[v].items /\ c.extra = h[v].extra
  <2>1. h[v].rc - 1 \in Nat
    BY <1>0 DEF Cell
  <2> QED BY <1>0, <2>1 DEF Cell
<1>2. g = [h EXCEPT ![v] = c]
  OBVIOUS
<1> HIDE DEF c
<1>3. g \in [Objs -> Cell] /\ g[v] = c /\ \A o \in Objs : o # v => g[o] = h[o]
  BY <1>1, <1>2
<1> QED
  <2> HIDE DEF g
  <2> SUFFICES Lowered(h, g, v)
    BY DEF g
  <2> QED BY <1>1, <1>3 DEF Lowered

\* One step of a release keeps the ownership, and settles one reference.
LEMMA HeadOwned ==
  ASSUME NEW E \in [Objs -> Nat], NEW h0, NEW s, Releases(E, h0, s)
  PROVE  /\ Releases(E, h0, ReleaseHead(s))
         /\ s.due = <<>> => ReleaseHead(s) = s
         /\ s.due # <<>> => Left(ReleaseHead(s)) = Left(s) - 1
<1> DEFINE h == s.heap
           due == s.due
           v == Head(due)
           t == ReleaseHead(s)
<1>1. s \in State /\ Owned(h, Plus(E, due)) /\ Survives(h0, h) /\ h \in [Objs -> Cell] /\ due \in Seq(Value)
  BY DEF Releases, Owned, State
<1>2. t \in State
  BY <1>1, HeadTyped, SMTT(30)
<1>9. /\ due = <<>> => t = s
      /\ due # <<>> /\ ~IsRef(v) => t.heap = h /\ t.due = Tail(due)
      /\ due # <<>> /\ IsRef(v) /\ h[v].rc = 1
           => t.heap = [h EXCEPT ![v] = FreeCell] /\ t.due = h[v].items \o Tail(due)
      /\ due # <<>> /\ IsRef(v) /\ h[v].rc # 1
           => t.heap = [h EXCEPT ![v].rc = @ - 1] /\ t.due = Tail(due)
  BY DEF ReleaseHead
<1>10. Left(s) = Pending(h, due) /\ Left(t) = Pending(t.heap, t.due)
  BY DEF Left
<1>11. v = Head(due)
  OBVIOUS
<1> HIDE DEF h, due, v, t
<1> SUFFICES /\ Releases(E, h0, t)
             /\ due = <<>> => t = s
             /\ due # <<>> => Left(t) = Left(s) - 1
  BY DEF due, t
<1>3. CASE due = <<>>
  <2>1. t = s
    BY <1>3, <1>9
  <2>2. Releases(E, h0, s)
    OBVIOUS
  <2> QED BY <1>3, <2>1, <2>2
<1>4. CASE due # <<>>
  <2>1. /\ v \in Value /\ Tail(due) \in Seq(Value) /\ Len(due) \in Nat /\ Len(Tail(due)) = Len(due) - 1
        /\ \A o : /\ Occurrences(Tail(due), o) \in Nat
                  /\ Occurrences(due, o) = (IF v = o THEN 1 ELSE 0) + Occurrences(Tail(due), o)
    BY <1>1, <1>4, <1>11, OccTail
  <2>0. Cardinality(Places(Items(h))) \in Nat
    <3>1. h \in Raw
      BY <1>1, CellIsRaw
    <3>2. IsFiniteSet(Places(Items(h)))
      BY <3>1, ItemsFamily, PlacesFinite
    <3> QED BY <3>2, FS_CardinalityType
  <2>2. CASE ~IsRef(v)
    <3>1. t.heap = h /\ t.due = Tail(due)
      BY <1>4, <1>9, <2>2
    <3>2. \A o \in Objs : Occurrences(due, o) = Occurrences(Tail(due), o)
      <4> TAKE o \in Objs
      <4>1. v # o
        BY <2>2 DEF IsRef
      <4> QED BY <2>1, <4>1
    <3>3. Plus(E, due) = Plus(E, Tail(due))
      BY <3>2 DEF Plus
    <3>4. Releases(E, h0, t)
      BY <1>1, <1>2, <3>1, <3>3 DEF Releases
    <3>5. Left(t) = Left(s) - 1
      BY <1>10, <2>0, <2>1, <3>1 DEF Pending
    <3> QED BY <1>4, <3>4, <3>5
  <2>3. CASE IsRef(v) /\ h[v].rc = 1
    <3> DEFINE g == [h EXCEPT ![v] = FreeCell]
               left == h[v].items \o Tail(due)
    <3>0. v \in Objs
      BY <2>3 DEF IsRef
    <3>1. t.heap = g /\ t.due = left
      BY <1>4, <1>9, <2>3
    <3>2. Freed(h, g, v)
      BY <1>1, <3>0, FreedBy
    <3> HIDE DEF g
    <3>3. /\ left \in Seq(Value)
          /\ Owned(g, Plus(E, left))
          /\ Survives(h, g)
          /\ Shortens(h, due, g, left)
      <4>1. left = h[v].items \o Tail(due)
        OBVIOUS
      <4> HIDE DEF left
      <4> QED BY <1>1, <1>4, <1>11, <2>3, <3>2, <4>1, FreeOwned
    <3> HIDE DEF left
    <3>4. Survives(h0, g)
      BY <1>1, <3>3, SurvivesTwice
    <3>5. Releases(E, h0, t)
      BY <1>2, <3>1, <3>3, <3>4 DEF Releases
    <3>6. Left(t) = Left(s) - 1
      BY <1>10, <3>1, <3>3 DEF Shortens
    <3> QED BY <1>4, <3>5, <3>6
  <2>4. CASE IsRef(v) /\ h[v].rc # 1
    <3> DEFINE g == [h EXCEPT ![v].rc = @ - 1]
    <3>0. v \in Objs
      BY <2>4 DEF IsRef
    <3>1. t.heap = g /\ t.due = Tail(due)
      BY <1>4, <1>9, <2>4
    <3>2. h[v].rc >= 1
      <4>1. h[v].rc = (E[v] + Occurrences(due, v)) + References(h, v) + h[v].extra
        BY <1>1, <3>0 DEF Owned, Balanced, Plus
      <4>2. Occurrences(Tail(due), v) \in Nat /\ Occurrences(due, v) = 1 + Occurrences(Tail(due), v)
        BY <2>1
      <4>3. References(h, v) \in Nat /\ h[v].extra \in {0, 1} /\ E[v] \in Nat
        BY <1>1, <3>0, CellIsRaw, CellOf, References0
      <4> QED BY <4>1, <4>2, <4>3
    <3>3. Lowered(h, g, v)
      BY <1>1, <3>0, <3>2, LoweredBy
    <3> HIDE DEF g
    <3>4. Owned(g, Plus(E, Tail(due))) /\ Survives(h, g) /\ Items(g) = Items(h)
      BY <1>1, <1>4, <1>11, <2>4, <3>3, LowerOwned
    <3>5. Survives(h0, g)
      BY <1>1, <3>4, SurvivesTwice
    <3>6. Releases(E, h0, t)
      BY <1>2, <3>1, <3>4, <3>5 DEF Releases
    <3>7. Left(t) = Left(s) - 1
      BY <1>10, <2>0, <2>1, <3>1, <3>4 DEF Pending
    <3> QED BY <1>4, <3>6, <3>7
  <2> QED BY <2>2, <2>3, <2>4
<1> QED BY <1>3, <1>4

\* Releasing values gives up exactly the references they are.
THEOREM ReleaseOwned ==
  ASSUME NEW E \in [Objs -> Nat], NEW h, NEW vs \in Seq(Value), Owned(h, Plus(E, vs))
  PROVE  /\ Owned(ReleaseAll(h, vs), E)
         /\ Survives(h, ReleaseAll(h, vs))
         /\ \A i \in 0 .. Pending(h, vs) : Releases(E, h, Releasing(h, vs)[i])
<1> DEFINE n == Pending(h, vs)
           r == Releasing(h, vs)
<1>1. h \in Raw
  BY CellIsRaw DEF Owned
<1>2. /\ n \in Nat
      /\ r[0] = [heap |-> h, due |-> vs]
      /\ \A i \in 1 .. n : r[i] = ReleaseHead(r[i - 1])
  BY <1>1, ReleasingStep
<1>3. Releases(E, h, r[0]) /\ Left(r[0]) = n
  <2>1. r[0] \in State /\ r[0].heap = h /\ r[0].due = vs
    BY <1>1, <1>2 DEF State
  <2>2. Survives(h, h)
    BY DEF Survives
  <2> QED BY <2>1, <2>2 DEF Releases, Left, n
<1> HIDE DEF n, r
<1> DEFINE S == {i \in Nat : i <= n =>
                   /\ Releases(E, h, r[i])
                   /\ r[i].due = <<>> \/ Left(r[i]) = n - i}
<1>4. 0 \in S
  BY <1>2, <1>3
<1>5. ASSUME NEW i \in Nat, i \in S PROVE i + 1 \in S
  <2> SUFFICES ASSUME i + 1 <= n
               PROVE  Releases(E, h, r[i + 1]) /\ (r[i + 1].due = <<>> \/ Left(r[i + 1]) = n - (i + 1))
    OBVIOUS
  <2> DEFINE s == r[i]
             t == r[i + 1]
  <2>1. /\ Releases(E, h, s) /\ (s.due = <<>> \/ Left(s) = n - i)
    BY <1>2, <1>5
  <2>2. t = ReleaseHead(s)
    <3>1. i + 1 \in 1 .. n /\ (i + 1) - 1 = i
      BY <1>2
    <3> QED BY <1>2, <3>1
  <2> HIDE DEF s, t
  <2>3. /\ Releases(E, h, t)
        /\ s.due = <<>> => t = s
        /\ s.due # <<>> => Left(t) = Left(s) - 1
    BY <2>1, <2>2, HeadOwned
  <2>4. t.due = <<>> \/ Left(t) = n - (i + 1)
    BY <1>2, <2>1, <2>3
  <2> QED BY <2>3, <2>4 DEF t
<1>6. Nat \subseteq S
  <2> HIDE DEF S
  <2> QED BY <1>4, <1>5, NatInd
<1>7. Releases(E, h, r[n]) /\ (r[n].due = <<>> \/ Left(r[n]) = 0)
  <2>1. n \in S /\ n - n = 0 /\ n <= n
    BY <1>2, <1>6
  <2> QED BY <2>1
<1>8. r[n].due = <<>>
  <2> DEFINE s == r[n]
  <2> HIDE DEF s
  <2>1. s.due \in Seq(Value) /\ s.heap \in Raw
    BY <1>7 DEF Releases, State, s
  <2>2. Cardinality(Places(Items(s.heap))) \in Nat
    <3>1. IsFiniteSet(Places(Items(s.heap)))
      BY <2>1, ItemsFamily, PlacesFinite
    <3> QED BY <3>1, FS_CardinalityType
  <2>3. Len(s.due) \in Nat
    BY <2>1
  <2>4. s.due = <<>> \/ Len(s.due) = 0
    BY <1>7, <2>2, <2>3 DEF Left, Pending, s
  <2>5. s.due = <<>>
    BY <2>1, <2>4
  <2> QED BY <2>5 DEF s
<1>9. Plus(E, <<>>) = E
  <2>1. \A o \in Objs : E[o] + Occurrences(<<>>, o) = E[o]
    BY OccEmpty
  <2>2. Plus(E, <<>>) = [o \in Objs |-> E[o]]
    BY <2>1 DEF Plus
  <2> QED BY <2>2
<1>10. Owned(r[n].heap, E) /\ Survives(h, r[n].heap)
  BY <1>7, <1>8, <1>9 DEF Releases
<1>11. ReleaseAll(h, vs) = r[n].heap
  BY DEF ReleaseAll, r, n
<1>12. \A i \in 0 .. n : Releases(E, h, r[i])
  BY <1>2, <1>6
<1> QED BY <1>10, <1>11, <1>12 DEF r, n

-----------------------------------------------------------------------------
(* Retaining values (retain_value).                                        *)
\* What o is referred to from outside or from an element is an object in use.
LEMMA LiveOwner ==
  ASSUME NEW E \in [Objs -> Nat], NEW h, Owned(h, E), NEW o \in Objs
  PROVE  /\ E[o] # 0 => h[o].kind # "free"
         /\ References(h, o) # 0 => h[o].kind # "free"
         /\ h[o].kind = "free" => E[o] = 0 /\ References(h, o) = 0 /\ h[o].items = <<>>
<1>1. h[o].rc = E[o] + References(h, o) + h[o].extra
  BY DEF Owned, Balanced
<1>2. References(h, o) \in Nat /\ h[o].extra \in {0, 1} /\ E[o] \in Nat
  BY CellIsRaw, CellOf, References0 DEF Owned
<1>3. h[o].kind = "free" => h[o].rc = 0 /\ h[o].items = <<>>
  BY DEF Owned, Shaped, Formed
<1> QED BY <1>1, <1>2, <1>3

\* The objects in vs are in use.
LiveIn(h, vs) == \A o \in Objs : Occurrences(vs, o) # 0 => h[o].kind # "free"

\* The elements of an object are not freed.
LEMMA LiveItems ==
  ASSUME NEW E \in [Objs -> Nat], NEW h, Owned(h, E), NEW p \in Objs
  PROVE  /\ h[p].items \in Seq(Value) /\ LiveIn(h, h[p].items)
         /\ \A i \in DOMAIN h[p].items : h[p].items[i] \in Value /\ LiveIn(h, <<h[p].items[i]>>)
<1>0. h \in Raw /\ h[p].items \in Seq(Value)
  BY CellOf DEF Owned
<1>1. ASSUME NEW o \in Objs, NEW i \in DOMAIN h[p].items, h[p].items[i] = o
      PROVE  h[o].kind # "free"
  BY <1>0, <1>1, LiveOwner, References0
<1>2. LiveIn(h, h[p].items)
  <2> SUFFICES ASSUME NEW o \in Objs, Occurrences(h[p].items, o) # 0 PROVE h[o].kind # "free"
    BY DEF LiveIn
  <2>1. PICK i \in DOMAIN h[p].items : h[p].items[i] = o
    BY <1>0, OccZero
  <2> QED BY <1>1, <2>1
<1>3. ASSUME NEW i \in DOMAIN h[p].items
      PROVE  h[p].items[i] \in Value /\ LiveIn(h, <<h[p].items[i]>>)
  <2>1. h[p].items[i] \in Value
    BY <1>0
  <2> SUFFICES ASSUME NEW o \in Objs, Occurrences(<<h[p].items[i]>>, o) # 0 PROVE h[o].kind # "free"
    BY <2>1 DEF LiveIn
  <2>2. h[p].items[i] = o
    BY <2>1, OccOne
  <2> QED BY <1>1, <2>2
<1> QED BY <1>0, <1>2, <1>3

\* g is h with new references to the objects in vs.
Raised(h, g, vs) ==
  /\ h \in [Objs -> Cell] /\ g \in [Objs -> Cell] /\ vs \in Seq(Value)
  /\ \A o \in Objs : /\ g[o].kind = h[o].kind /\ g[o].items = h[o].items /\ g[o].extra = h[o].extra
                     /\ g[o].rc = h[o].rc + Occurrences(vs, o)

\* RetainAll raises the counts of the values.
LEMMA RaisedBy ==
  ASSUME NEW h \in [Objs -> Cell], NEW vs \in Seq(Value)
  PROVE  Raised(h, RetainAll(h, vs), vs)
<1> DEFINE g == RetainAll(h, vs)
<1>1. ASSUME NEW o \in Objs
      PROVE  /\ g[o] \in Cell
             /\ g[o].kind = h[o].kind /\ g[o].items = h[o].items /\ g[o].extra = h[o].extra
             /\ g[o].rc = h[o].rc + Occurrences(vs, o)
  <2>1. g[o] = [h[o] EXCEPT !.rc = @ + Occurrences(vs, o)]
    BY DEF RetainAll
  <2>2. h[o] \in Cell /\ Occurrences(vs, o) \in Nat
    BY OccAt
  <2>3. h[o].rc + Occurrences(vs, o) \in Nat
    BY <2>2 DEF Cell
  <2> HIDE DEF g
  <2> QED BY <2>1, <2>2, <2>3 DEF Cell
<1>2. g = [o \in Objs |-> g[o]]
  BY DEF RetainAll
<1> HIDE DEF g
<1>3. g \in [Objs -> Cell]
  BY <1>1, <1>2
<1>4. Raised(h, g, vs)
  BY <1>1, <1>3 DEF Raised
<1> QED BY <1>4 DEF g

\* To retain one value is to retain a sequence of one.
LEMMA RetainOne ==
  ASSUME NEW h \in [Objs -> Cell], NEW v \in Value
  PROVE  retain_value(h, v) = RetainAll(h, <<v>>)
<1>1. \A o \in Objs : Occurrences(<<v>>, o) = IF v = o THEN 1 ELSE 0
  BY OccOne
<1>2. \A o \in Objs : h[o] \in Cell
  OBVIOUS
<1>3. CASE IsRef(v)
  <2> DEFINE g == [h EXCEPT ![v].rc = @ + 1]
             f == RetainAll(h, <<v>>)
  <2>1. v \in Objs
    BY <1>3 DEF IsRef
  <2>2. ASSUME NEW o \in Objs PROVE g[o] = f[o]
    <3>1. f[o] = [h[o] EXCEPT !.rc = @ + Occurrences(<<v>>, o)]
      BY DEF RetainAll
    <3>2. CASE o = v
      <4>1. g[o] = [h[o] EXCEPT !.rc = @ + 1]
        BY <2>1, <3>2
      <4>2. Occurrences(<<v>>, o) = 1
        BY <1>1, <3>2
      <4> QED BY <3>1, <4>1, <4>2
    <3>3. CASE o # v
      <4>1. g[o] = h[o]
        BY <2>1, <3>3
      <4>2. Occurrences(<<v>>, o) = 0
        BY <1>1, <3>3
      <4>3. [h[o] EXCEPT !.rc = @ + 0] = h[o]
        BY <1>2 DEF Cell
      <4> QED BY <3>1, <4>1, <4>2, <4>3
    <3> QED BY <3>2, <3>3
  <2>3. g = [o \in Objs |-> g[o]] /\ f = [o \in Objs |-> f[o]]
    BY DEF RetainAll
  <2>4. g = f
    <3> HIDE DEF g, f
    <3> QED BY <2>2, <2>3
  <2> QED BY <1>3, <2>4 DEF retain_value
<1>4. CASE ~IsRef(v)
  <2> DEFINE f == RetainAll(h, <<v>>)
  <2>1. ASSUME NEW o \in Objs PROVE f[o] = h[o]
    <3>1. f[o] = [h[o] EXCEPT !.rc = @ + Occurrences(<<v>>, o)]
      BY DEF RetainAll
    <3>2. Occurrences(<<v>>, o) = 0
      BY <1>1, <1>4 DEF IsRef
    <3>3. [h[o] EXCEPT !.rc = @ + 0] = h[o]
      BY <1>2 DEF Cell
    <3> QED BY <3>1, <3>2, <3>3
  <2>2. f = [o \in Objs |-> f[o]] /\ h = [o \in Objs |-> h[o]]
    BY DEF RetainAll
  <2>3. f = h
    <3> HIDE DEF f
    <3> QED BY <2>1, <2>2
  <2> QED BY <1>4, <2>3 DEF retain_value
<1> QED BY <1>3, <1>4

\* Retaining values adds exactly the references they are.
LEMMA RaisedOwned ==
  ASSUME NEW E \in [Objs -> Nat], NEW h, Owned(h, E), NEW vs, NEW g, Raised(h, g, vs), LiveIn(h, vs)
  PROVE  Owned(g, Plus(E, vs)) /\ Survives(h, g)
<1>1. /\ h \in [Objs -> Cell] /\ g \in [Objs -> Cell] /\ vs \in Seq(Value)
      /\ \A o \in Objs : /\ g[o].kind = h[o].kind /\ g[o].items = h[o].items /\ g[o].extra = h[o].extra
                         /\ g[o].rc = h[o].rc + Occurrences(vs, o)
  BY DEF Raised
<1>2. \A o \in Objs : Occurrences(vs, o) \in Nat
  BY <1>1, OccAt
<1>3. \A o : References(g, o) = References(h, o)
  BY <1>1, SameItems
<1>4. Balanced(g, Plus(E, vs))
  <2> SUFFICES ASSUME NEW o \in Objs
               PROVE  g[o].rc = (E[o] + Occurrences(vs, o)) + References(g, o) + g[o].extra
    BY DEF Balanced, Plus
  <2>1. h[o].rc = E[o] + References(h, o) + h[o].extra
    BY DEF Owned, Balanced
  <2>2. References(h, o) \in Nat /\ h[o].extra \in {0, 1} /\ E[o] \in Nat
    BY <1>1, CellIsRaw, CellOf, References0
  <2>3. g[o].extra = h[o].extra /\ g[o].rc = h[o].rc + Occurrences(vs, o) /\ Occurrences(vs, o) \in Nat
    BY <1>1, <1>2
  <2>4. References(g, o) = References(h, o)
    BY <1>3
  <2> QED BY <2>1, <2>2, <2>3, <2>4
<1>5. Survives(h, g)
  BY <1>1 DEF Survives
<1>6. Shaped(g)
  <2> SUFFICES ASSUME NEW o \in Objs PROVE Formed(g[o])
    BY DEF Shaped
  <2>1. Formed(h[o])
    BY DEF Owned, Shaped
  <2>2. /\ g[o].kind = h[o].kind /\ g[o].items = h[o].items /\ g[o].extra = h[o].extra
        /\ g[o].rc = h[o].rc + Occurrences(vs, o) /\ Occurrences(vs, o) \in Nat /\ h[o].rc \in Nat
    BY <1>1, <1>2, CellOf
  <2>3. h[o].kind = "free" => Occurrences(vs, o) = 0
    BY DEF LiveIn
  <2>4. h[o].rc >= 1 => g[o].rc >= 1
    BY <2>2
  <2>5. h[o].kind = "free" => g[o].rc = h[o].rc
    BY <2>2, <2>3
  <2> QED BY <2>1, <2>2, <2>4, <2>5 DEF Formed
<1>7. Acyclic(g)
  BY <1>5, AcyclicSurvives DEF Owned
<1> QED BY <1>1, <1>4, <1>5, <1>6, <1>7 DEF Owned

\* RetainAll, for a heap that is owned.
LEMMA RetainOwned ==
  ASSUME NEW E \in [Objs -> Nat], NEW h, Owned(h, E), NEW vs \in Seq(Value), LiveIn(h, vs)
  PROVE  Owned(RetainAll(h, vs), Plus(E, vs)) /\ Survives(h, RetainAll(h, vs))
<1>1. Raised(h, RetainAll(h, vs), vs)
  BY RaisedBy DEF Owned
<1> QED BY <1>1, RaisedOwned

-----------------------------------------------------------------------------
(* New and changed objects.                                                *)
\* g is h with a new object f that holds vs, its count c and the extra x.
Built(h, g, f, k, c, vs, x) ==
  /\ h \in [Objs -> Cell] /\ g \in [Objs -> Cell] /\ f \in Objs /\ vs \in Seq(Value)
  /\ h[f].kind = "free"
  /\ g[f].kind = k /\ g[f].rc = c /\ g[f].items = vs /\ g[f].extra = x
  /\ \A o \in Objs : o # f =>
       /\ g[o].kind = h[o].kind /\ g[o].items = h[o].items /\ g[o].extra = h[o].extra
       /\ g[o].rc = h[o].rc + Occurrences(vs, o)

\* The references to a new object: those its constructor hands out.
Handed(E, f, n) == [o \in Objs |-> IF o = f THEN n ELSE E[o]]

\* Elements of one object replaced.
LEMMA ItemsChange ==
  ASSUME NEW h \in [Objs -> Cell], NEW g \in [Objs -> Cell], NEW a \in Objs,
         \A o \in Objs : o # a => g[o].items = h[o].items, NEW o
  PROVE  /\ References(g, o) \in Nat /\ References(h, o) \in Nat
         /\ Occurrences(h[a].items, o) \in Nat /\ Occurrences(g[a].items, o) \in Nat
         /\ References(g, o) + Occurrences(h[a].items, o) = References(h, o) + Occurrences(g[a].items, o)
<1> DEFINE F == Items(h)
           G == Items(g)
<1>1. h \in Raw /\ g \in Raw
  BY CellIsRaw
<1>2. /\ Family(F, Objs) /\ Family(G, Objs)
      /\ F[a] = h[a].items /\ G[a] = g[a].items
      /\ \A x \in Objs \ {a} : F[x] = G[x]
  BY <1>1, ItemsFamily
<1>3. References(g, o) = Spread(G, o) /\ References(h, o) = Spread(F, o)
  BY DEF References
<1> HIDE DEF F, G
<1>4. Apart(F, Objs, G, Objs, a)
  BY <1>2 DEF Apart
<1>5. /\ Spread(F, o) \in Nat /\ Spread(G, o) \in Nat
      /\ Occurrences(F[a], o) \in Nat /\ Occurrences(G[a], o) \in Nat
      /\ Spread(G, o) + Occurrences(F[a], o) = Spread(F, o) + Occurrences(G[a], o)
  BY <1>4, SpreadChange
<1> QED BY <1>2, <1>3, <1>5

\* A set with the new object has it as the one that nothing in the set holds.
LEMMA BuiltAcyclic ==
  ASSUME NEW E \in [Objs -> Nat], NEW h, Owned(h, E), NEW g, NEW f, NEW k, NEW c, NEW vs, NEW x,
         Built(h, g, f, k, c, vs, x), LiveIn(h, vs)
  PROVE  Acyclic(g)
<1>1. /\ h \in [Objs -> Cell] /\ f \in Objs /\ vs \in Seq(Value) /\ h[f].kind = "free" /\ g[f].items = vs
      /\ \A o \in Objs : o # f => g[o].kind = h[o].kind /\ g[o].items = h[o].items
  BY DEF Built
<1>2. \A p \in Objs : \A i \in DOMAIN h[p].items : h[p].items[i] # f
  BY <1>1, CellIsRaw, LiveOwner, References0, SMTT(30)
<1>3. \A i \in DOMAIN vs : vs[i] # f
  <2>1. Occurrences(vs, f) = 0
    BY <1>1 DEF LiveIn
  <2> QED BY <1>1, <2>1, OccZero
<1>4. \A p \in Objs : ~HoldsObj(g, p, f)
  <2> TAKE p \in Objs
  <2>1. CASE p = f
    BY <1>1, <1>3, <2>1 DEF HoldsObj
  <2>2. CASE p # f
    <3>1. g[p].items = h[p].items
      BY <1>1, <2>2
    <3> QED BY <1>2, <3>1 DEF HoldsObj
  <2> QED BY <2>1, <2>2
<1> SUFFICES ASSUME NEW S \in SUBSET Objs, S # {}
             PROVE  \E o \in S : \A p \in S : g[p].kind = "cap" => ~HoldsObj(g, p, o)
  BY DEF Acyclic
<1>5. CASE f \in S
  BY <1>4, <1>5
<1>6. CASE f \notin S
  <2>1. PICK o \in S : \A p \in S : h[p].kind = "cap" => ~HoldsObj(h, p, o)
    BY DEF Owned, Acyclic
  <2>2. ASSUME NEW p \in S, g[p].kind = "cap" PROVE ~HoldsObj(g, p, o)
    <3>1. p \in Objs /\ p # f
      BY <1>6
    <3>2. h[p].kind = "cap" /\ g[p].items = h[p].items
      BY <1>1, <2>2, <3>1
    <3>3. ~HoldsObj(h, p, o)
      BY <2>1, <3>2
    <3> QED BY <3>2, <3>3 DEF HoldsObj
  <2> QED BY <2>2
<1> QED BY <1>5, <1>6

\* A new object that retains what it holds is owned by its n holders.
LEMMA BuiltOwned ==
  ASSUME NEW E \in [Objs -> Nat], NEW h, Owned(h, E), NEW g, NEW f, NEW k, NEW n \in Nat, NEW c,
         NEW vs, NEW x,
         Built(h, g, f, k, c, vs, x), LiveIn(h, vs), c = n + x, c >= 1, Formed(g[f]), k # "free"
  PROVE  Owned(g, Handed(E, f, n)) /\ Handed(E, f, n) \in [Objs -> Nat]
<1>1. /\ h \in [Objs -> Cell] /\ g \in [Objs -> Cell] /\ f \in Objs /\ vs \in Seq(Value)
      /\ h[f].kind = "free"
      /\ g[f].kind = k /\ g[f].rc = c /\ g[f].items = vs /\ g[f].extra = x
      /\ \A o \in Objs : o # f =>
           /\ g[o].kind = h[o].kind /\ g[o].items = h[o].items /\ g[o].extra = h[o].extra
           /\ g[o].rc = h[o].rc + Occurrences(vs, o)
  BY DEF Built
<1>2. E[f] = 0 /\ References(h, f) = 0 /\ h[f].items = <<>> /\ Occurrences(vs, f) = 0
  BY <1>1, LiveOwner DEF LiveIn
<1>3. \A o : /\ References(g, o) \in Nat /\ References(h, o) \in Nat /\ Occurrences(vs, o) \in Nat
             /\ References(g, o) = References(h, o) + Occurrences(vs, o)
  <2> TAKE o
  <2>1. /\ References(g, o) \in Nat /\ References(h, o) \in Nat
        /\ Occurrences(h[f].items, o) \in Nat /\ Occurrences(g[f].items, o) \in Nat
        /\ References(g, o) + Occurrences(h[f].items, o) = References(h, o) + Occurrences(g[f].items, o)
    <3>1. h \in [Objs -> Cell] /\ g \in [Objs -> Cell] /\ f \in Objs
      BY <1>1
    <3>2. \A p \in Objs : p # f => g[p].items = h[p].items
      BY <1>1
    <3> QED BY <3>1, <3>2, ItemsChange
  <2>2. Occurrences(h[f].items, o) = 0
    BY <1>2, OccEmpty
  <2>3. g[f].items = vs
    BY <1>1
  <2> QED BY <2>1, <2>2, <2>3
<1>4. Balanced(g, Handed(E, f, n))
  <2> SUFFICES ASSUME NEW o \in Objs
               PROVE  g[o].rc = (IF o = f THEN n ELSE E[o]) + References(g, o) + g[o].extra
    BY DEF Balanced, Handed
  <2>1. CASE o = f
    <3>1. References(g, f) = 0
      BY <1>2, <1>3
    <3>2. x \in {0, 1}
      BY <1>1, CellOf
    <3>3. g[f].rc = n + x /\ g[f].extra = x
      BY <1>1
    <3>4. g[f].rc = n + 0 + x
      BY <3>2, <3>3
    <3> QED BY <2>1, <3>1, <3>3, <3>4
  <2>2. CASE o # f
    <3>1. h[o].rc = E[o] + References(h, o) + h[o].extra /\ E[o] \in Nat /\ h[o].extra \in {0, 1}
      BY <1>1, CellOf DEF Owned, Balanced
    <3>2. g[o].rc = h[o].rc + Occurrences(vs, o) /\ g[o].extra = h[o].extra
      BY <1>1, <2>2
    <3>3. /\ References(g, o) \in Nat /\ References(h, o) \in Nat /\ Occurrences(vs, o) \in Nat
          /\ References(g, o) = References(h, o) + Occurrences(vs, o)
      BY <1>3
    <3> QED BY <2>2, <3>1, <3>2, <3>3
  <2> QED BY <2>1, <2>2
<1>5. Shaped(g)
  <2> SUFFICES ASSUME NEW o \in Objs, o # f PROVE Formed(g[o])
    BY DEF Shaped
  <2>1. Formed(h[o])
    BY DEF Owned, Shaped
  <2>2. /\ g[o].kind = h[o].kind /\ g[o].items = h[o].items /\ g[o].extra = h[o].extra
        /\ g[o].rc = h[o].rc + Occurrences(vs, o) /\ Occurrences(vs, o) \in Nat /\ h[o].rc \in Nat
    BY <1>1, <1>3, CellOf
  <2>3. h[o].kind = "free" => Occurrences(vs, o) = 0
    BY DEF LiveIn
  <2>4. h[o].rc >= 1 => g[o].rc >= 1
    BY <2>2
  <2>5. h[o].kind = "free" => g[o].rc = h[o].rc
    BY <2>2, <2>3
  <2> QED BY <2>1, <2>2, <2>4, <2>5 DEF Formed
<1>6. Acyclic(g)
  BY BuiltAcyclic
<1>7. Handed(E, f, n) \in [Objs -> Nat]
  BY DEF Handed
<1> QED BY <1>1, <1>4, <1>5, <1>6, <1>7 DEF Owned

\* g is h with the elements ws in a container a: vs are new references, us
\* are those given up.
Refilled(h, g, a, ws, vs, us) ==
  /\ h \in [Objs -> Cell] /\ g \in [Objs -> Cell] /\ a \in Objs
  /\ vs \in Seq(Value) /\ us \in Seq(Value) /\ ws \in Seq(Value)
  /\ g[a].items = ws
  /\ \A o \in Objs : /\ g[o].kind = h[o].kind /\ g[o].extra = h[o].extra
                     /\ g[o].rc = h[o].rc + Occurrences(vs, o)
                     /\ o # a => g[o].items = h[o].items
                     /\ Occurrences(ws, o) + Occurrences(us, o)
                          = Occurrences(h[a].items, o) + Occurrences(vs, o)

\* A container whose elements change as Refilled says stays owned.
LEMMA RefilledOwned ==
  ASSUME NEW E \in [Objs -> Nat], NEW h, Owned(h, E), NEW g, NEW a, NEW ws, NEW vs, NEW us,
         Refilled(h, g, a, ws, vs, us), LiveIn(h, vs),
         h[a].kind \in {"arr", "map"}, h[a].kind = "map" => Even(ws)
  PROVE  Owned(g, Plus(E, us))
<1>1. /\ h \in [Objs -> Cell] /\ g \in [Objs -> Cell] /\ a \in Objs
      /\ vs \in Seq(Value) /\ us \in Seq(Value) /\ ws \in Seq(Value)
      /\ g[a].items = ws
      /\ \A o \in Objs : /\ g[o].kind = h[o].kind /\ g[o].extra = h[o].extra
                         /\ g[o].rc = h[o].rc + Occurrences(vs, o)
                         /\ o # a => g[o].items = h[o].items
                         /\ Occurrences(ws, o) + Occurrences(us, o)
                              = Occurrences(h[a].items, o) + Occurrences(vs, o)
  BY DEF Refilled
<1>2. \A o : /\ Occurrences(vs, o) \in Nat /\ Occurrences(us, o) \in Nat
             /\ Occurrences(ws, o) \in Nat
  BY <1>1, OccAt
<1>3. Balanced(g, Plus(E, us))
  <2> SUFFICES ASSUME NEW o \in Objs
               PROVE  g[o].rc = (E[o] + Occurrences(us, o)) + References(g, o) + g[o].extra
    BY DEF Balanced, Plus
  <2>1. /\ References(g, o) \in Nat /\ References(h, o) \in Nat
        /\ Occurrences(h[a].items, o) \in Nat /\ Occurrences(g[a].items, o) \in Nat
        /\ References(g, o) + Occurrences(h[a].items, o) = References(h, o) + Occurrences(g[a].items, o)
    <3>1. h \in [Objs -> Cell] /\ g \in [Objs -> Cell] /\ a \in Objs
      BY <1>1
    <3>2. \A p \in Objs : p # a => g[p].items = h[p].items
      BY <1>1
    <3> QED BY <3>1, <3>2, ItemsChange
  <2>2. h[o].rc = E[o] + References(h, o) + h[o].extra /\ E[o] \in Nat /\ h[o].extra \in {0, 1}
    BY <1>1, CellOf DEF Owned, Balanced
  <2>3. /\ g[o].extra = h[o].extra
        /\ g[o].rc = h[o].rc + Occurrences(vs, o)
        /\ Occurrences(ws, o) + Occurrences(us, o)
             = Occurrences(h[a].items, o) + Occurrences(vs, o)
        /\ Occurrences(vs, o) \in Nat /\ Occurrences(us, o) \in Nat /\ Occurrences(ws, o) \in Nat
    BY <1>1, <1>2
  <2>4. g[a].items = ws
    BY <1>1
  <2> QED BY <2>1, <2>2, <2>3, <2>4
<1>4. Shaped(g)
  <2> SUFFICES ASSUME NEW o \in Objs PROVE Formed(g[o])
    BY DEF Shaped
  <2>1. Formed(h[o])
    BY DEF Owned, Shaped
  <2>2. /\ g[o].kind = h[o].kind /\ g[o].extra = h[o].extra
        /\ g[o].rc = h[o].rc + Occurrences(vs, o) /\ Occurrences(vs, o) \in Nat /\ h[o].rc \in Nat
    BY <1>1, <1>2, CellOf
  <2>3. h[o].kind = "free" => Occurrences(vs, o) = 0
    BY DEF LiveIn
  <2>4. h[o].rc >= 1 => g[o].rc >= 1
    BY <2>2
  <2>5. h[o].kind = "free" => g[o].rc = h[o].rc
    BY <2>2, <2>3
  <2>6. CASE o = a
    <3>1. g[o].items = ws
      BY <1>1, <2>6
    <3> QED BY <2>1, <2>2, <2>4, <2>6, <3>1 DEF Formed
  <2>7. CASE o # a
    <3>1. g[o].items = h[o].items
      BY <1>1, <2>7
    <3> QED BY <2>1, <2>2, <2>4, <2>5, <3>1 DEF Formed
  <2> QED BY <2>6, <2>7
<1>5. Acyclic(g)
  <2> SUFFICES ASSUME NEW S \in SUBSET Objs, S # {}
               PROVE  \E o \in S : \A p \in S : g[p].kind = "cap" => ~HoldsObj(g, p, o)
    BY DEF Acyclic
  <2>1. PICK o \in S : \A p \in S : h[p].kind = "cap" => ~HoldsObj(h, p, o)
    BY DEF Owned, Acyclic
  <2>2. ASSUME NEW p \in S, g[p].kind = "cap" PROVE ~HoldsObj(g, p, o)
    <3>1. p \in Objs /\ h[p].kind = "cap"
      BY <1>1, <2>2
    <3>2. p # a
      BY <3>1
    <3>3. g[p].items = h[p].items
      BY <1>1, <3>1, <3>2
    <3>4. ~HoldsObj(h, p, o)
      BY <2>1, <3>1
    <3> QED BY <3>3, <3>4 DEF HoldsObj
  <2> QED BY <2>2
<1> QED BY <1>1, <1>3, <1>4, <1>5 DEF Owned

-----------------------------------------------------------------------------
(* The constructors.                                                       *)
\* No value, no reference more.
LEMMA PlusNone ==
  ASSUME NEW E \in [Objs -> Nat]
  PROVE  Plus(E, <<>>) = E
<1>1. \A o \in Objs : E[o] + Occurrences(<<>>, o) = E[o]
  BY OccEmpty
<1>2. Plus(E, <<>>) = [o \in Objs |-> E[o]]
  BY <1>1 DEF Plus
<1> QED BY <1>2

\* Holders are counted by naturals.
LEMMA PlusTyped ==
  ASSUME NEW E \in [Objs -> Nat], NEW vs \in Seq(Value)
  PROVE  Plus(E, vs) \in [Objs -> Nat]
<1>1. \A o \in Objs : E[o] + Occurrences(vs, o) \in Nat
  BY OccAt
<1> QED BY <1>1 DEF Plus

\* Constructors.
LEMMA FreshFree ==
  ASSUME NEW h, HasRoom(h)
  PROVE  Fresh(h) \in Objs /\ h[Fresh(h)].kind = "free"
<1>1. \E o \in Objs : o \notin Live(h)
  BY DEF HasRoom, Live
<1>2. Fresh(h) \in Objs /\ Fresh(h) \notin Live(h)
  BY <1>1 DEF Fresh
<1> QED BY <1>2 DEF Live

\* The first reference to a new object is one more.
LEMMA HandedOne ==
  ASSUME NEW E \in [Objs -> Nat], NEW h, Owned(h, E), NEW f \in Objs, h[f].kind = "free"
  PROVE  Handed(E, f, 1) = Plus(E, <<f>>) /\ Handed(E, f, 0) = E
<1>1. E[f] = 0 /\ f \in Value
  BY LiveOwner DEF Value
<1>2. \A o \in Objs : Occurrences(<<f>>, o) = IF f = o THEN 1 ELSE 0
  BY <1>1, OccOne
<1>3. \A o \in Objs : (IF o = f THEN 1 ELSE E[o]) = E[o] + Occurrences(<<f>>, o)
  BY <1>1, <1>2
<1>4. \A o \in Objs : (IF o = f THEN 0 ELSE E[o]) = E[o]
  BY <1>1
<1>5. Handed(E, f, 1) = Plus(E, <<f>>)
  BY <1>3 DEF Handed, Plus
<1>6. Handed(E, f, 0) = [o \in Objs |-> E[o]]
  BY <1>4 DEF Handed
<1> QED BY <1>5, <1>6

\* The new object without, and with, the references it takes.
LEMMA NewCell ==
  ASSUME NEW h \in [Objs -> Cell], HasRoom(h), NEW k \in Kinds, NEW x \in {0, 1}, NEW vs \in Seq(Value)
  PROVE  LET g == New(h, k, x, vs)
             f == Fresh(h)
         IN  /\ g \in [Objs -> Cell] /\ f \in Objs
             /\ g[f].kind = k /\ g[f].rc = 1 + x /\ g[f].items = vs /\ g[f].extra = x
             /\ \A o \in Objs : o # f => g[o] = h[o]
<1> DEFINE g == New(h, k, x, vs)
           f == Fresh(h)
           c == [kind |-> k, rc |-> 1 + x, items |-> vs, extra |-> x]
<1>1. f \in Objs
  BY FreshFree
<1>2. c \in Cell /\ c.kind = k /\ c.rc = 1 + x /\ c.items = vs /\ c.extra = x
  BY DEF Cell
<1>3. g = [h EXCEPT ![f] = c]
  BY DEF New
<1> HIDE DEF g, f, c
<1>4. g \in [Objs -> Cell] /\ g[f] = c /\ \A o \in Objs : o # f => g[o] = h[o]
  BY <1>1, <1>2, <1>3
<1> QED BY <1>1, <1>2, <1>4 DEF g, f

\* A constructor builds an empty object.
LEMMA NewBuilt ==
  ASSUME NEW h \in [Objs -> Cell], HasRoom(h), NEW k \in Kinds, NEW x \in {0, 1}
  PROVE  Built(h, New(h, k, x, <<>>), Fresh(h), k, 1 + x, <<>>, x)
<1> DEFINE g == New(h, k, x, <<>>)
           f == Fresh(h)
           e == <<>>
<1>1. h[f].kind = "free"
  BY FreshFree
<1>2. e \in Seq(Value) /\ \A o : Occurrences(e, o) = 0
  BY OccEmpty
<1>3. g = New(h, k, x, e)
  OBVIOUS
<1> HIDE DEF g, f, e
<1>4. /\ g \in [Objs -> Cell] /\ f \in Objs
      /\ g[f].kind = k /\ g[f].rc = 1 + x /\ g[f].items = e /\ g[f].extra = x
      /\ \A o \in Objs : o # f => g[o] = h[o]
  BY <1>2, <1>3, NewCell DEF f
<1>5. \A o \in Objs : h[o].rc \in Nat
  BY CellOf
<1>6. Built(h, g, f, k, 1 + x, e, x)
  BY <1>1, <1>2, <1>4, <1>5 DEF Built
<1> QED BY <1>6 DEF g, f, e

\* A constructor builds an object that holds vs.
LEMMA HoldingBuilt ==
  ASSUME NEW h \in [Objs -> Cell], HasRoom(h), NEW k \in Kinds, NEW x \in {0, 1}, NEW vs \in Seq(Value),
         LiveIn(h, vs)
  PROVE  Built(h, RetainAll(New(h, k, x, vs), vs), Fresh(h), k, 1 + x, vs, x)
<1> DEFINE b == New(h, k, x, vs)
           g == RetainAll(b, vs)
           f == Fresh(h)
<1>1. f \in Objs /\ h[f].kind = "free"
  BY FreshFree
<1> HIDE DEF f
<1>2. Occurrences(vs, f) = 0
  BY <1>1 DEF LiveIn
<1>3. /\ b \in [Objs -> Cell]
      /\ b[f].kind = k /\ b[f].rc = 1 + x /\ b[f].items = vs /\ b[f].extra = x
      /\ \A o \in Objs : o # f => b[o] = h[o]
  BY NewCell DEF f
<1> HIDE DEF b
<1>4. Raised(b, g, vs)
  BY <1>3, RaisedBy
<1> HIDE DEF g
<1>5. /\ g \in [Objs -> Cell]
      /\ \A o \in Objs : /\ g[o].kind = b[o].kind /\ g[o].items = b[o].items /\ g[o].extra = b[o].extra
                         /\ g[o].rc = b[o].rc + Occurrences(vs, o)
  BY <1>4 DEF Raised
<1>6. g[f].kind = k /\ g[f].items = vs /\ g[f].extra = x /\ g[f].rc = (1 + x) + 0
  BY <1>1, <1>2, <1>3, <1>5
<1>7. g[f].rc = 1 + x
  BY <1>6
<1>8. ASSUME NEW o \in Objs, o # f
      PROVE  /\ g[o].kind = h[o].kind /\ g[o].items = h[o].items /\ g[o].extra = h[o].extra
             /\ g[o].rc = h[o].rc + Occurrences(vs, o)
  <2>1. b[o] = h[o]
    BY <1>3, <1>8
  <2> QED BY <1>5, <2>1
<1>9. Built(h, g, f, k, 1 + x, vs, x)
  BY <1>1, <1>5, <1>6, <1>7, <1>8 DEF Built
<1> QED BY <1>9 DEF g, b, f

\* NewString, val_str_rc and an empty map: the reference handed out is the
\* only one.
LEMMA EmptyOwned ==
  ASSUME NEW E \in [Objs -> Nat], NEW h, Owned(h, E), HasRoom(h), NEW k, NEW x,
         \/ k = "str" /\ x \in {0, 1}
         \/ k = "map" /\ x = 1
  PROVE  /\ Owned(New(h, k, x, <<>>), Plus(E, <<Fresh(h)>>))
         /\ New(h, k, x, <<>>)[Fresh(h)].kind = k
         /\ Fresh(h) \in Objs
<1> DEFINE f == Fresh(h)
           g == New(h, k, x, <<>>)
<1>1. h \in [Objs -> Cell] /\ k \in Kinds /\ x \in {0, 1} /\ k # "free" /\ f \in Objs /\ h[f].kind = "free"
  BY FreshFree DEF Owned, Kinds
<1>2. Built(h, g, f, k, 1 + x, <<>>, x)
  BY <1>1, NewBuilt
<1>3. LiveIn(h, <<>>)
  BY OccEmpty DEF LiveIn
<1> HIDE DEF f, g
<1>4. g[f].kind = k /\ g[f].rc = 1 + x /\ g[f].items = <<>> /\ g[f].extra = x
  BY <1>2 DEF Built
<1>5. Even(<<>>)
  BY DEF Even
<1>6. Formed(g[f]) /\ 1 + x >= 1 /\ 1 \in Nat
  BY <1>1, <1>4, <1>5 DEF Formed
<1>7. Owned(g, Handed(E, f, 1))
  BY <1>1, <1>2, <1>3, <1>6, BuiltOwned
<1>8. Handed(E, f, 1) = Plus(E, <<f>>)
  BY <1>1, HandedOne
<1> QED BY <1>1, <1>4, <1>7, <1>8 DEF f, g

\* val_array and val_func: the new object holds a reference to each of vs.
LEMMA HoldingOwned ==
  ASSUME NEW E \in [Objs -> Nat], NEW h, Owned(h, E), HasRoom(h), NEW k, NEW x,
         NEW vs \in Seq(Value), LiveIn(h, vs),
         \/ k = "arr" /\ x = 1
         \/ k = "cap" /\ x = 0
  PROVE  /\ Owned(RetainAll(New(h, k, x, vs), vs), Plus(E, <<Fresh(h)>>))
         /\ Fresh(h) \in Objs
<1> DEFINE f == Fresh(h)
           g == RetainAll(New(h, k, x, vs), vs)
<1>1. h \in [Objs -> Cell] /\ k \in Kinds /\ x \in {0, 1} /\ k # "free" /\ f \in Objs /\ h[f].kind = "free"
  BY FreshFree DEF Owned, Kinds
<1>2. Built(h, g, f, k, 1 + x, vs, x)
  BY <1>1, HoldingBuilt
<1> HIDE DEF f, g
<1>4. g[f].kind = k /\ g[f].rc = 1 + x /\ g[f].items = vs /\ g[f].extra = x
  BY <1>2 DEF Built
<1>6. Formed(g[f]) /\ 1 + x >= 1 /\ 1 \in Nat
  BY <1>1, <1>4 DEF Formed
<1>7. Owned(g, Handed(E, f, 1))
  BY <1>1, <1>2, <1>6, BuiltOwned
<1>8. Handed(E, f, 1) = Plus(E, <<f>>)
  BY <1>1, HandedOne
<1> QED BY <1>1, <1>7, <1>8 DEF f, g

-----------------------------------------------------------------------------
(* Containers that grow and shrink.                                        *)
\* The elements of one object replaced, and values retained.
PutItems(h, a, ws) == [h EXCEPT ![a].items = ws]

\* Writing the elements of one object leaves all else alone.
LEMMA PutItemsCell ==
  ASSUME NEW h \in [Objs -> Cell], NEW a \in Objs, NEW ws \in Seq(Value)
  PROVE  /\ PutItems(h, a, ws) \in [Objs -> Cell]
         /\ PutItems(h, a, ws)[a].items = ws
         /\ \A o \in Objs : /\ PutItems(h, a, ws)[o].kind = h[o].kind
                            /\ PutItems(h, a, ws)[o].rc = h[o].rc
                            /\ PutItems(h, a, ws)[o].extra = h[o].extra
                            /\ o # a => PutItems(h, a, ws)[o] = h[o]
<1> DEFINE g == PutItems(h, a, ws)
           c == [h[a] EXCEPT !.items = ws]
<1>1. h[a] \in Cell
  OBVIOUS
<1>2. c \in Cell /\ c.kind = h[a].kind /\ c.rc = h[a].rc /\ c.items = ws /\ c.extra = h[a].extra
  BY <1>1 DEF Cell
<1>3. g = [h EXCEPT ![a] = c]
  BY DEF PutItems
<1> HIDE DEF c, g
<1>4. g \in [Objs -> Cell] /\ g[a] = c /\ \A o \in Objs : o # a => g[o] = h[o]
  BY <1>2, <1>3
<1>5. \A o \in Objs : g[o].kind = h[o].kind /\ g[o].rc = h[o].rc /\ g[o].extra = h[o].extra
  BY <1>2, <1>4
<1> QED BY <1>2, <1>4, <1>5 DEF g

\* vs and us make up for the difference between the elements ws and ts.
Settles(ts, ws, vs, us) ==
  /\ ws \in Seq(Value) /\ vs \in Seq(Value) /\ us \in Seq(Value)
  /\ \A o \in Objs : Occurrences(ws, o) + Occurrences(us, o) = Occurrences(ts, o) + Occurrences(vs, o)

\* Retaining what comes in refills the container.
LEMMA RefilledBy ==
  ASSUME NEW h \in [Objs -> Cell], NEW a \in Objs, NEW ws, NEW vs, NEW us, Settles(h[a].items, ws, vs, us)
  PROVE  Refilled(h, RetainAll(PutItems(h, a, ws), vs), a, ws, vs, us)
<1> DEFINE b == PutItems(h, a, ws)
           g == RetainAll(b, vs)
<1>1. ws \in Seq(Value) /\ vs \in Seq(Value) /\ us \in Seq(Value)
  BY DEF Settles
<1>2. /\ b \in [Objs -> Cell] /\ b[a].items = ws
      /\ \A o \in Objs : /\ b[o].kind = h[o].kind /\ b[o].rc = h[o].rc /\ b[o].extra = h[o].extra
                         /\ o # a => b[o] = h[o]
  BY <1>1, PutItemsCell
<1> HIDE DEF b
<1>3. Raised(b, g, vs)
  BY <1>1, <1>2, RaisedBy
<1> HIDE DEF g
<1>4. /\ g \in [Objs -> Cell] /\ g[a].items = ws
      /\ \A o \in Objs : /\ g[o].kind = h[o].kind /\ g[o].extra = h[o].extra
                         /\ g[o].rc = h[o].rc + Occurrences(vs, o)
                         /\ o # a => g[o].items = h[o].items
  BY <1>2, <1>3 DEF Raised
<1>5. Refilled(h, g, a, ws, vs, us)
  BY <1>1, <1>4 DEF Refilled, Settles
<1> QED BY <1>5 DEF g, b

\* The container refilled, for a heap that is owned.
LEMMA RefillOwned ==
  ASSUME NEW E \in [Objs -> Nat], NEW h, Owned(h, E), NEW a \in Objs, NEW ws, NEW vs, NEW us,
         Settles(h[a].items, ws, vs, us), LiveIn(h, vs),
         h[a].kind \in {"arr", "map"}, h[a].kind = "map" => Even(ws)
  PROVE  /\ Owned(RetainAll(PutItems(h, a, ws), vs), Plus(E, us))
         /\ RetainAll(PutItems(h, a, ws), vs)[a].kind = h[a].kind
<1>1. Refilled(h, RetainAll(PutItems(h, a, ws), vs), a, ws, vs, us)
  BY RefilledBy DEF Owned
<1> DEFINE g == RetainAll(PutItems(h, a, ws), vs)
<1> HIDE DEF g
<1>2. Refilled(h, g, a, ws, vs, us)
  BY <1>1 DEF g
<1>3. g[a].kind = h[a].kind
  BY <1>2 DEF Refilled
<1>4. Owned(g, Plus(E, us))
  BY <1>2, RefilledOwned
<1> QED BY <1>3, <1>4 DEF g

\* Nothing retained.
LEMMA RetainNone ==
  ASSUME NEW h \in [Objs -> Cell]
  PROVE  RetainAll(h, <<>>) = h
<1> DEFINE f == RetainAll(h, <<>>)
<1>1. ASSUME NEW o \in Objs PROVE f[o] = h[o]
  <2>1. f[o] = [h[o] EXCEPT !.rc = @ + Occurrences(<<>>, o)]
    BY DEF RetainAll
  <2>2. Occurrences(<<>>, o) = 0 /\ h[o] \in Cell
    BY OccEmpty
  <2>3. [h[o] EXCEPT !.rc = @ + 0] = h[o]
    BY <2>2 DEF Cell
  <2> QED BY <2>1, <2>2, <2>3
<1>2. f = [o \in Objs |-> f[o]] /\ h = [o \in Objs |-> h[o]]
  BY DEF RetainAll
<1> HIDE DEF f
<1>3. f = h
  BY <1>1, <1>2
<1> QED BY <1>3 DEF f

\* Append, as a concatenation.
LEMMA AppendIs ==
  ASSUME NEW s \in Seq(Value), NEW v \in Value
  PROVE  Append(s, v) = s \o <<v>>
  OBVIOUS

\* An array with one more element.
LEMMA PushOwned ==
  ASSUME NEW E \in [Objs -> Nat], NEW h, Owned(h, E), NEW a \in Objs, h[a].kind = "arr",
         NEW v \in Value, LiveIn(h, <<v>>)
  PROVE  Owned(rc_array_push(h, a, v), E)
<1> DEFINE ts == h[a].items
           vs == <<v>>
           ws == ts \o vs
           us == <<>>
<1>1. h \in [Objs -> Cell] /\ ts \in Seq(Value) /\ vs \in Seq(Value) /\ us \in Seq(Value)
  BY CellOf, OccOne, OccEmpty DEF Owned
<1>2. Append(ts, v) = ws
  BY <1>1, AppendIs
<1>3. rc_array_push(h, a, v) = retain_value(PutItems(h, a, ws), v)
  <2>1. PutItems(h, a, Append(ts, v)) = [h EXCEPT ![a].items = Append(@, v)]
    BY DEF PutItems
  <2> QED BY <1>2, <2>1 DEF rc_array_push
<1>4. LiveIn(h, vs)
  OBVIOUS
<1>5. \A o : Occurrences(us, o) = 0
  BY OccEmpty
<1>6. Plus(E, us) = E
  BY PlusNone
<1> HIDE DEF ts, vs, us
<1>7. /\ ws \in Seq(Value)
      /\ \A o : /\ Occurrences(ws, o) = Occurrences(ts, o) + Occurrences(vs, o)
                /\ Occurrences(ts, o) \in Nat /\ Occurrences(vs, o) \in Nat
  BY <1>1, OccConcat, OccAt
<1> HIDE DEF ws
<1>8. Settles(ts, ws, vs, us)
  BY <1>1, <1>5, <1>7 DEF Settles
<1>9. Owned(RetainAll(PutItems(h, a, ws), vs), Plus(E, us))
  BY <1>4, <1>8, RefillOwned DEF ts
<1>10. retain_value(PutItems(h, a, ws), v) = RetainAll(PutItems(h, a, ws), vs)
  BY <1>1, <1>7, PutItemsCell, RetainOne DEF vs
<1> QED BY <1>3, <1>6, <1>9, <1>10

\* Pairs after pairs are pairs.
LEMMA EvenPlusTwo ==
  ASSUME NEW s \in Seq(Value), NEW t \in Seq(Value), Even(s), Even(t)
  PROVE  Even(s \o t)
<1> DEFINE a == Len(s)
           b == Len(t)
           c == Len(s \o t)
<1>1. a \in Nat /\ b \in Nat /\ c = a + b
  OBVIOUS
<1>2. a % 2 = 0 /\ b % 2 = 0
  BY DEF Even
<1> HIDE DEF a, b, c
<1>3. c % 2 = 0
  BY <1>1, <1>2
<1> QED BY <1>3 DEF Even, c

\* A map with one more entry.
LEMMA InsertOwned ==
  ASSUME NEW E \in [Objs -> Nat], NEW h, Owned(h, E), NEW m \in Objs, h[m].kind = "map",
         NEW k \in Value, NEW v \in Value, LiveIn(h, <<k, v>>)
  PROVE  Owned(SetEntry(h, m, k, v, 0), E) /\ SetEntry(h, m, k, v, 0)[m].kind = "map"
<1> DEFINE ts == h[m].items
           vs == <<k, v>>
           ws == ts \o vs
           us == <<>>
<1>1. h \in [Objs -> Cell] /\ ts \in Seq(Value) /\ vs \in Seq(Value) /\ us \in Seq(Value)
  BY CellOf, OccEmpty DEF Owned
<1>2. Even(ts)
  BY DEF Owned, Shaped, Formed
<1>3. Even(vs)
  BY DEF Even
<1>4. SetEntry(h, m, k, v, 0) = RetainAll(PutItems(h, m, ws), vs)
  BY DEF SetEntry, PutItems
<1>5. \A o : Occurrences(us, o) = 0
  BY OccEmpty
<1>6. Plus(E, us) = E /\ LiveIn(h, vs)
  BY PlusNone
<1> HIDE DEF ts, vs, us
<1>7. /\ ws \in Seq(Value) /\ Even(ws)
      /\ \A o : /\ Occurrences(ws, o) = Occurrences(ts, o) + Occurrences(vs, o)
                /\ Occurrences(ts, o) \in Nat /\ Occurrences(vs, o) \in Nat
  BY <1>1, <1>2, <1>3, OccConcat, OccAt, EvenPlusTwo
<1> HIDE DEF ws
<1>8. Settles(ts, ws, vs, us)
  BY <1>1, <1>5, <1>7 DEF Settles
<1>9. /\ Owned(RetainAll(PutItems(h, m, ws), vs), Plus(E, us))
      /\ RetainAll(PutItems(h, m, ws), vs)[m].kind = h[m].kind
  BY <1>6, <1>7, <1>8, RefillOwned DEF ts
<1> QED BY <1>4, <1>6, <1>9

\* The entry at an odd index of an even sequence has its value next to it.
LEMMA EntryPair ==
  ASSUME NEW s \in Seq(Value), Even(s), NEW j \in DOMAIN s, j % 2 = 1
  PROVE  /\ j \in Nat /\ 1 <= j /\ j + 1 <= Len(s) /\ j + 1 \in DOMAIN s
         /\ s[j] \in Value /\ s[j + 1] \in Value
<1> DEFINE n == Len(s)
<1>1. n \in Nat /\ DOMAIN s = 1 .. n /\ j \in 1 .. n
  OBVIOUS
<1>2. n % 2 = 0
  BY DEF Even
<1> HIDE DEF n
<1>3. j + 1 <= n
  BY <1>1, <1>2
<1>4. j + 1 \in DOMAIN s
  BY <1>1, <1>3
<1> QED BY <1>1, <1>3, <1>4 DEF n

\* A map with one entry less.
LEMMA RemoveOwned ==
  ASSUME NEW E \in [Objs -> Nat], NEW h, Owned(h, E), NEW m \in Objs, h[m].kind = "map",
         NEW j \in DOMAIN h[m].items, j % 2 = 1
  PROVE  Owned(RemoveEntry(h, m, j), E)
<1> DEFINE s == h[m].items
           ws == SubSeq(s, 1, j - 1) \o SubSeq(s, j + 2, Len(s))
           us == <<s[j], s[j + 1]>>
           vs == <<>>
<1>1. h \in [Objs -> Cell] /\ s \in Seq(Value) /\ vs \in Seq(Value)
  BY CellOf, OccEmpty DEF Owned
<1>2. Even(s)
  BY DEF Owned, Shaped, Formed
<1>3. \A o : Occurrences(vs, o) = 0
  BY OccEmpty
<1>4. LiveIn(h, vs)
  BY <1>3 DEF LiveIn
<1>5. RemoveEntry(h, m, j) = ReleaseAll(PutItems(h, m, ws), us)
  <2>1. j # 0
    BY <1>1
  <2> QED BY <2>1 DEF RemoveEntry, PutItems
<1> HIDE DEF s, vs
<1>6. /\ j \in Nat /\ 1 <= j /\ j + 1 <= Len(s) /\ j + 1 \in DOMAIN s
      /\ s[j] \in Value /\ s[j + 1] \in Value
  <2>1. j \in DOMAIN s
    BY DEF s
  <2> QED BY <1>1, <1>2, <2>1, EntryPair
<1>7. us \in Seq(Value) /\ us = SubSeq(s, j, j + 1)
  <2>1. us \in Seq(Value)
    BY <1>6
  <2>2. us = SubSeq(s, j, j + 1)
    BY <1>1, <1>6
  <2> QED BY <2>1, <2>2
<1> DEFINE p == SubSeq(s, 1, j - 1)
           q == SubSeq(s, j + 2, Len(s))
<1>8. /\ p \in Seq(Value) /\ q \in Seq(Value)
      /\ \A o : Occurrences(s, o) = Occurrences(p, o) + Occurrences(us, o) + Occurrences(q, o)
  <2>1. j - 1 \in Nat /\ j + 1 \in Nat /\ j - 1 <= j + 1 /\ (j - 1) + 1 = j /\ (j + 1) + 1 = j + 2
    BY <1>6
  <2> DEFINE a == j - 1
             b == j + 1
  <2>2. a \in Nat /\ b \in Nat /\ a <= b /\ b <= Len(s)
    BY <1>6, <2>1
  <2>3. p = SubSeq(s, 1, a) /\ us = SubSeq(s, a + 1, b) /\ q = SubSeq(s, b + 1, Len(s))
    BY <1>7, <2>1
  <2> HIDE DEF us, a, b, p, q
  <2>4. \A o : /\ SubSeq(s, 1, a) \in Seq(Value)
               /\ SubSeq(s, b + 1, Len(s)) \in Seq(Value)
               /\ Occurrences(s, o) = Occurrences(SubSeq(s, 1, a), o)
                    + Occurrences(SubSeq(s, a + 1, b), o) + Occurrences(SubSeq(s, b + 1, Len(s)), o)
    BY <1>1, <2>2, OccCut
  <2> QED BY <2>3, <2>4
<1>9. Even(ws)
  <2>0. Len(s) \in Nat /\ j - 1 \in 0 .. Len(s) /\ j + 2 \in 1 .. Len(s) + 1
    BY <1>1, <1>6
  <2>1. Len(p) = j - 1 /\ Len(q) = Len(s) - (j + 1) /\ Len(s) \in Nat
    <3>1. Len(p) = j - 1
      BY <1>1, <2>0
    <3>2. Len(q) = Len(s) - (j + 2) + 1
      BY <1>1, <2>0
    <3> HIDE DEF p, q
    <3> QED BY <1>6, <2>0, <3>1, <3>2
  <2>2. Len(ws) = Len(p) + Len(q)
    BY <1>8
  <2> DEFINE a == Len(ws)
             n == Len(s)
  <2>3. a = (j - 1) + (n - (j + 1)) /\ n \in Nat
    BY <2>1, <2>2
  <2>4. n % 2 = 0
    BY <1>2 DEF Even
  <2> HIDE DEF a, n
  <2>5. a = n - 2
    BY <1>6, <2>3
  <2>6. a % 2 = 0
    BY <2>3, <2>4, <2>5
  <2> QED BY <2>6 DEF Even, a
<1>10. ws = p \o q
  OBVIOUS
<1> HIDE DEF p, q, us, ws
<1>11. /\ ws \in Seq(Value)
       /\ \A o : /\ Occurrences(ws, o) = Occurrences(p, o) + Occurrences(q, o)
                 /\ Occurrences(p, o) \in Nat /\ Occurrences(q, o) \in Nat /\ Occurrences(us, o) \in Nat
  <2>1. us \in Seq(Value) /\ p \in Seq(Value) /\ q \in Seq(Value)
    BY <1>7, <1>8
  <2>2. \A o : Occurrences(p, o) \in Nat /\ Occurrences(q, o) \in Nat /\ Occurrences(us, o) \in Nat
    BY <2>1, OccAt
  <2>3. p \o q \in Seq(Value) /\ \A o : Occurrences(p \o q, o) = Occurrences(p, o) + Occurrences(q, o)
    BY <2>1, OccConcat
  <2> QED BY <1>10, <2>2, <2>3
<1>12. Settles(s, ws, vs, us)
  <2> SUFFICES ASSUME NEW o \in Objs
               PROVE  Occurrences(ws, o) + Occurrences(us, o) = Occurrences(s, o) + Occurrences(vs, o)
    BY <1>1, <1>7, <1>11 DEF Settles
  <2> QED BY <1>3, <1>8, <1>11
<1>13. Owned(RetainAll(PutItems(h, m, ws), vs), Plus(E, us))
  BY <1>4, <1>9, <1>12, RefillOwned DEF s
<1>14. RetainAll(PutItems(h, m, ws), vs) = PutItems(h, m, ws)
  BY <1>1, <1>11, PutItemsCell, RetainNone DEF vs
<1>15. Owned(ReleaseAll(PutItems(h, m, ws), us), E)
  BY <1>7, <1>13, <1>14, ReleaseOwned
<1> QED BY <1>5, <1>15

-----------------------------------------------------------------------------
(* A release while a container is changed.                                 *)
\* A container that is never freed may have other elements during a release:
\* the steps are the same.
Fill(s, a, ws) == [heap |-> PutItems(s.heap, a, ws), due |-> s.due]

\* The two writes of a release.
WithFree(h, v)  == [h EXCEPT ![v] = FreeCell]
WithLower(h, v) == [h EXCEPT ![v].rc = @ - 1]

\* Freeing another object and writing elements commute.
LEMMA SwapFree ==
  ASSUME NEW h \in [Objs -> Cell], NEW a \in Objs, NEW ws \in Seq(Value), NEW v \in Objs, v # a
  PROVE  WithFree(PutItems(h, a, ws), v) = PutItems(WithFree(h, v), a, ws)
<1> DEFINE b == PutItems(h, a, ws)
           l == [b EXCEPT ![v] = FreeCell]
           f == [h EXCEPT ![v] = FreeCell]
           r == PutItems(f, a, ws)
<1>1. FreeCell \in Cell
  BY DEF FreeCell, Cell, Kinds
<1>2. f \in [Objs -> Cell] /\ f[a] = h[a]
  BY <1>1
<1>3. /\ b = [h EXCEPT ![a] = [h[a] EXCEPT !.items = ws]]
      /\ r = [f EXCEPT ![a] = [f[a] EXCEPT !.items = ws]]
  BY DEF PutItems
<1>4. b \in [Objs -> Cell]
  BY PutItemsCell
<1> DEFINE c == [h[a] EXCEPT !.items = ws]
<1>5. b = [h EXCEPT ![a] = c] /\ r = [f EXCEPT ![a] = c]
  BY <1>2, <1>3
<1> HIDE DEF c
<1>6. l = r
  BY <1>2, <1>4, <1>5
<1> QED BY <1>6 DEF WithFree

\* Lowering a count and writing elements commute.
LEMMA SwapLower ==
  ASSUME NEW h \in [Objs -> Cell], NEW a \in Objs, NEW ws \in Seq(Value), NEW v \in Objs
  PROVE  WithLower(PutItems(h, a, ws), v) = PutItems(WithLower(h, v), a, ws)
<1> DEFINE b == PutItems(h, a, ws)
           l == [b EXCEPT ![v].rc = @ - 1]
           f == [h EXCEPT ![v].rc = @ - 1]
           r == PutItems(f, a, ws)
<1>1. b = [h EXCEPT ![a] = [h[a] EXCEPT !.items = ws]]
  BY DEF PutItems
<1>2. r = [f EXCEPT ![a] = [f[a] EXCEPT !.items = ws]]
  BY DEF PutItems
<1>3. l = [b EXCEPT ![v] = [b[v] EXCEPT !.rc = @ - 1]]
  OBVIOUS
<1>4. f = [h EXCEPT ![v] = [h[v] EXCEPT !.rc = @ - 1]]
  OBVIOUS
<1>5. \A o \in Objs : h[o] \in Cell
  OBVIOUS
<1>6. ASSUME v = a PROVE l = r
  <2> DEFINE c == [h[a] EXCEPT !.items = ws]
             d == [h[a] EXCEPT !.rc = @ - 1]
  <2>1. [c EXCEPT !.rc = @ - 1] = [d EXCEPT !.items = ws]
    BY <1>5 DEF Cell
  <2>2. b[a] = c /\ f[a] = d
    BY <1>1, <1>4, <1>6
  <2>3. l = [b EXCEPT ![a] = [c EXCEPT !.rc = @ - 1]] /\ r = [f EXCEPT ![a] = [d EXCEPT !.items = ws]]
    BY <1>2, <1>3, <1>6, <2>2
  <2> DEFINE e == [c EXCEPT !.rc = @ - 1]
  <2>4. b = [h EXCEPT ![a] = c] /\ f = [h EXCEPT ![a] = d]
    BY <1>1, <1>4, <1>6
  <2>5. l = [b EXCEPT ![a] = e] /\ r = [f EXCEPT ![a] = e]
    BY <2>1, <2>3
  <2> HIDE DEF c, d, e, l, r, b, f
  <2>6. l = r
    BY <2>4, <2>5
  <2> QED BY <2>6 DEF l, r, b, f
<1>7. ASSUME v # a PROVE l = r
  <2> DEFINE c == [h[a] EXCEPT !.items = ws]
             d == [h[v] EXCEPT !.rc = @ - 1]
  <2>1. b[v] = h[v] /\ f[a] = h[a]
    BY <1>1, <1>4, <1>7
  <2>2. /\ b = [h EXCEPT ![a] = c] /\ f = [h EXCEPT ![v] = d]
        /\ l = [b EXCEPT ![v] = d] /\ r = [f EXCEPT ![a] = c]
    BY <1>1, <1>2, <1>3, <1>4, <2>1
  <2> HIDE DEF c, d, l, r, b, f
  <2>3. l = r
    BY <1>7, <2>2
  <2> QED BY <2>3 DEF l, r, b, f
<1>8. l = r
  BY <1>6, <1>7
<1> QED BY <1>8 DEF WithLower

\* One step of a release, with the other elements.
LEMMA FillStep ==
  ASSUME NEW E \in [Objs -> Nat], NEW g, NEW s, Releases(E, g, s),
         NEW a \in Objs, E[a] >= 1, NEW ws \in Seq(Value)
  PROVE  ReleaseHead(Fill(s, a, ws)) = Fill(ReleaseHead(s), a, ws)
<1> DEFINE h == s.heap
           due == s.due
           v == Head(due)
           b == PutItems(h, a, ws)
           t == Fill(s, a, ws)
           n == ReleaseHead(s)
<1>1. Owned(h, Plus(E, due)) /\ h \in [Objs -> Cell] /\ due \in Seq(Value)
  BY DEF Releases, Owned, State
<1>2. /\ b \in [Objs -> Cell]
      /\ \A o \in Objs : b[o].rc = h[o].rc /\ (o # a => b[o] = h[o])
  BY <1>1, PutItemsCell
<1>3. t.heap = b /\ t.due = due
  BY DEF Fill
<1>4. CASE due = <<>>
  <2>1. ReleaseHead(t) = t
    BY <1>3, <1>4 DEF ReleaseHead
  <2>2. n = s
    BY <1>4 DEF ReleaseHead
  <2> QED BY <2>1, <2>2
<1>5. CASE due # <<>> /\ ~IsRef(v)
  <2>1. ReleaseHead(t) = [heap |-> b, due |-> Tail(due)]
    BY <1>3, <1>5 DEF ReleaseHead
  <2>2. n.heap = h /\ n.due = Tail(due)
    BY <1>5, SMTT(30) DEF ReleaseHead
  <2> QED BY <2>1, <2>2 DEF Fill
<1>6. CASE due # <<>> /\ IsRef(v) /\ h[v].rc = 1
  <2>0. v \in Objs
    BY <1>6 DEF IsRef
  <2>1. v # a
    <3> SUFFICES ASSUME v = a PROVE FALSE
      OBVIOUS
    <3>1. h[a].rc = (E[a] + Occurrences(due, a)) + References(h, a) + h[a].extra
      BY <1>1 DEF Owned, Balanced, Plus
    <3>2. References(h, a) \in Nat /\ h[a].extra \in {0, 1} /\ E[a] \in Nat
      BY <1>1, CellIsRaw, CellOf, References0
    <3>3. Occurrences(Tail(due), a) \in Nat /\ Occurrences(due, a) = 1 + Occurrences(Tail(due), a)
      BY <1>1, <1>6, OccTail
    <3> QED BY <1>6, <3>1, <3>2, <3>3
  <2>2. b[v] = h[v]
    BY <1>2, <2>0, <2>1
  <2>3. ReleaseHead(t) = [heap |-> [b EXCEPT ![v] = FreeCell], due |-> h[v].items \o Tail(due)]
    <3>1. b[v].rc = 1 /\ b[v].items = h[v].items
      BY <1>6, <2>2, SMTT(30)
    <3> QED BY <1>3, <1>6, <3>1 DEF ReleaseHead
  <2>4. n.heap = [h EXCEPT ![v] = FreeCell] /\ n.due = h[v].items \o Tail(due)
    BY <1>6 DEF ReleaseHead
  <2>5. [b EXCEPT ![v] = FreeCell] = PutItems([h EXCEPT ![v] = FreeCell], a, ws)
    <3>1. WithFree(PutItems(h, a, ws), v) = PutItems(WithFree(h, v), a, ws)
      <4> HIDE DEF h, v
      <4> QED BY <1>1, <2>0, <2>1, SwapFree
    <3> HIDE DEF h, v
    <3> QED BY <3>1 DEF WithFree
  <2> QED BY <2>3, <2>4, <2>5 DEF Fill
<1>7. CASE due # <<>> /\ IsRef(v) /\ h[v].rc # 1
  <2>0. v \in Objs
    BY <1>7 DEF IsRef
  <2>1. b[v].rc # 1
    BY <1>2, <1>7, <2>0
  <2>2. ReleaseHead(t) = [heap |-> [b EXCEPT ![v].rc = @ - 1], due |-> Tail(due)]
    BY <1>3, <1>7, <2>1 DEF ReleaseHead
  <2>3. n.heap = [h EXCEPT ![v].rc = @ - 1] /\ n.due = Tail(due)
    BY <1>7 DEF ReleaseHead
  <2>4. [b EXCEPT ![v].rc = @ - 1] = PutItems([h EXCEPT ![v].rc = @ - 1], a, ws)
    <3>1. WithLower(PutItems(h, a, ws), v) = PutItems(WithLower(h, v), a, ws)
      <4> HIDE DEF h, v
      <4> QED BY <1>1, <2>0, SwapLower
    <3> HIDE DEF h, v
    <3> QED BY <3>1 DEF WithLower
  <2> QED BY <2>2, <2>3, <2>4 DEF Fill
<1> QED BY <1>4, <1>5, <1>6, <1>7

\* Sequences of one length.
SameLength(s, t) == Len(s) = Len(t)

\* A release over the same heap with other elements in a container that stays.
LEMMA FillRelease ==
  ASSUME NEW E \in [Objs -> Nat], NEW g, NEW vs \in Seq(Value), Owned(g, Plus(E, vs)),
         NEW a \in Objs, E[a] >= 1, NEW ws \in Seq(Value), SameLength(ws, g[a].items)
  PROVE  ReleaseAll(PutItems(g, a, ws), vs) = PutItems(ReleaseAll(g, vs), a, ws)
<1> DEFINE h == PutItems(g, a, ws)
           n == Pending(g, vs)
           p == Releasing(g, vs)
           q == Releasing(h, vs)
<1>1. g \in [Objs -> Cell] /\ g \in Raw
  BY CellIsRaw DEF Owned
<1>2. /\ h \in [Objs -> Cell] /\ h \in Raw /\ h[a].items = ws
      /\ \A o \in Objs : o # a => h[o] = g[o]
  BY <1>1, PutItemsCell, CellIsRaw
<1> HIDE DEF h
<1>3. Pending(h, vs) = n
  <2> DEFINE F == Items(g)
             G == Items(h)
  <2>1. /\ Family(F, Objs) /\ Family(G, Objs) /\ F[a] = g[a].items /\ G[a] = ws
        /\ \A x \in Objs \ {a} : F[x] = G[x]
    BY <1>1, <1>2, ItemsFamily, SMTT(30)
  <2>2. Cardinality(Places(F)) = Cardinality(Places(G))
    <3> HIDE DEF F, G
    <3>1. Apart(F, Objs, G, Objs, a)
      BY <2>1 DEF Apart
    <3>2. /\ Cardinality(Places(F)) \in Nat /\ Cardinality(Places(G)) \in Nat
          /\ Len(F[a]) \in Nat /\ Len(G[a]) \in Nat
          /\ Cardinality(Places(G)) + Len(F[a]) = Cardinality(Places(F)) + Len(G[a])
      BY <3>1, SizeChange
    <3>3. Len(F[a]) = Len(G[a])
      BY <2>1 DEF SameLength
    <3> QED BY <3>2, <3>3
  <2> QED BY <2>2 DEF Pending
<1>4. /\ n \in Nat
      /\ p[0] = [heap |-> g, due |-> vs]
      /\ \A i \in 1 .. n : p[i] = ReleaseHead(p[i - 1])
  BY <1>1, ReleasingStep
<1>5. /\ q[0] = [heap |-> h, due |-> vs]
      /\ \A i \in 1 .. n : q[i] = ReleaseHead(q[i - 1])
  BY <1>2, <1>3, ReleasingStep
<1>6. \A i \in 0 .. n : Releases(E, g, p[i])
  BY ReleaseOwned
<1>7. ReleaseAll(g, vs) = p[n].heap /\ ReleaseAll(h, vs) = q[n].heap
  BY <1>3 DEF ReleaseAll
<1> HIDE DEF n, p, q
<1> DEFINE S == {i \in Nat : i <= n => q[i] = Fill(p[i], a, ws)}
<1>8. 0 \in S
  <2>1. p[0].heap = g /\ p[0].due = vs
    BY <1>4
  <2> QED BY <1>5, <2>1 DEF Fill, h
<1>9. ASSUME NEW i \in Nat, i \in S PROVE i + 1 \in S
  <2> SUFFICES ASSUME i + 1 <= n PROVE q[i + 1] = Fill(p[i + 1], a, ws)
    OBVIOUS
  <2>1. i + 1 \in 1 .. n /\ (i + 1) - 1 = i /\ i \in 0 .. n /\ q[i] = Fill(p[i], a, ws)
    BY <1>4, <1>9
  <2>2. p[i + 1] = ReleaseHead(p[i]) /\ q[i + 1] = ReleaseHead(q[i]) /\ Releases(E, g, p[i])
    BY <1>4, <1>5, <1>6, <2>1
  <2>3. ReleaseHead(Fill(p[i], a, ws)) = Fill(ReleaseHead(p[i]), a, ws)
    BY <2>2, FillStep
  <2> QED BY <2>1, <2>2, <2>3
<1>10. n \in S
  <2> HIDE DEF S
  <2> QED BY <1>4, <1>8, <1>9, NatInd
<1>11. q[n] = Fill(p[n], a, ws)
  BY <1>4, <1>10
<1>12. ReleaseAll(h, vs) = PutItems(ReleaseAll(g, vs), a, ws)
  BY <1>7, <1>11 DEF Fill
<1> QED BY <1>12 DEF h

-----------------------------------------------------------------------------
(* Overwriting an element.                                                 *)
\* rc_array_set and rc_map_set on an element that is there.
Overwrite(h, a, i, v) ==
  retain_value([release_value(h, h[a].items[i]) EXCEPT ![a].items[i] = v], v)

\* What is held outside is not freed.
LEMMA LiveHeld ==
  ASSUME NEW E \in [Objs -> Nat], NEW h, Owned(h, E), NEW vs,
         \A o \in Objs : Occurrences(vs, o) # 0 => E[o] >= 1
  PROVE  LiveIn(h, vs)
<1> SUFFICES ASSUME NEW o \in Objs, Occurrences(vs, o) # 0 PROVE h[o].kind # "free"
  BY DEF LiveIn
<1>1. E[o] # 0
  OBVIOUS
<1> QED BY <1>1, LiveOwner

\* The elements put back.
LEMMA PutTwice ==
  ASSUME NEW h \in [Objs -> Cell], NEW a \in Objs, NEW ts \in Seq(Value)
  PROVE  PutItems(PutItems(h, a, ts), a, h[a].items) = h
<1> DEFINE b == PutItems(h, a, ts)
           c == [h[a] EXCEPT !.items = ts]
           d == [c EXCEPT !.items = h[a].items]
<1>1. b = [h EXCEPT ![a] = c] /\ PutItems(b, a, h[a].items) = [b EXCEPT ![a] = [b[a] EXCEPT !.items = h[a].items]]
  BY DEF PutItems
<1>2. b[a] = c
  BY <1>1
<1>3. h[a] \in Cell
  OBVIOUS
<1>4. d = h[a]
  BY <1>3 DEF Cell
<1>5. PutItems(b, a, h[a].items) = [b EXCEPT ![a] = h[a]]
  BY <1>1, <1>2, <1>4
<1> HIDE DEF b, c, d
<1>6. [b EXCEPT ![a] = h[a]] = h
  BY <1>1
<1> QED BY <1>5, <1>6 DEF b

\* One element written, in the object and in its sequence.
PutItem(h, a, i, v) == [h EXCEPT ![a].items[i] = v]
Altered(s, i, v)    == [s EXCEPT ![i] = v]

\* One element is written by writing the sequence that has it.
LEMMA PutOneItem ==
  ASSUME NEW h \in [Objs -> Cell], NEW a \in Objs, NEW s \in Seq(Value), NEW i, NEW v,
         NEW w, w = Altered(s, i, v)
  PROVE  PutItem(PutItems(h, a, s), a, i, v) = PutItems(h, a, w)
<1> USE DEF Altered
<1> DEFINE b == PutItems(h, a, s)
           c == [h[a] EXCEPT !.items = s]
           d == [h[a] EXCEPT !.items = w]
<1>1. b = [h EXCEPT ![a] = c] /\ PutItems(h, a, w) = [h EXCEPT ![a] = d]
  BY DEF PutItems
<1>2. [b EXCEPT ![a].items[i] = v] = [b EXCEPT ![a] = [b[a] EXCEPT !.items = [b[a].items EXCEPT ![i] = v]]]
  OBVIOUS
<1>3. b[a] = c
  BY <1>1
<1>4. h[a] \in Cell
  OBVIOUS
<1>5. c.items = s
  BY <1>4 DEF Cell
<1>6. [c EXCEPT !.items = w] = d
  BY <1>4 DEF Cell
<1>7. [b EXCEPT ![a].items[i] = v] = [b EXCEPT ![a] = d]
  BY <1>2, <1>3, <1>5, <1>6
<1> HIDE DEF b, c, d
<1>8. [b EXCEPT ![a] = d] = [h EXCEPT ![a] = d]
  BY <1>1
<1> QED BY <1>1, <1>7, <1>8 DEF b, PutItem

\* Overwriting an element keeps the ownership as long as the container
\* itself is held: the release of the old element cannot free it.
LEMMA OverwriteOwned ==
  ASSUME NEW E \in [Objs -> Nat], NEW h, Owned(h, E), NEW a \in Objs, E[a] >= 1,
         h[a].kind \in {"arr", "map"}, NEW i \in DOMAIN h[a].items, NEW v \in Value,
         \A o \in Objs : Occurrences(<<v>>, o) # 0 => E[o] >= 1
  PROVE  Owned(Overwrite(h, a, i, v), E) /\ Overwrite(h, a, i, v)[a].kind = h[a].kind
<1> DEFINE s == h[a].items
           x == s[i]
           us == <<x>>
           vs == <<v>>
           es == <<>>
           ts == [s EXCEPT ![i] = Imm]
           ws == [s EXCEPT ![i] = v]
           g == PutItems(h, a, ts)
           R == ReleaseAll(g, us)
<1>1. h \in [Objs -> Cell] /\ s \in Seq(Value) /\ Imm \in Value
  BY CellOf DEF Owned, Value
<1>2. Changed(s, ts, i, Imm) /\ Changed(s, ws, i, v)
  BY <1>1, ChangedBy
<1>3. x \in Value /\ us \in Seq(Value) /\ vs \in Seq(Value) /\ es \in Seq(Value)
  BY <1>1, OccOne, OccEmpty
<1>4. \A o \in Objs : Occurrences(<<Imm>>, o) = 0 /\ Occurrences(es, o) = 0
  <2>1. \A o \in Objs : Imm # o
    BY RcHeapAssumption DEF Imm, Objs
  <2> QED BY <1>1, <2>1, OccOne, OccEmpty
<1>5. Plus(E, es) = E
  BY PlusNone
<1>6. h[a].kind = "map" => Even(s)
  BY DEF Owned, Shaped, Formed
<1>7. /\ ts \in Seq(Value) /\ ws \in Seq(Value) /\ Len(ts) = Len(s) /\ Len(ws) = Len(s)
  <2> HIDE DEF ts, ws, s
  <2> QED BY <1>2 DEF Changed
<1>8. \A o : /\ Occurrences(ts, o) + Occurrences(us, o) = Occurrences(s, o) + Occurrences(<<Imm>>, o)
             /\ Occurrences(ws, o) + Occurrences(us, o) = Occurrences(s, o) + Occurrences(vs, o)
             /\ Occurrences(ts, o) \in Nat /\ Occurrences(ws, o) \in Nat /\ Occurrences(s, o) \in Nat
             /\ Occurrences(us, o) \in Nat /\ Occurrences(vs, o) \in Nat
  <2> HIDE DEF ts, ws, s
  <2>1. \A o : /\ Occurrences(ts, o) + Occurrences(us, o) = Occurrences(s, o) + Occurrences(<<Imm>>, o)
               /\ Occurrences(ws, o) + Occurrences(us, o) = Occurrences(s, o) + Occurrences(vs, o)
    BY <1>2, OccChanged
  <2> HIDE DEF us, vs
  <2> QED BY <1>1, <1>3, <1>7, <2>1, OccAt
<1>9. Overwrite(h, a, i, v) = retain_value([ReleaseAll(h, us) EXCEPT ![a].items[i] = v], v)
  BY DEF Overwrite, release_value
<1>10. PutItems(g, a, s) = h
  <2>1. ts \in Seq(Value)
    BY <1>7
  <2> HIDE DEF ts
  <2> QED BY <1>1, <2>1, PutTwice
<1>11. s = h[a].items
  OBVIOUS
<1>12. LiveIn(h, es) /\ LiveIn(h, vs)
  BY <1>4, LiveHeld DEF LiveIn
<1>13. \A o \in Objs : Occurrences(vs, o) # 0 => E[o] >= 1
  OBVIOUS
<1>14. /\ g \in [Objs -> Cell] /\ g[a].items = ts /\ g[a].kind = h[a].kind
  <2>1. ts \in Seq(Value)
    BY <1>7
  <2> HIDE DEF ts
  <2> QED BY <1>1, <2>1, PutItemsCell, SMTT(30)
<1> HIDE DEF s, x, us, vs, es, ts, ws
<1>15. Owned(g, Plus(E, us))
  <2>1. Settles(s, ts, es, us)
    BY <1>3, <1>4, <1>7, <1>8 DEF Settles
  <2>2. h[a].kind = "map" => Even(ts)
    BY <1>6, <1>7 DEF Even
  <2>3. Owned(RetainAll(g, es), Plus(E, us))
    BY <1>11, <1>12, <2>1, <2>2, RefillOwned
  <2>4. RetainAll(g, es) = g
    <3> HIDE DEF g
    <3> QED BY <1>14, RetainNone DEF es
  <2> QED BY <2>3, <2>4
<1> HIDE DEF g
<1>16. Owned(R, E) /\ Survives(g, R)
  BY <1>3, <1>15, ReleaseOwned
<1>17. ReleaseAll(h, us) = PutItems(R, a, s)
  <2>1. ReleaseAll(PutItems(g, a, s), us) = PutItems(ReleaseAll(g, us), a, s)
    <3>1. SameLength(s, g[a].items)
      BY <1>7, <1>14 DEF SameLength
    <3>2. s \in Seq(Value) /\ us \in Seq(Value)
      BY <1>1, <1>3
    <3> QED BY <1>15, <3>1, <3>2, FillRelease
  <2> QED BY <1>10, <2>1
<1> HIDE DEF R
<1>18. R \in [Objs -> Cell] /\ R[a].kind = h[a].kind /\ R[a].items = ts
  <2>1. R[a].kind # "free"
    <3>1. E[a] # 0
      OBVIOUS
    <3> QED BY <1>16, <3>1, LiveOwner
  <2> QED BY <1>14, <1>16, <2>1 DEF Survives, Owned
<1>19. Overwrite(h, a, i, v) = RetainAll(PutItems(R, a, ws), vs)
  <2>1. [PutItems(R, a, s) EXCEPT ![a].items[i] = v] = PutItems(R, a, ws)
    <3>1. ws = Altered(s, i, v)
      BY DEF ws, Altered
    <3>2. PutItem(PutItems(R, a, s), a, i, v) = PutItems(R, a, ws)
      BY <1>1, <1>18, <3>1, PutOneItem
    <3> QED BY <3>2 DEF PutItem
  <2>2. retain_value(PutItems(R, a, ws), v) = RetainAll(PutItems(R, a, ws), vs)
    BY <1>7, <1>18, PutItemsCell, RetainOne DEF vs
  <2> QED BY <1>9, <1>17, <2>1, <2>2
<1>20. /\ Owned(RetainAll(PutItems(R, a, ws), vs), Plus(E, es))
       /\ RetainAll(PutItems(R, a, ws), vs)[a].kind = R[a].kind
  <2>1. Settles(ts, ws, vs, es)
    <3> SUFFICES ASSUME NEW o \in Objs
                 PROVE  Occurrences(ws, o) + Occurrences(es, o) = Occurrences(ts, o) + Occurrences(vs, o)
      BY <1>3, <1>7 DEF Settles
    <3> QED BY <1>4, <1>8
  <2>2. LiveIn(R, vs)
    BY <1>13, <1>16, LiveHeld
  <2>3. R[a].kind = "map" => Even(ws)
    BY <1>6, <1>7, <1>18 DEF Even
  <2>4. R[a].kind \in {"arr", "map"}
    BY <1>18
  <2>5. Settles(R[a].items, ws, vs, es)
    BY <1>18, <2>1
  <2> QED BY <1>16, <2>2, <2>3, <2>4, <2>5, RefillOwned
<1> QED BY <1>5, <1>18, <1>19, <1>20

-----------------------------------------------------------------------------
(* rc_array_set, rc_map_set, rc_map_remove.                                *)
\* rc_array_set keeps the ownership.
LEMMA ArraySetOwned ==
  ASSUME NEW E \in [Objs -> Nat], NEW h, Owned(h, E), NEW a \in Objs, E[a] >= 1,
         h[a].kind = "arr", NEW i \in DOMAIN h[a].items, NEW v \in Value,
         \A o \in Objs : Occurrences(<<v>>, o) # 0 => E[o] >= 1
  PROVE  Owned(rc_array_set(h, a, i, v), E)
<1>1. rc_array_set(h, a, i, v) = Overwrite(h, a, i, v)
  BY DEF rc_array_set, Overwrite
<1>2. h[a].kind \in {"arr", "map"}
  OBVIOUS
<1>3. Owned(Overwrite(h, a, i, v), E)
  BY <1>2, OverwriteOwned
<1> QED BY <1>1, <1>3

\* A pair holds what its two values do.
LEMMA OccPair ==
  ASSUME NEW k \in Value, NEW v \in Value, NEW o
  PROVE  /\ <<k, v>> \in Seq(Value)
         /\ Occurrences(<<k, v>>, o) = Occurrences(<<k>>, o) + Occurrences(<<v>>, o)
         /\ Occurrences(<<k>>, o) \in Nat /\ Occurrences(<<v>>, o) \in Nat
<1> DEFINE s == <<k, v>>
<1>1. s \in Seq(Value) /\ Len(s) = 2 /\ s[1] = k /\ s[2] = v
  OBVIOUS
<1> HIDE DEF s
<1>2. Occurrences(s, o) = Cardinality(At(s, 1, 2, o))
  BY <1>1, OccAt
<1>3. Cardinality(At(s, 1, 2, o)) = Cardinality(At(s, 1, 1, o)) + Cardinality(At(s, 1 + 1, 2, o))
  <2>1. 1 <= 1 + 1 /\ 1 <= 2 /\ 1 \in Int /\ 2 \in Int
    OBVIOUS
  <2> QED BY <2>1, AtSplit
<1>4. /\ Cardinality(At(s, 1, 1, o)) = (IF s[1] = o THEN 1 ELSE 0)
      /\ Cardinality(At(s, 2, 2, o)) = (IF s[2] = o THEN 1 ELSE 0)
  BY AtOne
<1>5. /\ Occurrences(<<k>>, o) = (IF k = o THEN 1 ELSE 0)
      /\ Occurrences(<<v>>, o) = (IF v = o THEN 1 ELSE 0)
  BY OccOne
<1>6. 1 + 1 = 2
  OBVIOUS
<1>7. Occurrences(s, o) = Occurrences(<<k>>, o) + Occurrences(<<v>>, o)
  BY <1>1, <1>2, <1>3, <1>4, <1>5, <1>6
<1> QED BY <1>1, <1>5, <1>7 DEF s

\* Where a key may be found.
LEMMA MatchAt ==
  ASSUME NEW h, NEW m \in Objs, h \in [Objs -> Cell], Shaped(h), h[m].kind = "map",
         NEW k, NEW j \in Matches(h, m, k), j # 0
  PROVE  /\ j \in DOMAIN h[m].items /\ j % 2 = 1 /\ j + 1 \in DOMAIN h[m].items
         /\ h[m].items[j] \in Value /\ h[m].items[j + 1] \in Value
<1>1. j \in DOMAIN h[m].items /\ j % 2 = 1
  BY DEF Matches, KeyCells
<1>2. h[m].items \in Seq(Value) /\ Even(h[m].items)
  BY CellOf DEF Shaped, Formed
<1> QED BY <1>1, <1>2, EntryPair

\* rc_map_set keeps the ownership.
LEMMA MapSetOwned ==
  ASSUME NEW E \in [Objs -> Nat], NEW h, Owned(h, E), NEW m \in Objs, E[m] >= 1,
         h[m].kind = "map", NEW k \in Value, NEW v \in Value,
         \A o \in Objs : Occurrences(<<k, v>>, o) # 0 => E[o] >= 1,
         NEW j \in Matches(h, m, k)
  PROVE  Owned(SetEntry(h, m, k, v, j), E) /\ SetEntry(h, m, k, v, j)[m].kind = "map"
<1>1. CASE j = 0
  <2>1. LiveIn(h, <<k, v>>)
    BY LiveHeld
  <2> QED BY <1>1, <2>1, InsertOwned
<1>2. CASE j # 0
  <2>1. j + 1 \in DOMAIN h[m].items
    BY <1>2, MatchAt DEF Owned
  <2>2. SetEntry(h, m, k, v, j) = Overwrite(h, m, j + 1, v)
    BY <1>2 DEF SetEntry, Overwrite
  <2>3. \A o \in Objs : Occurrences(<<v>>, o) # 0 => E[o] >= 1
    <3> SUFFICES ASSUME NEW o \in Objs, Occurrences(<<v>>, o) # 0 PROVE E[o] >= 1
      OBVIOUS
    <3>1. Occurrences(<<k, v>>, o) # 0
      <4>1. /\ Occurrences(<<k, v>>, o) = Occurrences(<<k>>, o) + Occurrences(<<v>>, o)
            /\ Occurrences(<<k>>, o) \in Nat /\ Occurrences(<<v>>, o) \in Nat
        BY OccPair
      <4> QED BY <4>1
    <3> QED BY <3>1
  <2>4. h[m].kind \in {"arr", "map"}
    OBVIOUS
  <2> DEFINE i == j + 1
  <2>5. i \in DOMAIN h[m].items
    BY <2>1
  <2> HIDE DEF i
  <2>6. Owned(Overwrite(h, m, i, v), E) /\ Overwrite(h, m, i, v)[m].kind = h[m].kind
    BY <2>3, <2>4, <2>5, OverwriteOwned
  <2> QED BY <2>2, <2>6 DEF i
<1> QED BY <1>1, <1>2

\* rc_map_remove keeps the ownership.
LEMMA MapRemoveOwned ==
  ASSUME NEW E \in [Objs -> Nat], NEW h, Owned(h, E), NEW m \in Objs, h[m].kind = "map",
         NEW k, NEW j \in Matches(h, m, k)
  PROVE  Owned(RemoveEntry(h, m, j), E)
<1>1. CASE j = 0
  BY <1>1 DEF RemoveEntry
<1>2. CASE j # 0
  <2>1. j \in DOMAIN h[m].items /\ j % 2 = 1
    BY <1>2, MatchAt DEF Owned
  <2> QED BY <2>1, RemoveOwned
<1> QED BY <1>1, <1>2

\* What element i of a sequence is, its object occurs in.
LEMMA OccAtLeast ==
  ASSUME NEW s \in Seq(Value), NEW i \in DOMAIN s, NEW o, s[i] = o
  PROVE  Occurrences(s, o) # 0
  BY OccZero

\* What a map may become by putting entries into it.
LEMMA PutAllOwned ==
  ASSUME NEW E \in [Objs -> Nat], NEW h, Owned(h, E), NEW m \in Objs, E[m] >= 1,
         h[m].kind = "map", NEW kvs \in Seq(Value),
         \A o \in Objs : Occurrences(kvs, o) # 0 => E[o] >= 1
  PROVE  \A g \in PutPairs(h, m, kvs) : Owned(g, E)
<1> DEFINE n == Len(kvs) \div 2
           Good == {g \in [Objs -> Cell] : Owned(g, E) /\ g[m].kind = "map"}
           T == SUBSET Good
           Put(i, G) == UNION {{SetEntry(g, m, kvs[2 * i - 1], kvs[2 * i], j) :
                                  j \in Matches(g, m, kvs[2 * i - 1])} : g \in G}
           p == Puts(h, m, kvs)
           advance == [i \in 1 .. n |-> [G \in T |-> Put(i, G)]]
<1>1. n \in Nat /\ \A i \in 1 .. n : 2 * i - 1 \in DOMAIN kvs /\ 2 * i \in DOMAIN kvs
  <2> DEFINE l == Len(kvs)
  <2>1. l \in Nat /\ DOMAIN kvs = 1 .. l
    OBVIOUS
  <2> HIDE DEF l
  <2>2. l \div 2 \in Nat /\ 2 * (l \div 2) <= l
    BY <2>1
  <2>3. \A i \in 1 .. l \div 2 : 2 * i - 1 \in 1 .. l /\ 2 * i \in 1 .. l
    BY <2>1, <2>2
  <2> QED BY <2>1, <2>2, <2>3 DEF l
<1>2. \A i \in 1 .. n : \A G \in T : Put(i, G) \in T
  <2> SUFFICES ASSUME NEW i \in 1 .. n, NEW G \in T, NEW x \in Put(i, G) PROVE x \in Good
    OBVIOUS
  <2>0. \E g \in G : \E j \in Matches(g, m, kvs[2 * i - 1]) :
          x = SetEntry(g, m, kvs[2 * i - 1], kvs[2 * i], j)
    <3> HIDE DEF Good, T
    <3> QED OBVIOUS
  <2>a. PICK g \in G : \E j \in Matches(g, m, kvs[2 * i - 1]) :
          x = SetEntry(g, m, kvs[2 * i - 1], kvs[2 * i], j)
    BY <2>0
  <2>b. PICK j \in Matches(g, m, kvs[2 * i - 1]) :
          x = SetEntry(g, m, kvs[2 * i - 1], kvs[2 * i], j)
    BY <2>a
  <2> DEFINE k == kvs[2 * i - 1]
             v == kvs[2 * i]
  <2>1. k \in Value /\ v \in Value
    BY <1>1
  <2>2. \A o \in Objs : Occurrences(<<k, v>>, o) # 0 => E[o] >= 1
    <3> SUFFICES ASSUME NEW o \in Objs, Occurrences(<<k, v>>, o) # 0 PROVE E[o] >= 1
      OBVIOUS
    <3>1. k = o \/ v = o
      <4> HIDE DEF k, v
      <4>1. /\ Occurrences(<<k, v>>, o) = Occurrences(<<k>>, o) + Occurrences(<<v>>, o)
            /\ Occurrences(<<k>>, o) = (IF k = o THEN 1 ELSE 0)
            /\ Occurrences(<<v>>, o) = (IF v = o THEN 1 ELSE 0)
        BY <2>1, OccPair, OccOne, SMTT(30)
      <4> QED BY <4>1
    <3>2. Occurrences(kvs, o) # 0
      BY <1>1, <3>1, OccAtLeast
    <3> QED BY <3>2
  <2>3. Owned(g, E) /\ g[m].kind = "map"
    OBVIOUS
  <2>4. j \in Matches(g, m, k)
    OBVIOUS
  <2>5. Owned(SetEntry(g, m, k, v, j), E) /\ SetEntry(g, m, k, v, j)[m].kind = "map"
    <3> HIDE DEF k, v, Good, T, n
    <3> QED BY <2>1, <2>2, <2>3, <2>4, MapSetOwned
  <2>6. SetEntry(g, m, k, v, j) \in [Objs -> Cell]
    BY <2>5 DEF Owned
  <2> QED BY <2>b, <2>5, <2>6
<1>3. {h} \in T
  BY DEF Owned
<1> HIDE DEF n, T, Good
<1>4. PICK f : Iteration(f, {h}, n, T, advance)
  <2>1. advance \in Steps(n, T)
    <3>1. \A i \in 1 .. n : [G \in T |-> Put(i, G)] \in [T -> T]
      BY <1>2
    <3> HIDE DEF Put
    <3> QED BY <3>1 DEF Steps
  <2> HIDE DEF advance
  <2> QED BY <1>1, <1>3, <2>1, Iterate
<1>5. ASSUME NEW i \in 0 .. n
      PROVE  f[i] = IF i = 0 THEN {h} ELSE Put(i, f[i - 1])
  <2> HIDE DEF Put
  <2>1. CASE i # 0
    <3>1. i \in 1 .. n /\ i - 1 \in 0 .. n
      BY <1>1, <2>1
    <3>2. f[i] = advance[i][f[i - 1]] /\ f[i - 1] \in T
      BY <1>4, <3>1 DEF Iteration
    <3> QED BY <2>1, <3>1, <3>2
  <2> QED BY <1>4, <2>1 DEF Iteration
<1>6. f = [i \in 0 .. n |-> IF i = 0 THEN {h} ELSE Put(i, f[i - 1])]
  <2> HIDE DEF Put, advance
  <2> QED BY <1>4, <1>5 DEF Iteration
<1>7. p = [i \in 0 .. n |-> IF i = 0 THEN {h} ELSE Put(i, p[i - 1])]
  <2> HIDE DEF advance
  <2> QED BY <1>6 DEF Puts, n
<1> HIDE DEF p, advance, Put
<1> DEFINE S == {i \in Nat : i <= n => p[i] \in T}
<1>8. 0 \in S
  <2>1. p[0] = {h}
    BY <1>1, <1>7
  <2> QED BY <1>3, <2>1
<1>9. ASSUME NEW i \in Nat, i \in S PROVE i + 1 \in S
  <2> SUFFICES ASSUME i + 1 <= n PROVE p[i + 1] \in T
    OBVIOUS
  <2>1. p[i] \in T /\ i + 1 \in 1 .. n /\ (i + 1) - 1 = i /\ i + 1 \in 0 .. n /\ i + 1 # 0
    BY <1>1, <1>9
  <2>2. p[i + 1] = Put(i + 1, p[(i + 1) - 1])
    BY <1>7, <2>1
  <2>3. Put(i + 1, p[i]) \in T
    BY <1>2, <2>1
  <2> QED BY <2>1, <2>2, <2>3
<1>10. n \in S
  <2> HIDE DEF S
  <2> QED BY <1>1, <1>8, <1>9, NatInd
<1>11. p[n] \in T
  BY <1>1, <1>10
<1>12. PutPairs(h, m, kvs) = p[n]
  BY DEF PutPairs, p, n
<1> QED BY <1>11, <1>12 DEF T, Good

-----------------------------------------------------------------------------
(* The slots of the machine.                                               *)
\* What the slots of the machine hold: globals, operands, locals. The counts cs
\* stand for the constants and for what was given up unreleased.
Slotted(cs, gs, st, fs) ==
  /\ cs \in [Objs -> Nat] /\ gs \in Seq(Value) /\ st \in Seq(Value) /\ fs \in Seq(Frame)
\* How often each object is in a slot.
HeldBy(cs, gs, st, fs) ==
  [o \in Objs |-> cs[o] + Occurrences(gs, o) + Occurrences(st, o)
                    + Spread(Locals(fs), o)]

\* The locals of a frame are a sequence.
LEMMA FrameLocals ==
  ASSUME NEW fs \in Seq(Frame), NEW f \in DOMAIN fs
  PROVE  /\ fs[f].locals \in [1 .. NLocals -> Value] /\ fs[f].locals \in Seq(Value)
         /\ DOMAIN fs[f].locals = 1 .. NLocals /\ Len(fs[f].locals) = NLocals
         /\ fs[f].base \in 0 .. MaxStack
         /\ NLocals \in Nat
<1>1. fs[f] \in Frame
  OBVIOUS
<1>2. NLocals \in Nat
  BY CppEngineAssumption
<1>3. fs[f].locals \in [1 .. NLocals -> Value] /\ fs[f].base \in 0 .. MaxStack
  BY <1>1 DEF Frame
<1> DEFINE l == fs[f].locals
<1>4. l \in Seq(Value) /\ Len(l) = NLocals /\ DOMAIN l = 1 .. NLocals
  <2> HIDE DEF l
  <2>1. l \in [1 .. NLocals -> Value]
    BY <1>3 DEF l
  <2> QED BY <1>2, <2>1
<1> QED BY <1>2, <1>3, <1>4

\* The locals of the frames are a family of sequences.
LEMMA LocalsFamily ==
  ASSUME NEW fs \in Seq(Frame)
  PROVE  /\ Family(Locals(fs), DOMAIN fs)
         /\ \A f \in DOMAIN fs : Locals(fs)[f] = fs[f].locals
<1>1. DOMAIN Locals(fs) = DOMAIN fs /\ \A f \in DOMAIN fs : Locals(fs)[f] = fs[f].locals
  BY DEF Locals
<1>2. IsFiniteSet(DOMAIN fs)
  <2>1. DOMAIN fs = 1 .. Len(fs) /\ Len(fs) \in Int
    OBVIOUS
  <2> QED BY <2>1, FS_Interval
<1>3. \A f \in DOMAIN fs : Locals(fs)[f] \in Seq(Value)
  BY <1>1, FrameLocals
<1> QED BY <1>1, <1>2, <1>3 DEF Family

\* The locals hold each object some number of times.
LEMMA SpreadLocals ==
  ASSUME NEW fs \in Seq(Frame), NEW o
  PROVE  Spread(Locals(fs), o) \in Nat
  BY LocalsFamily, SpreadNat

\* What is held is a count, slot by slot.
LEMMA HeldTyped ==
  ASSUME NEW cs, NEW gs, NEW st, NEW fs, Slotted(cs, gs, st, fs)
  PROVE  /\ HeldBy(cs, gs, st, fs) \in [Objs -> Nat]
         /\ \A o \in Objs :
              /\ cs[o] \in Nat /\ Occurrences(gs, o) \in Nat
              /\ Occurrences(st, o) \in Nat /\ Spread(Locals(fs), o) \in Nat
              /\ HeldBy(cs, gs, st, fs)[o] = cs[o] + Occurrences(gs, o)
                                               + Occurrences(st, o) + Spread(Locals(fs), o)
<1>1. ASSUME NEW o \in Objs
      PROVE  /\ cs[o] \in Nat /\ Occurrences(gs, o) \in Nat
             /\ Occurrences(st, o) \in Nat /\ Spread(Locals(fs), o) \in Nat
  BY OccAt, SpreadLocals DEF Slotted
<1>2. \A o \in Objs : cs[o] + Occurrences(gs, o)
                        + Occurrences(st, o) + Spread(Locals(fs), o) \in Nat
  BY <1>1
<1> QED BY <1>1, <1>2 DEF HeldBy

\* Two ways to write the same references.
SameSum(D, vs, E, us) ==
  \A o \in Objs : D[o] + Occurrences(vs, o) = E[o] + Occurrences(us, o)

\* The same sums are the same holders.
LEMMA SameHeld ==
  ASSUME NEW D \in [Objs -> Nat], NEW E \in [Objs -> Nat], NEW vs, NEW us, SameSum(D, vs, E, us)
  PROVE  Plus(D, vs) = Plus(E, us)
  BY DEF Plus, SameSum

\* One frame more, or one with other locals.
OneMore(gs, fs) ==
  /\ gs \in Seq(Frame) /\ fs \in Seq(Frame) /\ Len(fs) = Len(gs) + 1
  /\ \A i \in DOMAIN gs : fs[i] = gs[i]
\* fs and gs differ in the frame n only.
OneOther(fs, gs, n) ==
  /\ gs \in Seq(Frame) /\ fs \in Seq(Frame) /\ Len(fs) = Len(gs) /\ n \in DOMAIN fs
  /\ \A i \in DOMAIN fs : i # n => fs[i] = gs[i]

\* The locals of one frame more.
LEMMA SpreadMore ==
  ASSUME NEW gs, NEW fs, OneMore(gs, fs), NEW o
  PROVE  /\ Spread(Locals(gs), o) \in Nat /\ Occurrences(fs[Len(fs)].locals, o) \in Nat
         /\ Spread(Locals(fs), o) = Spread(Locals(gs), o) + Occurrences(fs[Len(fs)].locals, o)
<1> DEFINE F == Locals(gs)
           G == Locals(fs)
           d == Len(fs)
<1>1. gs \in Seq(Frame) /\ fs \in Seq(Frame)
  BY DEF OneMore
<1>2. DOMAIN gs = 1 .. Len(gs) /\ DOMAIN fs = 1 .. Len(fs) /\ Len(fs) = Len(gs) + 1 /\ Len(gs) \in Nat
  BY <1>1 DEF OneMore
<1>3. d \in DOMAIN fs /\ d \notin DOMAIN gs /\ DOMAIN gs \ {d} = DOMAIN fs \ {d}
      /\ \A x \in DOMAIN gs \ {d} : x \in DOMAIN fs
  BY <1>2
<1>4. /\ Family(F, DOMAIN gs) /\ Family(G, DOMAIN fs)
      /\ \A x \in DOMAIN gs : F[x] = gs[x].locals
      /\ \A x \in DOMAIN fs : G[x] = fs[x].locals
  BY <1>1, LocalsFamily
<1>5. \A x \in DOMAIN gs \ {d} : F[x] = G[x]
  <2> HIDE DEF F, G, d
  <2> TAKE x \in DOMAIN gs \ {d}
  <2>1. x \in DOMAIN gs /\ x \in DOMAIN fs /\ fs[x] = gs[x]
    BY <1>3 DEF OneMore
  <2> QED BY <1>4, <2>1
<1> HIDE DEF F, G, d
<1>6. Apart(F, DOMAIN gs, G, DOMAIN fs, d)
  BY <1>3, <1>4, <1>5 DEF Apart
<1>7. /\ Spread(F, o) \in Nat /\ Spread(G, o) \in Nat /\ Occurrences(G[d], o) \in Nat
      /\ Spread(G, o) = Spread(F, o) + Occurrences(G[d], o)
  BY <1>3, <1>6, SpreadAdd
<1>8. G[d] = fs[d].locals
  BY <1>3, <1>4
<1> QED BY <1>7, <1>8 DEF F, G, d

\* The locals of one frame changed.
LEMMA SpreadOther ==
  ASSUME NEW fs, NEW gs, NEW n, OneOther(fs, gs, n), NEW o
  PROVE  /\ Spread(Locals(gs), o) \in Nat /\ Spread(Locals(fs), o) \in Nat
         /\ Occurrences(fs[n].locals, o) \in Nat /\ Occurrences(gs[n].locals, o) \in Nat
         /\ Spread(Locals(gs), o) + Occurrences(fs[n].locals, o)
              = Spread(Locals(fs), o) + Occurrences(gs[n].locals, o)
<1> DEFINE F == Locals(fs)
           G == Locals(gs)
           D == DOMAIN fs
<1>1. gs \in Seq(Frame) /\ fs \in Seq(Frame)
  BY DEF OneOther
<1>2. DOMAIN gs = DOMAIN fs /\ n \in D
  BY <1>1 DEF OneOther
<1>3. /\ Family(F, D) /\ Family(G, D)
      /\ \A x \in D : F[x] = fs[x].locals /\ G[x] = gs[x].locals
  BY <1>1, <1>2, LocalsFamily
<1>4. \A x \in D \ {n} : F[x] = G[x]
  <2> HIDE DEF F, G
  <2> TAKE x \in D \ {n}
  <2>1. x \in D /\ fs[x] = gs[x]
    BY DEF OneOther
  <2> QED BY <1>3, <2>1
<1> HIDE DEF F, G, D
<1>5. Apart(F, D, G, D, n)
  BY <1>3, <1>4 DEF Apart
<1>6. /\ Spread(F, o) \in Nat /\ Spread(G, o) \in Nat
      /\ Occurrences(F[n], o) \in Nat /\ Occurrences(G[n], o) \in Nat
      /\ Spread(G, o) + Occurrences(F[n], o) = Spread(F, o) + Occurrences(G[n], o)
  BY <1>2, <1>5, SpreadChange
<1>7. F[n] = fs[n].locals /\ G[n] = gs[n].locals
  BY <1>2, <1>3
<1> QED BY <1>6, <1>7 DEF F, G

\* The frame on top goes.
LEMMA DropFrame ==
  ASSUME NEW fs \in Seq(Frame), NEW n \in Nat, n + 1 <= Len(fs)
  PROVE  OneMore(SubSeq(fs, 1, n), SubSeq(fs, 1, n + 1))
         /\ SubSeq(fs, 1, n + 1)[Len(SubSeq(fs, 1, n + 1))] = fs[n + 1]
         /\ Len(SubSeq(fs, 1, n + 1)) = n + 1
<1> DEFINE s == SubSeq(fs, 1, n)
           t == SubSeq(fs, 1, n + 1)
<1>1. s \in Seq(Frame) /\ t \in Seq(Frame) /\ Len(s) = n /\ Len(t) = n + 1
  OBVIOUS
<1>2. \A i \in 1 .. n : s[i] = fs[i] /\ t[i] = fs[i]
  OBVIOUS
<1>3. t[n + 1] = fs[n + 1]
  OBVIOUS
<1>4. DOMAIN s = 1 .. n
  BY <1>1
<1> HIDE DEF s, t
<1>5. OneMore(s, t)
  BY <1>1, <1>2, <1>4 DEF OneMore
<1> QED BY <1>1, <1>3, <1>5 DEF s, t

\* A local is stored.
WithLocal(fs, n, s, v) == [fs EXCEPT ![n].locals[s] = v]

\* WithLocal changes one local of one frame.
LEMMA StoredLocal ==
  ASSUME NEW fs \in Seq(Frame), NEW n \in DOMAIN fs, NEW s \in 1 .. NLocals, NEW v \in Value
  PROVE  LET gs == WithLocal(fs, n, s, v)
         IN  /\ gs \in Seq(Frame) /\ OneOther(fs, gs, n)
             /\ Changed(fs[n].locals, gs[n].locals, s, v)
             /\ Len(gs) = Len(fs) /\ \A i \in DOMAIN fs : gs[i].base = fs[i].base
<1> DEFINE l == fs[n].locals
           m == [l EXCEPT ![s] = v]
           c == [fs[n] EXCEPT !.locals = m]
           gs == [fs EXCEPT ![n].locals[s] = v]
<1>1. gs = [fs EXCEPT ![n] = c]
  OBVIOUS
<1>2. l \in [1 .. NLocals -> Value] /\ l \in Seq(Value) /\ s \in DOMAIN l
  BY FrameLocals
<1>3. Changed(l, m, s, v)
  <2> HIDE DEF l
  <2> QED BY <1>2, ChangedBy
<1>4. m \in [1 .. NLocals -> Value]
  <2> HIDE DEF l
  <2> QED BY <1>2
<1>5. c \in Frame /\ c.locals = m /\ c.base = fs[n].base
  <2>1. fs[n] \in Frame
    OBVIOUS
  <2> HIDE DEF m
  <2> QED BY <1>4, <2>1 DEF Frame
<1> HIDE DEF c, m, l
<1>6. gs \in Seq(Frame) /\ Len(gs) = Len(fs) /\ DOMAIN gs = DOMAIN fs
      /\ gs[n] = c /\ \A i \in DOMAIN fs : i # n => gs[i] = fs[i]
  <2> HIDE DEF gs
  <2> QED BY <1>1, <1>5
<1> HIDE DEF gs
<1>7. OneOther(fs, gs, n)
  BY <1>6 DEF OneOther
<1>8. Changed(fs[n].locals, gs[n].locals, s, v)
  BY <1>3, <1>5, <1>6 DEF l
<1>9. \A i \in DOMAIN fs : gs[i].base = fs[i].base
  BY <1>5, <1>6
<1> QED BY <1>6, <1>7, <1>8, <1>9 DEF gs, WithLocal

-----------------------------------------------------------------------------
(* Operands taken, and functions entered.                                  *)
\* The k operands on top of the stack give way to r, and are released.
LEMMA TakenHeld ==
  ASSUME NEW cs, NEW gs, NEW st, NEW fs, Slotted(cs, gs, st, fs), NEW k \in Nat, k <= Len(st),
         NEW r \in Seq(Value)
  PROVE  LET a == SubSeq(st, 1, Len(st) - k)
             b == SubSeq(st, Len(st) - k + 1, Len(st))
         IN  /\ a \in Seq(Value) /\ b \in Seq(Value) /\ a \o r \in Seq(Value)
             /\ Len(a) = Len(st) - k /\ Len(b) = k
             /\ Slotted(cs, gs, a \o r, fs)
             /\ \A o : Occurrences(st, o) = Occurrences(a, o) + Occurrences(b, o)
                       /\ Occurrences(a, o) \in Nat /\ Occurrences(b, o) \in Nat
             /\ Plus(HeldBy(cs, gs, st, fs), r) = Plus(HeldBy(cs, gs, a \o r, fs), b)
<1> DEFINE n == Len(st) - k
           a == SubSeq(st, 1, n)
           b == SubSeq(st, n + 1, Len(st))
           D == HeldBy(cs, gs, st, fs)
           E == HeldBy(cs, gs, a \o r, fs)
<1>1. st \in Seq(Value) /\ n \in Nat /\ n <= Len(st)
  BY DEF Slotted
<1>2. Len(a) = n /\ Len(b) = k
  BY <1>1
<1> HIDE DEF n
<1>3. a \in Seq(Value) /\ b \in Seq(Value)
      /\ \A o : Occurrences(st, o) = Occurrences(a, o) + Occurrences(b, o)
  BY <1>1, OccCutTwo
<1> HIDE DEF a, b
<1>4. a \o r \in Seq(Value) /\ \A o : Occurrences(a \o r, o) = Occurrences(a, o) + Occurrences(r, o)
  BY <1>3, OccConcat
<1>5. \A o : Occurrences(a, o) \in Nat /\ Occurrences(b, o) \in Nat /\ Occurrences(r, o) \in Nat
  BY <1>3, OccAt
<1> DEFINE t == a \o r
<1>6. t \in Seq(Value) /\ \A o : Occurrences(t, o) = Occurrences(a, o) + Occurrences(r, o)
  BY <1>4
<1> HIDE DEF t
<1>7. Slotted(cs, gs, t, fs)
  BY <1>6 DEF Slotted
<1>8. Plus(HeldBy(cs, gs, st, fs), r) = Plus(HeldBy(cs, gs, t, fs), b)
  <2> DEFINE X == HeldBy(cs, gs, st, fs)
             Y == HeldBy(cs, gs, t, fs)
  <2>1. /\ X \in [Objs -> Nat]
        /\ \A o \in Objs :
              /\ cs[o] \in Nat /\ Occurrences(gs, o) \in Nat
              /\ Occurrences(st, o) \in Nat /\ Spread(Locals(fs), o) \in Nat
              /\ X[o] = cs[o] + Occurrences(gs, o) + Occurrences(st, o) + Spread(Locals(fs), o)
    BY HeldTyped
  <2>2. /\ Y \in [Objs -> Nat]
        /\ \A o \in Objs : Y[o] = cs[o] + Occurrences(gs, o) + Occurrences(t, o) + Spread(Locals(fs), o)
    BY <1>7, HeldTyped
  <2> HIDE DEF X, Y
  <2>3. \A o \in Objs : X[o] + Occurrences(r, o) = Y[o] + Occurrences(b, o)
    <3> TAKE o \in Objs
    <3>1. /\ cs[o] \in Nat /\ Occurrences(gs, o) \in Nat
          /\ Occurrences(st, o) \in Nat /\ Spread(Locals(fs), o) \in Nat
          /\ X[o] = cs[o] + Occurrences(gs, o) + Occurrences(st, o) + Spread(Locals(fs), o)
      BY <2>1
    <3>2. Y[o] = cs[o] + Occurrences(gs, o) + Occurrences(t, o) + Spread(Locals(fs), o)
      BY <2>2
    <3>3. Occurrences(t, o) = Occurrences(a, o) + Occurrences(r, o)
      BY <1>6
    <3>4. Occurrences(st, o) = Occurrences(a, o) + Occurrences(b, o)
      BY <1>3
    <3>5. Occurrences(a, o) \in Nat /\ Occurrences(b, o) \in Nat /\ Occurrences(r, o) \in Nat
      BY <1>5
    <3> QED BY <3>1, <3>2, <3>3, <3>4, <3>5, SMTT(30)
  <2>4. SameSum(X, r, Y, b)
    BY <2>3 DEF SameSum
  <2>5. X \in [Objs -> Nat] /\ Y \in [Objs -> Nat]
    BY <2>1, <2>2
  <2>6. Plus(X, r) = Plus(Y, b)
    BY <2>4, <2>5, SameHeld, SMTT(30)
  <2> QED BY <2>6 DEF X, Y
<1> QED BY <1>2, <1>3, <1>5, <1>6, <1>7, <1>8 DEF t, a, b, n

\* The same, for a heap that is owned.
LEMMA TakenOwned ==
  ASSUME NEW cs, NEW gs, NEW st, NEW fs, Slotted(cs, gs, st, fs), NEW k \in Nat, k <= Len(st),
         NEW r \in Seq(Value), NEW h, Owned(h, Plus(HeldBy(cs, gs, st, fs), r))
  PROVE  Owned(ReleaseAll(h, SubSeq(st, Len(st) - k + 1, Len(st))),
               HeldBy(cs, gs, SubSeq(st, 1, Len(st) - k) \o r, fs))
<1> DEFINE a == SubSeq(st, 1, Len(st) - k)
           b == SubSeq(st, Len(st) - k + 1, Len(st))
           t == a \o r
<1>1. /\ b \in Seq(Value) /\ Slotted(cs, gs, t, fs)
      /\ Plus(HeldBy(cs, gs, st, fs), r) = Plus(HeldBy(cs, gs, t, fs), b)
  BY TakenHeld
<1> DEFINE E == HeldBy(cs, gs, t, fs)
<1>2. E \in [Objs -> Nat] /\ Owned(h, Plus(E, b))
  <2> HIDE DEF a, b, t
  <2> QED BY <1>1, HeldTyped
<1>3. Owned(ReleaseAll(h, b), E)
  <2> HIDE DEF E, b
  <2> QED BY <1>1, <1>2, ReleaseOwned
<1> QED BY <1>3

\* Nulls hold nothing.
LEMMA NullsEmpty ==
  ASSUME NEW n \in Nat
  PROVE  Nulls(n) \in Seq(Value) /\ Len(Nulls(n)) = n /\ \A o \in Objs : Occurrences(Nulls(n), o) = 0
<1>1. Nulls(n) \in Seq(Value) /\ Len(Nulls(n)) = n /\ DOMAIN Nulls(n) = 1 .. n
  BY DEF Nulls, Value
<1>2. \A o \in Objs : \A i \in DOMAIN Nulls(n) : Nulls(n)[i] # o
  BY RcHeapAssumption DEF Nulls, Objs, Imm
<1> QED BY <1>1, <1>2, OccZero

\* The operands st, the k on top apart.
Cut(st, k, a, b) ==
  /\ st \in Seq(Value) /\ k \in Nat /\ k <= Len(st)
  /\ a = SubSeq(st, 1, Len(st) - k)
  /\ b = SubSeq(st, Len(st) - k + 1, Len(st))

\* What the operands hold, the k on top apart.
LEMMA CutHeld ==
  ASSUME NEW st, NEW k, NEW a, NEW b, Cut(st, k, a, b)
  PROVE  /\ a \in Seq(Value) /\ b \in Seq(Value)
         /\ \A o : Occurrences(st, o) = Occurrences(a, o) + Occurrences(b, o)
                   /\ Occurrences(a, o) \in Nat /\ Occurrences(b, o) \in Nat
<1>1. st \in Seq(Value) /\ k \in Nat /\ k <= Len(st)
  BY DEF Cut
<1> DEFINE n == Len(st) - k
           x == SubSeq(st, 1, n)
           y == SubSeq(st, n + 1, Len(st))
<1>2. n \in Nat /\ n <= Len(st)
  BY <1>1
<1>3. a = x /\ b = y
  BY DEF Cut
<1>4. x \in Seq(Value) /\ y \in Seq(Value)
      /\ \A o : Occurrences(st, o) = Occurrences(x, o) + Occurrences(y, o)
  <2> HIDE DEF n
  <2> QED BY <1>1, <1>2, OccCutTwo
<1> HIDE DEF x, y
<1>5. \A o : Occurrences(x, o) \in Nat /\ Occurrences(y, o) \in Nat
  BY <1>4, OccAt
<1> QED BY <1>3, <1>4, <1>5

\* fs has the locals vs more than gs; b and ws hold together what vs and us do.
Gains(gs, fs, vs) ==
  \A o \in Objs : Spread(Locals(fs), o) = Spread(Locals(gs), o) + Occurrences(vs, o)
\* b and ws hold together what vs and us do.
Exchanged(b, ws, vs, us) ==
  \A o \in Objs : Occurrences(b, o) + Occurrences(ws, o) = Occurrences(vs, o) + Occurrences(us, o)

\* The locals of the frame on top get their values.
LEMMA EnteredFrame ==
  ASSUME NEW fs \in Seq(Frame), NEW vs \in Seq(Value), Len(vs) <= NLocals, NEW b \in 0 .. MaxStack
  PROVE  LET gs == Append(fs, [locals |-> vs \o Nulls(NLocals - Len(vs)), base |-> b])
         IN  /\ gs \in Seq(Frame) /\ Len(gs) = Len(fs) + 1
             /\ gs[Len(gs)].base = b
             /\ \A i \in DOMAIN fs : gs[i] = fs[i]
             /\ OneMore(fs, gs)
             /\ Gains(fs, gs, vs)
<1> DEFINE m == NLocals - Len(vs)
           l == vs \o Nulls(m)
           c == [locals |-> l, base |-> b]
           gs == Append(fs, c)
<1>1. NLocals \in Nat /\ m \in Nat /\ Len(vs) \in Nat
  BY CppEngineAssumption
<1>2. Nulls(m) \in Seq(Value) /\ Len(Nulls(m)) = m /\ \A o \in Objs : Occurrences(Nulls(m), o) = 0
  <2> HIDE DEF m
  <2> QED BY <1>1, NullsEmpty
<1>3. l \in Seq(Value) /\ Len(l) = NLocals
  <2> DEFINE z == Nulls(m)
  <2>1. z \in Seq(Value) /\ Len(z) = NLocals - Len(vs)
    BY <1>2
  <2> HIDE DEF z
  <2>2. vs \o z \in Seq(Value) /\ Len(vs \o z) = NLocals
    BY <1>1, <2>1
  <2> QED BY <2>2 DEF z
<1>4. \A o \in Objs : Occurrences(l, o) = Occurrences(vs, o)
  <2> DEFINE z == Nulls(m)
  <2>1. z \in Seq(Value) /\ \A o \in Objs : Occurrences(z, o) = 0
    BY <1>2
  <2> HIDE DEF z
  <2>2. \A o \in Objs : Occurrences(vs \o z, o) = Occurrences(vs, o)
    <3> TAKE o \in Objs
    <3>1. Occurrences(vs \o z, o) = Occurrences(vs, o) + Occurrences(z, o)
      BY <2>1, OccConcat
    <3>2. Occurrences(vs, o) \in Nat
      BY OccAt
    <3> QED BY <2>1, <3>1, <3>2
  <2> QED BY <2>2 DEF z
<1> HIDE DEF l
<1>5. l \in [1 .. NLocals -> Value]
  BY <1>1, <1>3
<1>6. c \in Frame /\ c.locals = l /\ c.base = b
  BY <1>5 DEF Frame
<1> HIDE DEF c
<1>7. /\ gs \in Seq(Frame) /\ Len(gs) = Len(fs) + 1 /\ gs[Len(gs)] = c
      /\ \A i \in DOMAIN fs : gs[i] = fs[i]
  BY <1>6
<1> HIDE DEF gs
<1>8. OneMore(fs, gs)
  BY <1>7 DEF OneMore
<1>9. \A o \in Objs : Spread(Locals(gs), o) = Spread(Locals(fs), o) + Occurrences(vs, o)
  <2> TAKE o \in Objs
  <2>1. Spread(Locals(gs), o) = Spread(Locals(fs), o) + Occurrences(gs[Len(gs)].locals, o)
    BY <1>8, SpreadMore
  <2>2. gs[Len(gs)].locals = l
    BY <1>6, <1>7
  <2> QED BY <1>4, <2>1, <2>2
<1>10. Gains(fs, gs, vs)
  BY <1>9 DEF Gains
<1> QED BY <1>6, <1>7, <1>8, <1>10 DEF gs, c, l, m

\* The bounds the assumption gives the machine's sequences.
LEMMA CppBounds == MaxStack \in Nat /\ MaxFrames \in Nat /\ NLocals \in Nat
BY CppEngineAssumption

\* The arguments move from the operands to the locals of the callee.
LEMMA EnteredHeld ==
  ASSUME NEW cs, NEW gs, NEW st, NEW fs, Slotted(cs, gs, st, fs), NEW k, NEW a, NEW b, Cut(st, k, a, b),
         NEW vs \in Seq(Value), NEW us \in Seq(Value), NEW ws \in Seq(Value), NEW fs2, OneMore(fs, fs2),
         Gains(fs, fs2, vs),
         Exchanged(b, ws, vs, us)
  PROVE  /\ Slotted(cs, gs, a, fs2)
         /\ Plus(HeldBy(cs, gs, st, fs), ws) = Plus(HeldBy(cs, gs, a, fs2), us)
<1> DEFINE X == HeldBy(cs, gs, st, fs)
           Y == HeldBy(cs, gs, a, fs2)
<1>1. /\ a \in Seq(Value) /\ b \in Seq(Value)
      /\ \A o : Occurrences(st, o) = Occurrences(a, o) + Occurrences(b, o)
                /\ Occurrences(a, o) \in Nat /\ Occurrences(b, o) \in Nat
  BY CutHeld
<1>3. Slotted(cs, gs, a, fs2)
  BY <1>1 DEF Slotted, OneMore
<1>4. /\ X \in [Objs -> Nat]
      /\ \A o \in Objs :
            /\ cs[o] \in Nat /\ Occurrences(gs, o) \in Nat
            /\ Occurrences(st, o) \in Nat /\ Spread(Locals(fs), o) \in Nat
            /\ X[o] = cs[o] + Occurrences(gs, o) + Occurrences(st, o) + Spread(Locals(fs), o)
  BY HeldTyped
<1>5. /\ Y \in [Objs -> Nat]
      /\ \A o \in Objs : Y[o] = cs[o] + Occurrences(gs, o) + Occurrences(a, o) + Spread(Locals(fs2), o)
  BY <1>3, HeldTyped
<1> HIDE DEF X, Y
<1>6. \A o \in Objs : X[o] + Occurrences(ws, o) = Y[o] + Occurrences(us, o)
  <2> TAKE o \in Objs
  <2>1. /\ cs[o] \in Nat /\ Occurrences(gs, o) \in Nat
        /\ Occurrences(st, o) \in Nat /\ Spread(Locals(fs), o) \in Nat
        /\ X[o] = cs[o] + Occurrences(gs, o) + Occurrences(st, o) + Spread(Locals(fs), o)
    BY <1>4
  <2>2. Y[o] = cs[o] + Occurrences(gs, o) + Occurrences(a, o) + Spread(Locals(fs2), o)
    BY <1>5
  <2>3. Occurrences(st, o) = Occurrences(a, o) + Occurrences(b, o)
        /\ Occurrences(a, o) \in Nat /\ Occurrences(b, o) \in Nat
    BY <1>1
  <2>4. Occurrences(vs, o) \in Nat /\ Occurrences(us, o) \in Nat /\ Occurrences(ws, o) \in Nat
    BY OccAt
  <2>5. Spread(Locals(fs2), o) = Spread(Locals(fs), o) + Occurrences(vs, o)
    BY DEF Gains
  <2>6. Occurrences(b, o) + Occurrences(ws, o) = Occurrences(vs, o) + Occurrences(us, o)
    BY DEF Exchanged
  <2> DEFINE n == cs[o] + Occurrences(gs, o) + Occurrences(a, o) + Spread(Locals(fs), o)
  <2>7. X[o] + Occurrences(ws, o) = n + (Occurrences(b, o) + Occurrences(ws, o))
    <3> DEFINE p == cs[o]
               q == Occurrences(gs, o)
               r == Occurrences(a, o)
               t == Occurrences(b, o)
               l == Spread(Locals(fs), o)
               w == Occurrences(ws, o)
    <3>1. p \in Nat /\ q \in Nat /\ r \in Nat /\ t \in Nat /\ l \in Nat /\ w \in Nat
      BY <2>1, <2>3, <2>4
    <3>2. X[o] + w = (p + q + (r + t) + l) + w /\ n = p + q + r + l
      BY <2>1, <2>3
    <3> HIDE DEF p, q, r, t, l, w, n
    <3>3. (p + q + (r + t) + l) + w = (p + q + r + l) + (t + w)
      BY <3>1
    <3>4. X[o] + w = n + (t + w)
      BY <3>2, <3>3, Zenon
    <3> QED BY <3>4 DEF t, w
  <2>8. Y[o] + Occurrences(us, o) = n + (Occurrences(vs, o) + Occurrences(us, o))
    <3> DEFINE p == cs[o]
               q == Occurrences(gs, o)
               r == Occurrences(a, o)
               l == Spread(Locals(fs), o)
               t == Occurrences(vs, o)
               w == Occurrences(us, o)
    <3>1. p \in Nat /\ q \in Nat /\ r \in Nat /\ t \in Nat /\ l \in Nat /\ w \in Nat
      BY <2>1, <2>3, <2>4
    <3>2. Y[o] + w = (p + q + r + (l + t)) + w /\ n = p + q + r + l
      BY <2>2, <2>5
    <3> HIDE DEF p, q, r, t, l, w, n
    <3>3. (p + q + r + (l + t)) + w = (p + q + r + l) + (t + w)
      BY <3>1
    <3>4. Y[o] + w = n + (t + w)
      BY <3>2, <3>3, Zenon
    <3> QED BY <3>4 DEF t, w
  <2> HIDE DEF n
  <2> QED BY <2>6, <2>7, <2>8
<1>7. Plus(X, ws) = Plus(Y, us)
  <2>1. SameSum(X, ws, Y, us)
    BY <1>6 DEF SameSum
  <2>2. X \in [Objs -> Nat] /\ Y \in [Objs -> Nat]
    BY <1>4, <1>5
  <2>3. \A p, q : SameSum(X, p, Y, q) => Plus(X, p) = Plus(Y, q)
    BY <2>2, SameHeld
  <2> QED BY <2>1, <2>3
<1> QED BY <1>3, <1>7 DEF X, Y

-----------------------------------------------------------------------------
(* Locals stored, and frames dropped.                                      *)
\* Operands, locals and ws hold together what the others do.
Trades(st, fs, ws, st2, fs2, us) ==
  \A o \in Objs : Occurrences(st, o) + Spread(Locals(fs), o) + Occurrences(ws, o)
                    = Occurrences(st2, o) + Spread(Locals(fs2), o) + Occurrences(us, o)

\* A trade leaves what is held as it was.
LEMMA HeldTrades ==
  ASSUME NEW cs, NEW gs, NEW st, NEW fs, NEW st2, NEW fs2, NEW ws \in Seq(Value), NEW us \in Seq(Value),
         Slotted(cs, gs, st, fs), Slotted(cs, gs, st2, fs2), Trades(st, fs, ws, st2, fs2, us)
  PROVE  Plus(HeldBy(cs, gs, st, fs), ws) = Plus(HeldBy(cs, gs, st2, fs2), us)
<1> DEFINE X == HeldBy(cs, gs, st, fs)
           Y == HeldBy(cs, gs, st2, fs2)
<1>1. /\ X \in [Objs -> Nat]
      /\ \A o \in Objs :
            /\ cs[o] \in Nat /\ Occurrences(gs, o) \in Nat
            /\ Occurrences(st, o) \in Nat /\ Spread(Locals(fs), o) \in Nat
            /\ X[o] = cs[o] + Occurrences(gs, o) + Occurrences(st, o) + Spread(Locals(fs), o)
  BY HeldTyped
<1>2. /\ Y \in [Objs -> Nat]
      /\ \A o \in Objs :
            /\ Occurrences(st2, o) \in Nat /\ Spread(Locals(fs2), o) \in Nat
            /\ Y[o] = cs[o] + Occurrences(gs, o) + Occurrences(st2, o) + Spread(Locals(fs2), o)
  BY HeldTyped
<1> HIDE DEF X, Y
<1>3. SameSum(X, ws, Y, us)
  <2> SUFFICES ASSUME NEW o \in Objs PROVE X[o] + Occurrences(ws, o) = Y[o] + Occurrences(us, o)
    BY DEF SameSum
  <2> DEFINE n == cs[o] + Occurrences(gs, o)
  <2>1. /\ cs[o] \in Nat /\ Occurrences(gs, o) \in Nat
        /\ Occurrences(st, o) \in Nat /\ Spread(Locals(fs), o) \in Nat
        /\ X[o] = cs[o] + Occurrences(gs, o) + Occurrences(st, o) + Spread(Locals(fs), o)
    BY <1>1
  <2>2. /\ Occurrences(st2, o) \in Nat /\ Spread(Locals(fs2), o) \in Nat
        /\ Y[o] = cs[o] + Occurrences(gs, o) + Occurrences(st2, o) + Spread(Locals(fs2), o)
    BY <1>2
  <2>3. Occurrences(us, o) \in Nat /\ Occurrences(ws, o) \in Nat
    BY OccAt
  <2>4. Occurrences(st, o) + Spread(Locals(fs), o) + Occurrences(ws, o)
          = Occurrences(st2, o) + Spread(Locals(fs2), o) + Occurrences(us, o)
    BY DEF Trades
  <2>5. X[o] + Occurrences(ws, o) = n + (Occurrences(st, o) + Spread(Locals(fs), o) + Occurrences(ws, o))
    BY <2>1, <2>3
  <2>6. Y[o] + Occurrences(us, o) = n + (Occurrences(st2, o) + Spread(Locals(fs2), o) + Occurrences(us, o))
    BY <2>1, <2>2, <2>3, SMTT(30)
  <2> HIDE DEF n
  <2> QED BY <2>4, <2>5, <2>6
<1>4. X \in [Objs -> Nat] /\ Y \in [Objs -> Nat]
  BY <1>1, <1>2
<1>5. \A p, q : SameSum(X, p, Y, q) => Plus(X, p) = Plus(Y, q)
  BY <1>4, SameHeld
<1>6. Plus(X, ws) = Plus(Y, us)
  BY <1>3, <1>5
<1> QED BY <1>6 DEF X, Y

\* A local is stored: what it held is not held any more.
LEMMA StoredSpread ==
  ASSUME NEW fs, NEW gs, NEW n, OneOther(fs, gs, n), NEW s, NEW v,
         Changed(fs[n].locals, gs[n].locals, s, v), NEW o
  PROVE  /\ fs[n].locals[s] \in Value /\ v \in Value
         /\ Occurrences(<<fs[n].locals[s]>>, o) \in Nat /\ Occurrences(<<v>>, o) \in Nat
         /\ Spread(Locals(gs), o) \in Nat /\ Spread(Locals(fs), o) \in Nat
         /\ Spread(Locals(gs), o) + Occurrences(<<fs[n].locals[s]>>, o)
              = Spread(Locals(fs), o) + Occurrences(<<v>>, o)
<1> DEFINE l == fs[n].locals
           m == gs[n].locals
           w == l[s]
<1>1. /\ Spread(Locals(gs), o) \in Nat /\ Spread(Locals(fs), o) \in Nat
      /\ Occurrences(l, o) \in Nat /\ Occurrences(m, o) \in Nat
      /\ Spread(Locals(gs), o) + Occurrences(l, o) = Spread(Locals(fs), o) + Occurrences(m, o)
  BY SpreadOther
<1>2. w \in Value /\ v \in Value
      /\ Occurrences(m, o) + Occurrences(<<w>>, o) = Occurrences(l, o) + Occurrences(<<v>>, o)
  <2> HIDE DEF l, m
  <2>1. Changed(l, m, s, v)
    BY DEF l, m
  <2>2. /\ l[s] \in Value
        /\ Occurrences(m, o) + Occurrences(<<l[s]>>, o) = Occurrences(l, o) + Occurrences(<<v>>, o)
    BY <2>1, OccChanged
  <2>3. v \in Value
    BY <2>1 DEF Changed
  <2> QED BY <2>2, <2>3
<1> HIDE DEF l, m, w
<1>3. <<w>> \in Seq(Value) /\ <<v>> \in Seq(Value)
  BY <1>2
<1>4. Occurrences(<<w>>, o) \in Nat /\ Occurrences(<<v>>, o) \in Nat
  BY <1>3, OccAt
<1>5. Spread(Locals(gs), o) + Occurrences(<<w>>, o) = Spread(Locals(fs), o) + Occurrences(<<v>>, o)
  BY <1>1, <1>2, <1>4
<1> QED BY <1>1, <1>2, <1>4, <1>5 DEF w, l

\* Store: the operand moves to the local, what that held is released.
LEMMA StoredHeld ==
  ASSUME NEW cs, NEW gs, NEW st, NEW fs, Slotted(cs, gs, st, fs), NEW a, NEW v, Cut(st, 1, a, <<v>>),
         NEW fs2, NEW n, OneOther(fs, fs2, n), NEW s, Changed(fs[n].locals, fs2[n].locals, s, v),
         NEW h, Owned(h, HeldBy(cs, gs, st, fs))
  PROVE  /\ Slotted(cs, gs, a, fs2)
         /\ Owned(release_value(h, fs[n].locals[s]), HeldBy(cs, gs, a, fs2))
<1> DEFINE w == fs[n].locals[s]
<1>1. /\ a \in Seq(Value)
      /\ \A o : Occurrences(st, o) = Occurrences(a, o) + Occurrences(<<v>>, o)
                /\ Occurrences(a, o) \in Nat /\ Occurrences(<<v>>, o) \in Nat
  BY CutHeld
<1>2. w \in Value
      /\ \A o : /\ Occurrences(<<w>>, o) \in Nat
                /\ Spread(Locals(fs2), o) \in Nat /\ Spread(Locals(fs), o) \in Nat
                /\ Spread(Locals(fs2), o) + Occurrences(<<w>>, o)
                     = Spread(Locals(fs), o) + Occurrences(<<v>>, o)
  BY StoredSpread
<1> HIDE DEF w
<1>3. Slotted(cs, gs, a, fs2)
  BY <1>1 DEF Slotted, OneOther
<1>4. <<w>> \in Seq(Value) /\ <<>> \in Seq(Value)
  BY <1>2
<1>5. Trades(st, fs, <<>>, a, fs2, <<w>>)
  <2> SUFFICES ASSUME NEW o \in Objs
               PROVE  Occurrences(st, o) + Spread(Locals(fs), o) + Occurrences(<<>>, o)
                        = Occurrences(a, o) + Spread(Locals(fs2), o) + Occurrences(<<w>>, o)
    BY DEF Trades
  <2>1. Occurrences(<<>>, o) = 0
    BY OccEmpty
  <2>2. /\ Occurrences(st, o) = Occurrences(a, o) + Occurrences(<<v>>, o)
        /\ Occurrences(a, o) \in Nat /\ Occurrences(<<v>>, o) \in Nat
    BY <1>1
  <2>3. /\ Occurrences(<<w>>, o) \in Nat
        /\ Spread(Locals(fs2), o) \in Nat /\ Spread(Locals(fs), o) \in Nat
        /\ Spread(Locals(fs2), o) + Occurrences(<<w>>, o) = Spread(Locals(fs), o) + Occurrences(<<v>>, o)
    BY <1>2
  <2>4. Occurrences(st, o) + Spread(Locals(fs), o) + Occurrences(<<>>, o)
          = Occurrences(a, o) + (Spread(Locals(fs), o) + Occurrences(<<v>>, o))
    BY <2>1, <2>2, <2>3
  <2>5. Occurrences(a, o) + Spread(Locals(fs2), o) + Occurrences(<<w>>, o)
          = Occurrences(a, o) + (Spread(Locals(fs2), o) + Occurrences(<<w>>, o))
    BY <2>2, <2>3
  <2> QED BY <2>3, <2>4, <2>5
<1> DEFINE X == HeldBy(cs, gs, st, fs)
           Y == HeldBy(cs, gs, a, fs2)
<1>6. Plus(X, <<>>) = Plus(Y, <<w>>)
  <2>1. \A p, q \in Seq(Value) : Trades(st, fs, p, a, fs2, q) => Plus(X, p) = Plus(Y, q)
    BY <1>3, HeldTrades
  <2> HIDE DEF X, Y
  <2> QED BY <1>4, <1>5, <2>1
<1>7. X \in [Objs -> Nat] /\ Y \in [Objs -> Nat]
  BY <1>3, HeldTyped
<1> HIDE DEF X, Y
<1>8. Plus(X, <<>>) = X
  BY <1>7, PlusNone
<1>9. Owned(h, Plus(Y, <<w>>))
  BY <1>6, <1>8 DEF X
<1>10. Owned(ReleaseAll(h, <<w>>), Y)
  BY <1>4, <1>7, <1>9, ReleaseOwned
<1> QED BY <1>3, <1>10 DEF release_value, w, Y

\* The frame on top goes, and what its locals held with it.
LEMMA DroppedHeld ==
  ASSUME NEW cs, NEW gs, NEW st, NEW fs, NEW fs2, NEW ws \in Seq(Value), Slotted(cs, gs, st, fs2),
         OneMore(fs, fs2), NEW l, l = fs2[Len(fs2)].locals
  PROVE  /\ Slotted(cs, gs, st, fs) /\ l \in Seq(Value)
         /\ Plus(HeldBy(cs, gs, st, fs), ws) \in [Objs -> Nat]
         /\ Plus(HeldBy(cs, gs, st, fs2), ws) = Plus(Plus(HeldBy(cs, gs, st, fs), ws), l)
<1> DEFINE X == HeldBy(cs, gs, st, fs2)
           Y == HeldBy(cs, gs, st, fs)
<1>1. Slotted(cs, gs, st, fs)
  BY DEF Slotted, OneMore
<1>2. l \in Seq(Value)
  <2>1. fs2 \in Seq(Frame) /\ fs \in Seq(Frame) /\ Len(fs2) = Len(fs) + 1
    BY DEF OneMore
  <2>2. Len(fs2) \in DOMAIN fs2
    BY <2>1
  <2> QED BY <2>1, <2>2, FrameLocals
<1>3. /\ X \in [Objs -> Nat]
      /\ \A o \in Objs :
            /\ cs[o] \in Nat /\ Occurrences(gs, o) \in Nat
            /\ Occurrences(st, o) \in Nat /\ Spread(Locals(fs2), o) \in Nat
            /\ X[o] = cs[o] + Occurrences(gs, o) + Occurrences(st, o) + Spread(Locals(fs2), o)
  BY HeldTyped
<1>4. /\ Y \in [Objs -> Nat]
      /\ \A o \in Objs :
            /\ Spread(Locals(fs), o) \in Nat
            /\ Y[o] = cs[o] + Occurrences(gs, o) + Occurrences(st, o) + Spread(Locals(fs), o)
  BY <1>1, HeldTyped
<1> HIDE DEF X, Y
<1>5. \A o \in Objs : X[o] + Occurrences(ws, o) = Y[o] + Occurrences(ws, o) + Occurrences(l, o)
  <2> TAKE o \in Objs
  <2> DEFINE n == cs[o] + Occurrences(gs, o) + Occurrences(st, o)
  <2>1. /\ cs[o] \in Nat /\ Occurrences(gs, o) \in Nat
        /\ Occurrences(st, o) \in Nat /\ Spread(Locals(fs2), o) \in Nat
        /\ X[o] = cs[o] + Occurrences(gs, o) + Occurrences(st, o) + Spread(Locals(fs2), o)
    BY <1>3
  <2>2. /\ Spread(Locals(fs), o) \in Nat
        /\ Y[o] = cs[o] + Occurrences(gs, o) + Occurrences(st, o) + Spread(Locals(fs), o)
    BY <1>4
  <2>3. Spread(Locals(fs2), o) = Spread(Locals(fs), o) + Occurrences(l, o)
    BY SpreadMore
  <2>4. Occurrences(ws, o) \in Nat /\ Occurrences(l, o) \in Nat
    BY <1>2, OccAt
  <2> QED BY <2>1, <2>2, <2>3, <2>4, SMTT(30)
<1>6. Plus(Y, ws) \in [Objs -> Nat]
  BY <1>4, PlusTyped
<1>7. Plus(X, ws) = Plus(Plus(Y, ws), l)
  BY <1>5 DEF Plus
<1> QED BY <1>1, <1>2, <1>6, <1>7 DEF X, Y

\* The same, for a heap that is owned.
LEMMA DroppedOwned ==
  ASSUME NEW cs, NEW gs, NEW st, NEW fs, NEW fs2, NEW ws \in Seq(Value), Slotted(cs, gs, st, fs2),
         OneMore(fs, fs2), NEW h, Owned(h, Plus(HeldBy(cs, gs, st, fs2), ws))
  PROVE  /\ Slotted(cs, gs, st, fs)
         /\ Owned(ReleaseAll(h, fs2[Len(fs2)].locals), Plus(HeldBy(cs, gs, st, fs), ws))
<1> DEFINE l == fs2[Len(fs2)].locals
           E == Plus(HeldBy(cs, gs, st, fs), ws)
<1>1. /\ Slotted(cs, gs, st, fs) /\ l \in Seq(Value) /\ E \in [Objs -> Nat]
      /\ Plus(HeldBy(cs, gs, st, fs2), ws) = Plus(E, l)
  BY DroppedHeld
<1> HIDE DEF E
<1>2. Owned(h, Plus(E, l))
  BY <1>1
<1> HIDE DEF l
<1>3. Owned(ReleaseAll(h, l), E)
  BY <1>1, <1>2, ReleaseOwned
<1> QED BY <1>1, <1>3 DEF E, l

-----------------------------------------------------------------------------
(* Unwinding.                                                              *)
\* What a release makes of a heap is one.
LEMMA ReleasedRaw ==
  ASSUME NEW g \in Raw, NEW vs \in Seq(Value)
  PROVE  ReleaseAll(g, vs) \in Raw
<1> DEFINE n == Pending(g, vs)
           r == Releasing(g, vs)
<1>1. n \in Nat /\ r \in [0 .. n -> State]
  BY ReleasingStep
<1> HIDE DEF n, r
<1>2. r[n] \in State
  BY <1>1
<1>3. r[n].heap \in Raw
  BY <1>2 DEF State
<1> QED BY <1>3 DEF ReleaseAll, n, r

\* The steps of an unwinding.
LEMMA UnwindingStep ==
  ASSUME frames \in Seq(Frame), NEW h \in Raw, NEW e, e.fp \in Nat, e.fp <= Len(frames)
  PROVE  LET n == Len(frames) - e.fp
             u == Unwinding(h, e)
         IN  /\ n \in Nat
             /\ u[0] = h
             /\ \A j \in 1 .. n : u[j] = ReleaseAll(u[j - 1], frames[Len(frames) + 1 - j].locals)
<1> DEFINE n == Len(frames) - e.fp
           u == Unwinding(h, e)
           l(j) == frames[Len(frames) + 1 - j].locals
           advance == [j \in 1 .. n |-> [g \in Raw |-> ReleaseAll(g, l(j))]]
<1>1. n \in Nat
  OBVIOUS
<1>2. \A j \in 1 .. n : l(j) \in Seq(Value)
  <2> TAKE j \in 1 .. n
  <2>1. Len(frames) + 1 - j \in DOMAIN frames
    OBVIOUS
  <2> QED BY <2>1, FrameLocals
<1>3. u = [j \in 0 .. n |-> IF j = 0 THEN h ELSE ReleaseAll(u[j - 1], l(j))]
  <2>1. advance \in Steps(n, Raw)
    <3> HIDE DEF n, l
    <3>1. \A j \in 1 .. n : \A g \in Raw : ReleaseAll(g, l(j)) \in Raw
      BY <1>2, ReleasedRaw
    <3>2. \A j \in 1 .. n : [g \in Raw |-> ReleaseAll(g, l(j))] \in [Raw -> Raw]
      BY <3>1
    <3> QED BY <3>2 DEF Steps
  <2>2. PICK f : Iteration(f, h, n, Raw, advance)
    <3> HIDE DEF advance, n
    <3> QED BY <1>1, <2>1, Iterate
  <2>3. ASSUME NEW j \in 0 .. n
        PROVE  f[j] = IF j = 0 THEN h ELSE ReleaseAll(f[j - 1], l(j))
    <3> HIDE DEF n, l
    <3>1. CASE j # 0
      <4>1. j \in 1 .. n /\ j - 1 \in 0 .. n
        BY <1>1, <3>1
      <4>2. f[j] = advance[j][f[j - 1]] /\ f[j - 1] \in Raw
        BY <2>2, <4>1 DEF Iteration
      <4> QED BY <3>1, <4>1, <4>2
    <3> QED BY <2>2, <3>1 DEF Iteration
  <2>4. f = [j \in 0 .. n |-> IF j = 0 THEN h ELSE ReleaseAll(f[j - 1], l(j))]
    <3>1. DOMAIN f = 0 .. n /\ f = [j \in 0 .. n |-> f[j]]
      <4> HIDE DEF n
      <4> QED BY <2>2 DEF Iteration
    <3> HIDE DEF n, l
    <3> QED BY <2>3, <3>1
  <2> HIDE DEF advance
  <2> QED BY <2>4 DEF Unwinding
<1> HIDE DEF u, l, advance
<1>4. u[0] = h
  <2> HIDE DEF n
  <2> QED BY <1>1, <1>3
<1>5. ASSUME NEW j \in 1 .. n PROVE u[j] = ReleaseAll(u[j - 1], l(j))
  <2> HIDE DEF n
  <2>1. j \in 0 .. n /\ j # 0
    BY <1>1
  <2> QED BY <1>3, <2>1
<1> QED BY <1>1, <1>4, <1>5 DEF u, l

\* The frames above the handler's go.
LEMMA UnwoundOwned ==
  ASSUME NEW cs, NEW gs, NEW st, NEW ws \in Seq(Value), Slotted(cs, gs, st, frames),
         NEW e, e.fp \in Nat, e.fp <= Len(frames),
         NEW h, Owned(h, Plus(HeldBy(cs, gs, st, frames), ws))
  PROVE  LET kept == SubSeq(frames, 1, e.fp)
         IN  /\ Slotted(cs, gs, st, kept)
             /\ Owned(UnwoundFrames(h, e), Plus(HeldBy(cs, gs, st, kept), ws))
<1> DEFINE m == Len(frames)
           n == m - e.fp
           u == Unwinding(h, e)
           fs(j) == SubSeq(frames, 1, m - j)
           Good(j) == /\ Slotted(cs, gs, st, fs(j))
                      /\ Owned(u[j], Plus(HeldBy(cs, gs, st, fs(j)), ws))
           S == {j \in Nat : j <= n => Good(j)}
<1>1. frames \in Seq(Frame) /\ m \in Nat /\ n \in Nat /\ n <= m
  BY DEF Slotted
<1>2. h \in Raw
  BY CellIsRaw DEF Owned
<1>3. u[0] = h /\ \A j \in 1 .. n : u[j] = ReleaseAll(u[j - 1], frames[m + 1 - j].locals)
  BY <1>1, <1>2, UnwindingStep
<1>4. 0 \in S
  <2>1. fs(0) = frames
    BY <1>1
  <2> HIDE DEF fs, u
  <2>2. Good(0)
    BY <1>3, <2>1
  <2> QED BY <2>2
<1>5. ASSUME NEW j \in Nat, j \in S PROVE j + 1 \in S
  <2> SUFFICES ASSUME j + 1 <= n PROVE Good(j + 1)
    OBVIOUS
  <2>1. j <= n /\ j + 1 \in 1 .. n /\ (j + 1) - 1 = j /\ m - (j + 1) \in Nat
        /\ (m - (j + 1)) + 1 = m - j /\ m - j <= m /\ m + 1 - (j + 1) = m - j
    BY <1>1
  <2>2. Good(j)
    <3> HIDE DEF Good
    <3> QED BY <1>5, <2>1
  <2> DEFINE p == m - (j + 1)
  <2>3. p \in Nat /\ p + 1 <= Len(frames) /\ p + 1 = m - j
    BY <2>1
  <2> HIDE DEF p
  <2>4. OneMore(SubSeq(frames, 1, p), SubSeq(frames, 1, p + 1))
        /\ SubSeq(frames, 1, p + 1)[Len(SubSeq(frames, 1, p + 1))] = frames[p + 1]
    BY <1>1, <2>3, DropFrame
  <2> DEFINE f1 == SubSeq(frames, 1, p + 1)
             f0 == SubSeq(frames, 1, p)
  <2>5. f1 = fs(j) /\ f0 = fs(j + 1) /\ f1[Len(f1)] = frames[m + 1 - (j + 1)]
    <3>1. p = m - (j + 1) /\ p + 1 = m + 1 - (j + 1)
      BY <1>1, <2>3
    <3> QED BY <2>3, <2>4, <3>1
  <2>6. OneMore(f0, f1)
    BY <2>4
  <2> HIDE DEF f0, f1, fs, u
  <2>7. Slotted(cs, gs, st, f1) /\ Owned(u[j], Plus(HeldBy(cs, gs, st, f1), ws))
    BY <2>2, <2>5
  <2>8. /\ Slotted(cs, gs, st, f0)
        /\ Owned(ReleaseAll(u[j], f1[Len(f1)].locals), Plus(HeldBy(cs, gs, st, f0), ws))
    BY <2>6, <2>7, DroppedOwned
  <2>9. u[j + 1] = ReleaseAll(u[j], f1[Len(f1)].locals)
    <3>1. u[j + 1] = ReleaseAll(u[(j + 1) - 1], frames[m + 1 - (j + 1)].locals)
      BY <1>3, <2>1
    <3> QED BY <2>1, <2>5, <3>1
  <2> QED BY <2>5, <2>8, <2>9
<1>6. Nat \subseteq S
  <2> HIDE DEF S
  <2> QED BY <1>4, <1>5, NatInd
<1>7. Good(n)
  <2> HIDE DEF Good
  <2> QED BY <1>1, <1>6
<1>8. fs(n) = SubSeq(frames, 1, e.fp)
  <2>1. m - n = e.fp
    BY <1>1
  <2> QED BY <2>1
<1>9. UnwoundFrames(h, e) = u[n]
  BY DEF UnwoundFrames
<1> HIDE DEF fs, u, n
<1> QED BY <1>7, <1>8, <1>9

-----------------------------------------------------------------------------
(* Exceptions caught, globals stored.                                      *)
\* The operands above the handler's go, then the frames.
LEMMA UnwoundHeld ==
  ASSUME NEW cs, NEW gs, NEW left, NEW ws \in Seq(Value), Slotted(cs, gs, left, frames),
         NEW e, e.fp \in Nat, e.fp <= Len(frames), NEW n \in Nat, n <= Len(left),
         NEW h, Owned(h, Plus(HeldBy(cs, gs, left, frames), ws))
  PROVE  LET kept == SubSeq(frames, 1, e.fp)
             rest == SubSeq(left, 1, n)
             h1   == ReleaseAll(h, Reverse(SubSeq(left, n + 1, Len(left))))
         IN  /\ Slotted(cs, gs, rest, kept)
             /\ Owned(UnwoundFrames(h1, e), Plus(HeldBy(cs, gs, rest, kept), ws))
<1> DEFINE rest == SubSeq(left, 1, n)
           gone == SubSeq(left, n + 1, Len(left))
           X == HeldBy(cs, gs, left, frames)
           Y == HeldBy(cs, gs, rest, frames)
           E == Plus(Y, ws)
<1>1. left \in Seq(Value)
  BY DEF Slotted
<1>2. rest \in Seq(Value) /\ gone \in Seq(Value)
      /\ \A o : Occurrences(left, o) = Occurrences(rest, o) + Occurrences(gone, o)
  BY <1>1, OccCutTwo
<1> HIDE DEF rest, gone
<1>3. Slotted(cs, gs, rest, frames)
  BY <1>2 DEF Slotted
<1> DEFINE back == Reverse(gone)
<1>4. back \in Seq(Value) /\ \A o : Occurrences(back, o) = Occurrences(gone, o)
  BY <1>2, OccReverse
<1> HIDE DEF back
<1>5. Y \in [Objs -> Nat] /\ E \in [Objs -> Nat]
  <2>1. Y \in [Objs -> Nat]
    BY <1>3, HeldTyped
  <2> HIDE DEF Y
  <2> QED BY <2>1, PlusTyped
<1>6. Plus(X, ws) = Plus(E, back)
  <2>1. \A o \in Objs :
            /\ cs[o] \in Nat /\ Occurrences(gs, o) \in Nat
            /\ Occurrences(left, o) \in Nat /\ Spread(Locals(frames), o) \in Nat
            /\ X[o] = cs[o] + Occurrences(gs, o) + Occurrences(left, o) + Spread(Locals(frames), o)
    BY HeldTyped
  <2>2. \A o \in Objs :
            /\ Occurrences(rest, o) \in Nat
            /\ Y[o] = cs[o] + Occurrences(gs, o) + Occurrences(rest, o) + Spread(Locals(frames), o)
    BY <1>3, HeldTyped
  <2> HIDE DEF X, Y
  <2>3. \A o \in Objs : X[o] + Occurrences(ws, o) = Y[o] + Occurrences(ws, o) + Occurrences(back, o)
    <3> TAKE o \in Objs
    <3>1. /\ cs[o] \in Nat /\ Occurrences(gs, o) \in Nat
          /\ Occurrences(left, o) \in Nat /\ Spread(Locals(frames), o) \in Nat
          /\ X[o] = cs[o] + Occurrences(gs, o) + Occurrences(left, o) + Spread(Locals(frames), o)
      BY <2>1
    <3>2. /\ Occurrences(rest, o) \in Nat
          /\ Y[o] = cs[o] + Occurrences(gs, o) + Occurrences(rest, o) + Spread(Locals(frames), o)
      BY <2>2
    <3>3. Occurrences(left, o) = Occurrences(rest, o) + Occurrences(back, o)
      BY <1>2, <1>4
    <3>4. Occurrences(ws, o) \in Nat /\ Occurrences(back, o) \in Nat
      BY <1>4, OccAt
    <3> DEFINE p == cs[o]
               q == Occurrences(gs, o)
               r == Occurrences(rest, o)
               t == Occurrences(back, o)
               l == Spread(Locals(frames), o)
               w == Occurrences(ws, o)
    <3>5. p \in Nat /\ q \in Nat /\ r \in Nat /\ t \in Nat /\ l \in Nat /\ w \in Nat
      BY <3>1, <3>2, <3>4
    <3>6. X[o] = p + q + (r + t) + l /\ Y[o] = p + q + r + l
      BY <3>1, <3>2, <3>3
    <3> HIDE DEF p, q, r, t, l, w
    <3>7. (p + q + (r + t) + l) + w = (p + q + r + l) + w + t
      BY <3>5
    <3>8. X[o] + w = Y[o] + w + t
      BY <3>6, <3>7, Zenon
    <3> QED BY <3>8 DEF t, w
  <2> QED BY <2>3 DEF Plus
<1> DEFINE h1 == ReleaseAll(h, back)
<1>7. Owned(h1, E)
  <2> HIDE DEF E, X
  <2>1. Owned(h, Plus(E, back))
    BY <1>6 DEF X
  <2> QED BY <1>4, <1>5, <2>1, ReleaseOwned
<1> HIDE DEF h1
<1>8. /\ Slotted(cs, gs, rest, SubSeq(frames, 1, e.fp))
      /\ Owned(UnwoundFrames(h1, e), Plus(HeldBy(cs, gs, rest, SubSeq(frames, 1, e.fp)), ws))
  BY <1>3, <1>7, UnwoundOwned
<1> QED BY <1>8 DEF h1, back, rest, gone

\* The catch variable takes the value thrown for what it held.
LEMMA CaughtHeld ==
  ASSUME NEW cs, NEW gs, NEW st, NEW fs, Slotted(cs, gs, st, fs),
         NEW fs2, NEW n, OneOther(fs, fs2, n), NEW s, NEW v, Changed(fs[n].locals, fs2[n].locals, s, v),
         NEW spent \in Seq(Value),
         NEW h, Owned(h, Plus(HeldBy(cs, gs, st, fs), <<v>> \o spent))
  PROVE  /\ Slotted(cs, gs, st, fs2)
         /\ Owned(ReleaseAll(h, <<fs[n].locals[s]>> \o spent), HeldBy(cs, gs, st, fs2))
<1> DEFINE w == fs[n].locals[s]
<1>1. w \in Value /\ v \in Value
      /\ \A o : /\ Occurrences(<<w>>, o) \in Nat /\ Occurrences(<<v>>, o) \in Nat
                /\ Spread(Locals(fs2), o) \in Nat /\ Spread(Locals(fs), o) \in Nat
                /\ Spread(Locals(fs2), o) + Occurrences(<<w>>, o)
                     = Spread(Locals(fs), o) + Occurrences(<<v>>, o)
  BY StoredSpread
<1> HIDE DEF w
<1>2. Slotted(cs, gs, st, fs2)
  BY DEF Slotted, OneOther
<1> DEFINE p == <<v>> \o spent
           q == <<w>> \o spent
<1>3. /\ p \in Seq(Value) /\ q \in Seq(Value)
      /\ \A o : /\ Occurrences(p, o) = Occurrences(<<v>>, o) + Occurrences(spent, o)
                /\ Occurrences(q, o) = Occurrences(<<w>>, o) + Occurrences(spent, o)
  <2> DEFINE a == <<v>>
             b == <<w>>
  <2>1. a \in Seq(Value) /\ b \in Seq(Value)
    BY <1>1
  <2> HIDE DEF a, b
  <2>2. a \o spent \in Seq(Value)
        /\ \A o : Occurrences(a \o spent, o) = Occurrences(a, o) + Occurrences(spent, o)
    BY <2>1, OccConcat
  <2>3. b \o spent \in Seq(Value)
        /\ \A o : Occurrences(b \o spent, o) = Occurrences(b, o) + Occurrences(spent, o)
    BY <2>1, OccConcat
  <2> QED BY <2>2, <2>3, Zenon DEF a, b
<1> HIDE DEF p, q
<1>4. Trades(st, fs, p, st, fs2, q)
  <2> SUFFICES ASSUME NEW o \in Objs
               PROVE  Occurrences(st, o) + Spread(Locals(fs), o) + Occurrences(p, o)
                        = Occurrences(st, o) + Spread(Locals(fs2), o) + Occurrences(q, o)
    BY DEF Trades
  <2>1. /\ Occurrences(p, o) = Occurrences(<<v>>, o) + Occurrences(spent, o)
        /\ Occurrences(q, o) = Occurrences(<<w>>, o) + Occurrences(spent, o)
    BY <1>3
  <2>2. Occurrences(st, o) \in Nat /\ Occurrences(spent, o) \in Nat
    BY OccAt DEF Slotted
  <2>3. /\ Occurrences(<<w>>, o) \in Nat /\ Occurrences(<<v>>, o) \in Nat
        /\ Spread(Locals(fs2), o) \in Nat /\ Spread(Locals(fs), o) \in Nat
        /\ Spread(Locals(fs2), o) + Occurrences(<<w>>, o) = Spread(Locals(fs), o) + Occurrences(<<v>>, o)
    BY <1>1
  <2> DEFINE c == Occurrences(st, o) + Occurrences(spent, o)
  <2>4. Occurrences(st, o) + Spread(Locals(fs), o) + Occurrences(p, o)
          = c + (Spread(Locals(fs), o) + Occurrences(<<v>>, o))
    BY <2>1, <2>2, <2>3
  <2>5. Occurrences(st, o) + Spread(Locals(fs2), o) + Occurrences(q, o)
          = c + (Spread(Locals(fs2), o) + Occurrences(<<w>>, o))
    BY <2>1, <2>2, <2>3
  <2> HIDE DEF c
  <2> QED BY <2>3, <2>4, <2>5
<1> DEFINE X == HeldBy(cs, gs, st, fs)
           Y == HeldBy(cs, gs, st, fs2)
<1>5. Plus(X, p) = Plus(Y, q)
  <2>1. \A c, d \in Seq(Value) : Trades(st, fs, c, st, fs2, d) => Plus(X, c) = Plus(Y, d)
    BY <1>2, HeldTrades
  <2> HIDE DEF X, Y
  <2> QED BY <1>3, <1>4, <2>1
<1>6. Y \in [Objs -> Nat]
  BY <1>2, HeldTyped
<1>7. Owned(h, Plus(Y, q))
  <2> HIDE DEF Y, q
  <2> QED BY <1>5 DEF p, X
<1>8. Owned(ReleaseAll(h, q), Y)
  <2> HIDE DEF Y, q
  <2> QED BY <1>3, <1>6, <1>7, ReleaseOwned
<1> QED BY <1>2, <1>8 DEF q, w, Y

\* A global is stored.
LEMMA GlobalHeld ==
  ASSUME NEW cs, NEW gs, NEW st, NEW fs, Slotted(cs, gs, st, fs), NEW a, NEW v, Cut(st, 1, a, <<v>>),
         NEW grown \in Seq(Value), \A o \in Objs : Occurrences(grown, o) = Occurrences(gs, o),
         NEW gs2, NEW s, Changed(grown, gs2, s, v),
         NEW h, Owned(h, HeldBy(cs, gs, st, fs))
  PROVE  /\ Slotted(cs, gs2, a, fs)
         /\ Owned(release_value(h, grown[s]), HeldBy(cs, gs2, a, fs))
<1> DEFINE w == grown[s]
           X == HeldBy(cs, gs, st, fs)
           Y == HeldBy(cs, gs2, a, fs)
<1>1. /\ a \in Seq(Value)
      /\ \A o : Occurrences(st, o) = Occurrences(a, o) + Occurrences(<<v>>, o)
                /\ Occurrences(a, o) \in Nat /\ Occurrences(<<v>>, o) \in Nat
  BY CutHeld
<1>2. /\ w \in Value
      /\ \A o : Occurrences(gs2, o) + Occurrences(<<w>>, o) = Occurrences(grown, o) + Occurrences(<<v>>, o)
  BY OccChanged
<1> HIDE DEF w
<1>3. Slotted(cs, gs2, a, fs) /\ <<w>> \in Seq(Value)
  BY <1>1, <1>2 DEF Slotted, Changed
<1>4. /\ X \in [Objs -> Nat]
      /\ \A o \in Objs :
            /\ cs[o] \in Nat /\ Occurrences(gs, o) \in Nat
            /\ Occurrences(st, o) \in Nat /\ Spread(Locals(fs), o) \in Nat
            /\ X[o] = cs[o] + Occurrences(gs, o) + Occurrences(st, o) + Spread(Locals(fs), o)
  BY HeldTyped
<1>5. /\ Y \in [Objs -> Nat]
      /\ \A o \in Objs :
            /\ Occurrences(gs2, o) \in Nat
            /\ Y[o] = cs[o] + Occurrences(gs2, o) + Occurrences(a, o) + Spread(Locals(fs), o)
  BY <1>3, HeldTyped
<1> HIDE DEF X, Y
<1>6. \A o \in Objs : X[o] = Y[o] + Occurrences(<<w>>, o)
  <2> TAKE o \in Objs
  <2> DEFINE n == cs[o] + Occurrences(a, o) + Spread(Locals(fs), o)
  <2>1. /\ cs[o] \in Nat /\ Occurrences(gs, o) \in Nat
        /\ Occurrences(st, o) \in Nat /\ Spread(Locals(fs), o) \in Nat
        /\ X[o] = cs[o] + Occurrences(gs, o) + Occurrences(st, o) + Spread(Locals(fs), o)
    BY <1>4
  <2>2. /\ Occurrences(gs2, o) \in Nat
        /\ Y[o] = cs[o] + Occurrences(gs2, o) + Occurrences(a, o) + Spread(Locals(fs), o)
    BY <1>5
  <2>3. Occurrences(st, o) = Occurrences(a, o) + Occurrences(<<v>>, o)
        /\ Occurrences(a, o) \in Nat /\ Occurrences(<<v>>, o) \in Nat
    BY <1>1
  <2>4. Occurrences(gs2, o) + Occurrences(<<w>>, o) = Occurrences(gs, o) + Occurrences(<<v>>, o)
    BY <1>2
  <2>5. Occurrences(<<w>>, o) \in Nat
    BY <1>3, OccAt
  <2>6. X[o] = n + (Occurrences(gs, o) + Occurrences(<<v>>, o))
    BY <2>1, <2>3
  <2>7. Y[o] + Occurrences(<<w>>, o) = n + (Occurrences(gs2, o) + Occurrences(<<w>>, o))
    <3> DEFINE p == cs[o]
               q == Occurrences(gs2, o)
               r == Occurrences(a, o)
               l == Spread(Locals(fs), o)
               t == Occurrences(<<w>>, o)
    <3>1. p \in Nat /\ q \in Nat /\ r \in Nat /\ l \in Nat /\ t \in Nat
      BY <2>1, <2>2, <2>3, <2>5
    <3>2. Y[o] + t = (p + q + r + l) + t /\ n = p + r + l
      BY <2>2
    <3> HIDE DEF p, q, r, l, t, n
    <3>3. (p + q + r + l) + t = (p + r + l) + (q + t)
      BY <3>1
    <3>4. Y[o] + t = n + (q + t)
      BY <3>2, <3>3, Zenon
    <3> QED BY <3>4 DEF q, t
  <2> HIDE DEF n
  <2> QED BY <2>4, <2>6, <2>7
<1>7. X = Plus(Y, <<w>>)
  BY <1>4, <1>6 DEF Plus
<1>8. Owned(h, Plus(Y, <<w>>))
  BY <1>7 DEF X
<1>9. Owned(ReleaseAll(h, <<w>>), Y)
  BY <1>3, <1>5, <1>8, ReleaseOwned
<1> QED BY <1>3, <1>9 DEF release_value, w, Y

\* What is held no more, is in ws.
Remains(X, Y, ws) == \A o \in Objs : X[o] = Y[o] + Occurrences(ws, o)

\* Releasing what is held no more keeps the ownership.
LEMMA RemainsOwned ==
  ASSUME NEW X \in [Objs -> Nat], NEW Y \in [Objs -> Nat], NEW ws \in Seq(Value), Remains(X, Y, ws),
         NEW h, Owned(h, X)
  PROVE  Owned(ReleaseAll(h, ws), Y)
<1>1. X = Plus(Y, ws)
  BY DEF Plus, Remains
<1>2. Owned(h, Plus(Y, ws))
  BY <1>1
<1> QED BY <1>2, ReleaseOwned

-----------------------------------------------------------------------------
(* The inductive invariant.                                                *)
\* The references no instruction releases: constants, and those given up.
Pinned == [o \in Objs |-> Occurrences(consts, o) + lost[o]]

\* Who holds what, at an instruction boundary.
Held == HeldBy(Pinned, globals, stack, frames)

\* A handler belongs to a frame that is there, the inner ones come later, and
\* no function above it reaches below its operands.
Nested ==
  status = "run" =>
    /\ frames # <<>> /\ frames[1].base = 0
    /\ \A i \in DOMAIN handlers : handlers[i].fp <= Len(frames)
    /\ \A i, j \in DOMAIN handlers :
         i <= j => handlers[i].fp <= handlers[j].fp /\ handlers[i].sp <= handlers[j].sp
    /\ \A i \in DOMAIN handlers : \A f \in DOMAIN frames :
         handlers[i].fp < f => handlers[i].sp <= frames[f].base

\* The inductive invariant: the counts of the heap are those of the slots.
IInv == CppTypeOK /\ Owned(heap, Held) /\ Nested

\* The state is typed.
LEMMA Typed ==
  ASSUME CppTypeOK
  PROVE  /\ Slotted(Pinned, globals, stack, frames)
         /\ Held \in [Objs -> Nat]
         /\ consts \in Seq(Value) /\ lost \in [Objs -> Nat]
         /\ \A o \in Objs : /\ Occurrences(consts, o) \in Nat /\ lost[o] \in Nat
                            /\ Pinned[o] = Occurrences(consts, o) + lost[o]
<1>0. consts \in Seq(Value) /\ lost \in [Objs -> Nat]
  BY DEF CppTypeOK
<1>a. \A o \in Objs : Occurrences(consts, o) \in Nat /\ lost[o] \in Nat
  BY <1>0, OccAt
<1>b. Pinned \in [Objs -> Nat] /\ \A o \in Objs : Pinned[o] = Occurrences(consts, o) + lost[o]
  BY <1>a DEF Pinned
<1>1. Slotted(Pinned, globals, stack, frames)
  BY <1>b DEF CppTypeOK, Slotted
<1>2. HeldBy(Pinned, globals, stack, frames) \in [Objs -> Nat]
  BY <1>1, HeldTyped
<1> QED BY <1>0, <1>a, <1>b, <1>1, <1>2 DEF Held

\* A running program has a current frame, with its locals.
LEMMA RunningFrames ==
  ASSUME IInv, status = "run"
  PROVE  /\ frames \in Seq(Frame) /\ Len(frames) \in Nat /\ Len(frames) >= 1
         /\ Top(frames) = frames[Len(frames)] /\ Len(frames) \in DOMAIN frames
         /\ Top(frames).base \in Nat
         /\ Top(frames).locals \in Seq(Value) /\ DOMAIN Top(frames).locals = 1 .. NLocals
         /\ \A s \in 1 .. NLocals : Top(frames).locals[s] \in Value
<1>1. frames \in Seq(Frame) /\ frames # <<>>
  BY DEF IInv, CppTypeOK, Nested
<1>2. Len(frames) \in Nat /\ Len(frames) >= 1 /\ Len(frames) \in DOMAIN frames
  BY <1>1
<1>3. Top(frames) = frames[Len(frames)]
  BY DEF Top
<1> DEFINE f == frames[Len(frames)]
<1>4. f.locals \in [1 .. NLocals -> Value] /\ f.locals \in Seq(Value) /\ f.base \in 0 .. MaxStack
      /\ DOMAIN f.locals = 1 .. NLocals
  BY <1>1, <1>2, FrameLocals
<1> HIDE DEF f
<1>5. f.base \in Nat /\ \A s \in 1 .. NLocals : f.locals[s] \in Value
  <2>1. MaxStack \in Nat
    BY CppEngineAssumption
  <2>2. f.base \in Nat
    BY <1>4, <2>1
  <2> QED BY <1>4, <2>2
<1> QED BY <1>1, <1>2, <1>3, <1>4, <1>5 DEF f

\* Handlers keep at least the operands below the current function or try.
LEMMA FloorBound ==
  ASSUME IInv, status = "run"
  PROVE  /\ Floor \in Nat
         /\ \A i \in DOMAIN handlers : /\ handlers[i].sp \in Nat /\ handlers[i].sp <= Floor
                                       /\ handlers[i].fp \in Nat /\ 1 <= handlers[i].fp
                                       /\ handlers[i].fp <= Len(frames)
         /\ handlers # <<>> => Len(handlers) \in DOMAIN handlers /\ Top(handlers) = handlers[Len(handlers)]
<1>1. handlers \in Seq(Handler) /\ frames \in Seq(Frame)
  BY DEF IInv, CppTypeOK
<1>2. \A i \in DOMAIN handlers : handlers[i].sp \in Nat /\ handlers[i].fp \in Nat /\ 1 <= handlers[i].fp
  <2> TAKE i \in DOMAIN handlers
  <2>1. handlers[i] \in Handler
    BY <1>1
  <2> QED BY <2>1 DEF Handler
<1>3. \A i \in DOMAIN handlers : handlers[i].fp <= Len(frames)
  BY DEF IInv, Nested
<1>4. Top(frames).base \in Nat /\ Top(frames) = frames[Len(frames)] /\ Len(frames) \in DOMAIN frames
      /\ Len(frames) \in Nat
  BY RunningFrames
<1>5. handlers # <<>> => Len(handlers) \in DOMAIN handlers /\ Top(handlers) = handlers[Len(handlers)]
  BY <1>1 DEF Top
<1>6. Floor \in Nat /\ \A i \in DOMAIN handlers : handlers[i].sp <= Floor
  <2>1. CASE handlers = <<>>
    BY <1>4, <2>1 DEF Floor, OwnTry
  <2>2. CASE handlers # <<>>
    <3> DEFINE e == handlers[Len(handlers)]
    <3>1. Len(handlers) \in DOMAIN handlers /\ e = Top(handlers) /\ e.sp \in Nat /\ e.fp \in Nat
      BY <1>2, <1>5, <2>2
    <3>2. \A i \in DOMAIN handlers : i <= Len(handlers)
      BY <1>1
    <3>3. \A i \in DOMAIN handlers : handlers[i].sp <= e.sp
      BY <3>1, <3>2 DEF IInv, Nested
    <3>4. CASE e.fp = Len(frames)
      BY <2>2, <3>1, <3>3, <3>4 DEF Floor, OwnTry
    <3>5. CASE e.fp # Len(frames)
      <4>1. e.fp < Len(frames)
        BY <1>3, <1>4, <3>1, <3>5
      <4>2. e.sp <= Top(frames).base
        BY <1>4, <3>1, <4>1 DEF IInv, Nested
      <4>3. Floor = Top(frames).base
        BY <2>2, <3>1, <3>5 DEF Floor, OwnTry
      <4>4. \A i \in DOMAIN handlers : handlers[i].sp <= Top(frames).base
        <5> TAKE i \in DOMAIN handlers
        <5>1. handlers[i].sp <= e.sp /\ handlers[i].sp \in Nat
          BY <1>2, <3>3
        <5> HIDE DEF e
        <5> QED BY <1>4, <3>1, <4>2, <5>1
      <4> QED BY <1>4, <4>3, <4>4
    <3> QED BY <3>4, <3>5
  <2> QED BY <2>1, <2>2
<1> QED BY <1>2, <1>3, <1>5, <1>6

\* The operands an instruction may take are there, and are held.
LEMMA TakesOperands ==
  ASSUME IInv, NEW k \in Nat, Operands(k)
  PROVE  /\ status = "run" /\ k <= Len(stack) /\ Len(stack) \in Nat
         /\ Cut(stack, k, Drop(stack, k), Args(k))
         /\ Drop(stack, k) \in Seq(Value) /\ Len(Drop(stack, k)) = Len(stack) - k
         /\ Args(k) \in Seq(Value) /\ Len(Args(k)) = k
         /\ Floor <= Len(stack) - k /\ Floor \in Nat
<1>1. status = "run" /\ stack \in Seq(Value) /\ Len(stack) \in Nat
  BY DEF Operands, IInv, CppTypeOK
<1>2. Floor \in Nat
  BY <1>1, FloorBound
<1>3. Floor <= Len(stack) - k /\ k <= Len(stack)
  BY <1>1, <1>2 DEF Operands
<1>4. Cut(stack, k, Drop(stack, k), Args(k))
  BY <1>1, <1>3 DEF Cut, Drop, Args
<1>5. Drop(stack, k) \in Seq(Value) /\ Len(Drop(stack, k)) = Len(stack) - k
      /\ Args(k) \in Seq(Value) /\ Len(Args(k)) = k
  BY <1>1, <1>3 DEF Drop, Args
<1> QED BY <1>1, <1>2, <1>3, <1>4, <1>5

\* What a slot holds counts.
LEMMA HeldSlots ==
  ASSUME IInv, NEW vs \in Seq(Value), NEW o \in Objs, Occurrences(vs, o) # 0,
         \/ Occurrences(vs, o) <= Occurrences(consts, o)
         \/ Occurrences(vs, o) <= Occurrences(globals, o)
         \/ Occurrences(vs, o) <= Occurrences(stack, o)
         \/ Occurrences(vs, o) <= Spread(Locals(frames), o)
  PROVE  Held[o] >= 1
<1>1. Slotted(Pinned, globals, stack, frames)
  BY Typed DEF IInv
<1>2. /\ Pinned[o] \in Nat /\ Occurrences(globals, o) \in Nat
      /\ Occurrences(stack, o) \in Nat /\ Spread(Locals(frames), o) \in Nat
      /\ Held[o] = Pinned[o] + Occurrences(globals, o)
                     + Occurrences(stack, o) + Spread(Locals(frames), o)
  BY <1>1, HeldTyped DEF Held
<1>3. Occurrences(vs, o) \in Nat
  BY OccAt
<1>4. Occurrences(consts, o) \in Nat /\ lost[o] \in Nat /\ Pinned[o] = Occurrences(consts, o) + lost[o]
  BY Typed DEF IInv
<1> DEFINE n == Occurrences(vs, o)
           a == Occurrences(consts, o)
           b == Occurrences(globals, o)
           c == Occurrences(stack, o)
           d == Spread(Locals(frames), o)
           l == lost[o]
<1>5. Held[o] = (a + l) + b + c + d
  BY <1>2, <1>4, Zenon
<1>6. n \in Nat /\ n # 0 /\ a \in Nat /\ b \in Nat /\ c \in Nat /\ d \in Nat /\ l \in Nat
      /\ (n <= a \/ n <= b \/ n <= c \/ n <= d)
  BY <1>2, <1>3, <1>4
<1> HIDE DEF n, a, b, c, d, l
<1> QED BY <1>5, <1>6

\* Every operand taken is a value, and one that is an object is held.
Carried(h, E, vs) == vs \in Seq(Value) /\ \A o \in Objs : Occurrences(vs, o) # 0 => E[o] >= 1

\* The operands an instruction takes are held, so they are not freed.
LEMMA OperandsCarried ==
  ASSUME IInv, NEW k \in Nat, Operands(k)
  PROVE  /\ Carried(heap, Held, Args(k)) /\ LiveIn(heap, Args(k))
         /\ \A i \in 1 .. k : /\ Args(k)[i] \in Value
                              /\ Carried(heap, Held, <<Args(k)[i]>>)
                              /\ LiveIn(heap, <<Args(k)[i]>>)
                              /\ Args(k)[i] \in Objs => Held[Args(k)[i]] >= 1
<1>1. Cut(stack, k, Drop(stack, k), Args(k)) /\ Args(k) \in Seq(Value) /\ Len(Args(k)) = k
  BY TakesOperands
<1> DEFINE a == Drop(stack, k)
           b == Args(k)
<1>2. \A o : /\ Occurrences(stack, o) = Occurrences(a, o) + Occurrences(b, o)
             /\ Occurrences(a, o) \in Nat /\ Occurrences(b, o) \in Nat
  BY <1>1, CutHeld
<1>3. b \in Seq(Value) /\ DOMAIN b = 1 .. k
  BY <1>1
<1> HIDE DEF a, b
<1>4. \A o \in Objs : Occurrences(b, o) # 0 => Held[o] >= 1
  <2> TAKE o \in Objs
  <2> HAVE Occurrences(b, o) # 0
  <2>1. Occurrences(b, o) <= Occurrences(stack, o)
    BY <1>2
  <2> QED BY <1>3, <2>1, HeldSlots
<1>5. Owned(heap, Held) /\ Held \in [Objs -> Nat]
  BY Typed DEF IInv
<1>6. Carried(heap, Held, b) /\ LiveIn(heap, b)
  BY <1>3, <1>4, <1>5, LiveHeld DEF Carried
<1>7. ASSUME NEW i \in 1 .. k
      PROVE  /\ b[i] \in Value /\ Carried(heap, Held, <<b[i]>>) /\ LiveIn(heap, <<b[i]>>)
             /\ b[i] \in Objs => Held[b[i]] >= 1
  <2> DEFINE v == b[i]
  <2>1. v \in Value /\ i \in DOMAIN b
    BY <1>3
  <2>2. v \in Objs => Held[v] >= 1
    BY <1>3, <1>4, <2>1, OccAtLeast
  <2> HIDE DEF v
  <2>3. <<v>> \in Seq(Value) /\ \A o \in Objs : Occurrences(<<v>>, o) # 0 => o = v
    BY <2>1, OccOne
  <2>4. \A o \in Objs : Occurrences(<<v>>, o) # 0 => Held[o] >= 1
    BY <2>2, <2>3
  <2>5. Carried(heap, Held, <<v>>) /\ LiveIn(heap, <<v>>)
    BY <1>5, <2>3, <2>4, LiveHeld DEF Carried
  <2> QED BY <2>1, <2>2, <2>5 DEF v
<1> QED BY <1>6, <1>7 DEF b

-----------------------------------------------------------------------------
(* Instructions that make an object.                                       *)
\* An instruction that only replaces operands, and may give up references.
LEMMA ExchangedStep ==
  ASSUME IInv, NEW k \in Nat, NEW r \in Seq(Value), Operands(k), Exchange(k, r),
         lost' \in [Objs -> Nat],
         Owned(heap', HeldBy(Pinned', globals, Drop(stack, k) \o r, frames))
  PROVE  IInv'
<1>1. Drop(stack, k) \in Seq(Value) /\ Len(Drop(stack, k)) = Len(stack) - k /\ Len(stack) \in Nat
  BY TakesOperands
<1>2. stack' = Drop(stack, k) \o r /\ UNCHANGED <<consts, globals, frames, handlers, status>>
  BY DEF Exchange
<1>3. Len(stack) - k + Len(r) <= MaxStack
  BY DEF Exchange
<1> DEFINE d == Drop(stack, k)
<1>4. d \o r \in Seq(Value) /\ Len(d \o r) <= MaxStack
  <2>1. d \in Seq(Value) /\ Len(d) = Len(stack) - k
    BY <1>1
  <2> HIDE DEF d
  <2>2. d \o r \in Seq(Value) /\ Len(d \o r) = Len(d) + Len(r)
    BY <2>1
  <2> QED BY <1>3, <2>1, <2>2
<1>5. CppTypeOK'
  <2>1. heap' \in [Objs -> Cell]
    BY DEF Owned
  <2> HIDE DEF d
  <2>2. stack' \in Seq(Value) /\ Len(stack') <= MaxStack
    BY <1>2, <1>4 DEF d
  <2> QED BY <1>2, <2>1, <2>2 DEF IInv, CppTypeOK
<1>6. Owned(heap', Held')
  BY <1>2 DEF Held
<1>7. Nested'
  BY <1>2 DEF IInv, Nested
<1> QED BY <1>5, <1>6, <1>7 DEF IInv

\* What stays pinned when neither the constants nor what was given up change.
LEMMA PinnedKept ==
  ASSUME UNCHANGED <<consts, lost>>
  PROVE  Pinned' = Pinned
  BY DEF Pinned

\* An instruction that only replaces operands.
LEMMA ReplacedStep ==
  ASSUME IInv, NEW k \in Nat, NEW r \in Seq(Value), Operands(k), Replace(k, r),
         Owned(heap', HeldBy(Pinned, globals, Drop(stack, k) \o r, frames))
  PROVE  IInv'
<1>1. Exchange(k, r) /\ lost' = lost /\ UNCHANGED <<consts, lost>>
  BY DEF Replace, Exchange
<1>2. Pinned' = Pinned /\ lost' \in [Objs -> Nat]
  BY <1>1, PinnedKept, Typed DEF IInv
<1> QED BY <1>1, <1>2, ExchangedStep

\* An instruction that consumes operands and produces r.
LEMMA ProducedStep ==
  ASSUME IInv, NEW k \in Nat, NEW r \in Seq(Value), NEW h, Produce(k, r, h), Owned(h, Plus(Held, r))
  PROVE  IInv'
<1>1. Operands(k) /\ Replace(k, r) /\ heap' = ReleaseAll(h, Args(k))
  BY DEF Produce
<1>2. k <= Len(stack)
  BY <1>1, TakesOperands
<1>3. Slotted(Pinned, globals, stack, frames)
  BY Typed DEF IInv
<1>4. Owned(ReleaseAll(h, SubSeq(stack, Len(stack) - k + 1, Len(stack))),
            HeldBy(Pinned, globals, SubSeq(stack, 1, Len(stack) - k) \o r, frames))
  <2>1. Owned(h, Plus(HeldBy(Pinned, globals, stack, frames), r))
    BY DEF Held
  <2> QED BY <1>2, <1>3, <2>1, TakenOwned
<1>5. Owned(heap', HeldBy(Pinned, globals, Drop(stack, k) \o r, frames))
  BY <1>1, <1>4 DEF Args, Drop
<1> QED BY <1>1, <1>5, ReplacedStep

\* One reference to s more that nobody will release.
LEMMA PinnedMore ==
  ASSUME IInv, NEW s \in Objs, UNCHANGED consts, lost' = [lost EXCEPT ![s] = @ + 1]
  PROVE  /\ lost' \in [Objs -> Nat] /\ Slotted(Pinned', globals, stack, frames)
         /\ HeldBy(Pinned', globals, stack, frames) = Plus(Held, <<s>>)
<1>1. /\ Slotted(Pinned, globals, stack, frames) /\ consts \in Seq(Value) /\ lost \in [Objs -> Nat]
      /\ \A o \in Objs : /\ Occurrences(consts, o) \in Nat /\ lost[o] \in Nat
                         /\ Pinned[o] = Occurrences(consts, o) + lost[o]
  BY Typed DEF IInv
<1>2. lost' \in [Objs -> Nat]
  BY <1>1
<1>3. s \in Value /\ \A o \in Objs : Occurrences(<<s>>, o) = IF o = s THEN 1 ELSE 0
  BY OccOne DEF Value
<1>4. ASSUME NEW o \in Objs PROVE lost'[o] = lost[o] + Occurrences(<<s>>, o)
  BY <1>1, <1>3
<1>5. Pinned' = [o \in Objs |-> Occurrences(consts, o) + lost'[o]]
  BY DEF Pinned
<1>6. \A o \in Objs : Pinned'[o] \in Nat /\ Occurrences(<<s>>, o) \in Nat
                      /\ Pinned'[o] = Pinned[o] + Occurrences(<<s>>, o)
  BY <1>1, <1>3, <1>4, <1>5
<1>7. Slotted(Pinned', globals, stack, frames)
  BY <1>1, <1>5, <1>6 DEF Slotted
<1> DEFINE X == HeldBy(Pinned', globals, stack, frames)
           Y == HeldBy(Pinned, globals, stack, frames)
<1>8. /\ X \in [Objs -> Nat] /\ Y \in [Objs -> Nat]
      /\ \A o \in Objs :
           /\ Occurrences(globals, o) \in Nat /\ Occurrences(stack, o) \in Nat
           /\ Spread(Locals(frames), o) \in Nat
           /\ X[o] = Pinned'[o] + Occurrences(globals, o) + Occurrences(stack, o)
                       + Spread(Locals(frames), o)
           /\ Y[o] = Pinned[o] + Occurrences(globals, o) + Occurrences(stack, o)
                       + Spread(Locals(frames), o)
           /\ Pinned[o] \in Nat
  BY <1>1, <1>7, HeldTyped
<1> HIDE DEF X, Y
<1>9. \A o \in Objs : X[o] = Y[o] + Occurrences(<<s>>, o)
  BY <1>6, <1>8
<1>10. X = Plus(Y, <<s>>)
  BY <1>8, <1>9 DEF Plus
<1> QED BY <1>2, <1>7, <1>10 DEF X, Y, Held

\* An instruction that produces r and gives up a reference to s.
LEMMA ForgottenStep ==
  ASSUME IInv, NEW s \in Objs, NEW k \in Nat, NEW r \in Seq(Value), NEW h,
         ProduceForgetting(s, k, r, h), Owned(h, Plus(Plus(Held, <<s>>), r))
  PROVE  IInv'
<1>1. /\ Operands(k) /\ Exchange(k, r) /\ heap' = ReleaseAll(h, Args(k))
      /\ lost' = [lost EXCEPT ![s] = @ + 1] /\ UNCHANGED consts
  BY DEF ProduceForgetting, Exchange
<1>2. k <= Len(stack)
  BY <1>1, TakesOperands
<1>3. /\ lost' \in [Objs -> Nat] /\ Slotted(Pinned', globals, stack, frames)
      /\ HeldBy(Pinned', globals, stack, frames) = Plus(Held, <<s>>)
  BY <1>1, PinnedMore
<1> DEFINE P == Pinned'
<1>4. Slotted(P, globals, stack, frames) /\ Owned(h, Plus(HeldBy(P, globals, stack, frames), r))
  BY <1>3
<1>5. Owned(ReleaseAll(h, SubSeq(stack, Len(stack) - k + 1, Len(stack))),
            HeldBy(P, globals, SubSeq(stack, 1, Len(stack) - k) \o r, frames))
  <2> HIDE DEF P
  <2> QED BY <1>2, <1>4, TakenOwned
<1>6. Owned(heap', HeldBy(Pinned', globals, Drop(stack, k) \o r, frames))
  BY <1>1, <1>5 DEF Args, Drop
<1> QED BY <1>1, <1>3, <1>6, ExchangedStep

\* An immediate is no reference.
LEMMA PlusImm ==
  ASSUME NEW E \in [Objs -> Nat]
  PROVE  Plus(E, <<Imm>>) = E /\ <<Imm>> \in Seq(Value) /\ LiveIn(heap, <<Imm>>)
<1>1. Imm \in Value /\ Imm \notin Objs
  BY RcHeapAssumption DEF Imm, Objs, Value
<1>2. <<Imm>> \in Seq(Value) /\ \A o \in Objs : Occurrences(<<Imm>>, o) = 0
  BY <1>1, OccOne
<1>3. \A o \in Objs : E[o] + Occurrences(<<Imm>>, o) = E[o]
  BY <1>2
<1>4. Plus(E, <<Imm>>) = E
  BY <1>3 DEF Plus
<1> QED BY <1>2, <1>4 DEF LiveIn

\* The same, by what is produced: nothing, an immediate, a live value.
LEMMA ProducedPlain ==
  ASSUME IInv, NEW k \in Nat, NEW h, Owned(h, Held),
         Produce(k, <<>>, h) \/ Produce(k, <<Imm>>, h)
  PROVE  IInv'
<1>1. Held \in [Objs -> Nat]
  BY Typed DEF IInv
<1>2. Plus(Held, <<>>) = Held /\ <<>> \in Seq(Value)
  BY <1>1, PlusNone
<1>3. Plus(Held, <<Imm>>) = Held /\ <<Imm>> \in Seq(Value)
  BY <1>1, PlusImm
<1>4. \A r \in Seq(Value) : Plus(Held, r) = Held /\ Produce(k, r, h) => IInv'
  BY ProducedStep
<1> QED BY <1>2, <1>3, <1>4

\* The heap is owned by the slots.
LEMMA OwnedNow ==
  ASSUME IInv
  PROVE  /\ Owned(heap, Held) /\ Held \in [Objs -> Nat]
         /\ heap \in [Objs -> Cell] /\ Shaped(heap)
  BY Typed DEF IInv, Owned

\* Instructions that make an object.
LEMMA MeasureStep == ASSUME IInv, NEW k \in Nat, Measure(k) PROVE IInv'
<1>1. Owned(heap, Held)
  BY OwnedNow
<1> QED BY <1>1, ProducedPlain DEF Measure

\* An instruction that leaves a new object for its operands.
LEMMA FreshStep ==
  ASSUME IInv, NEW k \in Nat, NEW h, NEW f \in Objs, Produce(k, <<f>>, h), Owned(h, Plus(Held, <<f>>))
  PROVE  IInv'
<1>1. <<f>> \in Seq(Value)
  BY DEF Value
<1>2. \A r \in Seq(Value) : Produce(k, r, h) /\ Owned(h, Plus(Held, r)) => IInv'
  BY ProducedStep
<1> QED BY <1>1, <1>2

\* A string is made.
LEMMA MakeStringStep == ASSUME IInv, NEW k \in Nat, MakeString(k) PROVE IInv'
<1>1. Owned(heap, Held) /\ Held \in [Objs -> Nat] /\ HasRoom(heap)
  BY OwnedNow DEF MakeString
<1>2. Owned(New(heap, "str", 0, <<>>), Plus(Held, <<Fresh(heap)>>)) /\ Fresh(heap) \in Objs
  BY <1>1, EmptyOwned
<1> QED BY <1>2, FreshStep DEF MakeString, NewString

\* join() makes a string with an extra reference.
LEMMA JoinStep == ASSUME IInv, Join PROVE IInv'
<1>1. Owned(heap, Held) /\ Held \in [Objs -> Nat] /\ HasRoom(heap)
  BY OwnedNow DEF Join
<1>2. Owned(New(heap, "str", 1, <<>>), Plus(Held, <<Fresh(heap)>>)) /\ Fresh(heap) \in Objs
  BY <1>1, EmptyOwned
<1> QED BY <1>2, FreshStep DEF Join, val_str_rc

\* An array or a closure of live values.
LEMMA HoldingStep ==
  ASSUME IInv, NEW k \in Nat, NEW vs \in Seq(Value), LiveIn(heap, vs), HasRoom(heap),
         \/ Produce(k, <<Fresh(heap)>>, val_array(heap, vs))
         \/ Produce(k, <<Fresh(heap)>>, val_func(heap, vs))
  PROVE  IInv'
<1>1. Owned(heap, Held) /\ Held \in [Objs -> Nat]
  BY OwnedNow
<1>2. Owned(RetainAll(New(heap, "arr", 1, vs), vs), Plus(Held, <<Fresh(heap)>>)) /\ Fresh(heap) \in Objs
  BY <1>1, HoldingOwned
<1>3. Owned(RetainAll(New(heap, "cap", 0, vs), vs), Plus(Held, <<Fresh(heap)>>))
  BY <1>1, HoldingOwned
<1>4. CASE Produce(k, <<Fresh(heap)>>, val_array(heap, vs))
  <2>1. Owned(val_array(heap, vs), Plus(Held, <<Fresh(heap)>>))
    BY <1>2 DEF val_array
  <2> QED BY <1>2, <1>4, <2>1, FreshStep
<1>5. CASE Produce(k, <<Fresh(heap)>>, val_func(heap, vs))
  <2>1. Owned(val_func(heap, vs), Plus(Held, <<Fresh(heap)>>))
    BY <1>3 DEF val_func
  <2> QED BY <1>2, <1>5, <2>1, FreshStep
<1> QED BY <1>4, <1>5

\* An array literal.
LEMMA NewArrStep == ASSUME IInv, NEW n \in Nat, NewArr(n) PROVE IInv'
<1>1. Operands(n) /\ HasRoom(heap) /\ Produce(n, <<Fresh(heap)>>, val_array(heap, Args(n)))
  BY DEF NewArr, Produce
<1>2. Args(n) \in Seq(Value) /\ LiveIn(heap, Args(n))
  BY <1>1, OperandsCarried DEF Carried
<1> QED BY <1>1, <1>2, HoldingStep

\* A closure takes its captured values.
LEMMA MakeClosureStep == ASSUME IInv, NEW n \in Nat, MakeClosure(n) PROVE IInv'
<1>1. Operands(n) /\ HasRoom(heap) /\ Produce(n, <<Fresh(heap)>>, val_func(heap, Args(n)))
  BY DEF MakeClosure, Produce
<1>2. Args(n) \in Seq(Value) /\ LiveIn(heap, Args(n))
  BY <1>1, OperandsCarried DEF Carried
<1> QED BY <1>1, <1>2, HoldingStep

\* What holds still holds when one reference more is counted.
LEMMA CarriedPlus ==
  ASSUME NEW E \in [Objs -> Nat], NEW f \in Objs, NEW vs, Carried(heap, E, vs)
  PROVE  /\ Plus(E, <<f>>) \in [Objs -> Nat] /\ Plus(E, <<f>>)[f] >= 1
         /\ \A o \in Objs : Occurrences(vs, o) # 0 => Plus(E, <<f>>)[o] >= 1
<1>1. f \in Value /\ <<f>> \in Seq(Value)
  BY DEF Value
<1>2. \A o \in Objs : Occurrences(<<f>>, o) \in Nat
  BY <1>1, OccAt
<1>3. Occurrences(<<f>>, f) = 1
  BY <1>1, OccOne
<1>4. \A o \in Objs : Plus(E, <<f>>)[o] = E[o] + Occurrences(<<f>>, o)
  BY DEF Plus
<1>5. Plus(E, <<f>>) \in [Objs -> Nat]
  BY <1>1, PlusTyped
<1>6. Plus(E, <<f>>)[f] >= 1
  BY <1>3, <1>4
<1>7. ASSUME NEW o \in Objs, Occurrences(vs, o) # 0 PROVE Plus(E, <<f>>)[o] >= 1
  <2>1. E[o] >= 1 /\ E[o] \in Nat
    BY <1>7 DEF Carried
  <2>2. Plus(E, <<f>>)[o] = E[o] + Occurrences(<<f>>, o) /\ Occurrences(<<f>>, o) \in Nat
    BY <1>2, <1>4
  <2> QED BY <2>1, <2>2
<1> QED BY <1>5, <1>6, <1>7

\* A map literal: the pairs are put one after the other.
LEMMA NewMapStep == ASSUME IInv, NEW n \in Nat, NewMap(n) PROVE IInv'
<1> DEFINE k == 2 * n
           f == Fresh(heap)
           h0 == New(heap, "map", 1, <<>>)
           E == Plus(Held, <<f>>)
<1>1. k \in Nat /\ HasRoom(heap) /\ Operands(k)
  BY DEF NewMap
<1>2. PICK h \in PutPairs(h0, f, Args(k)) : Produce(k, <<f>>, h)
  BY DEF NewMap
<1> HIDE DEF k
<1>3. Owned(heap, Held) /\ Held \in [Objs -> Nat]
  BY OwnedNow
<1>4. Owned(h0, E) /\ h0[f].kind = "map" /\ f \in Objs
  BY <1>1, <1>3, EmptyOwned
<1>5. Carried(heap, Held, Args(k))
  BY <1>1, OperandsCarried
<1> HIDE DEF f, h0
<1>6. E \in [Objs -> Nat] /\ E[f] >= 1
      /\ \A o \in Objs : Occurrences(Args(k), o) # 0 => E[o] >= 1
  BY <1>3, <1>4, <1>5, CarriedPlus
<1>7. Args(k) \in Seq(Value)
  BY <1>5 DEF Carried
<1> HIDE DEF E
<1>8. \A g \in PutPairs(h0, f, Args(k)) : Owned(g, E)
  BY <1>4, <1>6, <1>7, PutAllOwned
<1>9. Owned(h, E)
  BY <1>2, <1>8
<1> QED BY <1>1, <1>2, <1>4, <1>9, FreshStep DEF E

-----------------------------------------------------------------------------
(* Instructions that copy elements.                                        *)
\* The keys of a map are some of its elements.
LEMMA KeysLive ==
  ASSUME IInv, NEW m \in Objs, heap[m].kind = "map"
  PROVE  KeyRefs(heap, m) \in Seq(Value) /\ LiveIn(heap, KeyRefs(heap, m))
<1> DEFINE s == heap[m].items
           n == Len(s) \div 2
           t == KeyRefs(heap, m)
<1>1. Owned(heap, Held) /\ Held \in [Objs -> Nat]
  BY OwnedNow
<1>2. s \in Seq(Value) /\ LiveIn(heap, s)
  BY <1>1, LiveItems
<1> HIDE DEF s
<1>3. n \in Nat /\ \A i \in 1 .. n : 2 * i - 1 \in DOMAIN s
  <2> DEFINE l == Len(s)
  <2>1. l \in Nat /\ DOMAIN s = 1 .. l
    BY <1>2
  <2> HIDE DEF l
  <2>2. l \div 2 \in Nat /\ 2 * (l \div 2) <= l
    BY <2>1
  <2>3. \A i \in 1 .. l \div 2 : 2 * i - 1 \in 1 .. l
    BY <2>1, <2>2
  <2> QED BY <2>1, <2>2, <2>3 DEF l
<1>4. t = [i \in 1 .. n |-> s[2 * i - 1]]
  BY DEF KeyRefs, s
<1> HIDE DEF n, t
<1>5. \A i \in 1 .. n : t[i] \in Value /\ t[i] = s[2 * i - 1]
  BY <1>2, <1>3, <1>4
<1>6. t \in Seq(Value) /\ DOMAIN t = 1 .. n
  <2>1. t \in [1 .. n -> Value]
    BY <1>4, <1>5
  <2> QED BY <1>3, <2>1
<1>7. ASSUME NEW o \in Objs, Occurrences(t, o) # 0 PROVE heap[o].kind # "free"
  <2>1. PICK i \in 1 .. n : t[i] = o
    BY <1>6, <1>7, OccZero
  <2> DEFINE j == 2 * i - 1
  <2>2. j \in DOMAIN s /\ s[j] = o
    BY <1>3, <1>5, <2>1
  <2> HIDE DEF j
  <2>3. Occurrences(s, o) # 0
    BY <1>2, <2>2, OccAtLeast
  <2> QED BY <1>2, <2>3 DEF LiveIn
<1> QED BY <1>6, <1>7 DEF LiveIn, t

\* A part of one element.
LEMMA OneElement ==
  ASSUME NEW s \in Seq(Value), NEW n \in 1 .. Len(s)
  PROVE  SubSeq(s, n, n) = <<s[n]>>
<1> DEFINE t == SubSeq(s, n, n)
<1>1. t \in Seq(Value) /\ Len(t) = 1
  OBVIOUS
<1>2. t[1] = s[n]
  OBVIOUS
<1>3. s[n] \in Value
  OBVIOUS
<1> DEFINE v == s[n]
<1> HIDE DEF t, v
<1>4. t = <<v>>
  BY <1>1, <1>2, <1>3 DEF v
<1> QED BY <1>4 DEF t, v

\* The operand on top is the last one taken.
LEMMA TopArg ==
  ASSUME IInv, NEW k \in Nat, k >= 1, Operands(k)
  PROVE  /\ Top(stack) = Args(k)[k] /\ Top(stack) \in Value
         /\ LiveIn(heap, <<Top(stack)>>)
         /\ k = 1 => Args(1) = <<Top(stack)>>
<1>1. k <= Len(stack) /\ Len(stack) \in Nat /\ stack \in Seq(Value)
  BY TakesOperands DEF IInv, CppTypeOK
<1> DEFINE n == Len(stack)
           m == n - k + 1
<1>5. n \in Nat /\ m \in 1 .. n /\ k \in 1 .. (n - m) + 1 /\ m + k - 1 = n /\ (k = 1 => m = n)
  BY <1>1
<1>6. Args(k) = SubSeq(stack, m, n)
  BY DEF Args
<1> HIDE DEF m, n
<1>7. SubSeq(stack, m, n)[k] = stack[m + k - 1]
  BY <1>1, <1>5
<1>2. Args(k)[k] = stack[Len(stack)]
  BY <1>5, <1>6, <1>7 DEF n
<1>3. k = 1 => Args(1) = <<stack[Len(stack)]>>
  <2> HAVE k = 1
  <2>1. Args(1) = SubSeq(stack, n, n)
    BY <1>5, <1>6
  <2>2. SubSeq(stack, n, n) = <<stack[n]>>
    <3>1. n \in 1 .. Len(stack)
      BY <1>1, <1>5 DEF n
    <3> QED BY <1>1, <3>1, OneElement
  <2> QED BY <2>1, <2>2 DEF n
<1>4. Args(k)[k] \in Value /\ LiveIn(heap, <<Args(k)[k]>>)
  BY OperandsCarried
<1> QED BY <1>2, <1>3, <1>4 DEF Top

\* An array of a container's elements or keys.
LEMMA CopyOfStep == ASSUME IInv, CopyOf PROVE IInv'
<1> DEFINE m == Top(stack)
<1>1. Operands(1) /\ HasRoom(heap)
      /\ Produce(1, <<Fresh(heap)>>, val_array(heap, ElementsOf(m)))
      /\ m \in Objs /\ (heap[m].kind = "map" \/ heap[m].kind = "arr")
  BY DEF CopyOf, Is, IsRef
<1>2. Owned(heap, Held) /\ Held \in [Objs -> Nat]
  BY OwnedNow
<1> HIDE DEF m
<1>3. heap[m].items \in Seq(Value) /\ LiveIn(heap, heap[m].items)
  BY <1>1, <1>2, LiveItems
<1>4. ElementsOf(m) \in Seq(Value) /\ LiveIn(heap, ElementsOf(m))
  <2>1. CASE Is(heap, m, "map")
    BY <1>1, <2>1, KeysLive DEF ElementsOf, Is
  <2>2. CASE ~Is(heap, m, "map")
    BY <1>3, <2>2 DEF ElementsOf
  <2> QED BY <2>1, <2>2
<1> QED BY <1>1, <1>4, HoldingStep

\* The elements of two arrays are not freed.
LEMMA ConcatLive ==
  ASSUME NEW s \in Seq(Value), NEW t \in Seq(Value), LiveIn(heap, s), LiveIn(heap, t)
  PROVE  s \o t \in Seq(Value) /\ LiveIn(heap, s \o t)
<1>1. s \o t \in Seq(Value) /\ \A o : Occurrences(s \o t, o) = Occurrences(s, o) + Occurrences(t, o)
  BY OccConcat
<1>2. \A o \in Objs : Occurrences(s \o t, o) # 0 => Occurrences(s, o) # 0 \/ Occurrences(t, o) # 0
  BY <1>1
<1> QED BY <1>1, <1>2 DEF LiveIn

\* Two arrays joined.
LEMMA ConcatStep == ASSUME IInv, concat PROVE IInv'
<1> DEFINE p == Args(2)[1]
           q == Args(2)[2]
           s == heap[p].items
           t == heap[q].items
<1>1. /\ HasRoom(heap) /\ Operands(2) /\ p \in Objs /\ q \in Objs
      /\ Produce(2, <<Fresh(heap)>>, val_array(heap, s \o t))
  BY DEF concat, Is, IsRef
<1>2. Owned(heap, Held) /\ Held \in [Objs -> Nat]
  BY OwnedNow
<1> HIDE DEF p, q
<1>3. s \in Seq(Value) /\ LiveIn(heap, s) /\ t \in Seq(Value) /\ LiveIn(heap, t)
  BY <1>1, <1>2, LiveItems
<1> HIDE DEF s, t
<1> DEFINE items == s \o t
<1>4. items \in Seq(Value) /\ LiveIn(heap, items)
  BY <1>3, ConcatLive
<1>5. Produce(2, <<Fresh(heap)>>, val_array(heap, items))
  BY <1>1
<1> HIDE DEF items
<1> QED BY <1>1, <1>4, <1>5, HoldingStep

\* References are counted in any order.
LEMMA PlusSwap ==
  ASSUME NEW E \in [Objs -> Nat], NEW s \in Seq(Value), NEW t \in Seq(Value)
  PROVE  Plus(Plus(E, s), t) = Plus(Plus(E, t), s)
<1>1. \A o \in Objs : Occurrences(s, o) \in Nat /\ Occurrences(t, o) \in Nat /\ E[o] \in Nat
  BY OccAt
<1>2. \A o \in Objs : (E[o] + Occurrences(s, o)) + Occurrences(t, o)
                        = (E[o] + Occurrences(t, o)) + Occurrences(s, o)
  BY <1>1
<1>3. \A o \in Objs : /\ Plus(E, s)[o] = E[o] + Occurrences(s, o)
                      /\ Plus(E, t)[o] = E[o] + Occurrences(t, o)
  BY DEF Plus
<1>4. \A o \in Objs : Plus(E, s)[o] + Occurrences(t, o) = Plus(E, t)[o] + Occurrences(s, o)
  BY <1>2, <1>3
<1> DEFINE X == Plus(E, s)
           Y == Plus(E, t)
<1> HIDE DEF X, Y
<1>5. [o \in Objs |-> X[o] + Occurrences(t, o)] = [o \in Objs |-> Y[o] + Occurrences(s, o)]
  BY <1>4 DEF X, Y
<1>6. Plus(X, t) = Plus(Y, s)
  BY <1>5 DEF Plus
<1> QED BY <1>6 DEF X, Y

\* A new string, and the array it is pushed to.
LEMMA StringPushed ==
  ASSUME IInv, HasRoom(heap), HasRoom(NewString(heap))
  PROVE  LET s == Fresh(heap)
             g == NewString(heap)
         IN  /\ s \in Objs /\ Fresh(g) \in Objs
             /\ Owned(g, Plus(Held, <<s>>)) /\ Plus(Held, <<s>>) \in [Objs -> Nat]
             /\ Owned(val_array(g, <<s>>), Plus(Plus(Held, <<s>>), <<Fresh(g)>>))
             /\ Owned(NewString(g), Plus(Plus(Held, <<s>>), <<Fresh(g)>>))
<1> DEFINE s == Fresh(heap)
           g == NewString(heap)
           f == Fresh(g)
           D == Plus(Held, <<s>>)
<1>1. HasRoom(heap) /\ HasRoom(g)
  OBVIOUS
<1>2. Owned(heap, Held) /\ Held \in [Objs -> Nat]
  BY OwnedNow
<1>3. s \in Objs /\ g[s].kind = "str" /\ Owned(g, D)
  BY <1>1, <1>2, EmptyOwned DEF NewString
<1> HIDE DEF s, g
<1>4. s \in Value /\ <<s>> \in Seq(Value)
  BY <1>3 DEF Value
<1>5. D \in [Objs -> Nat]
  BY <1>2, <1>4, PlusTyped
<1> HIDE DEF D
<1>6. LiveIn(g, <<s>>)
  <2>1. \A o \in Objs : Occurrences(<<s>>, o) # 0 => o = s
    BY <1>4, OccOne
  <2>2. g[s].kind # "free"
    BY <1>3
  <2> QED BY <2>1, <2>2 DEF LiveIn
<1>7. \A vs \in Seq(Value) : LiveIn(g, vs) =>
        Owned(RetainAll(New(g, "arr", 1, vs), vs), Plus(D, <<Fresh(g)>>)) /\ Fresh(g) \in Objs
  BY <1>1, <1>3, <1>5, HoldingOwned
<1>8. Owned(val_array(g, <<s>>), Plus(D, <<f>>)) /\ f \in Objs
  BY <1>4, <1>6, <1>7 DEF val_array
<1>9. Owned(NewString(g), Plus(D, <<f>>))
  BY <1>1, <1>3, <1>5, EmptyOwned DEF NewString
<1> QED BY <1>3, <1>5, <1>8, <1>9 DEF s, g, D

\* An array of new strings, whose first references are released.
LEMMA StringsStep == ASSUME IInv, Strings PROVE IInv'
<1> DEFINE s == Fresh(heap)
           g == NewString(heap)
           f == Fresh(g)
           full == val_array(g, <<s>>)
           E == Plus(Held, <<f>>)
<1>1. HasRoom(heap) /\ HasRoom(g) /\ Produce(1, <<f>>, release_value(full, s))
  BY DEF Strings
<1>2. /\ s \in Objs /\ f \in Objs
      /\ Owned(full, Plus(Plus(Held, <<s>>), <<f>>)) /\ Held \in [Objs -> Nat]
  BY <1>1, StringPushed, OwnedNow
<1> HIDE DEF s, g, f, full
<1>3. s \in Value /\ <<s>> \in Seq(Value) /\ <<f>> \in Seq(Value)
  BY <1>2 DEF Value
<1>4. \A p, q \in Seq(Value) : Plus(Plus(Held, p), q) = Plus(Plus(Held, q), p)
  BY <1>2, PlusSwap
<1>5. Owned(full, Plus(E, <<s>>))
  BY <1>2, <1>3, <1>4
<1>6. E \in [Objs -> Nat]
  BY <1>2, <1>3, PlusTyped
<1> HIDE DEF E
<1>7. \A vs \in Seq(Value) : Owned(full, Plus(E, vs)) => Owned(ReleaseAll(full, vs), E)
  BY <1>6, ReleaseOwned
<1>8. Owned(release_value(full, s), E)
  BY <1>3, <1>5, <1>7 DEF release_value
<1> QED BY <1>1, <1>2, <1>8, FreshStep DEF E

\* The same by a native that forgets them.
LEMMA StringsForgottenStep == ASSUME IInv, StringsForgotten PROVE IInv'
<1> DEFINE s == Fresh(heap)
           g == NewString(heap)
           f == Fresh(g)
           full == val_array(g, <<s>>)
<1>1. HasRoom(heap) /\ HasRoom(g) /\ ProduceForgetting(s, 1, <<f>>, full)
  BY DEF StringsForgotten
<1>2. s \in Objs /\ f \in Objs /\ Owned(full, Plus(Plus(Held, <<s>>), <<f>>))
  BY <1>1, StringPushed
<1> HIDE DEF s, g, f, full
<1>3. <<f>> \in Seq(Value)
  BY <1>2 DEF Value
<1> QED BY <1>1, <1>2, <1>3, ForgottenStep

\* asset() gives up a string it made.
LEMMA AssetStep == ASSUME IInv, asset PROVE IInv'
<1> DEFINE s == Fresh(heap)
           g == NewString(heap)
           f == Fresh(g)
           two == NewString(g)
<1>1. HasRoom(heap) /\ HasRoom(g) /\ ProduceForgetting(s, 1, <<f>>, two)
  BY DEF asset
<1>2. s \in Objs /\ f \in Objs /\ Owned(two, Plus(Plus(Held, <<s>>), <<f>>))
  BY <1>1, StringPushed
<1> HIDE DEF s, g, f, two
<1>3. <<f>> \in Seq(Value)
  BY <1>2 DEF Value
<1> QED BY <1>1, <1>2, <1>3, ForgottenStep

-----------------------------------------------------------------------------
(* Instructions that read, write and push values.                          *)
\* What an index finds is live.
LEMMA ElementLive ==
  ASSUME IInv, NEW c, NEW k, NEW v \in Elements(c, k)
  PROVE  v \in Value /\ LiveIn(heap, <<v>>)
<1>1. Owned(heap, Held) /\ Held \in [Objs -> Nat] /\ heap \in [Objs -> Cell] /\ Shaped(heap)
  BY OwnedNow
<1>2. Imm \in Value /\ LiveIn(heap, <<Imm>>)
  BY <1>1, PlusImm DEF Value
<1>3. CASE Is(heap, c, "arr")
  <2>1. c \in Objs
    BY <1>3 DEF Is, IsRef
  <2>2. \E i \in DOMAIN heap[c].items : v = heap[c].items[i]
    BY <1>3 DEF Elements
  <2>3. \A i \in DOMAIN heap[c].items :
          heap[c].items[i] \in Value /\ LiveIn(heap, <<heap[c].items[i]>>)
    BY <1>1, <2>1, LiveItems
  <2> QED BY <2>2, <2>3
<1>4. CASE ~Is(heap, c, "arr") /\ Is(heap, c, "map")
  <2>1. c \in Objs /\ heap[c].kind = "map"
    BY <1>4 DEF Is, IsRef
  <2>2. \E j \in Matches(heap, c, k) : v = IF j = 0 THEN Imm ELSE heap[c].items[j + 1]
    BY <1>4 DEF Elements
  <2>3. PICK j \in Matches(heap, c, k) : v = IF j = 0 THEN Imm ELSE heap[c].items[j + 1]
    BY <2>2
  <2>4. CASE j = 0
    BY <1>2, <2>3, <2>4
  <2>5. CASE j # 0
    <3>1. j + 1 \in DOMAIN heap[c].items
      BY <1>1, <2>1, <2>5, MatchAt
    <3> DEFINE i == j + 1
    <3>2. i \in DOMAIN heap[c].items /\ v = heap[c].items[i]
      BY <2>3, <2>5, <3>1
    <3> HIDE DEF i
    <3> QED BY <1>1, <2>1, <3>2, LiveItems
  <2> QED BY <2>4, <2>5
<1>5. CASE ~Is(heap, c, "arr") /\ ~Is(heap, c, "map")
  BY <1>5 DEF Elements
<1> QED BY <1>3, <1>4, <1>5

\* A live value is held once more.
LEMMA RetainedOwned ==
  ASSUME IInv, NEW v \in Value, LiveIn(heap, <<v>>)
  PROVE  <<v>> \in Seq(Value) /\ Owned(retain_value(heap, v), Plus(Held, <<v>>))
<1>1. Owned(heap, Held) /\ Held \in [Objs -> Nat] /\ heap \in [Objs -> Cell]
  BY OwnedNow
<1>2. <<v>> \in Seq(Value)
  OBVIOUS
<1>3. \A vs \in Seq(Value) : LiveIn(heap, vs) => Owned(RetainAll(heap, vs), Plus(Held, vs))
  BY <1>1, RetainOwned
<1>4. retain_value(heap, v) = RetainAll(heap, <<v>>)
  BY <1>1, RetainOne
<1>5. Owned(RetainAll(heap, <<v>>), Plus(Held, <<v>>))
  BY <1>2, <1>3
<1> QED BY <1>2, <1>4, <1>5

\* Reading an element retains it before its container is released.
LEMMA IndexStep == ASSUME IInv, Index PROVE IInv'
<1>1. PICK v \in Elements(Args(2)[1], Args(2)[2]) : Produce(2, <<v>>, retain_value(heap, v))
  BY DEF Index
<1>2. v \in Value /\ LiveIn(heap, <<v>>)
  BY ElementLive
<1>3. <<v>> \in Seq(Value) /\ Owned(retain_value(heap, v), Plus(Held, <<v>>))
  BY <1>2, RetainedOwned
<1>4. \A h : \A r \in Seq(Value) : Produce(2, r, h) /\ Owned(h, Plus(Held, r)) => IInv'
  BY ProducedStep
<1> QED BY <1>1, <1>3, <1>4

\* Each operand taken is held.
LEMMA ArgCarried ==
  ASSUME IInv, NEW n \in Nat, Operands(n), NEW i \in 1 .. n, NEW v, v = Args(n)[i]
  PROVE  /\ v \in Value /\ Carried(heap, Held, <<v>>) /\ LiveIn(heap, <<v>>)
         /\ v \in Objs => Held[v] >= 1
  BY OperandsCarried

\* Writing an element releases the one that was there.
LEMMA SetIndexStep == ASSUME IInv, SetIndex PROVE IInv'
<1> DEFINE c == Args(3)[1]
           k == Args(3)[2]
           v == Args(3)[3]
<1>1. Operands(3)
  BY DEF SetIndex
<1>2. Owned(heap, Held) /\ Held \in [Objs -> Nat]
  BY OwnedNow
<1>3. /\ k \in Value /\ v \in Value
      /\ Carried(heap, Held, <<k>>) /\ Carried(heap, Held, <<v>>)
      /\ c \in Objs => Held[c] >= 1
  <2>1. 1 \in 1 .. 3 /\ 2 \in 1 .. 3 /\ 3 \in 1 .. 3 /\ 3 \in Nat
    OBVIOUS
  <2>2. c = Args(3)[1] /\ k = Args(3)[2] /\ v = Args(3)[3]
    OBVIOUS
  <2> HIDE DEF c, k, v
  <2>3. k \in Value /\ Carried(heap, Held, <<k>>)
    BY <1>1, <2>1, <2>2, ArgCarried
  <2>4. v \in Value /\ Carried(heap, Held, <<v>>)
    BY <1>1, <2>1, <2>2, ArgCarried
  <2>5. c \in Objs => Held[c] >= 1
    BY <1>1, <2>1, <2>2, ArgCarried
  <2> QED BY <2>3, <2>4, <2>5
<1>4. \/ /\ Is(heap, c, "arr")
         /\ \E i \in DOMAIN heap[c].items : Produce(3, <<>>, rc_array_set(heap, c, i, v))
      \/ /\ Is(heap, c, "map")
         /\ \E j \in Matches(heap, c, k) : Produce(3, <<>>, SetEntry(heap, c, k, v, j))
  BY DEF SetIndex
<1> HIDE DEF c, k, v
<1>5. \A o \in Objs : Occurrences(<<v>>, o) # 0 => Held[o] >= 1
  BY <1>3 DEF Carried
<1>6. \A o \in Objs : Occurrences(<<k, v>>, o) # 0 => Held[o] >= 1
  <2> TAKE o \in Objs
  <2> HAVE Occurrences(<<k, v>>, o) # 0
  <2>1. Occurrences(<<k>>, o) # 0 \/ Occurrences(<<v>>, o) # 0
    <3>1. /\ Occurrences(<<k, v>>, o) = Occurrences(<<k>>, o) + Occurrences(<<v>>, o)
          /\ Occurrences(<<k>>, o) \in Nat /\ Occurrences(<<v>>, o) \in Nat
      BY <1>3, OccPair
    <3> QED BY <3>1
  <2> QED BY <1>3, <2>1 DEF Carried
<1>7. CASE Is(heap, c, "arr") /\ \E i \in DOMAIN heap[c].items : Produce(3, <<>>, rc_array_set(heap, c, i, v))
  <2>1. PICK i \in DOMAIN heap[c].items : Produce(3, <<>>, rc_array_set(heap, c, i, v))
    BY <1>7
  <2>2. c \in Objs /\ heap[c].kind = "arr" /\ Held[c] >= 1
    BY <1>3, <1>7 DEF Is, IsRef
  <2>3. Owned(rc_array_set(heap, c, i, v), Held)
    BY <1>2, <1>3, <1>5, <2>2, ArraySetOwned
  <2> QED BY <2>1, <2>3, ProducedPlain
<1>8. CASE Is(heap, c, "map") /\ \E j \in Matches(heap, c, k) : Produce(3, <<>>, SetEntry(heap, c, k, v, j))
  <2>1. PICK j \in Matches(heap, c, k) : Produce(3, <<>>, SetEntry(heap, c, k, v, j))
    BY <1>8
  <2>2. c \in Objs /\ heap[c].kind = "map" /\ Held[c] >= 1
    BY <1>3, <1>8 DEF Is, IsRef
  <2>3. Owned(SetEntry(heap, c, k, v, j), Held)
    BY <1>2, <1>3, <1>6, <2>2, MapSetOwned
  <2> QED BY <2>1, <2>3, ProducedPlain
<1> QED BY <1>4, <1>7, <1>8

\* An element is appended.
LEMMA PushStep == ASSUME IInv, PushItem PROVE IInv'
<1> DEFINE a == Args(2)[1]
           v == Args(2)[2]
<1>1. Operands(2) /\ a \in Objs /\ heap[a].kind = "arr" /\ Produce(2, <<Imm>>, rc_array_push(heap, a, v))
  BY DEF PushItem, Is, IsRef
<1>2. Owned(heap, Held) /\ Held \in [Objs -> Nat]
  BY OwnedNow
<1>3. v \in Value /\ LiveIn(heap, <<v>>)
  BY <1>1, OperandsCarried
<1> HIDE DEF a, v
<1>4. Owned(rc_array_push(heap, a, v), Held)
  BY <1>1, <1>2, <1>3, PushOwned
<1> QED BY <1>1, <1>4, ProducedPlain

\* An entry is removed.
LEMMA RemoveKeyStep == ASSUME IInv, RemoveKey PROVE IInv'
<1> DEFINE m == Args(2)[1]
           k == Args(2)[2]
<1>1. m \in Objs /\ heap[m].kind = "map"
  BY DEF RemoveKey, Is, IsRef
<1>2. PICK j \in Matches(heap, m, k) : Produce(2, <<Imm>>, RemoveEntry(heap, m, j))
  BY DEF RemoveKey
<1>3. Owned(heap, Held) /\ Held \in [Objs -> Nat]
  BY OwnedNow
<1> HIDE DEF m, k
<1>4. Owned(RemoveEntry(heap, m, j), Held)
  BY <1>1, <1>3, MapRemoveOwned
<1> QED BY <1>2, <1>4, ProducedPlain

\* Instructions that push what a slot holds.
LEMMA PushedStep ==
  ASSUME IInv, NEW v \in Value, Operands(0), Replace(0, <<v>>), Owned(heap', Plus(Held, <<v>>))
  PROVE  IInv'
<1>1. Operands(0) /\ 0 <= Len(stack)
  BY TakesOperands
<1>2. Slotted(Pinned, globals, stack, frames)
  BY Typed DEF IInv
<1>3. <<v>> \in Seq(Value)
  OBVIOUS
<1> DEFINE d == SubSeq(stack, 1, Len(stack) - 0)
           b == SubSeq(stack, Len(stack) - 0 + 1, Len(stack))
           E == HeldBy(Pinned, globals, d \o <<v>>, frames)
<1>4. /\ b \in Seq(Value) /\ Len(b) = 0 /\ Slotted(Pinned, globals, d \o <<v>>, frames)
      /\ Plus(HeldBy(Pinned, globals, stack, frames), <<v>>) = Plus(E, b)
  <2>1. \A r \in Seq(Value) :
          /\ b \in Seq(Value) /\ Len(b) = 0 /\ Slotted(Pinned, globals, d \o r, frames)
          /\ Plus(HeldBy(Pinned, globals, stack, frames), r) = Plus(HeldBy(Pinned, globals, d \o r, frames), b)
    BY <1>1, <1>2, TakenHeld
  <2> QED BY <1>3, <2>1
<1>5. b = <<>>
  <2> HIDE DEF b
  <2> QED BY <1>4
<1>6. E \in [Objs -> Nat]
  <2> DEFINE t == d \o <<v>>
  <2> HIDE DEF t
  <2>1. HeldBy(Pinned, globals, t, frames) \in [Objs -> Nat]
    BY <1>4, HeldTyped DEF t
  <2> QED BY <2>1 DEF t
<1>7. Plus(E, <<>>) = E
  <2> HIDE DEF E
  <2> QED BY <1>6, PlusNone
<1>8. Owned(heap', E)
  <2> HIDE DEF E, b
  <2> QED BY <1>4, <1>5, <1>7 DEF Held
<1>9. Owned(heap', HeldBy(Pinned, globals, Drop(stack, 0) \o <<v>>, frames))
  BY <1>8 DEF Drop
<1>10. \A r \in Seq(Value) :
         Replace(0, r) /\ Owned(heap', HeldBy(Pinned, globals, Drop(stack, 0) \o r, frames)) => IInv'
  BY <1>1, ReplacedStep
<1> QED BY <1>3, <1>9, <1>10

\* An instruction that pushes a value it retained.
LEMMA RetainedStep ==
  ASSUME IInv, NEW v \in Value, LiveIn(heap, <<v>>), Operands(0), Replace(0, <<v>>),
         heap' = retain_value(heap, v)
  PROVE  IInv'
<1>1. Owned(retain_value(heap, v), Plus(Held, <<v>>))
  BY RetainedOwned
<1> QED BY <1>1, PushedStep

\* What is in a slot is live.
LEMMA SlotLive ==
  ASSUME IInv, NEW s \in Seq(Value), NEW i \in DOMAIN s,
         \A o \in Objs : Occurrences(s, o) # 0 => Held[o] >= 1
  PROVE  s[i] \in Value /\ LiveIn(heap, <<s[i]>>)
<1> DEFINE v == s[i]
<1>1. v \in Value
  OBVIOUS
<1>2. v \in Objs => Held[v] >= 1
  BY OccAtLeast
<1> HIDE DEF v
<1>3. <<v>> \in Seq(Value) /\ \A o \in Objs : Occurrences(<<v>>, o) # 0 => o = v
  BY <1>1, OccOne
<1>4. \A o \in Objs : Occurrences(<<v>>, o) # 0 => Held[o] >= 1
  BY <1>2, <1>3
<1>5. LiveIn(heap, <<v>>)
  BY <1>4, OwnedNow, LiveHeld
<1> QED BY <1>1, <1>5 DEF v

\* An immediate is pushed.
LEMMA ImmediateStep == ASSUME IInv, Immediate PROVE IInv'
<1>1. Operands(0) /\ Replace(0, <<Imm>>) /\ heap' = heap /\ Imm \in Value
  BY DEF Immediate, Value
<1>2. Owned(heap, Held) /\ Plus(Held, <<Imm>>) = Held
  BY OwnedNow, PlusImm
<1> QED BY <1>1, <1>2, PushedStep

\* A constant is pushed.
LEMMA ConstStep == ASSUME IInv, NEW i, Const(i) PROVE IInv'
<1>1. Operands(0) /\ i \in DOMAIN consts /\ Replace(0, <<consts[i]>>)
      /\ heap' = retain_value(heap, consts[i])
  BY DEF Const
<1>2. consts \in Seq(Value)
  BY DEF IInv, CppTypeOK
<1>3. \A o \in Objs : Occurrences(consts, o) # 0 => Held[o] >= 1
  <2> TAKE o \in Objs
  <2>1. Occurrences(consts, o) \in Nat
    BY <1>2, OccAt
  <2>2. Occurrences(consts, o) <= Occurrences(consts, o)
    BY <2>1
  <2> QED BY <1>2, <2>2, HeldSlots
<1>4. consts[i] \in Value /\ LiveIn(heap, <<consts[i]>>)
  BY <1>1, <1>2, <1>3, SlotLive
<1> DEFINE v == consts[i]
<1> HIDE DEF v
<1>5. v \in Value /\ LiveIn(heap, <<v>>) /\ Replace(0, <<v>>) /\ heap' = retain_value(heap, v)
  BY <1>1, <1>4 DEF v
<1> QED BY <1>1, <1>5, RetainedStep

\* A global is pushed, null when it was never set.
LEMMA GetGlobalStep == ASSUME IInv, NEW s \in Nat, s >= 1, GetGlobal(s) PROVE IInv'
<1> DEFINE v == IF s <= Len(globals) THEN globals[s] ELSE Imm
<1>1. Operands(0) /\ Replace(0, <<v>>) /\ heap' = retain_value(heap, v)
  BY DEF GetGlobal
<1>2. globals \in Seq(Value)
  BY DEF IInv, CppTypeOK
<1>3. \A o \in Objs : Occurrences(globals, o) # 0 => Held[o] >= 1
  <2> TAKE o \in Objs
  <2>1. Occurrences(globals, o) \in Nat
    BY <1>2, OccAt
  <2>2. Occurrences(globals, o) <= Occurrences(globals, o)
    BY <2>1
  <2> QED BY <1>2, <2>2, HeldSlots
<1>4. v \in Value /\ LiveIn(heap, <<v>>)
  <2>1. CASE s <= Len(globals)
    <3>1. s \in DOMAIN globals
      BY <1>2, <2>1
    <3>2. globals[s] \in Value /\ LiveIn(heap, <<globals[s]>>)
      BY <1>2, <1>3, <3>1, SlotLive
    <3> QED BY <2>1, <3>2
  <2>2. CASE ~(s <= Len(globals))
    BY <2>2, OwnedNow, PlusImm DEF Value
  <2> QED BY <2>1, <2>2
<1> HIDE DEF v
<1> QED BY <1>1, <1>4, RetainedStep

\* What a local of a frame holds, is held.
LEMMA LocalLive ==
  ASSUME IInv, NEW f \in DOMAIN frames, NEW s \in 1 .. NLocals
  PROVE  frames[f].locals[s] \in Value /\ LiveIn(heap, <<frames[f].locals[s]>>)
<1> DEFINE v == frames[f].locals[s]
           l == frames[f].locals
<1>1. frames \in Seq(Frame)
  BY DEF IInv, CppTypeOK
<1>2. l \in Seq(Value) /\ DOMAIN l = 1 .. NLocals /\ v \in Value
  BY <1>1, FrameLocals
<1>3. Family(Locals(frames), DOMAIN frames) /\ Locals(frames)[f] = l
  BY <1>1, LocalsFamily
<1>4. v \in Objs => Spread(Locals(frames), v) \in Nat /\ Spread(Locals(frames), v) # 0
  <2> HAVE v \in Objs
  <2> DEFINE F == Locals(frames)
  <2>1. F[f][s] = v /\ s \in DOMAIN F[f]
    BY <1>2, <1>3
  <2> HIDE DEF F, v
  <2>2. Spread(F, v) \in Nat /\ Spread(F, v) # 0
    BY <1>3, <2>1, SpreadNat DEF F
  <2> QED BY <2>2 DEF F
<1> HIDE DEF v, l
<1>5. <<v>> \in Seq(Value) /\ \A o \in Objs : Occurrences(<<v>>, o) = IF v = o THEN 1 ELSE 0
  BY <1>2, OccOne
<1>6. ASSUME NEW o \in Objs, Occurrences(<<v>>, o) # 0 PROVE Held[o] >= 1
  <2>1. v = o /\ Occurrences(<<v>>, o) = 1
    BY <1>5, <1>6
  <2>2. Occurrences(<<v>>, o) <= Spread(Locals(frames), o)
    BY <1>4, <2>1
  <2>3. \A vs \in Seq(Value) : Occurrences(vs, o) # 0 /\ Occurrences(vs, o) <= Spread(Locals(frames), o)
          => Held[o] >= 1
    BY HeldSlots
  <2> QED BY <1>5, <1>6, <2>2, <2>3
<1>7. LiveIn(heap, <<v>>)
  BY <1>6, OwnedNow, LiveHeld
<1> QED BY <1>2, <1>7 DEF v

\* A local is pushed.
LEMMA LoadStep == ASSUME IInv, NEW s \in 1 .. NLocals, Load(s) PROVE IInv'
<1> DEFINE v == Top(frames).locals[s]
<1>1. Operands(0) /\ Replace(0, <<v>>) /\ heap' = retain_value(heap, v) /\ status = "run"
  BY DEF Load, Operands
<1>2. Top(frames) = frames[Len(frames)] /\ Len(frames) \in DOMAIN frames
  BY <1>1, RunningFrames
<1>3. v \in Value /\ LiveIn(heap, <<v>>)
  BY <1>2, LocalLive
<1> HIDE DEF v
<1> QED BY <1>1, <1>3, RetainedStep

-----------------------------------------------------------------------------
(* Instructions that drop operands.                                        *)
\* The operand on top is released.
LEMMA PopStep == ASSUME IInv, Pop PROVE IInv'
<1>1. Operands(1) /\ Replace(1, <<>>) /\ heap' = ReleaseAll(heap, <<Top(stack)>>)
  BY DEF Pop, release_value
<1>2. Args(1) = <<Top(stack)>>
  BY <1>1, TopArg
<1>3. Produce(1, <<>>, heap)
  BY <1>1, <1>2 DEF Produce
<1> QED BY <1>3, OwnedNow, ProducedPlain

\* Both operands, one after the other.
LEMMA TwoArgs ==
  ASSUME IInv, Operands(2)
  PROVE  /\ Args(2)[1] \in Value /\ Args(2)[2] \in Value
         /\ \A o : /\ Occurrences(<<Args(2)[1]>>, o) \in Nat /\ Occurrences(<<Args(2)[2]>>, o) \in Nat
                   /\ Occurrences(Args(2), o)
                        = Occurrences(<<Args(2)[1]>>, o) + Occurrences(<<Args(2)[2]>>, o)
<1> DEFINE t == Args(2)
           p == t[1]
           q == t[2]
<1>1. t \in Seq(Value) /\ Len(t) = 2
  BY TakesOperands
<1> HIDE DEF t
<1>2. p \in Value /\ q \in Value /\ t = <<p, q>>
  BY <1>1, SMTT(30)
<1> HIDE DEF p, q
<1>3. \A o : /\ Occurrences(<<p>>, o) \in Nat /\ Occurrences(<<q>>, o) \in Nat
             /\ Occurrences(<<p, q>>, o) = Occurrences(<<p>>, o) + Occurrences(<<q>>, o)
  BY <1>2, OccPair
<1> QED BY <1>2, <1>3 DEF p, q, t

\* One of two operands stays, the other is released.
LEMMA OneStays ==
  ASSUME IInv, Operands(2), NEW r \in Value, NEW w \in Value,
         \/ r = Args(2)[1] /\ w = Args(2)[2]
         \/ r = Args(2)[2] /\ w = Args(2)[1],
         Replace(2, <<r>>), heap' = release_value(heap, w)
  PROVE  IInv'
<1> DEFINE d == Drop(stack, 2)
           b == Args(2)
<1>1. Cut(stack, 2, d, b)
  BY TakesOperands
<1>2. \A o : Occurrences(<<r>>, o) \in Nat /\ Occurrences(<<w>>, o) \in Nat
             /\ Occurrences(b, o) = Occurrences(<<r>>, o) + Occurrences(<<w>>, o)
  <2>1. \A o : /\ Occurrences(<<Args(2)[1]>>, o) \in Nat /\ Occurrences(<<Args(2)[2]>>, o) \in Nat
               /\ Occurrences(Args(2), o)
                    = Occurrences(<<Args(2)[1]>>, o) + Occurrences(<<Args(2)[2]>>, o)
    BY TwoArgs
  <2> QED BY <2>1
<1> HIDE DEF d, b
<1>3. d \in Seq(Value)
      /\ \A o : Occurrences(stack, o) = Occurrences(d, o) + Occurrences(b, o)
                /\ Occurrences(d, o) \in Nat /\ Occurrences(b, o) \in Nat
  BY <1>1, CutHeld
<1>4. <<r>> \in Seq(Value) /\ <<w>> \in Seq(Value) /\ <<>> \in Seq(Value)
  OBVIOUS
<1> DEFINE t == d \o <<r>>
<1>5. t \in Seq(Value) /\ \A o : Occurrences(t, o) = Occurrences(d, o) + Occurrences(<<r>>, o)
  BY <1>3, <1>4, OccConcat
<1> HIDE DEF t
<1>6. Slotted(Pinned, globals, stack, frames)
  BY Typed DEF IInv
<1>7. Slotted(Pinned, globals, t, frames)
  BY <1>5, <1>6 DEF Slotted
<1>8. Trades(stack, frames, <<>>, t, frames, <<w>>)
  <2> SUFFICES ASSUME NEW o \in Objs
               PROVE  Occurrences(stack, o) + Spread(Locals(frames), o) + Occurrences(<<>>, o)
                        = Occurrences(t, o) + Spread(Locals(frames), o) + Occurrences(<<w>>, o)
    BY DEF Trades
  <2>1. Occurrences(<<>>, o) = 0
    BY OccEmpty
  <2>2. Occurrences(stack, o) = Occurrences(d, o) + Occurrences(b, o)
        /\ Occurrences(d, o) \in Nat /\ Occurrences(b, o) \in Nat
    BY <1>3
  <2>3. Occurrences(<<r>>, o) \in Nat /\ Occurrences(<<w>>, o) \in Nat
        /\ Occurrences(b, o) = Occurrences(<<r>>, o) + Occurrences(<<w>>, o)
    BY <1>2
  <2>4. Occurrences(t, o) = Occurrences(d, o) + Occurrences(<<r>>, o)
    BY <1>5
  <2>5. Spread(Locals(frames), o) \in Nat
    BY <1>6, SpreadLocals DEF Slotted
  <2> QED BY <2>1, <2>2, <2>3, <2>4, <2>5
<1> DEFINE Y == HeldBy(Pinned, globals, t, frames)
<1>9. Plus(Held, <<>>) = Plus(Y, <<w>>)
  <2> DEFINE X == HeldBy(Pinned, globals, stack, frames)
  <2>1. \A c, e \in Seq(Value) : Trades(stack, frames, c, t, frames, e) => Plus(X, c) = Plus(Y, e)
    BY <1>6, <1>7, HeldTrades
  <2> HIDE DEF X, Y
  <2>2. Plus(X, <<>>) = Plus(Y, <<w>>)
    BY <1>4, <1>8, <2>1
  <2> QED BY <2>2 DEF X, Held
<1>10. Y \in [Objs -> Nat]
  BY <1>7, HeldTyped
<1> HIDE DEF Y
<1>11. Owned(heap, Held) /\ Plus(Held, <<>>) = Held
  BY OwnedNow, PlusNone
<1>12. Owned(heap, Plus(Y, <<w>>))
  BY <1>9, <1>11
<1>13. Owned(ReleaseAll(heap, <<w>>), Y)
  <2>1. \A vs \in Seq(Value) : Owned(heap, Plus(Y, vs)) => Owned(ReleaseAll(heap, vs), Y)
    BY <1>10, ReleaseOwned
  <2> QED BY <1>4, <1>12, <2>1
<1>14. Owned(heap', HeldBy(Pinned, globals, Drop(stack, 2) \o <<r>>, frames))
  BY <1>13 DEF release_value, Y, t, d
<1>15. \A q \in Seq(Value) :
         Replace(2, q) /\ Owned(heap', HeldBy(Pinned, globals, Drop(stack, 2) \o q, frames)) => IInv'
  BY ReplacedStep
<1> QED BY <1>4, <1>14, <1>15

\* ?? keeps one operand and releases the other.
LEMMA CoalesceStep == ASSUME IInv, Coalesce PROVE IInv'
<1> DEFINE p == Args(2)[1]
           q == Args(2)[2]
<1>1. Operands(2)
      /\ \/ Replace(2, <<q>>) /\ heap' = release_value(heap, p)
         \/ Replace(2, <<p>>) /\ heap' = release_value(heap, q)
  BY DEF Coalesce
<1>2. p \in Value /\ q \in Value
  BY <1>1, TwoArgs
<1>3. CASE Replace(2, <<q>>) /\ heap' = release_value(heap, p)
  <2>1. \A r, w \in Value : r = Args(2)[2] /\ w = Args(2)[1] /\ Replace(2, <<r>>)
          /\ heap' = release_value(heap, w) => IInv'
    BY <1>1, OneStays
  <2> QED BY <1>2, <1>3, <2>1
<1>4. CASE Replace(2, <<p>>) /\ heap' = release_value(heap, q)
  <2>1. \A r, w \in Value : r = Args(2)[1] /\ w = Args(2)[2] /\ Replace(2, <<r>>)
          /\ heap' = release_value(heap, w) => IInv'
    BY <1>1, OneStays
  <2> QED BY <1>2, <1>4, <2>1
<1> QED BY <1>1, <1>3, <1>4

\* An assertion that holds releases its operands.
LEMMA AssertHoldsStep == ASSUME IInv, AssertHolds PROVE IInv'
<1> DEFINE b == Args(2)
           d == Drop(stack, 2)
           X == HeldBy(Pinned, globals, d \o <<>>, frames)
<1>1. Operands(2) /\ Replace(2, <<>>) /\ heap' = ReleaseAll(heap, Reverse(b))
  BY DEF AssertHolds
<1>2. 2 <= Len(stack) /\ b \in Seq(Value) /\ <<>> \in Seq(Value) /\ d \in Seq(Value)
  BY <1>1, TakesOperands
<1>3. Slotted(Pinned, globals, stack, frames)
  BY Typed DEF IInv
<1>4. Plus(Held, <<>>) = Plus(X, b) /\ Slotted(Pinned, globals, d \o <<>>, frames)
  <2>1. \A r \in Seq(Value) :
          LET a == SubSeq(stack, 1, Len(stack) - 2)
          IN  /\ Plus(HeldBy(Pinned, globals, stack, frames), r)
                   = Plus(HeldBy(Pinned, globals, a \o r, frames),
                          SubSeq(stack, Len(stack) - 2 + 1, Len(stack)))
              /\ Slotted(Pinned, globals, a \o r, frames)
    BY <1>2, <1>3, TakenHeld
  <2> QED BY <1>2, <2>1 DEF Held, Drop, Args
<1>5. X \in [Objs -> Nat]
  BY <1>4, HeldTyped
<1>6. Owned(heap, Held) /\ Plus(Held, <<>>) = Held
  BY OwnedNow, PlusNone
<1> DEFINE back == Reverse(b)
<1>7. back \in Seq(Value) /\ Plus(X, back) = Plus(X, b)
  <2> HIDE DEF b, X
  <2>1. back \in Seq(Value) /\ \A o : Occurrences(back, o) = Occurrences(b, o)
    BY <1>2, OccReverse
  <2> HIDE DEF back
  <2> QED BY <2>1 DEF Plus
<1>8. Owned(heap, Plus(X, back))
  <2> HIDE DEF X, b, back
  <2> QED BY <1>4, <1>6, <1>7
<1>9. Owned(ReleaseAll(heap, back), X)
  <2> HIDE DEF X, back
  <2> QED BY <1>5, <1>7, <1>8, ReleaseOwned
<1> QED BY <1>1, <1>2, <1>9, ReplacedStep

-----------------------------------------------------------------------------
(* Instructions that store, and functions entered.                         *)
\* Frames that only change their locals nest as before.
LEMMA NestedFrames ==
  ASSUME Nested, frames' \in Seq(Frame), frames \in Seq(Frame), Len(frames') = Len(frames),
         \A f \in DOMAIN frames : frames'[f].base = frames[f].base,
         handlers' = handlers, status' = status
  PROVE  Nested'
<1> SUFFICES ASSUME status' = "run"
             PROVE  /\ frames' # <<>> /\ frames'[1].base = 0
                    /\ \A i \in DOMAIN handlers' : handlers'[i].fp <= Len(frames')
                    /\ \A i, j \in DOMAIN handlers' :
                         i <= j => handlers'[i].fp <= handlers'[j].fp /\ handlers'[i].sp <= handlers'[j].sp
                    /\ \A i \in DOMAIN handlers' : \A f \in DOMAIN frames' :
                         handlers'[i].fp < f => handlers'[i].sp <= frames'[f].base
  BY DEF Nested
<1>1. DOMAIN frames' = DOMAIN frames
  OBVIOUS
<1>2. /\ frames # <<>> /\ frames[1].base = 0
      /\ \A i \in DOMAIN handlers : handlers[i].fp <= Len(frames)
      /\ \A i, j \in DOMAIN handlers :
           i <= j => handlers[i].fp <= handlers[j].fp /\ handlers[i].sp <= handlers[j].sp
      /\ \A i \in DOMAIN handlers : \A f \in DOMAIN frames :
           handlers[i].fp < f => handlers[i].sp <= frames[f].base
  BY DEF Nested
<1>3. frames' # <<>> /\ 1 \in DOMAIN frames
  BY <1>2
<1> QED BY <1>1, <1>2, <1>3

\* A local is stored.
LEMMA StoreStep == ASSUME IInv, NEW s \in 1 .. NLocals, Store(s) PROVE IInv'
<1> DEFINE v == Top(stack)
           n == Len(frames)
           fs == WithLocal(frames, n, s, v)
           d == Drop(stack, 1)
<1>1. /\ Operands(1)
      /\ heap' = release_value(heap, Top(frames).locals[s])
      /\ frames' = fs /\ stack' = d
      /\ UNCHANGED <<consts, globals, handlers, status, lost>>
  BY DEF Store, WithLocal
<1>2. frames \in Seq(Frame) /\ n \in DOMAIN frames /\ Top(frames) = frames[n]
  BY <1>1, RunningFrames DEF Operands
<1>3. v \in Value /\ Args(1) = <<v>>
  BY <1>1, TopArg
<1>4. Cut(stack, 1, d, <<v>>) /\ d \in Seq(Value) /\ Len(d) = Len(stack) - 1 /\ Len(stack) \in Nat
  BY <1>1, <1>3, TakesOperands
<1> HIDE DEF v, n, d
<1>5. /\ fs \in Seq(Frame) /\ OneOther(frames, fs, n)
      /\ Changed(frames[n].locals, fs[n].locals, s, v)
      /\ Len(fs) = Len(frames) /\ \A i \in DOMAIN frames : fs[i].base = frames[i].base
  BY <1>2, <1>3, StoredLocal
<1> HIDE DEF fs
<1>6. Slotted(Pinned, globals, stack, frames)
  BY Typed DEF IInv
<1>7. Owned(heap, HeldBy(Pinned, globals, stack, frames))
  BY OwnedNow DEF Held
<1>8. Slotted(Pinned, globals, d, fs)
      /\ Owned(release_value(heap, frames[n].locals[s]), HeldBy(Pinned, globals, d, fs))
  BY <1>4, <1>5, <1>6, <1>7, StoredHeld
<1>9. Owned(heap', Held')
  BY <1>1, <1>2, <1>8, PinnedKept DEF Held
<1>10. CppTypeOK'
  <2>1. heap' \in [Objs -> Cell]
    BY <1>9 DEF Owned
  <2>2. stack' \in Seq(Value) /\ Len(stack') <= MaxStack
    <3>1. Len(stack) <= MaxStack /\ MaxStack \in Nat
      BY CppEngineAssumption DEF IInv, CppTypeOK
    <3> QED BY <1>1, <1>4, <3>1
  <2>3. frames' \in Seq(Frame) /\ Len(frames') <= MaxFrames
    BY <1>1, <1>5 DEF IInv, CppTypeOK
  <2> QED BY <1>1, <2>1, <2>2, <2>3 DEF IInv, CppTypeOK
<1>11. Nested'
  <2>1. Nested
    BY DEF IInv
  <2> QED BY <1>1, <1>2, <1>5, <2>1, NestedFrames
<1> QED BY <1>9, <1>10, <1>11 DEF IInv

\* The globals grow with nulls.
LEMMA GrownGlobals ==
  ASSUME NEW gs \in Seq(Value), NEW s \in Nat, s >= 1
  PROVE  LET grown == IF s <= Len(gs) THEN gs ELSE gs \o Nulls(s - Len(gs))
         IN  /\ grown \in Seq(Value) /\ s \in DOMAIN grown
             /\ Len(grown) = (IF s <= Len(gs) THEN Len(gs) ELSE s)
             /\ \A o \in Objs : Occurrences(grown, o) = Occurrences(gs, o)
<1>1. CASE s <= Len(gs)
  BY <1>1
<1>2. CASE ~(s <= Len(gs))
  <2> DEFINE m == s - Len(gs)
             z == Nulls(m)
             g == gs \o z
  <2>1. m \in Nat /\ Len(gs) \in Nat /\ Len(gs) + m = s
    BY <1>2
  <2> HIDE DEF m
  <2>2. z \in Seq(Value) /\ Len(z) = m /\ \A o \in Objs : Occurrences(z, o) = 0
    BY <2>1, NullsEmpty
  <2> HIDE DEF z
  <2>3. g \in Seq(Value) /\ Len(g) = s
    BY <2>1, <2>2
  <2>4. \A o : Occurrences(g, o) = Occurrences(gs, o) + Occurrences(z, o) /\ Occurrences(gs, o) \in Nat
    BY <2>2, OccConcat, OccAt
  <2> HIDE DEF g
  <2>5. \A o \in Objs : Occurrences(g, o) = Occurrences(gs, o)
    BY <2>2, <2>4
  <2>6. s \in DOMAIN g
    BY <2>3
  <2> QED BY <1>2, <2>3, <2>5, <2>6 DEF g, z, m
<1> QED BY <1>1, <1>2

\* A global is stored.
LEMMA SetGlobalStep == ASSUME IInv, NEW s \in 1 .. NGlobals, SetGlobal(s) PROVE IInv'
<1> DEFINE v == Top(stack)
           grown == IF s <= Len(globals) THEN globals ELSE globals \o Nulls(s - Len(globals))
           gs == [grown EXCEPT ![s] = v]
           d == Drop(stack, 1)
<1>1. /\ Operands(1)
      /\ heap' = release_value(heap, grown[s])
      /\ globals' = gs /\ stack' = d
      /\ UNCHANGED <<consts, frames, handlers, status, lost>>
  BY DEF SetGlobal
<1>2. v \in Value /\ Args(1) = <<v>>
  BY <1>1, TopArg
<1>3. Cut(stack, 1, d, <<v>>) /\ d \in Seq(Value) /\ Len(d) = Len(stack) - 1 /\ Len(stack) \in Nat
  BY <1>1, <1>2, TakesOperands
<1>4. NGlobals \in Nat /\ s \in Nat /\ s >= 1 /\ s <= NGlobals
      /\ globals \in Seq(Value) /\ Len(globals) <= NGlobals
  BY CppEngineAssumption DEF IInv, CppTypeOK
<1>5. /\ grown \in Seq(Value) /\ s \in DOMAIN grown /\ Len(grown) <= NGlobals
      /\ \A o \in Objs : Occurrences(grown, o) = Occurrences(globals, o)
  <2>1. /\ grown \in Seq(Value) /\ s \in DOMAIN grown
        /\ Len(grown) = (IF s <= Len(globals) THEN Len(globals) ELSE s)
        /\ \A o \in Objs : Occurrences(grown, o) = Occurrences(globals, o)
    BY <1>4, GrownGlobals
  <2> HIDE DEF grown
  <2> QED BY <1>4, <2>1
<1> HIDE DEF v, d, grown
<1>6. Changed(grown, gs, s, v)
  BY <1>2, <1>5, ChangedBy
<1>7. gs \in Seq(Value) /\ Len(gs) <= NGlobals
  BY <1>5, <1>6 DEF Changed
<1> HIDE DEF gs
<1>8. Slotted(Pinned, globals, stack, frames)
  BY Typed DEF IInv
<1>9. Owned(heap, HeldBy(Pinned, globals, stack, frames))
  BY OwnedNow DEF Held
<1>10. Slotted(Pinned, gs, d, frames)
       /\ Owned(release_value(heap, grown[s]), HeldBy(Pinned, gs, d, frames))
  BY <1>3, <1>5, <1>6, <1>8, <1>9, GlobalHeld
<1>11. Owned(heap', Held')
  BY <1>1, <1>10, PinnedKept DEF Held
<1>12. CppTypeOK'
  <2>1. heap' \in [Objs -> Cell]
    BY <1>11 DEF Owned
  <2>2. stack' \in Seq(Value) /\ Len(stack') <= MaxStack
    <3>1. Len(stack) <= MaxStack /\ MaxStack \in Nat
      BY CppEngineAssumption DEF IInv, CppTypeOK
    <3> QED BY <1>1, <1>3, <3>1
  <2>3. globals' \in Seq(Value) /\ Len(globals') <= NGlobals
    BY <1>1, <1>7
  <2> QED BY <1>1, <2>1, <2>2, <2>3 DEF IInv, CppTypeOK
<1>13. Nested'
  BY <1>1 DEF IInv, Nested
<1> QED BY <1>11, <1>12, <1>13 DEF IInv

\* A function is entered: its frame lies above everything the handlers keep.
LEMMA EnterNested ==
  ASSUME IInv, NEW k \in Nat, Operands(k), NEW vs \in Seq(Value), Enter(k, vs)
  PROVE  /\ Slotted(Pinned, globals, stack, frames)
         /\ OneMore(frames, frames') /\ Gains(frames, frames', vs)
         /\ heap' \in [Objs -> Cell] => CppTypeOK'
         /\ Nested'
<1> DEFINE b == Len(stack) - k
           gs == Append(frames, [locals |-> vs \o Nulls(NLocals - Len(vs)), base |-> b])
           n == Len(frames)
<1>1. /\ Len(frames) < MaxFrames /\ Len(vs) <= NLocals
      /\ frames' = gs /\ stack' = Drop(stack, k)
      /\ UNCHANGED <<consts, globals, handlers, status, lost>>
  BY DEF Enter
<1>2. /\ status = "run" /\ k <= Len(stack) /\ Len(stack) \in Nat /\ Len(stack) <= MaxStack
      /\ Drop(stack, k) \in Seq(Value) /\ Len(Drop(stack, k)) = b
      /\ Floor <= b /\ Floor \in Nat /\ MaxStack \in Nat /\ MaxFrames \in Nat
  BY TakesOperands, CppEngineAssumption DEF IInv, CppTypeOK
<1>3. b \in 0 .. MaxStack
  BY <1>2
<1>4. Slotted(Pinned, globals, stack, frames)
  BY Typed DEF IInv
<1>5. frames \in Seq(Frame) /\ n \in Nat /\ n >= 1 /\ DOMAIN frames = 1 .. n
  BY <1>2, RunningFrames
<1> HIDE DEF b
<1>6. /\ gs \in Seq(Frame) /\ Len(gs) = n + 1
      /\ gs[Len(gs)].base = b
      /\ \A i \in DOMAIN frames : gs[i] = frames[i]
      /\ OneMore(frames, gs) /\ Gains(frames, gs, vs)
  BY <1>1, <1>3, <1>5, EnteredFrame
<1> HIDE DEF gs, n
<1>7. heap' \in [Objs -> Cell] => CppTypeOK'
  <2> HAVE heap' \in [Objs -> Cell]
  <2>1. stack' \in Seq(Value) /\ Len(stack') <= MaxStack
    BY <1>1, <1>2, <1>3
  <2>2. frames' \in Seq(Frame) /\ Len(frames') <= MaxFrames
    BY <1>1, <1>2, <1>5, <1>6 DEF n
  <2> QED BY <1>1, <2>1, <2>2 DEF IInv, CppTypeOK
<1>8. Nested'
  <2>1. DOMAIN frames' = 1 .. n + 1 /\ Len(frames') = n + 1
    BY <1>1, <1>5, <1>6
  <2>2. \A i \in DOMAIN handlers : /\ handlers[i].sp \in Nat /\ handlers[i].sp <= Floor
                                   /\ handlers[i].fp \in Nat /\ handlers[i].fp <= n
    BY <1>2, FloorBound DEF n
  <2>3. /\ frames[1].base = 0
        /\ \A i, j \in DOMAIN handlers :
             i <= j => handlers[i].fp <= handlers[j].fp /\ handlers[i].sp <= handlers[j].sp
        /\ \A i \in DOMAIN handlers : \A f \in DOMAIN frames :
             handlers[i].fp < f => handlers[i].sp <= frames[f].base
    BY <1>2 DEF IInv, Nested
  <2>4. frames' # <<>> /\ frames'[1].base = 0
    <3>1. 1 \in DOMAIN frames /\ frames'[1] = frames[1]
      BY <1>1, <1>5, <1>6
    <3>2. frames' \in Seq(Frame) /\ Len(frames') # 0
      BY <1>1, <1>5, <1>6, <2>1
    <3> QED BY <2>3, <3>1, <3>2
  <2>5. \A i \in DOMAIN handlers : handlers[i].fp <= n + 1
    BY <1>5, <2>2
  <2>6. ASSUME NEW i \in DOMAIN handlers, NEW f \in DOMAIN frames', handlers[i].fp < f
        PROVE  handlers[i].sp <= frames'[f].base
    <3>1. CASE f \in DOMAIN frames
      BY <1>1, <1>6, <2>3, <2>6, <3>1
    <3>2. CASE f \notin DOMAIN frames
      <4>1. f = n + 1
        BY <1>5, <2>1, <3>2
      <4>2. frames'[f].base = b
        BY <1>1, <1>6, <4>1
      <4>3. handlers[i].sp \in Nat /\ handlers[i].sp <= Floor
        BY <2>2
      <4> QED BY <1>2, <1>3, <4>2, <4>3
    <3> QED BY <3>1, <3>2
  <2> QED BY <1>1, <2>1, <2>3, <2>4, <2>5, <2>6 DEF Nested
<1> QED BY <1>1, <1>4, <1>6, <1>7, <1>8

\* A function is entered: operands become locals, the rest is released.
LEMMA EnterStep ==
  ASSUME IInv, NEW k \in Nat, Operands(k), NEW vs \in Seq(Value), Enter(k, vs),
         NEW ws \in Seq(Value), NEW us \in Seq(Value), Exchanged(Args(k), ws, vs, us),
         NEW h, Owned(h, Plus(Held, ws)), heap' = ReleaseAll(h, us)
  PROVE  IInv'
<1> DEFINE d == Drop(stack, k)
           b == Args(k)
           Y == HeldBy(Pinned, globals, d, frames')
<1>1. /\ Slotted(Pinned, globals, stack, frames)
      /\ OneMore(frames, frames') /\ Gains(frames, frames', vs)
      /\ heap' \in [Objs -> Cell] => CppTypeOK'
      /\ Nested'
  BY EnterNested
<1>2. Cut(stack, k, d, b)
  BY TakesOperands
<1>3. stack' = d /\ UNCHANGED <<consts, globals, lost>>
  BY DEF Enter
<1> HIDE DEF d, b
<1>4. /\ Slotted(Pinned, globals, d, frames')
      /\ Plus(HeldBy(Pinned, globals, stack, frames), ws) = Plus(Y, us)
  <2>1. Exchanged(b, ws, vs, us)
    BY DEF b
  <2> QED BY <1>1, <1>2, <2>1, EnteredHeld
<1>5. Y \in [Objs -> Nat]
  BY <1>4, HeldTyped
<1> HIDE DEF Y
<1>6. Owned(h, Plus(Y, us))
  BY <1>4 DEF Held
<1>7. Owned(heap', Y)
  BY <1>5, <1>6, ReleaseOwned
<1>8. Owned(heap', Held')
  BY <1>3, <1>7, PinnedKept DEF Held, Y
<1>9. heap' \in [Objs -> Cell]
  BY <1>7 DEF Owned
<1> QED BY <1>1, <1>8, <1>9 DEF IInv

-----------------------------------------------------------------------------
(* Calls and handlers.                                                     *)
\* Nothing to release leaves the heap alone.
ReleaseNone(h) == ReleaseAll(h, <<>>) = h

\* Releasing nothing is no step.
LEMMA NothingReleased ==
  ASSUME NEW h \in Raw
  PROVE  ReleaseNone(h)
<1> DEFINE none == <<>>
           n == Pending(h, none)
           r == Releasing(h, none)
           s == [heap |-> h, due |-> none]
<1>1. none \in Seq(Value)
  OBVIOUS
<1>2. n \in Nat /\ r[0] = s /\ \A i \in 1 .. n : r[i] = ReleaseHead(r[i - 1])
  <2> HIDE DEF none
  <2> QED BY <1>1, ReleasingStep
<1>3. ReleaseHead(s) = s /\ s.heap = h
  BY DEF ReleaseHead
<1> DEFINE S == {i \in Nat : i <= n => r[i] = s}
<1>4. 0 \in S
  BY <1>2
<1> HIDE DEF s, r, n
<1>5. ASSUME NEW i \in Nat, i \in S PROVE i + 1 \in S
  <2> SUFFICES ASSUME i + 1 <= n PROVE r[i + 1] = s
    OBVIOUS
  <2>1. r[i] = s /\ i + 1 \in 1 .. n /\ (i + 1) - 1 = i
    BY <1>2, <1>5
  <2>2. r[i + 1] = ReleaseHead(r[(i + 1) - 1])
    BY <1>2, <2>1
  <2> QED BY <1>3, <2>1, <2>2
<1>6. Nat \subseteq S
  <2> HIDE DEF S
  <2> QED BY <1>4, <1>5, NatInd
<1>7. r[n] = s
  BY <1>2, <1>6
<1>8. ReleaseAll(h, <<>>) = r[n].heap
  BY DEF ReleaseAll, r, n, none
<1> QED BY <1>3, <1>7, <1>8 DEF ReleaseNone

\* A part without its first element.
LEMMA TailOfPart ==
  ASSUME NEW s \in Seq(Value), NEW a \in Nat, a >= 1, a <= Len(s)
  PROVE  SubSeq(s, a + 1, Len(s)) = Tail(SubSeq(s, a, Len(s)))
<1> DEFINE l == Len(s)
           p == SubSeq(s, a, l)
           q == SubSeq(s, a + 1, l)
<1>1. l \in Nat /\ p \in Seq(Value) /\ q \in Seq(Value) /\ Len(p) = l - a + 1 /\ Len(q) = l - a
  OBVIOUS
<1>2. \A i \in 1 .. l - a : q[i] = s[a + i] /\ p[i + 1] = s[a + i]
  OBVIOUS
<1> HIDE DEF p, q
<1>3. Tail(p) \in Seq(Value) /\ Len(Tail(p)) = l - a /\ \A i \in 1 .. l - a : Tail(p)[i] = p[i + 1]
  BY <1>1
<1> DEFINE t == Tail(p)
<1> HIDE DEF t
<1>4. q = t
  <2>1. DOMAIN q = 1 .. l - a /\ DOMAIN t = 1 .. l - a
    BY <1>1, <1>3 DEF t
  <2>2. \A i \in 1 .. l - a : q[i] = t[i]
    BY <1>2, <1>3 DEF t
  <2>3. t \in Seq(Value) /\ q \in Seq(Value)
    BY <1>1, <1>3 DEF t
  <2>4. DOMAIN q = DOMAIN t /\ \A i \in DOMAIN q : q[i] = t[i]
    BY <2>1, <2>2
  <2>5. q = [i \in DOMAIN q |-> q[i]] /\ t = [i \in DOMAIN t |-> t[i]]
    BY <2>3
  <2> QED BY <2>4, <2>5
<1> QED BY <1>4 DEF p, q, t

\* A call moves the arguments.
LEMMA CallStep == ASSUME IInv, NEW n \in Nat, Call(n) PROVE IInv'
<1>1. Operands(n) /\ Enter(n, Args(n)) /\ heap' = heap
  BY DEF Call
<1>2. Args(n) \in Seq(Value) /\ <<>> \in Seq(Value)
  BY <1>1, TakesOperands
<1>3. Exchanged(Args(n), <<>>, Args(n), <<>>)
  BY DEF Exchanged
<1>4. Owned(heap, Held) /\ Held \in [Objs -> Nat] /\ heap \in [Objs -> Cell]
  BY OwnedNow
<1>5. Owned(heap, Plus(Held, <<>>))
  BY <1>4, PlusNone
<1>6. ReleaseAll(heap, <<>>) = heap
  <2>1. heap \in Raw
    BY <1>4, CellIsRaw
  <2>2. ReleaseNone(heap)
    BY <2>1, NothingReleased, SMTT(30)
  <2> QED BY <2>2 DEF ReleaseNone
<1>7. \A e \in Seq(Value) : Exchanged(Args(n), e, Args(n), e) /\ Owned(heap, Plus(Held, e))
                              /\ heap' = ReleaseAll(heap, e) => IInv'
  BY <1>1, <1>2, EnterStep
<1> QED BY <1>1, <1>2, <1>3, <1>5, <1>6, <1>7

\* The closure lies below the arguments.
LEMMA ArgsBelow ==
  ASSUME IInv, NEW n \in Nat, Operands(n + 1)
  PROVE  /\ Args(n + 1)[1] \in Value
         /\ Args(n) \in Seq(Value)
         /\ \A o : /\ Occurrences(<<Args(n + 1)[1]>>, o) \in Nat /\ Occurrences(Args(n), o) \in Nat
                   /\ Occurrences(Args(n + 1), o)
                        = Occurrences(<<Args(n + 1)[1]>>, o) + Occurrences(Args(n), o)
<1> DEFINE s == Args(n + 1)
           v == s[1]
           t == Args(n)
<1>1. n + 1 \in Nat
  OBVIOUS
<1>2. n + 1 <= Len(stack) /\ Len(stack) \in Nat /\ s \in Seq(Value) /\ Len(s) = n + 1
      /\ stack \in Seq(Value)
  BY <1>1, TakesOperands DEF IInv, CppTypeOK
<1>3. t = Tail(s)
  <2> DEFINE l == Len(stack)
             a == l - n
  <2>1. l \in Nat /\ a \in Nat /\ a >= 1 /\ a <= l /\ a + 1 = l - n + 1 /\ a = l - (n + 1) + 1
    BY <1>2
  <2>2. s = SubSeq(stack, a, l) /\ t = SubSeq(stack, a + 1, l)
    BY <2>1 DEF Args
  <2> HIDE DEF s, t, a
  <2>3. SubSeq(stack, a + 1, l) = Tail(SubSeq(stack, a, l))
    <3> HIDE DEF l
    <3>1. l = Len(stack)
      BY DEF l
    <3> QED BY <1>2, <2>1, <3>1, TailOfPart
  <2> QED BY <2>2, <2>3
<1>4. s # <<>>
  BY <1>2
<1> HIDE DEF s, t
<1>5. Head(s) = v
  BY <1>2, <1>4
<1>6. /\ Head(s) \in Value /\ Tail(s) \in Seq(Value)
      /\ \A o : /\ Occurrences(Tail(s), o) \in Nat
                /\ Occurrences(s, o) = (IF Head(s) = o THEN 1 ELSE 0) + Occurrences(Tail(s), o)
  BY <1>2, <1>4, OccTail
<1> HIDE DEF v
<1>7. \A o : Occurrences(<<v>>, o) = IF v = o THEN 1 ELSE 0
  BY <1>5, <1>6, OccOne
<1>8. \A o : /\ Occurrences(<<v>>, o) \in Nat /\ Occurrences(t, o) \in Nat
             /\ Occurrences(s, o) = Occurrences(<<v>>, o) + Occurrences(t, o)
  <2> TAKE o
  <2>1. Occurrences(t, o) \in Nat
        /\ Occurrences(s, o) = (IF v = o THEN 1 ELSE 0) + Occurrences(t, o)
    BY <1>3, <1>5, <1>6
  <2>2. Occurrences(<<v>>, o) = (IF v = o THEN 1 ELSE 0) /\ Occurrences(<<v>>, o) \in Nat
    BY <1>7
  <2> QED BY <2>1, <2>2
<1> QED BY <1>3, <1>5, <1>6, <1>8 DEF s, v, t

\* A call of a closure retains what it captured and releases it.
LEMMA CallValueStep == ASSUME IInv, NEW n \in Nat, CallValue(n) PROVE IInv'
<1> DEFINE f == Args(n + 1)[1]
           cap == IF IsRef(f) THEN heap[f].items ELSE <<>>
           vs == cap \o Args(n)
           h == RetainAll(heap, cap)
<1>1. Operands(n + 1) /\ Enter(n + 1, vs) /\ heap' = ReleaseAll(h, <<f>>)
  BY DEF CallValue, release_value
<1>2. n + 1 \in Nat
  OBVIOUS
<1>3. /\ f \in Value /\ Args(n) \in Seq(Value)
      /\ \A o : /\ Occurrences(<<f>>, o) \in Nat /\ Occurrences(Args(n), o) \in Nat
                /\ Occurrences(Args(n + 1), o) = Occurrences(<<f>>, o) + Occurrences(Args(n), o)
  BY <1>1, ArgsBelow
<1>4. Owned(heap, Held) /\ Held \in [Objs -> Nat]
  BY OwnedNow
<1> DEFINE b == Args(n + 1)
           t == Args(n)
<1> HIDE DEF f, b, t
<1>5. cap \in Seq(Value) /\ LiveIn(heap, cap)
  <2>1. CASE IsRef(f)
    BY <1>4, <2>1, LiveItems DEF IsRef
  <2>2. CASE ~IsRef(f)
    <3>1. cap = <<>> /\ <<>> \in Seq(Value) /\ \A o : Occurrences(<<>>, o) = 0
      BY <2>2, OccEmpty
    <3> HIDE DEF cap
    <3>2. LiveIn(heap, <<>>)
      BY <3>1 DEF LiveIn
    <3> QED BY <3>1, <3>2
  <2> QED BY <2>1, <2>2
<1> HIDE DEF cap
<1>6. Owned(h, Plus(Held, cap))
  BY <1>4, <1>5, RetainOwned
<1>7. vs \in Seq(Value) /\ \A o : Occurrences(vs, o) = Occurrences(cap, o) + Occurrences(t, o)
                                  /\ Occurrences(cap, o) \in Nat
  BY <1>3, <1>5, OccConcat, OccAt DEF t
<1> HIDE DEF vs, h
<1> DEFINE us == <<f>>
<1>8. us \in Seq(Value)
  BY <1>3
<1>9. Exchanged(b, cap, vs, us)
  <2> SUFFICES ASSUME NEW o \in Objs
               PROVE  Occurrences(b, o) + Occurrences(cap, o) = Occurrences(vs, o) + Occurrences(us, o)
    BY DEF Exchanged
  <2>1. /\ Occurrences(us, o) \in Nat /\ Occurrences(t, o) \in Nat
        /\ Occurrences(b, o) = Occurrences(us, o) + Occurrences(t, o)
    BY <1>3 DEF b, t
  <2>2. Occurrences(vs, o) = Occurrences(cap, o) + Occurrences(t, o) /\ Occurrences(cap, o) \in Nat
    BY <1>7
  <2> HIDE DEF us
  <2> QED BY <2>1, <2>2
<1> HIDE DEF us
<1> DEFINE k == n + 1
<1>10. k \in Nat /\ Operands(k) /\ Enter(k, vs) /\ Exchanged(Args(k), cap, vs, us)
  BY <1>1, <1>2, <1>9 DEF b
<1> HIDE DEF k
<1>11. heap' = ReleaseAll(h, us)
  BY <1>1 DEF us
<1> QED BY <1>5, <1>6, <1>7, <1>8, <1>10, <1>11, EnterStep

\* A handler is pushed.
LEMMA TryPushStep == ASSUME IInv, NEW slot \in 0 .. NLocals, TryPush(slot) PROVE IInv'
<1> DEFINE e == [sp |-> Len(stack), fp |-> Len(frames), slot |-> slot]
           hs == Append(handlers, e)
           n == Len(handlers)
<1>1. /\ Operands(0) /\ Len(handlers) < MaxHandlers /\ handlers' = hs
      /\ UNCHANGED <<heap, consts, globals, stack, frames, status, lost>>
  BY DEF TryPush
<1>2. /\ status = "run" /\ Len(stack) \in Nat /\ Floor <= Len(stack) - 0 /\ Floor \in Nat
  BY <1>1, TakesOperands
<1>3. /\ frames \in Seq(Frame) /\ Len(frames) \in Nat /\ Len(frames) >= 1
  BY <1>2, RunningFrames
<1>4. /\ Len(frames) <= MaxFrames /\ Len(stack) <= MaxStack /\ handlers \in Seq(Handler)
      /\ MaxStack \in Nat /\ MaxFrames \in Nat /\ MaxHandlers \in Nat
  BY CppEngineAssumption DEF IInv, CppTypeOK
<1>5. e \in Handler /\ e.sp = Len(stack) /\ e.fp = Len(frames)
  BY <1>2, <1>3, <1>4 DEF Handler
<1> HIDE DEF e
<1>6. /\ hs \in Seq(Handler) /\ Len(hs) = n + 1 /\ n \in Nat /\ hs[n + 1] = e
      /\ DOMAIN hs = 1 .. n + 1 /\ DOMAIN handlers = 1 .. n
      /\ \A i \in 1 .. n : hs[i] = handlers[i]
  BY <1>4, <1>5
<1> HIDE DEF hs, n
<1>7. CppTypeOK'
  <2>1. Len(hs) <= MaxHandlers
    BY <1>1, <1>4, <1>6 DEF n
  <2> QED BY <1>1, <1>6, <2>1 DEF IInv, CppTypeOK
<1>8. Owned(heap', Held')
  BY <1>1, OwnedNow, PinnedKept DEF Held
<1>9. Nested'
  <2>1. \A i \in DOMAIN handlers : /\ handlers[i].sp \in Nat /\ handlers[i].sp <= Floor
                                   /\ handlers[i].fp \in Nat /\ handlers[i].fp <= Len(frames)
    BY <1>2, FloorBound
  <2>2. \A i \in 1 .. n + 1 : hs[i].sp \in Nat /\ hs[i].sp <= Len(stack)
                              /\ hs[i].fp \in Nat /\ hs[i].fp <= Len(frames)
    <3> TAKE i \in 1 .. n + 1
    <3>1. CASE i \in 1 .. n
      <4>1. hs[i] = handlers[i] /\ i \in DOMAIN handlers
        BY <1>6, <3>1
      <4> QED BY <1>2, <2>1, <4>1
    <3>2. CASE i \notin 1 .. n
      <4>1. hs[i] = e
        BY <1>6, <3>2
      <4> QED BY <1>2, <1>3, <1>5, <4>1
    <3> QED BY <3>1, <3>2
  <2>3. /\ frames # <<>> /\ frames[1].base = 0
        /\ \A i, j \in DOMAIN handlers :
             i <= j => handlers[i].fp <= handlers[j].fp /\ handlers[i].sp <= handlers[j].sp
        /\ \A i \in DOMAIN handlers : \A f \in DOMAIN frames :
             handlers[i].fp < f => handlers[i].sp <= frames[f].base
    BY <1>2 DEF IInv, Nested
  <2>4. ASSUME NEW i \in 1 .. n + 1, NEW j \in 1 .. n + 1, i <= j
        PROVE  hs[i].fp <= hs[j].fp /\ hs[i].sp <= hs[j].sp
    <3>1. CASE j \in 1 .. n
      <4>1. i \in 1 .. n
        BY <1>6, <2>4, <3>1
      <4>2. hs[i] = handlers[i] /\ hs[j] = handlers[j] /\ i \in DOMAIN handlers /\ j \in DOMAIN handlers
        BY <1>6, <3>1, <4>1
      <4> QED BY <2>3, <2>4, <4>2
    <3>2. CASE j \notin 1 .. n
      <4>1. hs[j] = e
        BY <1>6, <3>2
      <4> QED BY <1>5, <2>2, <4>1
    <3> QED BY <3>1, <3>2
  <2>5. ASSUME NEW i \in 1 .. n + 1, NEW f \in DOMAIN frames, hs[i].fp < f
        PROVE  hs[i].sp <= frames[f].base
    <3>1. CASE i \in 1 .. n
      <4>1. hs[i] = handlers[i] /\ i \in DOMAIN handlers
        BY <1>6, <3>1
      <4> QED BY <2>3, <2>5, <4>1
    <3>2. CASE i \notin 1 .. n
      <4>1. hs[i] = e
        BY <1>6, <3>2
      <4> QED BY <1>3, <1>5, <2>5, <4>1
    <3> QED BY <3>1, <3>2
  <2> QED BY <1>1, <1>6, <2>2, <2>3, <2>4, <2>5 DEF Nested
<1> QED BY <1>7, <1>8, <1>9 DEF IInv

\* Handlers above one go.
LEMMA DroppedHandlers ==
  ASSUME IInv, handlers # <<>>
  PROVE  LET hs == Drop(handlers, 1)
         IN  /\ hs \in Seq(Handler) /\ Len(hs) <= MaxHandlers /\ DOMAIN hs \subseteq DOMAIN handlers
             /\ \A i \in DOMAIN hs : hs[i] = handlers[i] /\ i <= Len(handlers)
<1> DEFINE n == Len(handlers)
           hs == Drop(handlers, 1)
<1>1. handlers \in Seq(Handler) /\ n \in Nat /\ n >= 1 /\ n <= MaxHandlers /\ MaxHandlers \in Nat
      /\ DOMAIN handlers = 1 .. n
  BY CppEngineAssumption DEF IInv, CppTypeOK
<1>2. hs \in Seq(Handler) /\ Len(hs) = n - 1 /\ DOMAIN hs = 1 .. n - 1
      /\ \A i \in 1 .. n - 1 : hs[i] = handlers[i]
  BY <1>1 DEF Drop
<1> HIDE DEF hs, n
<1> QED BY <1>1, <1>2 DEF hs, n

\* The innermost handler goes.
LEMMA TryPopStep == ASSUME IInv, TryPop PROVE IInv'
<1> DEFINE hs == Drop(handlers, 1)
<1>1. /\ status = "run" /\ handlers # <<>> /\ handlers' = hs
      /\ UNCHANGED <<heap, consts, globals, stack, frames, status, lost>>
  BY DEF TryPop, OwnTry
<1>2. /\ hs \in Seq(Handler) /\ Len(hs) <= MaxHandlers /\ DOMAIN hs \subseteq DOMAIN handlers
      /\ \A i \in DOMAIN hs : hs[i] = handlers[i]
  BY <1>1, DroppedHandlers
<1> HIDE DEF hs
<1>3. CppTypeOK'
  BY <1>1, <1>2 DEF IInv, CppTypeOK
<1>4. Owned(heap', Held')
  BY <1>1, OwnedNow, PinnedKept DEF Held
<1>5. Nested'
  BY <1>1, <1>2 DEF IInv, Nested
<1> QED BY <1>3, <1>4, <1>5 DEF IInv

-----------------------------------------------------------------------------
(* Returns and the end of the program.                                     *)
\* The caller's frame is on top again.
LEMMA ReturnStep ==
  ASSUME IInv, Ret, Len(frames) > 1
  PROVE  IInv'
<1> DEFINE n == Len(frames) - 1
           fs == Drop(frames, 1)
           l == Top(frames).locals
<1>1. /\ status = "run" /\ ~OwnTry /\ frames' = fs /\ heap' = ReleaseAll(heap, l)
      /\ UNCHANGED <<stack, globals, consts, status, handlers, lost>>
  BY DEF Ret
<1>2. frames \in Seq(Frame) /\ n \in Nat /\ n >= 1 /\ Len(frames) = n + 1 /\ DOMAIN frames = 1 .. n + 1
      /\ Len(frames) <= MaxFrames /\ MaxFrames \in Nat
  BY <1>1, RunningFrames, CppEngineAssumption DEF IInv, CppTypeOK
<1>3. l = frames[Len(frames)].locals
  BY <1>1, RunningFrames
<1>4. fs = SubSeq(frames, 1, n) /\ frames = SubSeq(frames, 1, n + 1)
  BY <1>2 DEF Drop
<1>5. OneMore(fs, frames)
  <2>1. OneMore(SubSeq(frames, 1, n), SubSeq(frames, 1, n + 1))
    <3> HIDE DEF n
    <3> QED BY <1>2, DropFrame
  <2> QED BY <1>4, <2>1
<1>6. fs \in Seq(Frame) /\ Len(fs) = n /\ DOMAIN fs = 1 .. n /\ \A i \in 1 .. n : fs[i] = frames[i]
  <2>1. fs \in Seq(Frame) /\ Len(fs) = n
    BY <1>2, <1>5 DEF OneMore
  <2> HIDE DEF fs
  <2>2. DOMAIN fs = 1 .. n
    BY <2>1
  <2> QED BY <1>5, <2>1, <2>2 DEF OneMore
<1> HIDE DEF n, fs
<1>7. Slotted(Pinned, globals, stack, frames)
  BY Typed DEF IInv
<1> DEFINE E == HeldBy(Pinned, globals, stack, fs)
<1>8. Slotted(Pinned, globals, stack, fs) /\ Owned(ReleaseAll(heap, l), E)
  <2> DEFINE none == <<>>
             X == HeldBy(Pinned, globals, stack, frames)
  <2>1. none \in Seq(Value) /\ Plus(Held, none) = Held /\ Owned(heap, Held)
    BY OwnedNow, PlusNone
  <2> HIDE DEF none
  <2>2. Owned(heap, Plus(X, none))
    BY <2>1 DEF Held
  <2>3. Slotted(Pinned, globals, stack, fs)
        /\ Owned(ReleaseAll(heap, frames[Len(frames)].locals), Plus(E, none))
    BY <1>5, <1>7, <2>1, <2>2, DroppedOwned
  <2>4. E \in [Objs -> Nat]
    BY <2>3, HeldTyped
  <2> HIDE DEF E
  <2>5. Plus(E, none) = E
    BY <2>4, PlusNone DEF none
  <2> QED BY <1>3, <2>3, <2>5
<1>9. Owned(heap', Held')
  BY <1>1, <1>8, PinnedKept DEF Held
<1>10. CppTypeOK'
  <2>1. heap' \in [Objs -> Cell]
    BY <1>9 DEF Owned
  <2>2. frames' \in Seq(Frame) /\ Len(frames') <= MaxFrames
    BY <1>1, <1>2, <1>6
  <2> QED BY <1>1, <2>1, <2>2 DEF IInv, CppTypeOK
<1>11. Nested'
  <2>1. /\ frames # <<>> /\ frames[1].base = 0
        /\ \A i, j \in DOMAIN handlers :
             i <= j => handlers[i].fp <= handlers[j].fp /\ handlers[i].sp <= handlers[j].sp
        /\ \A i \in DOMAIN handlers : \A f \in DOMAIN frames :
             handlers[i].fp < f => handlers[i].sp <= frames[f].base
    BY <1>1 DEF IInv, Nested
  <2>2. \A i \in DOMAIN handlers : handlers[i].fp <= n
    <3> TAKE i \in DOMAIN handlers
    <3> DEFINE e == handlers[Len(handlers)]
    <3>1. handlers # <<>> /\ handlers \in Seq(Handler)
      BY DEF IInv, CppTypeOK
    <3>2. Len(handlers) \in DOMAIN handlers /\ Top(handlers) = e /\ i <= Len(handlers)
      BY <1>1, <3>1, FloorBound
    <3>3. e.fp \in Nat /\ e.fp <= Len(frames) /\ handlers[i].fp \in Nat
      BY <1>1, <3>2, FloorBound
    <3>4. e.fp # Len(frames)
      BY <1>1, <3>1, <3>2 DEF OwnTry
    <3>5. handlers[i].fp <= e.fp
      BY <2>1, <3>2
    <3> QED BY <1>2, <3>3, <3>4, <3>5
  <2>3. fs # <<>> /\ fs[1].base = 0
    BY <1>2, <1>6, <2>1
  <2>4. \A i \in DOMAIN handlers : \A f \in DOMAIN fs : handlers[i].fp < f => handlers[i].sp <= fs[f].base
    BY <1>2, <1>6, <2>1
  <2> QED BY <1>1, <1>6, <2>1, <2>2, <2>3, <2>4 DEF Nested
<1> QED BY <1>9, <1>10, <1>11 DEF IInv

\* Without constants, only what was given up is pinned.
LEMMA PinnedLost ==
  ASSUME consts' = <<>>, lost' \in [Objs -> Nat]
  PROVE  Pinned' = lost'
<1> DEFINE none == <<>>
           l == lost'
<1>1. \A o \in Objs : Occurrences(none, o) = 0
  BY OccEmpty
<1>2. Pinned' = [o \in Objs |-> Occurrences(none, o) + l[o]]
  BY DEF Pinned
<1>3. l \in [Objs -> Nat]
  OBVIOUS
<1> HIDE DEF none, l
<1>4. \A o \in Objs : Occurrences(none, o) + l[o] = l[o]
  BY <1>1, <1>3
<1>5. [o \in Objs |-> Occurrences(none, o) + l[o]] = l
  BY <1>3, <1>4
<1> QED BY <1>2, <1>5 DEF l

\* main returns: the program gives back what it holds.
LEMMA MainReturnsStep ==
  ASSUME IInv, Ret, ~(Len(frames) > 1)
  PROVE  IInv'
<1> DEFINE fs == Drop(frames, 1)
           l == Top(frames).locals
           v == Top(stack)
           ws == l \o <<v>> \o globals \o consts
           Y == HeldBy(lost, <<>>, <<>>, fs)
<1>1. /\ status = "run" /\ Len(stack) = Top(frames).base + 1 /\ frames' = fs
      /\ heap' = ReleaseAll(heap, ws)
      /\ stack' = <<>> /\ globals' = <<>> /\ consts' = <<>> /\ status' = "exited"
      /\ UNCHANGED <<handlers, lost>>
  BY DEF Ret
<1>2. /\ frames \in Seq(Frame) /\ Len(frames) = 1 /\ Top(frames) = frames[1]
      /\ l \in Seq(Value) /\ frames[1].base = 0
  <2>1. /\ frames \in Seq(Frame) /\ Len(frames) \in Nat /\ Len(frames) >= 1
        /\ Top(frames) = frames[Len(frames)] /\ l \in Seq(Value)
    BY <1>1, RunningFrames
  <2>2. frames[1].base = 0
    BY <1>1 DEF IInv, Nested
  <2>3. ~(Len(frames) > 1)
    OBVIOUS
  <2>5. Len(frames) \in Nat /\ Len(frames) >= 1
    BY <2>1
  <2>4. Len(frames) = 1
    BY ONLY <2>3, <2>5, SMTT(30)
  <2> QED BY <2>1, <2>2, <2>4
<1>3. stack = <<v>> /\ v \in Value
  <2>1. Len(stack) = 1 /\ stack \in Seq(Value)
    BY <1>1, <1>2 DEF IInv, CppTypeOK
  <2>2. v = stack[1]
    BY <2>1 DEF Top
  <2> QED BY <2>1, <2>2
<1>4. OneMore(fs, frames) /\ fs \in Seq(Frame) /\ Len(fs) = 0
  <2> DEFINE n == 0
  <2>1. n \in Nat /\ n + 1 <= Len(frames) /\ n + 1 = 1
    BY <1>2
  <2>2. SubSeq(frames, 1, n + 1) = frames /\ fs = SubSeq(frames, 1, n)
    BY <1>2 DEF Drop
  <2> HIDE DEF n, fs
  <2>3. OneMore(SubSeq(frames, 1, n), SubSeq(frames, 1, n + 1))
    BY <1>2, <2>1, DropFrame
  <2>4. OneMore(fs, frames)
    BY <2>2, <2>3
  <2>5. fs \in Seq(Frame) /\ Len(frames) = Len(fs) + 1 /\ Len(fs) \in Nat
    BY <2>4 DEF OneMore
  <2>6. Len(frames) = 1
    BY <1>2
  <2>7. Len(fs) = 0
    BY ONLY <2>5, <2>6, SMTT(30)
  <2> QED BY <2>4, <2>5, <2>7
<1>5. /\ Slotted(Pinned, globals, stack, frames)
      /\ consts \in Seq(Value) /\ lost \in [Objs -> Nat]
      /\ \A o \in Objs : /\ Occurrences(consts, o) \in Nat /\ lost[o] \in Nat
                         /\ Pinned[o] = Occurrences(consts, o) + lost[o]
  BY Typed DEF IInv
<1>6. Slotted(lost, <<>>, <<>>, fs)
  BY <1>4, <1>5 DEF Slotted
<1> HIDE DEF fs, l, v
<1>7. ws \in Seq(Value)
      /\ \A o : /\ Occurrences(ws, o) = Occurrences(l, o) + Occurrences(stack, o)
                                          + Occurrences(globals, o) + Occurrences(consts, o)
                /\ Occurrences(l, o) \in Nat
  <2>1. l \in Seq(Value) /\ stack \in Seq(Value) /\ globals \in Seq(Value) /\ consts \in Seq(Value)
    BY <1>2, <1>5 DEF Slotted
  <2> DEFINE a == l \o stack
             b == a \o globals
             c == b \o consts
  <2>2. a \in Seq(Value) /\ \A o : Occurrences(a, o) = Occurrences(l, o) + Occurrences(stack, o)
    BY <2>1, OccConcat
  <2> HIDE DEF a
  <2>3. b \in Seq(Value) /\ \A o : Occurrences(b, o) = Occurrences(a, o) + Occurrences(globals, o)
    BY <2>1, <2>2, OccConcat
  <2> HIDE DEF b
  <2>4. c \in Seq(Value) /\ \A o : Occurrences(c, o) = Occurrences(b, o) + Occurrences(consts, o)
    BY <2>1, <2>3, OccConcat
  <2> HIDE DEF c
  <2>5. ws = c
    BY <1>3 DEF c, b, a
  <2>6. \A o : Occurrences(l, o) \in Nat
    BY <2>1, OccAt
  <2> QED BY <2>2, <2>3, <2>4, <2>5, <2>6
<1> HIDE DEF ws
<1>8. Held \in [Objs -> Nat] /\ Y \in [Objs -> Nat] /\ Owned(heap, Held)
  BY <1>6, OwnedNow, HeldTyped
<1>9. Remains(Held, Y, ws)
  <2> SUFFICES ASSUME NEW o \in Objs PROVE Held[o] = Y[o] + Occurrences(ws, o)
    BY DEF Remains
  <2>1. /\ Occurrences(globals, o) \in Nat
        /\ Occurrences(stack, o) \in Nat /\ Spread(Locals(frames), o) \in Nat
        /\ Held[o] = Pinned[o] + Occurrences(globals, o)
                       + Occurrences(stack, o) + Spread(Locals(frames), o)
    BY <1>5, HeldTyped DEF Held
  <2>a. /\ Occurrences(consts, o) \in Nat /\ lost[o] \in Nat
        /\ Pinned[o] = Occurrences(consts, o) + lost[o]
    BY <1>5
  <2>2. /\ Spread(Locals(fs), o) \in Nat
        /\ Y[o] = lost[o] + Occurrences(<<>>, o) + Occurrences(<<>>, o) + Spread(Locals(fs), o)
    BY <1>6, HeldTyped
  <2>3. Occurrences(<<>>, o) = 0
    BY OccEmpty
  <2>4. Y[o] = lost[o] + Spread(Locals(fs), o)
    <3> HIDE DEF Y
    <3> QED BY <2>a, <2>2, <2>3
  <2>5. Spread(Locals(frames), o) = Spread(Locals(fs), o) + Occurrences(l, o)
    <3>1. Spread(Locals(frames), o) = Spread(Locals(fs), o) + Occurrences(frames[Len(frames)].locals, o)
      BY <1>4, SpreadMore
    <3>2. frames[Len(frames)].locals = l
      BY <1>2 DEF l
    <3> QED BY <3>1, <3>2
  <2>6. Occurrences(ws, o) = Occurrences(l, o) + Occurrences(stack, o)
                               + Occurrences(globals, o) + Occurrences(consts, o)
        /\ Occurrences(l, o) \in Nat
    BY <1>7
  <2> HIDE DEF Y
  <2> QED BY <2>1, <2>a, <2>2, <2>4, <2>5, <2>6, SMTT(30)
<1>10. Owned(heap', Y)
  <2> HIDE DEF Y
  <2> QED BY <1>1, <1>7, <1>8, <1>9, RemainsOwned DEF ws, l, v
<1>11. Owned(heap', Held')
  <2>1. Pinned' = lost
    BY <1>1, <1>5, PinnedLost
  <2> QED BY <1>1, <1>10, <2>1 DEF Held
<1>12. CppTypeOK'
  <2>1. heap' \in [Objs -> Cell]
    BY <1>11 DEF Owned
  <2>2. MaxStack \in Nat /\ NGlobals \in Nat /\ MaxFrames \in Nat
    BY CppEngineAssumption
  <2>3. <<>> \in Seq(Value) /\ Len(<<>>) = 0
    OBVIOUS
  <2> QED BY <1>1, <1>4, <1>5, <2>1, <2>2, <2>3 DEF IInv, CppTypeOK
<1>13. Nested'
  BY <1>1 DEF Nested
<1> QED BY <1>11, <1>12, <1>13 DEF IInv

\* The program halts: globals and constants are released, operands and locals
\* are given up.
LEMMA HaltStep == ASSUME IInv, Halt PROVE IInv'
<1> DEFINE ws == globals \o consts
           none == <<>>
           N == [o \in Objs |-> lost[o] + Occurrences(stack, o) + Spread(Locals(frames), o)]
           Y == HeldBy(N, none, none, none)
<1>1. /\ heap' = ReleaseAll(heap, ws)
      /\ globals' = none /\ consts' = none /\ stack' = none /\ frames' = none
      /\ lost' = N /\ status' = "exited"
      /\ UNCHANGED handlers
  BY DEF Halt
<1>2. /\ Slotted(Pinned, globals, stack, frames)
      /\ consts \in Seq(Value) /\ lost \in [Objs -> Nat]
      /\ \A o \in Objs : /\ Occurrences(consts, o) \in Nat /\ lost[o] \in Nat
                         /\ Pinned[o] = Occurrences(consts, o) + lost[o]
  BY Typed DEF IInv
<1>a. \A o \in Objs : /\ Occurrences(globals, o) \in Nat
                      /\ Occurrences(stack, o) \in Nat /\ Spread(Locals(frames), o) \in Nat
                      /\ Held[o] = Pinned[o] + Occurrences(globals, o)
                                     + Occurrences(stack, o) + Spread(Locals(frames), o)
  BY <1>2, HeldTyped DEF Held
<1>b. N \in [Objs -> Nat]
  BY <1>2, <1>a
<1>3. Slotted(N, none, none, none)
  <2> HIDE DEF N
  <2> QED BY <1>b DEF Slotted
<1>4. ws \in Seq(Value)
      /\ \A o : Occurrences(ws, o) = Occurrences(globals, o) + Occurrences(consts, o)
  BY <1>2, OccConcat DEF Slotted
<1> HIDE DEF ws
<1>5. Held \in [Objs -> Nat] /\ Y \in [Objs -> Nat] /\ Owned(heap, Held)
  <2> HIDE DEF N
  <2> QED BY <1>3, OwnedNow, HeldTyped
<1>6. Remains(Held, Y, ws)
  <2> SUFFICES ASSUME NEW o \in Objs PROVE Held[o] = Y[o] + Occurrences(ws, o)
    BY DEF Remains
  <2>2. Y[o] = N[o] + Occurrences(none, o) + Occurrences(none, o) + Spread(Locals(none), o)
    <3> HIDE DEF N, none
    <3> QED BY <1>3, HeldTyped
  <2>3. Occurrences(none, o) = 0
    BY OccEmpty
  <2>4. Occurrences(ws, o) = Occurrences(globals, o) + Occurrences(consts, o)
    BY <1>4
  <2>5. Spread(Locals(none), o) = 0
    <3>1. none \in Seq(Frame) /\ DOMAIN none = {}
      OBVIOUS
    <3> HIDE DEF none
    <3>2. Family(Locals(none), {})
      BY <3>1, LocalsFamily
    <3> QED BY <3>2, SpreadNat
  <2>6. N[o] = lost[o] + Occurrences(stack, o) + Spread(Locals(frames), o)
    OBVIOUS
  <2>7. /\ Occurrences(consts, o) \in Nat /\ lost[o] \in Nat
        /\ Pinned[o] = Occurrences(consts, o) + lost[o]
        /\ Occurrences(globals, o) \in Nat
        /\ Occurrences(stack, o) \in Nat /\ Spread(Locals(frames), o) \in Nat
        /\ Held[o] = Pinned[o] + Occurrences(globals, o)
                       + Occurrences(stack, o) + Spread(Locals(frames), o)
    BY <1>2, <1>a
  <2> HIDE DEF Y, N, none
  <2>8. Y[o] = N[o]
    BY <2>2, <2>3, <2>5, <2>6, <2>7
  <2> QED BY <2>4, <2>6, <2>7, <2>8
<1>7. Owned(heap', Y)
  <2> HIDE DEF Y
  <2> QED BY <1>1, <1>4, <1>5, <1>6, RemainsOwned
<1>8. Owned(heap', Held')
  <2>1. Pinned' = N
    <3> HIDE DEF N
    <3> QED BY <1>1, <1>b, PinnedLost
  <2> QED BY <1>1, <1>7, <2>1 DEF Held
<1>9. CppTypeOK'
  <2>1. heap' \in [Objs -> Cell]
    BY <1>8 DEF Owned
  <2>2. /\ NGlobals \in Nat /\ MaxStack \in Nat /\ MaxFrames \in Nat
        /\ none \in Seq(Value) /\ none \in Seq(Frame) /\ Len(none) = 0
    BY CppEngineAssumption
  <2> HIDE DEF none, N
  <2> QED BY <1>1, <1>b, <2>1, <2>2 DEF IInv, CppTypeOK
<1>10. Nested'
  BY <1>1 DEF Nested
<1> QED BY <1>8, <1>9, <1>10 DEF IInv

-----------------------------------------------------------------------------
(* Exceptions.                                                             *)
\* What the operands taken and ws hold together is in us.
Yields(b, ws, us) ==
  \A o \in Objs : Occurrences(b, o) + Occurrences(ws, o) = Occurrences(us, o)

\* The operands taken are held by the one who raises the exception.
LEMMA RaisedFrom ==
  ASSUME IInv, NEW k \in Nat, Operands(k), NEW ws \in Seq(Value), NEW us \in Seq(Value),
         Yields(Args(k), ws, us), NEW h, Owned(h, Plus(Held, ws))
  PROVE  /\ Slotted(Pinned, globals, Drop(stack, k), frames)
         /\ Owned(h, Plus(HeldBy(Pinned, globals, Drop(stack, k), frames), us))
<1> DEFINE left == Drop(stack, k)
           b == Args(k)
           X == HeldBy(Pinned, globals, stack, frames)
           Y == HeldBy(Pinned, globals, left, frames)
<1>1. Cut(stack, k, left, b)
  BY TakesOperands
<1> HIDE DEF left, b
<1>2. /\ left \in Seq(Value) /\ b \in Seq(Value)
      /\ \A o : Occurrences(stack, o) = Occurrences(left, o) + Occurrences(b, o)
                /\ Occurrences(left, o) \in Nat /\ Occurrences(b, o) \in Nat
  BY <1>1, CutHeld
<1>3. Slotted(Pinned, globals, stack, frames)
  BY Typed DEF IInv
<1>4. Slotted(Pinned, globals, left, frames)
  BY <1>2, <1>3 DEF Slotted
<1>5. Trades(stack, frames, ws, left, frames, us)
  <2> SUFFICES ASSUME NEW o \in Objs
               PROVE  Occurrences(stack, o) + Spread(Locals(frames), o) + Occurrences(ws, o)
                        = Occurrences(left, o) + Spread(Locals(frames), o) + Occurrences(us, o)
    BY DEF Trades
  <2>1. Occurrences(stack, o) = Occurrences(left, o) + Occurrences(b, o)
        /\ Occurrences(left, o) \in Nat /\ Occurrences(b, o) \in Nat
    BY <1>2
  <2>2. Occurrences(ws, o) \in Nat /\ Occurrences(us, o) \in Nat
    BY OccAt
  <2>3. Spread(Locals(frames), o) \in Nat
    BY <1>3, HeldTyped
  <2>4. Occurrences(b, o) + Occurrences(ws, o) = Occurrences(us, o)
    BY DEF Yields, b
  <2> QED BY <2>1, <2>2, <2>3, <2>4
<1>6. Plus(X, ws) = Plus(Y, us)
  <2>1. \A c, d \in Seq(Value) : Trades(stack, frames, c, left, frames, d) => Plus(X, c) = Plus(Y, d)
    BY <1>3, <1>4, HeldTrades
  <2> HIDE DEF X, Y
  <2> QED BY <1>5, <2>1
<1>7. Owned(h, Plus(Y, us))
  <2> HIDE DEF Y
  <2> QED BY <1>6 DEF Held, X
<1> QED BY <1>4, <1>7 DEF Y, left

\* An exception is caught: the operands and frames above the handler's are
\* given back, and the value thrown is in the catch variable or is not held.
LEMMA RaisedStep ==
  ASSUME IInv, status = "run", NEW left \in Seq(Value), Len(left) <= MaxStack, Floor <= Len(left),
         NEW v \in Value, NEW spent \in Seq(Value), NEW h,
         Slotted(Pinned, globals, left, frames),
         Owned(h, Plus(HeldBy(Pinned, globals, left, frames), <<v>> \o spent)),
         raise_exception(h, v, left, spent)
  PROVE  IInv'
<1> DEFINE e == Top(handlers)
           n == e.sp
           kept == SubSeq(frames, 1, e.fp)
           rest == SubSeq(left, 1, n)
           h1 == ReleaseAll(h, Reverse(SubSeq(left, n + 1, Len(left))))
           h2 == UnwoundFrames(h1, e)
           vs == <<v>> \o spent
           w == kept[e.fp].locals[e.slot]
<1>1. /\ handlers # <<>> /\ handlers' = Drop(handlers, 1) /\ stack' = rest
      /\ e.slot = 0 => frames' = kept /\ heap' = ReleaseAll(h2, vs)
      /\ e.slot # 0 => /\ frames' = WithLocal(kept, e.fp, e.slot, v)
                       /\ heap' = ReleaseAll(h2, <<w>> \o spent)
      /\ UNCHANGED <<consts, globals, status, lost>>
  BY DEF raise_exception, WithLocal
<1>2. /\ Floor \in Nat
      /\ e \in Handler /\ Len(handlers) \in DOMAIN handlers /\ e = handlers[Len(handlers)]
      /\ e.sp \in Nat /\ e.sp <= Floor /\ e.fp \in Nat /\ 1 <= e.fp /\ e.fp <= Len(frames)
      /\ e.slot \in 0 .. NLocals
  <2>1. Len(handlers) \in DOMAIN handlers /\ e = handlers[Len(handlers)]
    BY <1>1, FloorBound
  <2>2. handlers \in Seq(Handler)
    BY DEF IInv, CppTypeOK
  <2>3. e \in Handler
    BY <2>1, <2>2
  <2>4. Floor \in Nat /\ e.sp \in Nat /\ e.sp <= Floor /\ e.fp \in Nat /\ 1 <= e.fp /\ e.fp <= Len(frames)
    <3>1. /\ Floor \in Nat
          /\ \A i \in DOMAIN handlers : /\ handlers[i].sp \in Nat /\ handlers[i].sp <= Floor
                                        /\ handlers[i].fp \in Nat /\ 1 <= handlers[i].fp
                                        /\ handlers[i].fp <= Len(frames)
      BY FloorBound
    <3> HIDE DEF e
    <3> QED BY <2>1, <3>1
  <2>5. e.slot \in 0 .. NLocals
    BY <2>3 DEF Handler
  <2> QED BY <2>1, <2>3, <2>4, <2>5
<1> HIDE DEF e
<1>3. n \in Nat /\ n <= Len(left) /\ Len(left) \in Nat /\ MaxStack \in Nat /\ MaxFrames \in Nat
  BY <1>2, CppBounds
<1>4. vs \in Seq(Value)
  OBVIOUS
<1>5. /\ Slotted(Pinned, globals, rest, kept)
      /\ Owned(h2, Plus(HeldBy(Pinned, globals, rest, kept), vs))
  <2> HIDE DEF vs, n
  <2>1. Owned(h, Plus(HeldBy(Pinned, globals, left, frames), vs))
    BY DEF vs
  <2> QED BY <1>2, <1>3, <1>4, <2>1, UnwoundHeld
<1>6. rest \in Seq(Value) /\ Len(rest) <= MaxStack
  BY <1>3
<1>7. /\ frames \in Seq(Frame) /\ Len(frames) \in Nat /\ Len(frames) <= MaxFrames
      /\ kept \in Seq(Frame) /\ Len(kept) = e.fp /\ DOMAIN kept = 1 .. e.fp
      /\ \A i \in 1 .. e.fp : kept[i] = frames[i]
  <2>1. frames \in Seq(Frame) /\ Len(frames) \in Nat /\ Len(frames) <= MaxFrames
    BY DEF IInv, CppTypeOK
  <2> QED BY <1>2, <2>1, SMTT(30)
<1> HIDE DEF kept, rest, h2, n
<1>8. /\ frames' \in Seq(Frame) /\ Len(frames') = e.fp /\ \A i \in 1 .. e.fp : frames'[i].base = frames[i].base
      /\ Owned(heap', HeldBy(Pinned, globals, rest, frames'))
  <2>1. CASE e.slot = 0
    <3> DEFINE E == HeldBy(Pinned, globals, rest, kept)
    <3>1. E \in [Objs -> Nat]
      BY <1>5, HeldTyped
    <3>2. Owned(ReleaseAll(h2, vs), E)
      <4> HIDE DEF E, vs
      <4> QED BY <1>4, <1>5, <3>1, ReleaseOwned DEF E
    <3> HIDE DEF vs
    <3> QED BY <1>1, <1>7, <2>1, <3>2
  <2>2. CASE e.slot # 0
    <3> DEFINE s == e.slot
               m == e.fp
               gs == WithLocal(kept, m, s, v)
    <3>1. s \in 1 .. NLocals /\ m \in DOMAIN kept
      <4>1. s \in 0 .. NLocals /\ s # 0
        BY <1>2, <2>2
      <4>2. m \in Nat /\ 1 <= m /\ DOMAIN kept = 1 .. m
        BY <1>2, <1>7
      <4> HIDE DEF s, m
      <4> QED BY <4>1, <4>2, CppBounds
    <3>2. /\ gs \in Seq(Frame) /\ OneOther(kept, gs, m) /\ Changed(kept[m].locals, gs[m].locals, s, v)
          /\ Len(gs) = Len(kept) /\ \A i \in DOMAIN kept : gs[i].base = kept[i].base
      <4> HIDE DEF s, m
      <4> QED BY <1>7, <3>1, StoredLocal
    <3> HIDE DEF gs
    <3>3. frames' = gs /\ heap' = ReleaseAll(h2, <<kept[m].locals[s]>> \o spent)
      BY <1>1, <2>2 DEF gs
    <3>4. Owned(ReleaseAll(h2, <<kept[m].locals[s]>> \o spent), HeldBy(Pinned, globals, rest, gs))
      <4> HIDE DEF s, m
      <4> QED BY <1>5, <3>2, CaughtHeld
    <3> HIDE DEF s
    <3> QED BY <1>7, <3>2, <3>3, <3>4
  <2> QED BY <2>1, <2>2
<1>9. Owned(heap', Held')
  BY <1>1, <1>8, PinnedKept DEF Held
<1>10. CppTypeOK'
  <2>1. heap' \in [Objs -> Cell]
    BY <1>9 DEF Owned
  <2>2. frames' \in Seq(Frame) /\ Len(frames') <= MaxFrames
    BY <1>2, <1>3, <1>7, <1>8
  <2>3. handlers' \in Seq(Handler) /\ Len(handlers') <= MaxHandlers
    BY <1>1, DroppedHandlers
  <2>4. stack' \in Seq(Value) /\ Len(stack') <= MaxStack
    BY <1>1, <1>6
  <2> QED BY <1>1, <2>1, <2>2, <2>3, <2>4 DEF IInv, CppTypeOK
<1>11. Nested'
  <2>1. /\ frames[1].base = 0
        /\ \A i, j \in DOMAIN handlers :
             i <= j => handlers[i].fp <= handlers[j].fp /\ handlers[i].sp <= handlers[j].sp
        /\ \A i \in DOMAIN handlers : \A f \in DOMAIN frames :
             handlers[i].fp < f => handlers[i].sp <= frames[f].base
    BY DEF IInv, Nested
  <2> DEFINE hs == Drop(handlers, 1)
  <2>2. /\ DOMAIN hs \subseteq DOMAIN handlers
        /\ \A i \in DOMAIN hs : hs[i] = handlers[i] /\ i <= Len(handlers)
    BY <1>1, DroppedHandlers
  <2>3. handlers' = hs
    BY <1>1
  <2> HIDE DEF hs
  <2>4. \A i \in DOMAIN hs : hs[i].fp <= e.fp
    BY <1>2, <2>1, <2>2
  <2>5. frames' # <<>> /\ frames'[1].base = 0
    BY <1>2, <1>8, <2>1, SMTT(30)
  <2>6. ASSUME NEW i \in DOMAIN hs, NEW f \in DOMAIN frames', hs[i].fp < f
        PROVE  hs[i].sp <= frames'[f].base
    <3>1. f \in 1 .. e.fp /\ f \in DOMAIN frames
      BY <1>2, <1>7, <1>8, SMTT(30)
    <3>2. frames'[f].base = frames[f].base
      BY <1>8, <3>1
    <3>3. handlers[i].sp <= frames[f].base
      BY <2>1, <2>2, <2>6, <3>1
    <3> QED BY <2>2, <3>2, <3>3
  <2>7. \A i, j \in DOMAIN hs : i <= j => hs[i].fp <= hs[j].fp /\ hs[i].sp <= hs[j].sp
    BY <2>1, <2>2
  <2> QED BY <1>8, <2>3, <2>4, <2>5, <2>6, <2>7 DEF Nested
<1> QED BY <1>9, <1>10, <1>11 DEF IInv

\* What is still to be released once v is caught nowhere.
Spends(us, v, spent) == us = <<v>> \o spent

\* The operands taken, and ws, are the value thrown and what is spent.
LEMMA RaiseStep ==
  ASSUME IInv, NEW k \in Nat, Operands(k), NEW ws \in Seq(Value), NEW v \in Value, NEW spent \in Seq(Value),
         NEW us, Spends(us, v, spent), Yields(Args(k), ws, us), NEW h, Owned(h, Plus(Held, ws)),
         raise_exception(h, v, Drop(stack, k), spent)
  PROVE  IInv'
<1> DEFINE left == Drop(stack, k)
<1>1. /\ status = "run" /\ left \in Seq(Value) /\ Len(left) = Len(stack) - k /\ Len(stack) \in Nat
      /\ Floor <= Len(stack) - k
  BY TakesOperands
<1> HIDE DEF left
<1>2. Len(left) <= MaxStack /\ Floor <= Len(left)
  <2>1. Len(stack) <= MaxStack /\ MaxStack \in Nat
    BY CppEngineAssumption DEF IInv, CppTypeOK
  <2> QED BY <1>1, <2>1
<1>3. us \in Seq(Value)
  BY DEF Spends
<1>4. /\ Slotted(Pinned, globals, left, frames)
      /\ Owned(h, Plus(HeldBy(Pinned, globals, left, frames), us))
  BY <1>3, RaisedFrom DEF left
<1>5. Owned(h, Plus(HeldBy(Pinned, globals, left, frames), <<v>> \o spent))
  BY <1>4 DEF Spends
<1>6. raise_exception(h, v, left, spent)
  BY DEF left
<1> QED BY <1>1, <1>2, <1>4, <1>5, <1>6, RaisedStep

\* The operand on top is thrown.
LEMMA ThrowStep == ASSUME IInv, Throw PROVE IInv'
<1> DEFINE v == Top(stack)
           none == <<>>
           us == <<v>> \o none
<1>1. Operands(1) /\ raise_exception(heap, v, Drop(stack, 1), none)
  BY DEF Throw
<1>2. v \in Value /\ Args(1) = <<v>>
  BY <1>1, TopArg
<1>3. none \in Seq(Value) /\ us = <<v>> /\ us \in Seq(Value)
  BY <1>2
<1>4. Owned(heap, Plus(Held, none))
  BY OwnedNow, PlusNone
<1>5. Spends(us, v, none)
  BY DEF Spends
<1>6. Yields(Args(1), none, us)
  <2> SUFFICES ASSUME NEW o \in Objs
               PROVE  Occurrences(Args(1), o) + Occurrences(none, o) = Occurrences(us, o)
    BY DEF Yields
  <2>1. Occurrences(none, o) = 0
    BY OccEmpty
  <2>2. Args(1) = us
    BY <1>2, <1>3
  <2>3. Occurrences(us, o) \in Nat
    BY <1>3, OccAt
  <2> HIDE DEF none, us
  <2> QED BY <2>1, <2>2, <2>3
<1> DEFINE k == 1
<1>7. k \in Nat /\ Operands(k) /\ Yields(Args(k), none, us) /\ raise_exception(heap, v, Drop(stack, k), none)
  BY <1>1, <1>6
<1> HIDE DEF none, us, v, k
<1> QED BY <1>2, <1>3, <1>4, <1>5, <1>7, RaiseStep

\* A string is made for the message.
LEMMA MessageMade ==
  ASSUME IInv, HasRoom(heap)
  PROVE  /\ Fresh(heap) \in Objs /\ <<Fresh(heap)>> \in Seq(Value)
         /\ Owned(NewString(heap), Plus(Held, <<Fresh(heap)>>))
<1>1. Owned(heap, Held) /\ Held \in [Objs -> Nat]
  BY OwnedNow
<1>2. /\ Owned(New(heap, "str", 0, <<>>), Plus(Held, <<Fresh(heap)>>))
      /\ Fresh(heap) \in Objs
  BY <1>1, EmptyOwned
<1> QED BY <1>2 DEF NewString, Value

\* A failed assertion throws its message.
LEMMA AssertFailsStep == ASSUME IInv, AssertFails PROVE IInv'
<1> DEFINE k == 2
           b == Args(k)
           back == Reverse(b)
           v == Fresh(heap)
           h == NewString(heap)
           ws == <<v>>
           us == <<v>> \o back
<1>1. k \in Nat /\ Operands(k) /\ HasRoom(heap) /\ raise_exception(h, v, Drop(stack, k), back)
  BY DEF AssertFails
<1>2. v \in Value /\ ws \in Seq(Value) /\ Owned(h, Plus(Held, ws))
  BY <1>1, MessageMade DEF Value
<1> HIDE DEF k
<1>3. b \in Seq(Value)
  BY <1>1, TakesOperands
<1> HIDE DEF b
<1>4. back \in Seq(Value) /\ \A o : Occurrences(back, o) = Occurrences(b, o)
  BY <1>3, OccReverse
<1> HIDE DEF back
<1>5. Spends(us, v, back)
  BY DEF Spends
<1>6. us \in Seq(Value) /\ \A o : Occurrences(us, o) = Occurrences(ws, o) + Occurrences(back, o)
  BY <1>2, <1>4, OccConcat
<1> HIDE DEF us, ws, v, h
<1>7. Yields(b, ws, us)
  <2> SUFFICES ASSUME NEW o \in Objs
               PROVE  Occurrences(b, o) + Occurrences(ws, o) = Occurrences(us, o)
    BY DEF Yields
  <2>1. Occurrences(b, o) \in Nat /\ Occurrences(ws, o) \in Nat
    BY <1>2, <1>3, OccAt
  <2> QED BY <1>4, <1>6, <2>1
<1> QED BY <1>1, <1>2, <1>4, <1>5, <1>7, RaiseStep DEF b

\* Unwrapping null throws a message.
LEMMA UnwrapFailsStep == ASSUME IInv, UnwrapFails PROVE IInv'
<1> DEFINE k == 1
           none == <<>>
           v == Fresh(heap)
           h == NewString(heap)
           us == <<v>> \o none
<1>1. k \in Nat /\ Operands(1) /\ Operands(k) /\ HasRoom(heap) /\ raise_exception(h, v, Drop(stack, k), none)
      /\ Top(stack) = Imm
  BY DEF UnwrapFails
<1>2. v \in Objs /\ v \in Value /\ us \in Seq(Value) /\ us = <<v>> /\ Owned(h, Plus(Held, us))
  BY <1>1, MessageMade DEF Value
<1>3. none \in Seq(Value)
  OBVIOUS
<1>4. Spends(us, v, none)
  BY DEF Spends
<1>5. Args(k) = <<Imm>>
  BY <1>1, TopArg
<1>6. Yields(Args(k), us, us)
  <2> SUFFICES ASSUME NEW o \in Objs
               PROVE  Occurrences(Args(k), o) + Occurrences(us, o) = Occurrences(us, o)
    BY DEF Yields
  <2>1. Occurrences(<<Imm>>, o) = 0
    <3>1. o # Imm
      BY RcHeapAssumption DEF Objs, Imm
    <3>2. Imm \in Value
      BY DEF Value
    <3> QED BY <3>1, <3>2, OccOne
  <2>2. Occurrences(Args(k), o) = 0
    BY <1>5, <2>1
  <2>3. Occurrences(us, o) \in Nat
    BY <1>2, OccAt
  <2> HIDE DEF us, k
  <2> QED BY <2>2, <2>3
<1> HIDE DEF k, none, v, h, us
<1> QED BY <1>1, <1>2, <1>3, <1>4, <1>6, RaiseStep

-----------------------------------------------------------------------------
(* The start, and every step.                                              *)
\* What no sequence of a family holds is nowhere in it.
LEMMA SpreadNone ==
  ASSUME NEW F, NEW o, \A d \in DOMAIN F : \A i \in DOMAIN F[d] : F[d][i] # o
  PROVE  Spread(F, o) = 0
<1>1. ASSUME NEW q \in Places(F) PROVE F[q[1]][q[2]] # o
  <2>1. PICK d \in DOMAIN F : \E i \in DOMAIN F[d] : q = <<d, i>>
    BY <1>1 DEF Places
  <2>2. PICK i \in DOMAIN F[d] : q = <<d, i>>
    BY <2>1
  <2> QED BY <2>2
<1>2. {q \in Places(F) : F[q[1]][q[2]] = o} = {}
  BY <1>1
<1>3. Cardinality({}) = 0
  BY FS_EmptySet
<1> QED BY <1>2, <1>3 DEF Spread

\* A heap without objects is owned by nobody.
LEMMA NoObjsOwned ==
  /\ Owned(NoObjs, [o \in Objs |-> 0])
  /\ HasRoom(NoObjs)
<1> DEFINE h == NoObjs
           z == [o \in Objs |-> 0]
<1>1. \A o \in Objs : /\ h[o].kind = "free" /\ h[o].rc = 0 /\ h[o].items = <<>>
                      /\ h[o].extra = 0 /\ h[o] \in Cell
  <2>1. FreeCell \in Cell
    BY DEF FreeCell, Cell, Kinds
  <2>2. \A o \in Objs : h[o] = FreeCell
    BY DEF NoObjs
  <2> QED BY <2>1, <2>2 DEF FreeCell
<1>2. h \in [Objs -> Cell]
  <2>1. h = [o \in Objs |-> h[o]]
    BY DEF NoObjs
  <2> HIDE DEF h
  <2> QED BY <1>1, <2>1
<1> HIDE DEF h
<1>3. ASSUME NEW o \in Objs PROVE References(h, o) = 0
  <2> DEFINE F == Items(h)
  <2>1. DOMAIN F = Objs /\ \A d \in Objs : F[d] = <<>>
    BY <1>1 DEF Items
  <2> HIDE DEF F
  <2>2. \A d \in DOMAIN F : \A i \in DOMAIN F[d] : F[d][i] # o
    BY <2>1
  <2>3. Spread(F, o) = 0
    BY <2>2, SpreadNone
  <2> QED BY <2>3 DEF F, References
<1>4. Balanced(h, z)
  BY <1>1, <1>3 DEF Balanced
<1>5. Shaped(h)
  BY <1>1 DEF Shaped, Formed
<1>6. Acyclic(h)
  BY <1>1 DEF Acyclic
<1>7. Owned(h, z)
  BY <1>2, <1>4, <1>5, <1>6 DEF Owned
<1>8. HasRoom(h)
  <2>1. 1 \in Objs
    BY CppEngineAssumption, RcHeapAssumption DEF Objs
  <2>2. 1 \notin Live(h)
    BY <1>1, <2>1 DEF Live
  <2> QED BY <2>1, <2>2 DEF HasRoom
<1> QED BY <1>7, <1>8 DEF h

\* The program starts with one string, held by its constants.
LEMMA InitOwned == CppInit => IInv
<1> SUFFICES ASSUME CppInit PROVE IInv
  OBVIOUS
<1> DEFINE f == Fresh(NoObjs)
           z == [o \in Objs |-> 0]
           l == Nulls(NLocals)
           c == [locals |-> l, base |-> 0]
           fs == <<c>>
           none == <<>>
           cs == <<f>>
           N == [o \in Objs |-> Occurrences(cs, o) + z[o]]
<1>1. /\ heap = New(NoObjs, "str", 0, <<>>) /\ consts = cs /\ globals = none /\ stack = none
      /\ frames = fs /\ handlers = <<>> /\ status = "run" /\ lost = z
  BY DEF CppInit, NewString
<1>2. z \in [Objs -> Nat] /\ Owned(heap, Plus(z, cs)) /\ f \in Objs
  <2>1. z \in [Objs -> Nat]
    OBVIOUS
  <2> HIDE DEF z
  <2> QED BY <1>1, <2>1, NoObjsOwned, EmptyOwned DEF z
<1>3. cs \in Seq(Value) /\ none \in Seq(Value)
  BY <1>2 DEF Value
<1>4. NLocals \in Nat /\ MaxStack \in Nat /\ MaxFrames \in Nat /\ MaxFrames >= 1
      /\ NGlobals \in Nat /\ MaxHandlers \in Nat
  BY CppEngineAssumption
<1>5. l \in [1 .. NLocals -> Value] /\ \A o \in Objs : \A i \in DOMAIN l : l[i] # o
  BY RcHeapAssumption DEF Nulls, Value, Objs, Imm
<1> HIDE DEF l
<1>6. c \in Frame /\ c.locals = l /\ c.base = 0
  BY <1>4, <1>5 DEF Frame
<1> HIDE DEF c, f
<1>7. fs \in Seq(Frame) /\ Len(fs) = 1 /\ fs[1] = c /\ DOMAIN fs = {1}
  BY <1>6
<1> HIDE DEF fs
<1>a. \A o \in Objs : z[o] = 0 /\ Occurrences(cs, o) \in Nat
  BY <1>3, OccAt
<1>b. N \in [Objs -> Nat] /\ \A o \in Objs : N[o] = Occurrences(cs, o)
  BY <1>a
<1>8. Slotted(N, none, none, fs) /\ Pinned = N
  <2>1. Pinned = N
    BY <1>1 DEF Pinned
  <2> QED BY <1>b, <1>3, <1>7, <2>1 DEF Slotted
<1>9. Plus(z, cs) = HeldBy(N, none, none, fs)
  <2>1. ASSUME NEW o \in Objs PROVE Spread(Locals(fs), o) = 0
    <3>1. DOMAIN Locals(fs) = {1} /\ Locals(fs)[1] = l
      BY <1>6, <1>7 DEF Locals
    <3> QED BY <1>5, <3>1, SpreadNone
  <2>2. \A o \in Objs : Occurrences(none, o) = 0
    BY OccEmpty
  <2>3. \A o \in Objs : Occurrences(cs, o) \in Nat
    BY <1>3, OccAt
  <2> HIDE DEF none, cs, N, z
  <2>4. \A o \in Objs : z[o] + Occurrences(cs, o)
             = N[o] + Occurrences(none, o) + Occurrences(none, o) + Spread(Locals(fs), o)
    BY <1>a, <1>b, <2>1, <2>2, <2>3
  <2> QED BY <2>4 DEF Plus, HeldBy
<1>10. Owned(heap, Held)
  <2> HIDE DEF N, z
  <2> QED BY <1>1, <1>2, <1>8, <1>9 DEF Held
<1>11. CppTypeOK
  <2>1. heap \in [Objs -> Cell]
    BY <1>10 DEF Owned
  <2>2. handlers \in Seq(Handler) /\ Len(handlers) <= MaxHandlers
    BY <1>1, <1>4
  <2>3. Len(globals) <= NGlobals /\ Len(stack) <= MaxStack
    BY <1>1, <1>4
  <2> QED BY <1>1, <1>2, <1>3, <1>4, <1>7, <2>1, <2>2, <2>3 DEF CppTypeOK
<1>12. Nested
  <2>1. frames = fs /\ handlers = <<>> /\ fs # <<>> /\ fs[1].base = 0
    <3>1. fs # <<>>
      BY <1>7
    <3>2. fs[1].base = 0
      BY <1>6, <1>7
    <3> HIDE DEF N, z, cs, none
    <3> QED BY <1>1, <3>1, <3>2
  <2>2. DOMAIN handlers = {}
    BY <2>1
  <2> QED BY <2>1, <2>2 DEF Nested
<1> QED BY <1>10, <1>11, <1>12 DEF IInv

\* Every instruction keeps the ownership.
LEMMA NextOwned == IInv /\ [CppNext]_cppvars => IInv'
<1> SUFFICES ASSUME IInv, [CppNext]_cppvars PROVE IInv'
  OBVIOUS
<1>1. CASE UNCHANGED cppvars
  <2>1. UNCHANGED <<heap, consts, globals, stack, frames, handlers, status, lost>>
    BY <1>1 DEF cppvars
  <2>2. CppTypeOK' /\ Nested'
    BY <2>1 DEF IInv, CppTypeOK, Nested
  <2>3. Owned(heap', Held')
    BY <2>1, PinnedKept DEF IInv, Held
  <2> QED BY <2>2, <2>3 DEF IInv
<1>2. CASE Instruction
  <2>1. CASE \/ Immediate \/ Pop \/ Join \/ Strings \/ StringsForgotten \/ asset \/ CopyOf \/ concat \/ Index \/ SetIndex
             \/ PushItem \/ RemoveKey \/ Coalesce
    BY <2>1, ImmediateStep, PopStep, JoinStep, StringsStep, StringsForgottenStep, AssetStep, CopyOfStep, ConcatStep, IndexStep,
       SetIndexStep, PushStep, RemoveKeyStep, CoalesceStep
  <2>2. CASE Ret
    BY <2>2, ReturnStep, MainReturnsStep
  <2>3. CASE TryPop \/ Throw \/ AssertFails \/ AssertHolds \/ UnwrapFails \/ Halt
    BY <2>3, TryPopStep, ThrowStep, AssertFailsStep, AssertHoldsStep, UnwrapFailsStep, HaltStep
  <2>4. CASE Ended
    BY <1>1, <2>4 DEF Ended
  <2>5. CASE \E i \in 1 .. 1 : Const(i)
    BY <2>5, ConstStep
  <2>6. CASE \E s \in Slots : Load(s) \/ Store(s)
    BY <2>6, LoadStep, StoreStep DEF Slots
  <2>7. CASE \E s \in 1 .. NGlobals : GetGlobal(s) \/ SetGlobal(s)
    <3>1. PICK s \in 1 .. NGlobals : GetGlobal(s) \/ SetGlobal(s)
      BY <2>7
    <3>2. s \in Nat /\ s >= 1
      BY CppEngineAssumption
    <3> QED BY <3>1, <3>2, GetGlobalStep, SetGlobalStep
  <2>8. CASE \E k \in 1 .. 2 : Measure(k) \/ MakeString(k) \/ MakeClosure(k)
    <3>1. PICK k \in 1 .. 2 : Measure(k) \/ MakeString(k) \/ MakeClosure(k)
      BY <2>8
    <3>2. k \in Nat
      OBVIOUS
    <3> QED BY <3>1, <3>2, MeasureStep, MakeStringStep, MakeClosureStep
  <2>9. CASE \E n \in 0 .. 2 : NewArr(n) \/ NewMap(n) \/ Call(n) \/ CallValue(n)
    <3>1. PICK n \in 0 .. 2 : NewArr(n) \/ NewMap(n) \/ Call(n) \/ CallValue(n)
      BY <2>9
    <3>2. n \in Nat
      OBVIOUS
    <3> QED BY <3>1, <3>2, NewArrStep, NewMapStep, CallStep, CallValueStep
  <2>10. CASE \E s \in 0 .. NLocals : TryPush(s)
    BY <2>10, TryPushStep
  <2> QED BY <1>2, <2>1, <2>2, <2>3, <2>4, <2>5, <2>6, <2>7, <2>8, <2>9, <2>10 DEF Instruction
<1> QED BY <1>1, <1>2 DEF CppNext

-----------------------------------------------------------------------------
(* What the ownership means for the machine.                               *)
\* The counts of a heap that is owned, in the terms of the machine.
LEMMA CountsOwned ==
  ASSUME IInv, NEW o \in Objs
  PROVE  /\ Roots(o) + lost[o] = Held[o] /\ Roots(o) \in Nat /\ lost[o] \in Nat
         /\ References(heap, o) \in Nat /\ heap[o].extra \in {0, 1} /\ heap[o].rc \in Nat
         /\ heap[o].rc = Roots(o) + lost[o] + References(heap, o) + heap[o].extra
<1>1. Slotted(Pinned, globals, stack, frames) /\ Owned(heap, Held)
  BY Typed DEF IInv
<1>2. /\ Occurrences(globals, o) \in Nat
      /\ Occurrences(stack, o) \in Nat /\ Spread(Locals(frames), o) \in Nat
      /\ Held[o] = Pinned[o] + Occurrences(globals, o)
                     + Occurrences(stack, o) + Spread(Locals(frames), o)
      /\ Held[o] \in Nat
  BY <1>1, HeldTyped DEF Held
<1>3. /\ Occurrences(consts, o) \in Nat /\ lost[o] \in Nat
      /\ Pinned[o] = Occurrences(consts, o) + lost[o]
  BY Typed DEF IInv
<1>4. References(heap, o) \in Nat /\ heap[o].extra \in {0, 1} /\ heap[o].rc \in Nat
  BY <1>1, CellIsRaw, CellOf, References0 DEF Owned
<1>5. heap[o].rc = Held[o] + References(heap, o) + heap[o].extra
  BY <1>1 DEF Owned, Balanced
<1>6. Roots(o) + lost[o] = Held[o] /\ Roots(o) \in Nat
  BY <1>2, <1>3 DEF Roots
<1> DEFINE a == Roots(o)
           b == Held[o]
           c == References(heap, o)
           d == heap[o].extra
<1>7. heap[o].rc = a + lost[o] + c + d
  <2>1. a \in Nat /\ b \in Nat /\ c \in Nat /\ d \in Nat /\ lost[o] \in Nat /\ a + lost[o] = b
    BY <1>2, <1>3, <1>4, <1>6
  <2>2. heap[o].rc = b + c + d
    BY <1>5
  <2> HIDE DEF a, b, c, d
  <2> QED BY <2>1, <2>2
<1> QED BY <1>3, <1>4, <1>6, <1>7

\* What is referred to has a holder that is not freed.
LEMMA HolderLives ==
  ASSUME IInv, NEW o \in Objs, References(heap, o) # 0
  PROVE  \E p \in Live(heap) : HoldsObj(heap, p, o)
<1> DEFINE F == Items(heap)
<1>1. DOMAIN F = Objs /\ \A p \in Objs : F[p] = heap[p].items
  BY DEF Items
<1> HIDE DEF F
<1>2. PICK p \in Objs : \E i \in DOMAIN heap[p].items : heap[p].items[i] = o
  BY <1>1, SpreadNone DEF References, F
<1>3. heap[p].kind = "free" => heap[p].items = <<>>
  BY DEF IInv, Owned, Shaped, Formed
<1>4. heap[p].kind # "free"
  BY <1>2, <1>3
<1> QED BY <1>2, <1>4 DEF HoldsObj, Live

\* What is freed has no holder: the holders are its count.
LEMMA OwnedDangles == IInv => NothingDangling
<1> SUFFICES ASSUME IInv, NEW o \in Objs \ Live(heap) PROVE Refs(o) = 0 /\ lost[o] = 0 /\ heap[o].rc = 0
  BY DEF NothingDangling
<1>1. heap[o].kind = "free"
  BY DEF Live
<1>2. heap[o].rc = 0
  BY <1>1 DEF IInv, Owned, Shaped, Formed
<1>3. /\ Roots(o) \in Nat /\ lost[o] \in Nat /\ References(heap, o) \in Nat
      /\ heap[o].extra \in {0, 1}
      /\ heap[o].rc = Roots(o) + lost[o] + References(heap, o) + heap[o].extra
  BY CountsOwned
<1>4. Roots(o) + References(heap, o) = 0 /\ lost[o] = 0
  <2> DEFINE a == Roots(o)
             b == References(heap, o)
             c == heap[o].extra
             d == lost[o]
  <2>1. a \in Nat /\ b \in Nat /\ c \in Nat /\ d \in Nat /\ 0 = a + d + b + c
    BY <1>2, <1>3
  <2> HIDE DEF a, b, c, d
  <2>2. a + b = 0 /\ d = 0
    BY <2>1
  <2> QED BY <2>2 DEF a, b, d
<1> QED BY <1>2, <1>4 DEF Refs

\* The counts are exact.
LEMMA OwnedExact == IInv => CountsExact
<1> SUFFICES ASSUME IInv, NEW o \in Live(heap) PROVE heap[o].rc = Refs(o) + lost[o] + heap[o].extra
  BY DEF CountsExact
<1> DEFINE a == Roots(o)
           b == References(heap, o)
           c == heap[o].extra
           d == lost[o]
<1>1. /\ heap[o].rc = a + d + b + c
      /\ a \in Nat /\ b \in Nat /\ c \in Nat /\ d \in Nat
  BY CountsOwned DEF Live
<1>2. Refs(o) = a + b
  BY DEF Refs
<1> HIDE DEF a, b, c, d
<1>3. heap[o].rc = (a + b) + d + c
  BY <1>1
<1> QED BY <1>2, <1>3 DEF c, d

\* What no slot, extra reference or one given up reaches would be held by a
\* closure that is not reachable either, and so on: that is a cycle of
\* closures, and there is none.
LEMMA OwnedLeaks == IInv => LeaksHaveACause
<1> DEFINE S == {o \in Objs : Roots(o) > 0 \/ heap[o].extra = 1 \/ lost[o] > 0}
           R == Reach(S)
           U == Live(heap) \ R
<1> SUFFICES ASSUME IInv, U # {} PROVE FALSE
  BY DEF LeaksHaveACause
<1>1. \A o \in S : o \in R
  BY DEF Reach
<1>2. ASSUME NEW p \in R, NEW o \in Objs, HoldsObj(heap, p, o) PROVE o \in R
  <2> HIDE DEF S
  <2>1. PICK i \in DOMAIN heap[p].items : heap[p].items[i] = o
    BY <1>2 DEF HoldsObj
  <2>2. ASSUME NEW T \in SUBSET Objs, S \subseteq T, ClosedUnder(T) PROVE o \in T
    <3>1. p \in T
      BY <1>2, <2>2 DEF Reach
    <3>2. IsRef(heap[p].items[i])
      BY <2>1 DEF IsRef
    <3> QED BY <2>1, <2>2, <3>1, <3>2 DEF ClosedUnder
  <2> QED BY <2>2 DEF Reach
<1> HIDE DEF R
<1>3. U \in SUBSET Objs
  BY DEF Live
<1>4. PICK o \in U : \A p \in U : heap[p].kind = "cap" => ~HoldsObj(heap, p, o)
  <2>1. Acyclic(heap)
    BY DEF IInv, Owned
  <2> HIDE DEF U
  <2> QED BY <1>3, <2>1 DEF Acyclic
<1>5. o \in Objs /\ o \in Live(heap) /\ o \notin R /\ o \notin S
  BY <1>1, <1>3, <1>4
<1>6. ~(Roots(o) > 0) /\ heap[o].extra # 1 /\ ~(lost[o] > 0)
  BY <1>5
<1>7. heap[o].rc >= 1
  BY <1>5 DEF IInv, Owned, Shaped, Formed, Live
<1>8. References(heap, o) # 0
  <2>1. /\ Roots(o) \in Nat /\ lost[o] \in Nat /\ References(heap, o) \in Nat
        /\ heap[o].extra \in {0, 1}
        /\ heap[o].rc = Roots(o) + lost[o] + References(heap, o) + heap[o].extra
    BY <1>5, CountsOwned
  <2> QED BY <1>6, <1>7, <2>1
<1>9. PICK p \in Live(heap) : HoldsObj(heap, p, o)
  BY <1>5, <1>8, HolderLives
<1>10. p \in Objs /\ p \notin R /\ p \in U
  BY <1>2, <1>5, <1>9 DEF Live
<1>11. heap[p].kind # "cap"
  BY <1>4, <1>9, <1>10
<1>12. heap[p].kind \in Kinds /\ heap[p].kind # "free"
  BY <1>9, <1>10, CellOf DEF IInv, Owned, Live
<1>13. heap[p].kind # "str"
  <2>1. heap[p].items # <<>>
    BY <1>9 DEF HoldsObj
  <2> QED BY <1>10, <2>1 DEF IInv, Owned, Shaped, Formed
<1>14. heap[p].kind \in {"arr", "map"}
  BY <1>11, <1>12, <1>13 DEF Kinds
<1>15. heap[p].extra = 1
  BY <1>10, <1>14 DEF IInv, Owned, Shaped, Formed
<1> QED BY <1>1, <1>10, <1>15

\* The ownership holds at every instruction boundary.
LEMMA OwnedAlways == CppSpec => []IInv
<1>1. IInv /\ [CppNext]_cppvars => IInv'
  BY NextOwned
<1> QED BY <1>1, InitOwned, PTL DEF CppSpec

\* Slots hold values, and the stacks keep within their limits (run_program,
\* main.cpp): also where an unwind cuts them and a return empties them.
THEOREM MachineTyped == CppSpec => []CppTypeOK
<1>1. IInv => CppTypeOK
  BY DEF IInv
<1> QED BY <1>1, OwnedAlways, PTL

\* Nothing that counts ever refers to a freed object, and nothing is released
\* twice (release_value, pyro_runtime.c:154-200), for a heap, stacks and
\* containers of any size.
THEOREM NothingEverDangles == CppSpec => []NothingDangling
BY OwnedAlways, OwnedDangles, PTL

\* The count of an object is at every instruction boundary what slots and
\* elements hold, plus what was given up unreleased, plus the reference its
\* constructor counted too much (val_array, val_map and val_str_rc,
\* pyro_runtime.c:108-138).
THEOREM CountsStayExact == CppSpec => []CountsExact
BY OwnedAlways, OwnedExact, PTL

\* An object out of reach of every slot was born with an extra reference or
\* lost one to asset(), a native that lists strings or HALT, or it is kept by
\* such an object; cycles of arrays and maps change nothing about it, and
\* closures make none (val_func, pyro_runtime.c).
THEOREM EveryLeakHasACause == CppSpec => []LeaksHaveACause
BY OwnedAlways, OwnedLeaks, PTL
=============================================================================
