---------------------------- MODULE RuntimeProofs ----------------------------
(***************************************************************************)
(* Proofs about the parts of vm/pyro_runtime.c that share no state, for    *)
(* every value of the constants: the hash map, the overflow tests, the     *)
(* policies, the atomic replacement of a file, and the loaders.            *)
(***************************************************************************)
EXTENDS ValueMap, Arithmetic, PolicyPaths, AtomicFile, Loader, Induction, FiniteSetTheorems, TLAPS

-----------------------------------------------------------------------------
(* The hash map. The invariant: every node is in the chain of its hash, no *)
(* chain has a key twice and size counts the nodes. The nodes held are     *)
(* then a partial function from keys to values: rc_map_set and             *)
(* rc_map_remove change it at one key, growing does not change it. What    *)
(* the walk and the rehashing compute is shown by induction on the number  *)
(* of chains and of nodes.                                                 *)

Pairs == MapKeys \X MapValues

Arrays(n) == [0 .. n - 1 -> Seq(Pairs)]

\* Every node is in the chain of its hash, and no chain has a key twice.
Homed(b, n) == \A c \in 0 .. n - 1 : \A j \in DOMAIN b[c] : hash_value(b[c][j][1]) % n = c

Single(b) ==
  \A c \in DOMAIN b : \A i, j \in DOMAIN b[c] : b[c][i][1] = b[c][j][1] => i = j

Table(b, n) == b \in Arrays(n) /\ Homed(b, n) /\ Single(b)

Elems(s) == {s[j] : j \in DOMAIN s}

Held(b) == UNION {Elems(b[c]) : c \in DOMAIN b}

\* value_eq tells the keys apart.
LEMMA KeysEqual ==
  ASSUME NEW a \in MapKeys, NEW b \in MapKeys
  PROVE  value_eq(a, b) <=> a = b
<1>1. a = b => value_eq(a, b)
  BY DEF value_eq
<1> QED BY <1>1, MapAssumption

\* A node is a key and a value.
LEMMA PairParts ==
  ASSUME NEW e \in Pairs PROVE e[1] \in MapKeys /\ e[2] \in MapValues /\ e = <<e[1], e[2]>>
  BY DEF Pairs

\* The chain of a key is one of the array.
LEMMA HomeIsChain ==
  ASSUME NEW k \in MapKeys, NEW n \in Nat \ {0}
  PROVE  hash_value(k) % n \in 0 .. n - 1
<1>1. hash_value(k) \in Nat
  BY MapAssumption
<1> HIDE DEF hash_value
<1> QED BY <1>1

\* capacity is the number of chains.
LEMMA Capacity ==
  ASSUME NEW n \in Nat, NEW b, DOMAIN b = 0 .. n - 1
  PROVE  capacity(b) = n
<1>1. Cardinality(0 .. n - 1) = IF 0 > n - 1 THEN 0 ELSE (n - 1) - 0 + 1
  BY FS_Interval
<1> QED BY <1>1 DEF capacity

-----------------------------------------------------------------------------
\* The walk over the array.
LEMMA WalkStep ==
  ASSUME NEW n \in Nat, NEW b \in Arrays(n)
  PROVE  /\ Walk(b) \in [0 .. n -> Seq(Pairs)]
         /\ Walk(b)[0] = <<>>
         /\ \A i \in 1 .. n : Walk(b)[i] = Walk(b)[i - 1] \o b[i - 1]
<1> DEFINE advance == [i \in 1 .. n |-> [s \in Seq(Pairs) |-> s \o b[i - 1]]]
           w == Walk(b)
<1>0. capacity(b) = n
  BY Capacity DEF Arrays
<1>1. \A i \in 1 .. n : b[i - 1] \in Seq(Pairs)
  BY DEF Arrays
<1>2. advance \in [1 .. n -> [Seq(Pairs) -> Seq(Pairs)]]
  BY <1>1
<1>3. PICK f : Iteration(f, <<>>, n, Seq(Pairs), advance)
  <2>1. <<>> \in Seq(Pairs) /\ advance \in Steps(n, Seq(Pairs))
    BY <1>2 DEF Steps
  <2> HIDE DEF advance
  <2> QED BY <2>1, Iterate
<1>4. ASSUME NEW i \in 0 .. n
      PROVE  f[i] = IF i = 0 THEN <<>> ELSE f[i - 1] \o b[i - 1]
  <2>1. CASE i # 0
    <3>1. i \in 1 .. n /\ i - 1 \in 0 .. n
      BY <2>1
    <3> QED BY <1>3, <2>1, <3>1 DEF Iteration
  <2> QED BY <1>3, <2>1 DEF Iteration
<1>5. f = [i \in 0 .. n |-> IF i = 0 THEN <<>> ELSE f[i - 1] \o b[i - 1]]
  BY <1>3, <1>4 DEF Iteration
<1>6. w = [i \in 0 .. n |-> IF i = 0 THEN <<>> ELSE w[i - 1] \o b[i - 1]]
  <2> HIDE DEF advance
  <2> QED BY <1>0, <1>5 DEF Walk
<1> HIDE DEF w
<1>7. w[0] = <<>> /\ \A i \in 1 .. n : w[i] = w[i - 1] \o b[i - 1]
  <2>1. w[0] = <<>>
    BY <1>6
  <2>2. ASSUME NEW i \in 1 .. n PROVE w[i] = w[i - 1] \o b[i - 1]
    <3>1. i \in 0 .. n /\ i # 0
      OBVIOUS
    <3> QED BY <1>6, <3>1
  <2> QED BY <2>1, <2>2
<1> DEFINE S == {i \in Nat : i <= n => w[i] \in Seq(Pairs)}
<1>8. 0 \in S
  <2>1. <<>> \in Seq(Pairs)
    OBVIOUS
  <2> QED BY <1>7, <2>1
<1>9. ASSUME NEW i \in Nat, i \in S PROVE i + 1 \in S
  <2> SUFFICES ASSUME i + 1 <= n PROVE w[i + 1] \in Seq(Pairs)
    OBVIOUS
  <2>1. w[i] \in Seq(Pairs) /\ i + 1 \in 1 .. n
    BY <1>9
  <2>2. b[(i + 1) - 1] \in Seq(Pairs)
    BY <2>1, <1>1
  <2>3. w[i + 1] = w[(i + 1) - 1] \o b[(i + 1) - 1]
    BY <2>1, <1>7
  <2>4. (i + 1) - 1 = i
    OBVIOUS
  <2> QED BY <2>1, <2>2, <2>3, <2>4
<1>10. Nat \subseteq S
  <2> HIDE DEF S
  <2> QED BY <1>8, <1>9, NatInd
<1>11. \A i \in 0 .. n : w[i] \in Seq(Pairs)
  BY <1>10
<1>12. w \in [0 .. n -> Seq(Pairs)]
  BY <1>6, <1>11
<1> QED BY <1>7, <1>12 DEF w

\* An element of a concatenation is an element of one of its parts.
LEMMA ConcatAt ==
  ASSUME NEW U, NEW s \in Seq(U), NEW t \in Seq(U), NEW r, r = s \o t, NEW x \in DOMAIN r
  PROVE  \/ x \in DOMAIN s /\ r[x] = s[x]
         \/ x > Len(s) /\ x - Len(s) \in DOMAIN t /\ r[x] = t[x - Len(s)]
  BY SMTT(30)

\* The provers reason about a length better under a name of its own.
Length(s) == Len(s)

LEMMA LengthNat ==
  ASSUME NEW U, NEW s \in Seq(U)
  PROVE  Length(s) \in Nat
  BY DEF Length

\* The length of a concatenation.
LEMMA LengthConcat ==
  ASSUME NEW U, NEW s \in Seq(U), NEW t \in Seq(U)
  PROVE  /\ Length(s \o t) = Length(s) + Length(t)
         /\ Length(s \o t) \in Nat /\ Length(s) \in Nat /\ Length(t) \in Nat
  BY DEF Length

\* The elements of a concatenation.
LEMMA ElemsConcat ==
  ASSUME NEW U, NEW s \in Seq(U), NEW t \in Seq(U)
  PROVE  s \o t \in Seq(U) /\ Elems(s \o t) = Elems(s) \cup Elems(t)
<1>1. \A j \in DOMAIN (s \o t) : (s \o t)[j] \in Elems(s) \cup Elems(t)
  BY DEF Elems
<1>2. \A j \in DOMAIN s : (s \o t)[j] = s[j] /\ j \in DOMAIN (s \o t)
  OBVIOUS
<1>3. \A j \in DOMAIN t : (s \o t)[j + Len(s)] = t[j] /\ j + Len(s) \in DOMAIN (s \o t)
  OBVIOUS
<1>4. s \o t \in Seq(U)
  OBVIOUS
<1>5. Elems(s \o t) \subseteq Elems(s) \cup Elems(t)
  BY <1>1 DEF Elems
<1>6. Elems(s) \subseteq Elems(s \o t)
  BY <1>2 DEF Elems
<1>7. Elems(t) \subseteq Elems(s \o t)
  BY <1>3 DEF Elems
<1> QED BY <1>4, <1>5, <1>6, <1>7

\* The walk finds exactly the nodes of the chains it has passed.
LEMMA WalkElems ==
  ASSUME NEW n \in Nat, NEW b \in Arrays(n)
  PROVE  \A i \in 0 .. n : Elems(Walk(b)[i]) = UNION {Elems(b[c]) : c \in 0 .. i - 1}
<1> DEFINE w == Walk(b)
           S == {i \in Nat : i <= n => Elems(w[i]) = UNION {Elems(b[c]) : c \in 0 .. i - 1}}
<1>1. /\ w \in [0 .. n -> Seq(Pairs)]
      /\ w[0] = <<>>
      /\ \A i \in 1 .. n : w[i] = w[i - 1] \o b[i - 1]
  BY WalkStep
<1> HIDE DEF w
<1>2. 0 \in S
  BY <1>1 DEF Elems
<1>3. ASSUME NEW i \in Nat, i \in S PROVE i + 1 \in S
  <2> SUFFICES ASSUME i + 1 <= n
               PROVE  Elems(w[i + 1]) = UNION {Elems(b[c]) : c \in 0 .. (i + 1) - 1}
    OBVIOUS
  <2>0. (i + 1) - 1 = i /\ i + 1 \in 1 .. n /\ i \in 0 .. n /\ i \in 0 .. n - 1
    OBVIOUS
  <2>1. w[i + 1] = w[i] \o b[i] /\ w[i] \in Seq(Pairs) /\ b[i] \in Seq(Pairs)
    BY <1>1, <2>0 DEF Arrays
  <2>2. Elems(w[i + 1]) = Elems(w[i]) \cup Elems(b[i])
    BY <2>1, ElemsConcat
  <2>3. Elems(w[i]) = UNION {Elems(b[c]) : c \in 0 .. i - 1}
    BY <1>3
  <2>4. 0 .. (i + 1) - 1 = (0 .. i - 1) \cup {i}
    OBVIOUS
  <2> QED BY <2>2, <2>3, <2>4
<1>4. Nat \subseteq S
  <2> HIDE DEF S
  <2> QED BY <1>2, <1>3, NatInd
<1> QED BY <1>4 DEF w

\* The nodes that the walk returns are those held.
LEMMA NodesElems ==
  ASSUME NEW n \in Nat, NEW b \in Arrays(n)
  PROVE  Nodes(b) \in Seq(Pairs) /\ Elems(Nodes(b)) = Held(b)
<1>1. capacity(b) = n /\ DOMAIN b = 0 .. n - 1
  BY Capacity DEF Arrays
<1>2. Nodes(b) = Walk(b)[n] /\ n \in 0 .. n
  BY <1>1 DEF Nodes
<1>3. Nodes(b) \in Seq(Pairs)
  <2>1. Walk(b) \in [0 .. n -> Seq(Pairs)]
    BY WalkStep
  <2> QED BY <1>2, <2>1
<1> QED BY <1>1, <1>2, <1>3, WalkElems, SMTT(30) DEF Held

\* No key is met twice on the walk: nodes of one chain differ, and those of two
\* chains have different hashes.
LEMMA WalkSingle ==
  ASSUME NEW n \in Nat \ {0}, NEW b, Table(b, n)
  PROVE  \A i \in 0 .. n : \A p, q \in DOMAIN Walk(b)[i] :
           Walk(b)[i][p][1] = Walk(b)[i][q][1] => p = q
<1> DEFINE w == Walk(b)
           S == {i \in Nat : i <= n =>
                   \A p, q \in DOMAIN w[i] : w[i][p][1] = w[i][q][1] => p = q}
<1>0. b \in Arrays(n) /\ DOMAIN b = 0 .. n - 1
  BY DEF Table, Arrays
<1>1. /\ w \in [0 .. n -> Seq(Pairs)]
      /\ w[0] = <<>>
      /\ \A i \in 1 .. n : w[i] = w[i - 1] \o b[i - 1]
  BY <1>0, WalkStep
<1>2. \A i \in 0 .. n : Elems(w[i]) = UNION {Elems(b[c]) : c \in 0 .. i - 1}
  BY <1>0, WalkElems
<1> HIDE DEF w
<1>3. 0 \in S
  BY <1>1
<1>4. ASSUME NEW i \in Nat, i \in S PROVE i + 1 \in S
  <2> SUFFICES ASSUME i + 1 <= n, NEW p \in DOMAIN w[i + 1], NEW q \in DOMAIN w[i + 1],
                      w[i + 1][p][1] = w[i + 1][q][1]
               PROVE  p = q
    OBVIOUS
  <2>0. (i + 1) - 1 = i /\ i + 1 \in 1 .. n /\ i \in 0 .. n /\ i \in 0 .. n - 1
    OBVIOUS
  <2>1. w[i + 1] = w[i] \o b[i] /\ w[i] \in Seq(Pairs) /\ b[i] \in Seq(Pairs)
    BY <1>0, <1>1, <2>0 DEF Arrays
  <2> DEFINE m == Len(w[i])
  <2>2. m \in Nat /\ p \in Nat /\ q \in Nat
    BY <2>1
  <2>21. ASSUME NEW x \in DOMAIN w[i + 1]
         PROVE  \/ x \in DOMAIN w[i] /\ w[i + 1][x] = w[i][x]
                \/ x > m /\ x - m \in DOMAIN b[i] /\ w[i + 1][x] = b[i][x - m]
    <3> DEFINE a == w[i]
               t == b[i]
               r == w[i + 1]
    <3>1. r = a \o t /\ a \in Seq(Pairs) /\ t \in Seq(Pairs) /\ x \in DOMAIN r
      BY <2>1
    <3> HIDE DEF a, t, r
    <3>2. \/ x \in DOMAIN a /\ r[x] = a[x]
          \/ x > Len(a) /\ x - Len(a) \in DOMAIN t /\ r[x] = t[x - Len(a)]
      BY <3>1, ConcatAt, SMTT(30)
    <3> QED BY <3>2 DEF a, t, r
  <2>3. ASSUME NEW x \in DOMAIN w[i], NEW y \in DOMAIN b[i], w[i][x][1] = b[i][y][1]
        PROVE  FALSE
    <3>1. w[i][x] \in Elems(w[i])
      BY DEF Elems
    <3>2. PICK c \in 0 .. i - 1 : w[i][x] \in Elems(b[c])
      BY <1>2, <2>0, <3>1
    <3>3. PICK j \in DOMAIN b[c] : w[i][x] = b[c][j]
      BY <3>2 DEF Elems
    <3>4. c \in 0 .. n - 1 /\ c # i
      BY <2>0
    <3>5. hash_value(b[c][j][1]) % n = c /\ hash_value(b[i][y][1]) % n = i
      BY <2>0, <3>4 DEF Table, Homed
    <3> QED BY <2>3, <3>3, <3>4, <3>5
  <2>4. CASE p \in DOMAIN w[i] /\ w[i + 1][p] = w[i][p]
    <3>1. CASE q \in DOMAIN w[i] /\ w[i + 1][q] = w[i][q]
      BY <1>4, <2>0, <2>4, <3>1
    <3>2. CASE q > m /\ q - m \in DOMAIN b[i] /\ w[i + 1][q] = b[i][q - m]
      BY <2>3, <2>4, <3>2
    <3> QED BY <2>21, <3>1, <3>2
  <2>5. CASE p > m /\ p - m \in DOMAIN b[i] /\ w[i + 1][p] = b[i][p - m]
    <3>1. CASE q \in DOMAIN w[i] /\ w[i + 1][q] = w[i][q]
      BY <2>3, <2>5, <3>1
    <3>2. CASE q > m /\ q - m \in DOMAIN b[i] /\ w[i + 1][q] = b[i][q - m]
      <4>1. b[i][p - m][1] = b[i][q - m][1]
        BY <2>5, <3>2
      <4>2. p - m = q - m
        BY <1>0, <2>0, <2>5, <3>2, <4>1 DEF Table, Single
      <4> QED BY <2>2, <4>2
    <3> QED BY <2>21, <3>1, <3>2
  <2> QED BY <2>21, <2>4, <2>5
<1>5. Nat \subseteq S
  <2> HIDE DEF S
  <2> QED BY <1>3, <1>4, NatInd
<1> QED BY <1>5 DEF w

\* When one chain changes, the walk changes its length by as much.
LEMMA WalkLength ==
  ASSUME NEW n \in Nat, NEW b \in Arrays(n), NEW b2 \in Arrays(n), NEW c \in 0 .. n - 1,
         \A d \in 0 .. n - 1 : d # c => b2[d] = b[d]
  PROVE  /\ Length(Nodes(b)) \in Nat /\ Length(Nodes(b2)) \in Nat
         /\ Length(Nodes(b2)) + Length(b[c]) = Length(Nodes(b)) + Length(b2[c])
<1> DEFINE w == Walk(b)
           w2 == Walk(b2)
           Right(i) == /\ i > c => Length(w2[i]) + Length(b[c]) = Length(w[i]) + Length(b2[c])
                       /\ i <= c => Length(w2[i]) = Length(w[i])
           S == {i \in Nat : i <= n => Right(i)}
<1>1. /\ w \in [0 .. n -> Seq(Pairs)]
      /\ w[0] = <<>>
      /\ \A i \in 1 .. n : w[i] = w[i - 1] \o b[i - 1]
  BY WalkStep
<1>2. /\ w2 \in [0 .. n -> Seq(Pairs)]
      /\ w2[0] = <<>>
      /\ \A i \in 1 .. n : w2[i] = w2[i - 1] \o b2[i - 1]
  BY WalkStep
<1>3. capacity(b) = n /\ capacity(b2) = n
  BY Capacity DEF Arrays
<1>4. Length(b[c]) \in Nat /\ Length(b2[c]) \in Nat
  BY DEF Arrays, Length
<1>5. Nodes(b) = w[n] /\ Nodes(b2) = w2[n]
  BY <1>3 DEF Nodes
<1> HIDE DEF w, w2, Right
<1>6. 0 \in S
  <2>1. ~ (0 > c)
    OBVIOUS
  <2>2. Right(0)
    BY <1>1, <1>2, <2>1 DEF Right
  <2> QED BY <2>2
<1>7. ASSUME NEW i \in Nat, i \in S PROVE i + 1 \in S
  <2> SUFFICES ASSUME i + 1 <= n PROVE Right(i + 1)
    OBVIOUS
  <2>0. (i + 1) - 1 = i /\ i + 1 \in 1 .. n /\ i \in 0 .. n /\ i \in 0 .. n - 1
    OBVIOUS
  <2>1. w[i + 1] = w[i] \o b[i] /\ w[i] \in Seq(Pairs) /\ b[i] \in Seq(Pairs)
    BY <1>1, <2>0 DEF Arrays
  <2>2. w2[i + 1] = w2[i] \o b2[i] /\ w2[i] \in Seq(Pairs) /\ b2[i] \in Seq(Pairs)
    BY <1>2, <2>0 DEF Arrays
  <2>3. /\ Length(w[i + 1]) = Length(w[i]) + Length(b[i])
        /\ Length(w[i]) \in Nat /\ Length(b[i]) \in Nat
    BY <2>1, LengthConcat
  <2>4. /\ Length(w2[i + 1]) = Length(w2[i]) + Length(b2[i])
        /\ Length(w2[i]) \in Nat /\ Length(b2[i]) \in Nat
    BY <2>2, LengthConcat
  <2>5. Right(i)
    BY <1>7, <2>0
  <2>6. CASE i = c
    BY <1>4, <2>3, <2>4, <2>5, <2>6 DEF Right
  <2>7. CASE i # c
    <3>1. b2[i] = b[i]
      BY <2>0, <2>7
    <3> QED BY <1>4, <2>3, <2>4, <2>5, <2>7, <3>1 DEF Right
  <2> QED BY <2>6, <2>7
<1>8. n \in S
  <2> HIDE DEF S
  <2> QED BY <1>6, <1>7, NatInd
<1>9. Right(n) /\ n > c
  BY <1>8
<1>10. Length(w[n]) \in Nat /\ Length(w2[n]) \in Nat
  <2>1. n \in 0 .. n
    OBVIOUS
  <2>2. w[n] \in Seq(Pairs) /\ w2[n] \in Seq(Pairs)
    BY <1>1, <1>2, <2>1
  <2> QED BY <2>2, LengthNat
<1> QED BY <1>5, <1>9, <1>10 DEF Right

\* The walk returns no key twice.
LEMMA NodesSingle ==
  ASSUME NEW n \in Nat \ {0}, NEW b, Table(b, n)
  PROVE  \A p, q \in DOMAIN Nodes(b) : Nodes(b)[p][1] = Nodes(b)[q][1] => p = q
<1>1. b \in Arrays(n)
  BY DEF Table
<1>2. capacity(b) = n
  BY <1>1, Capacity DEF Arrays
<1>3. Nodes(b) = Walk(b)[n] /\ n \in 0 .. n
  BY <1>2 DEF Nodes
<1> QED BY <1>3, WalkSingle

\* An array of empty chains.
Fresh(n) == [c \in 0 .. n - 1 |-> <<>>]

\* A new map is a table that holds nothing.
LEMMA FreshTable ==
  ASSUME NEW n \in Nat \ {0}
  PROVE  Table(Fresh(n), n) /\ Held(Fresh(n)) = {} /\ Length(Nodes(Fresh(n))) = 0
<1>1. Fresh(n) \in Arrays(n)
  BY DEF Fresh, Arrays
<1>2. Held(Fresh(n)) = {}
  BY DEF Fresh, Held, Elems
<1>3. Nodes(Fresh(n)) \in Seq(Pairs) /\ Elems(Nodes(Fresh(n))) = {}
  BY <1>1, <1>2, NodesElems
<1>4. \A s \in Seq(Pairs) : Elems(s) = {} => Len(s) = 0
  BY DEF Elems
<1>5. Length(Nodes(Fresh(n))) = 0
  BY <1>3, <1>4 DEF Length
<1>6. Homed(Fresh(n), n) /\ Single(Fresh(n))
  BY DEF Fresh, Homed, Single
<1> QED BY <1>1, <1>2, <1>5, <1>6 DEF Table

-----------------------------------------------------------------------------
\* A node is in the chain of its key and in no other.
LEMMA HeldAt ==
  ASSUME NEW n \in Nat \ {0}, NEW b, Table(b, n), NEW c \in 0 .. n - 1, NEW e
  PROVE  e \in Elems(b[c]) <=> e \in Held(b) /\ hash_value(e[1]) % n = c
<1>1. DOMAIN b = 0 .. n - 1
  BY DEF Table, Arrays
<1>2. \A d \in 0 .. n - 1 : e \in Elems(b[d]) => hash_value(e[1]) % n = d
  BY DEF Table, Homed, Elems
<1> QED BY <1>1, <1>2 DEF Held

\* What a chain of a table is like.
ChainOK(s, n, c) ==
  /\ s \in Seq(Pairs)
  /\ \A j \in DOMAIN s : hash_value(s[j][1]) % n = c
  /\ \A i, j \in DOMAIN s : s[i][1] = s[j][1] => i = j

\* b2 is b with the chain s at c.
Replaced(b, b2, n, c, s) ==
  /\ b2 \in Arrays(n)
  /\ b2[c] = s
  /\ \A d \in 0 .. n - 1 : d # c => b2[d] = b[d]

\* Replacing one chain by EXCEPT.
LEMMA ReplacedBy ==
  ASSUME NEW n \in Nat \ {0}, NEW b, Table(b, n), NEW c \in 0 .. n - 1,
         NEW s \in Seq(Pairs), NEW b2, b2 = [b EXCEPT ![c] = s]
  PROVE  Replaced(b, b2, n, c, s)
  BY DEF Replaced, Table, Arrays

\* One chain of a table changes.
LEMMA ChainChange ==
  ASSUME NEW n \in Nat \ {0}, NEW b, Table(b, n), NEW c \in 0 .. n - 1,
         NEW s, ChainOK(s, n, c), NEW b2, Replaced(b, b2, n, c, s)
  PROVE  /\ Table(b2, n)
         /\ \A e : e \in Held(b2) <=>
                     e \in Elems(s) \/ (e \in Held(b) /\ e \notin Elems(b[c]))
         /\ Length(Nodes(b)) \in Nat /\ Length(Nodes(b2)) \in Nat
         /\ Length(Nodes(b2)) + Length(b[c]) = Length(Nodes(b)) + Length(s)
<1>1. b \in Arrays(n) /\ DOMAIN b = 0 .. n - 1
  BY DEF Table, Arrays
<1>2. b2 \in Arrays(n) /\ DOMAIN b2 = 0 .. n - 1
  BY DEF Arrays, Replaced
<1>3. b2[c] = s /\ \A d \in 0 .. n - 1 : d # c => b2[d] = b[d]
  BY DEF Replaced
<1>4. Homed(b2, n)
  BY <1>1, <1>3 DEF Table, Homed, ChainOK
<1>5. Single(b2)
  BY <1>1, <1>2, <1>3 DEF Table, Single, ChainOK
<1>6. Table(b2, n)
  BY <1>2, <1>4, <1>5 DEF Table
<1>7. ASSUME NEW e
      PROVE e \in Held(b2) <=> e \in Elems(s) \/ (e \in Held(b) /\ e \notin Elems(b[c]))
  <2>1. ASSUME e \in Held(b2)
        PROVE  e \in Elems(s) \/ (e \in Held(b) /\ e \notin Elems(b[c]))
    <3>1. PICK d \in 0 .. n - 1 : e \in Elems(b2[d])
      BY <1>2, <2>1 DEF Held
    <3>2. CASE d = c
      BY <1>3, <3>1, <3>2
    <3>3. CASE d # c
      <4>1. e \in Elems(b[d])
        BY <1>3, <3>1, <3>3
      <4> QED BY <3>3, <4>1, HeldAt, ZenonT(30)
    <3> QED BY <3>2, <3>3
  <2>2. ASSUME e \in Elems(s) PROVE e \in Held(b2)
    BY <1>2, <1>3, <2>2 DEF Held
  <2>3. ASSUME e \in Held(b), e \notin Elems(b[c]) PROVE e \in Held(b2)
    <3>1. PICK d \in 0 .. n - 1 : e \in Elems(b[d])
      BY <1>1, <2>3 DEF Held
    <3>2. d # c /\ e \in Elems(b2[d])
      BY <1>3, <2>3, <3>1
    <3> QED BY <1>2, <3>2 DEF Held
  <2> QED BY <2>1, <2>2, <2>3
<1>8. /\ Length(Nodes(b)) \in Nat /\ Length(Nodes(b2)) \in Nat
      /\ Length(Nodes(b2)) + Length(b[c]) = Length(Nodes(b)) + Length(b2[c])
  BY <1>1, <1>2, <1>3, WalkLength
<1> QED BY <1>3, <1>6, <1>7, <1>8

\* What Find returns for a chain without two equal keys.
LEMMA FindIs ==
  ASSUME NEW s \in Seq(Pairs), NEW k \in MapKeys,
         \A i, j \in DOMAIN s : s[i][1] = s[j][1] => i = j
  PROVE  \/ Find(s, k) = 0 /\ \A j \in DOMAIN s : s[j][1] # k
         \/ Find(s, k) # 0 /\ Find(s, k) \in DOMAIN s /\ s[Find(s, k)][1] = k
<1> DEFINE at == {i \in DOMAIN s : value_eq(s[i][1], k)}
<1>1. \A i \in DOMAIN s : s[i] \in Pairs /\ i # 0 /\ i \in Nat
  OBVIOUS
<1>2. \A i \in DOMAIN s : s[i][1] \in MapKeys
  BY <1>1, PairParts
<1>3. \A i \in DOMAIN s : i \in at <=> s[i][1] = k
  BY <1>2, KeysEqual
<1>4. CASE at = {}
  BY <1>3, <1>4 DEF Find
<1>5. CASE at # {}
  <2>1. PICK i \in at : TRUE
    BY <1>5
  <2>2. at = {i}
    BY <1>3, <2>1
  <2>3. \A j \in at : i <= j
    BY <1>1, <2>2
  <2>4. (CHOOSE x \in at : \A j \in at : x <= j) = i
    BY <2>2, <2>3
  <2>5. Find(s, k) = i
    BY <1>5, <2>4 DEF Find
  <2> QED BY <1>1, <1>3, <2>1, <2>5
<1> QED BY <1>4, <1>5

\* rc_map_get of a table.
Get(b, k) ==
  LET c == Chain(b, k) IN IF Find(c, k) = 0 THEN Missing ELSE c[Find(c, k)][2]

\* Looking a key up finds the value it is held with.
LEMMA GetHeld ==
  ASSUME NEW n \in Nat \ {0}, NEW b, Table(b, n), NEW k \in MapKeys
  PROVE  /\ \A v \in MapValues : <<k, v>> \in Held(b) => Get(b, k) = v
         /\ (\A v \in MapValues : <<k, v>> \notin Held(b)) => Get(b, k) = Missing
         /\ Find(Chain(b, k), k) # 0 <=> \E e \in Held(b) : e[1] = k
<1> DEFINE c == hash_value(k) % n
           s == b[c]
<1>1. c \in 0 .. n - 1
  BY HomeIsChain
<1>2. capacity(b) = n
  BY Capacity DEF Table, Arrays
<1>3. Chain(b, k) = s
  BY <1>2 DEF Chain
<1>4. s \in Seq(Pairs)
  BY <1>1 DEF Table, Arrays
<1>5. \A i, j \in DOMAIN s : s[i][1] = s[j][1] => i = j
  BY <1>1 DEF Table, Arrays, Single
<1>6. \A e : e[1] = k => (e \in Held(b) <=> e \in Elems(s))
  BY <1>1, HeldAt
<1>7. \A j \in DOMAIN s : s[j] \in Elems(s) /\ s[j] = <<s[j][1], s[j][2]>> /\ s[j][2] \in MapValues
  BY <1>4, PairParts DEF Elems
<1> HIDE DEF s, c
<1>8. CASE Find(s, k) = 0 /\ \A j \in DOMAIN s : s[j][1] # k
  <2>1. \A e \in Held(b) : e[1] # k
    BY <1>6, <1>8 DEF Elems
  <2>2. \A v \in MapValues : <<k, v>>[1] = k
    OBVIOUS
  <2> QED BY <1>3, <1>8, <2>1, <2>2 DEF Get
<1>9. CASE Find(s, k) # 0 /\ Find(s, k) \in DOMAIN s /\ s[Find(s, k)][1] = k
  <2> DEFINE f == Find(s, k)
  <2>1. Get(b, k) = s[f][2]
    BY <1>3, <1>9 DEF Get
  <2>2. s[f] \in Held(b) /\ s[f] = <<k, s[f][2]>> /\ s[f][2] \in MapValues
    BY <1>6, <1>7, <1>9
  <2>3. ASSUME NEW v \in MapValues, <<k, v>> \in Held(b) PROVE s[f][2] = v
    <3>1. <<k, v>> \in Elems(s)
      BY <1>6, <2>3
    <3>2. PICK j \in DOMAIN s : s[j] = <<k, v>>
      BY <3>1 DEF Elems
    <3>3. j = f
      BY <1>5, <1>9, <3>2
    <3> QED BY <3>2, <3>3
  <2> QED BY <1>3, <1>9, <2>1, <2>2, <2>3
<1> QED BY <1>4, <1>5, <1>8, <1>9, FindIs

-----------------------------------------------------------------------------
\* What setting and removing a key do to the nodes held.
Rebinds(b, b2, k, v) ==
  \A e : e \in Held(b2) <=> e = <<k, v>> \/ (e \in Held(b) /\ e[1] # k)

Unbinds(b, b2, k) == \A e : e \in Held(b2) <=> e \in Held(b) /\ e[1] # k

\* Elements of the chain of k with the key k, seen from the chain.
LEMMA NewNode ==
  ASSUME NEW n \in Nat \ {0}, NEW b, Table(b, n), NEW e \in Pairs,
         NEW c, c = hash_value(e[1]) % n, \A j \in DOMAIN b[c] : b[c][j][1] # e[1],
         NEW b2, Replaced(b, b2, n, c, <<e>> \o b[c])
  PROVE  /\ Table(b2, n)
         /\ \A x : x \in Held(b2) <=> x = e \/ x \in Held(b)
         /\ \A x \in Held(b) : x[1] # e[1]
         /\ Length(Nodes(b)) \in Nat /\ Length(Nodes(b2)) = Length(Nodes(b)) + 1
<1> DEFINE s == b[c]
           t == <<e>> \o s
<1>1. c \in 0 .. n - 1
  BY HomeIsChain, PairParts
<1>2. b \in Arrays(n) /\ s \in Seq(Pairs) /\ Replaced(b, b2, n, c, t)
  BY <1>1, SMTT(30) DEF Table, Arrays
<1>3. /\ \A j \in DOMAIN s : hash_value(s[j][1]) % n = c /\ s[j][1] # e[1]
      /\ \A i, j \in DOMAIN s : s[i][1] = s[j][1] => i = j
  BY <1>1, <1>2 DEF Table, Homed, Single, Arrays
<1>4. hash_value(e[1]) % n = c
  OBVIOUS
<1> HIDE DEF s
<1>5. t \in Seq(Pairs) /\ Elems(t) = {e} \cup Elems(s)
  <2>1. <<e>> \in Seq(Pairs) /\ Elems(<<e>>) = {e}
    BY DEF Elems
  <2> DEFINE x == <<e>>
  <2> HIDE DEF x
  <2>2. t = x \o s
    BY DEF x
  <2>3. x \in Seq(Pairs) /\ Elems(x) = {e}
    BY <2>1 DEF x
  <2> HIDE DEF t
  <2> QED BY <1>2, <2>2, <2>3, ElemsConcat
<1>6. \A j \in DOMAIN t : (j = 1 /\ t[j] = e) \/ (j > 1 /\ j - 1 \in DOMAIN s /\ t[j] = s[j - 1])
  BY <1>2
<1>7. Length(t) = Length(s) + 1 /\ Length(s) \in Nat
  BY <1>2 DEF Length
<1>8. \A j \in DOMAIN t : j \in Nat
  BY <1>5
<1> HIDE DEF t
<1>9. \A j \in DOMAIN t : hash_value(t[j][1]) % n = c
  BY <1>3, <1>4, <1>6
<1>10. ASSUME NEW i \in DOMAIN t, NEW j \in DOMAIN t, t[i][1] = t[j][1] PROVE i = j
  <2>1. CASE i = 1 /\ t[i] = e
    BY <1>3, <1>6, <1>10, <2>1
  <2>2. CASE i > 1 /\ i - 1 \in DOMAIN s /\ t[i] = s[i - 1]
    <3>1. j > 1 /\ j - 1 \in DOMAIN s /\ t[j] = s[j - 1]
      BY <1>3, <1>6, <1>10, <2>2
    <3>2. i - 1 = j - 1
      BY <1>3, <1>10, <2>2, <3>1
    <3> QED BY <1>8, <3>2
  <2> QED BY <1>6, <2>1, <2>2
<1>20. ChainOK(t, n, c)
  BY <1>5, <1>9, <1>10 DEF ChainOK
<1>11. /\ Table(b2, n)
       /\ \A x : x \in Held(b2) <=> x \in Elems(t) \/ (x \in Held(b) /\ x \notin Elems(s))
       /\ Length(Nodes(b)) \in Nat /\ Length(Nodes(b2)) \in Nat
       /\ Length(Nodes(b2)) + Length(s) = Length(Nodes(b)) + Length(t)
  BY <1>1, <1>2, <1>20, ChainChange DEF s
<1>12. \A x \in Elems(s) : x \in Held(b)
  <2>1. \A x : x \in Elems(b[c]) => x \in Held(b)
    BY <1>1, HeldAt
  <2> QED BY <2>1 DEF s
<1>13. \A x \in Held(b) : x[1] # e[1]
  <2> SUFFICES ASSUME NEW x \in Held(b), x[1] = e[1] PROVE FALSE
    OBVIOUS
  <2>1. x \in Elems(s)
    BY <1>1, <1>4, HeldAt DEF s
  <2> QED BY <1>3, <2>1 DEF Elems
<1>14. \A x : x \in Held(b2) <=> x = e \/ x \in Held(b)
  BY <1>5, <1>11, <1>12
<1>15. Length(Nodes(b2)) = Length(Nodes(b)) + 1
  BY <1>7, <1>11
<1>16. Table(b2, n) /\ Length(Nodes(b)) \in Nat
  BY <1>11
<1> QED BY <1>13, <1>14, <1>15, <1>16

\* A node is overwritten in place.
LEMMA Overwrite ==
  ASSUME NEW n \in Nat \ {0}, NEW b, Table(b, n), NEW k \in MapKeys, NEW v \in MapValues,
         NEW c, c = hash_value(k) % n, NEW at \in DOMAIN b[c], b[c][at][1] = k,
         NEW b2, Replaced(b, b2, n, c, [b[c] EXCEPT ![at] = <<k, v>>])
  PROVE  /\ Table(b2, n)
         /\ Rebinds(b, b2, k, v)
         /\ Length(Nodes(b2)) = Length(Nodes(b))
<1> DEFINE s == b[c]
           t == [s EXCEPT ![at] = <<k, v>>]
<1>1. c \in 0 .. n - 1
  BY HomeIsChain
<1>2. b \in Arrays(n) /\ s \in Seq(Pairs) /\ Replaced(b, b2, n, c, t)
  BY <1>1 DEF Table, Arrays
<1>3. /\ \A j \in DOMAIN s : hash_value(s[j][1]) % n = c
      /\ \A i, j \in DOMAIN s : s[i][1] = s[j][1] => i = j
      /\ at \in DOMAIN s /\ s[at][1] = k
  BY <1>1, <1>2 DEF Table, Homed, Single, Arrays
<1>4. <<k, v>> \in Pairs /\ <<k, v>>[1] = k
  BY DEF Pairs
<1> HIDE DEF s
<1>5. t \in Seq(Pairs) /\ DOMAIN t = DOMAIN s /\ Length(t) = Length(s)
  BY <1>2, <1>3, <1>4 DEF Length
<1>6. t[at] = <<k, v>> /\ \A j \in DOMAIN s : j # at => t[j] = s[j]
  BY <1>3
<1>7. Length(s) \in Nat
  BY <1>2 DEF Length
<1> HIDE DEF t
<1>8. \A j \in DOMAIN t : t[j][1] = s[j][1]
  BY <1>3, <1>4, <1>5, <1>6
<1>9. \A j \in DOMAIN t : hash_value(t[j][1]) % n = c
  BY <1>3, <1>5, <1>8
<1>10. \A i, j \in DOMAIN t : t[i][1] = t[j][1] => i = j
  BY <1>3, <1>5, <1>8
<1>20. ChainOK(t, n, c)
  BY <1>5, <1>9, <1>10 DEF ChainOK
<1>11. /\ Table(b2, n)
       /\ \A x : x \in Held(b2) <=> x \in Elems(t) \/ (x \in Held(b) /\ x \notin Elems(s))
       /\ Length(Nodes(b)) \in Nat /\ Length(Nodes(b2)) \in Nat
       /\ Length(Nodes(b2)) + Length(s) = Length(Nodes(b)) + Length(t)
  BY <1>1, <1>2, <1>20, ChainChange DEF s
<1>12. Length(Nodes(b2)) = Length(Nodes(b))
  BY <1>5, <1>7, <1>11
<1>13. \A x : x \in Elems(s) <=> x \in Held(b) /\ hash_value(x[1]) % n = c
  BY <1>1, HeldAt DEF s
<1>14. \A x : x \in Elems(t) <=> x = <<k, v>> \/ (x \in Elems(s) /\ x[1] # k)
  <2>1. ASSUME NEW x \in Elems(t) PROVE x = <<k, v>> \/ (x \in Elems(s) /\ x[1] # k)
    <3>1. PICK j \in DOMAIN t : x = t[j]
      BY DEF Elems
    <3>2. CASE j # at
      BY <1>3, <1>5, <1>6, <3>1, <3>2 DEF Elems
    <3> QED BY <1>6, <3>1, <3>2
  <2>2. <<k, v>> \in Elems(t)
    BY <1>3, <1>5, <1>6 DEF Elems
  <2>3. ASSUME NEW x \in Elems(s), x[1] # k PROVE x \in Elems(t)
    BY <1>3, <1>5, <1>6, <2>3 DEF Elems
  <2> QED BY <2>1, <2>2, <2>3
<1>15. Rebinds(b, b2, k, v)
  BY <1>11, <1>13, <1>14 DEF Rebinds
<1> QED BY <1>11, <1>12, <1>15

\* A node leaves its chain.
LEMMA Unlink ==
  ASSUME NEW n \in Nat \ {0}, NEW b, Table(b, n), NEW k \in MapKeys,
         NEW c, c = hash_value(k) % n, NEW at \in DOMAIN b[c], b[c][at][1] = k,
         NEW b2, Replaced(b, b2, n, c, RemoveAt(b[c], at))
  PROVE  /\ Table(b2, n)
         /\ Unbinds(b, b2, k)
         /\ Length(Nodes(b)) \in Nat /\ Length(Nodes(b2)) = Length(Nodes(b)) - 1
<1> DEFINE s == b[c]
           t == RemoveAt(s, at)
<1>1. c \in 0 .. n - 1
  BY HomeIsChain
<1>2. b \in Arrays(n) /\ s \in Seq(Pairs) /\ Replaced(b, b2, n, c, t)
  BY <1>1 DEF Table, Arrays
<1>3. /\ \A j \in DOMAIN s : hash_value(s[j][1]) % n = c
      /\ \A i, j \in DOMAIN s : s[i][1] = s[j][1] => i = j
      /\ at \in DOMAIN s /\ s[at][1] = k
  BY <1>1, <1>2 DEF Table, Homed, Single, Arrays
<1> HIDE DEF s
<1>4. at \in 1 .. Len(s) /\ Len(s) \in Nat
  BY <1>2, <1>3
<1>5. t \in Seq(Pairs) /\ Len(t) = Len(s) - 1
  <2> DEFINE x == SubSeq(s, 1, at - 1)
             y == SubSeq(s, at + 1, Len(s))
  <2>1. x \in Seq(Pairs) /\ Len(x) = at - 1
    BY <1>2, <1>4
  <2>2. y \in Seq(Pairs) /\ Len(y) = Len(s) - at
    BY <1>2, <1>4
  <2>3. t = x \o y
    BY DEF RemoveAt
  <2> HIDE DEF x, y
  <2> QED BY <1>4, <2>1, <2>2, <2>3
<1>6. ASSUME NEW j \in 1 .. Len(s) - 1
      PROVE  t[j] = IF j < at THEN s[j] ELSE s[j + 1]
  <2> DEFINE x == SubSeq(s, 1, at - 1)
             y == SubSeq(s, at + 1, Len(s))
  <2>1. x \in Seq(Pairs) /\ Len(x) = at - 1 /\ \A i \in 1 .. at - 1 : x[i] = s[i]
    BY <1>2, <1>4
  <2>2. y \in Seq(Pairs) /\ Len(y) = Len(s) - at
    BY <1>2, <1>4, SMTT(30)
  <2>3. ASSUME NEW i \in 1 .. Len(s) - at PROVE y[i] = s[(at + 1) + i - 1]
    BY <1>2, <1>4, SMTT(30)
  <2>4. t = x \o y
    BY DEF RemoveAt
  <2> HIDE DEF x, y, t
  <2>5. CASE j < at
    BY <1>4, <2>1, <2>2, <2>4, <2>5, SMTT(30)
  <2>6. CASE ~ (j < at)
    <3>1. j - (at - 1) \in 1 .. Len(s) - at /\ (at + 1) + (j - (at - 1)) - 1 = j + 1
      BY <1>4, <2>6, SMTT(30)
    <3>2. t[j] = y[j - (at - 1)]
      <4>1. j \in DOMAIN t /\ ~ (j \in DOMAIN x)
        BY <1>4, <1>5, <2>1, <2>6, SMTT(30)
      <4> QED BY <2>1, <2>2, <2>4, <4>1, ConcatAt
    <3> QED BY <2>3, <2>6, <3>1, <3>2
  <2> QED BY <2>5, <2>6
<1> HIDE DEF t
<1>7. DOMAIN t = 1 .. Len(s) - 1 /\ DOMAIN s = 1 .. Len(s)
  BY <1>2, <1>5
<1>8. Length(s) \in Nat /\ Length(t) = Length(s) - 1
  BY <1>4, <1>5 DEF Length
<1>9. ASSUME NEW j \in DOMAIN t
      PROVE  \E i \in DOMAIN s : i # at /\ t[j] = s[i] /\ i = IF j < at THEN j ELSE j + 1
  BY <1>4, <1>6, <1>7
<1>10. \A j \in DOMAIN t : hash_value(t[j][1]) % n = c
  BY <1>3, <1>9
<1>11. ASSUME NEW i \in DOMAIN t, NEW j \in DOMAIN t, t[i][1] = t[j][1] PROVE i = j
  <2>1. PICK x \in DOMAIN s : t[i] = s[x] /\ x = IF i < at THEN i ELSE i + 1
    BY <1>9
  <2>2. PICK y \in DOMAIN s : t[j] = s[y] /\ y = IF j < at THEN j ELSE j + 1
    BY <1>9
  <2>3. x = y
    BY <1>3, <1>11, <2>1, <2>2
  <2> QED BY <1>4, <1>7, <2>1, <2>2, <2>3
<1>20. ChainOK(t, n, c)
  BY <1>5, <1>10, <1>11 DEF ChainOK
<1>12. /\ Table(b2, n)
       /\ \A x : x \in Held(b2) <=> x \in Elems(t) \/ (x \in Held(b) /\ x \notin Elems(s))
       /\ Length(Nodes(b)) \in Nat /\ Length(Nodes(b2)) \in Nat
       /\ Length(Nodes(b2)) + Length(s) = Length(Nodes(b)) + Length(t)
  BY <1>1, <1>2, <1>20, ChainChange DEF s
<1>13. Length(Nodes(b2)) = Length(Nodes(b)) - 1
  BY <1>8, <1>12
<1>14. \A x : x \in Elems(s) <=> x \in Held(b) /\ hash_value(x[1]) % n = c
  BY <1>1, HeldAt DEF s
<1>15. \A x : x \in Elems(t) <=> x \in Elems(s) /\ x[1] # k
  <2>1. ASSUME NEW x \in Elems(t) PROVE x \in Elems(s) /\ x[1] # k
    <3>1. PICK j \in DOMAIN t : x = t[j]
      BY DEF Elems
    <3>2. PICK i \in DOMAIN s : i # at /\ t[j] = s[i]
      BY <1>9
    <3> QED BY <1>3, <3>1, <3>2 DEF Elems
  <2>2. ASSUME NEW x \in Elems(s), x[1] # k PROVE x \in Elems(t)
    <3>1. PICK i \in DOMAIN s : x = s[i]
      BY DEF Elems
    <3>2. i # at /\ i \in 1 .. Len(s)
      BY <1>3, <1>7, <2>2, <3>1
    <3>3. CASE i < at
      <4>1. i \in DOMAIN t /\ t[i] = s[i]
        BY <1>4, <1>6, <1>7, <3>2, <3>3
      <4> QED BY <3>1, <4>1 DEF Elems
    <3>4. CASE i > at
      <4>1. i - 1 \in 1 .. Len(s) - 1 /\ ~ (i - 1 < at) /\ (i - 1) + 1 = i
        BY <1>4, <3>2, <3>4
      <4>2. i - 1 \in DOMAIN t /\ t[i - 1] = s[i]
        BY <1>6, <1>7, <4>1
      <4> QED BY <3>1, <4>2 DEF Elems
    <3> QED BY <1>4, <3>2, <3>3, <3>4
  <2> QED BY <2>1, <2>2
<1>16. Unbinds(b, b2, k)
  BY <1>12, <1>14, <1>15 DEF Unbinds
<1> QED BY <1>12, <1>13, <1>16

-----------------------------------------------------------------------------
\* Rehashing nodes with different keys builds a table that holds just them.
LEMMA RehashStep ==
  ASSUME NEW m \in Nat \ {0}, NEW es \in Seq(Pairs)
  PROVE  /\ Rehash(es, m)[0] = Fresh(m)
         /\ \A i \in 1 .. Len(es) :
              Rehash(es, m)[i - 1] \in Arrays(m) =>
                Replaced(Rehash(es, m)[i - 1], Rehash(es, m)[i], m, hash_value(es[i][1]) % m,
                         <<es[i]>> \o Rehash(es, m)[i - 1][hash_value(es[i][1]) % m])
<1> DEFINE N == Len(es)
           T == Arrays(m)
           home(i) == hash_value(es[i][1]) % m
           advance == [i \in 1 .. N |-> [b \in T |-> [b EXCEPT ![home(i)] = <<es[i]>> \o @]]]
           r == Rehash(es, m)
<1>1. \A i \in 1 .. N : es[i] \in Pairs
  OBVIOUS
<1>2. \A i \in 1 .. N : home(i) \in 0 .. m - 1
  BY <1>1, PairParts, HomeIsChain
<1>3. N \in Nat
  OBVIOUS
<1> HIDE DEF home, N
<1>4. advance \in Steps(N, T)
  <2>1. ASSUME NEW i \in 1 .. N, NEW b \in T
        PROVE  [b EXCEPT ![home(i)] = <<es[i]>> \o @] \in T
    <3>1. b[home(i)] \in Seq(Pairs)
      BY <1>2 DEF Arrays
    <3>2. <<es[i]>> \o b[home(i)] \in Seq(Pairs)
      BY <1>1, <3>1
    <3> QED BY <3>2 DEF Arrays
  <2> QED BY <2>1 DEF Steps
<1>5. Fresh(m) \in T
  BY DEF Fresh, Arrays
<1>6. PICK f : Iteration(f, Fresh(m), N, T, advance)
  <2> HIDE DEF advance, T
  <2> QED BY <1>3, <1>4, <1>5, Iterate
<1>7. ASSUME NEW i \in 0 .. N
      PROVE  f[i] = IF i = 0 THEN Fresh(m)
                    ELSE [f[i - 1] EXCEPT ![home(i)] = <<es[i]>> \o @]
  <2>1. CASE i # 0
    <3>1. i \in 1 .. N /\ i - 1 \in 0 .. N
      BY <1>3, <2>1
    <3>2. f[i - 1] \in T /\ f[i] = advance[i][f[i - 1]]
      BY <1>6, <3>1 DEF Iteration
    <3> HIDE DEF T
    <3> QED BY <2>1, <3>1, <3>2
  <2> QED BY <1>6, <2>1 DEF Iteration
<1>8. f = [i \in 0 .. N |-> IF i = 0 THEN Fresh(m)
                            ELSE [f[i - 1] EXCEPT ![home(i)] = <<es[i]>> \o @]]
  BY <1>6, <1>7, SMTT(30) DEF Iteration
<1> HIDE DEF advance
<1>9. r = [i \in 0 .. N |-> IF i = 0 THEN Fresh(m)
                            ELSE [r[i - 1] EXCEPT ![home(i)] = <<es[i]>> \o @]]
  BY <1>8 DEF Rehash, Fresh, home, N
<1> HIDE DEF r
<1>10. r[0] = Fresh(m)
  BY <1>3, <1>9
<1>11. ASSUME NEW i \in 1 .. N, r[i - 1] \in Arrays(m)
       PROVE  Replaced(r[i - 1], r[i], m, home(i), <<es[i]>> \o r[i - 1][home(i)])
  <2> DEFINE b == r[i - 1]
  <2>1. r[i] = [b EXCEPT ![home(i)] = <<es[i]>> \o b[home(i)]]
    <3>1. i \in 0 .. N /\ i # 0
      BY <1>3
    <3> QED BY <1>9, <3>1
  <2>2. b \in Arrays(m)
    BY <1>11
  <2> HIDE DEF b
  <2>3. b[home(i)] \in Seq(Pairs)
    BY <1>2, <2>2 DEF Arrays
  <2>4. <<es[i]>> \o b[home(i)] \in Seq(Pairs)
    BY <1>1, <2>3
  <2>5. Replaced(b, r[i], m, home(i), <<es[i]>> \o b[home(i)])
    BY <1>2, <2>1, <2>2, <2>4 DEF Replaced, Arrays
  <2> QED BY <2>5, SMTT(30) DEF b
<1> QED BY <1>10, <1>11 DEF r, home, N

\* Rehashing keeps every node, once.
LEMMA RehashTable ==
  ASSUME NEW m \in Nat \ {0}, NEW es \in Seq(Pairs),
         \A p, q \in DOMAIN es : es[p][1] = es[q][1] => p = q
  PROVE  /\ Table(Rehash(es, m)[Len(es)], m)
         /\ Held(Rehash(es, m)[Len(es)]) = Elems(es)
         /\ Length(Nodes(Rehash(es, m)[Len(es)])) = Length(es)
<1> DEFINE r == Rehash(es, m)
           N == Len(es)
           home(i) == hash_value(es[i][1]) % m
           Right(i) == /\ Table(r[i], m)
                       /\ \A x : x \in Held(r[i]) <=> \E j \in 1 .. i : x = es[j]
                       /\ Length(Nodes(r[i])) = i
           S == {i \in Nat : i <= N => Right(i)}
<1>1. /\ r[0] = Fresh(m)
      /\ \A i \in 1 .. N : r[i - 1] \in Arrays(m) =>
           Replaced(r[i - 1], r[i], m, home(i), <<es[i]>> \o r[i - 1][home(i)])
  BY RehashStep
<1>2. N \in Nat /\ DOMAIN es = 1 .. N
  OBVIOUS
<1>3. \A i \in 1 .. N : es[i] \in Pairs
  OBVIOUS
<1> HIDE DEF r, N, home, Right
<1>4. 0 \in S
  <2>1. Right(0)
    BY <1>1, FreshTable DEF Right
  <2> QED BY <2>1
<1>5. ASSUME NEW i \in Nat, i \in S PROVE i + 1 \in S
  <2> SUFFICES ASSUME i + 1 <= N PROVE Right(i + 1)
    OBVIOUS
  <2> DEFINE k == i + 1
             b == r[i]
             b2 == r[k]
             e == es[k]
  <2>1. k - 1 = i /\ k \in 1 .. N /\ k = i + 1
    BY <1>2
  <2>2. Right(i)
    BY <1>2, <1>5
  <2>3. e \in Pairs
    BY <1>3, <2>1
  <2> HIDE DEF k
  <2>4. Table(b, m) /\ b \in Arrays(m) /\ Length(Nodes(b)) = i
    BY <2>2 DEF Right, Table
  <2>5. \A x : x \in Held(b) <=> \E j \in 1 .. i : x = es[j]
    BY <2>2 DEF Right
  <2>6. Replaced(b, b2, m, home(k), <<e>> \o b[home(k)])
    BY <1>1, <2>1, <2>4
  <2>7. home(k) = hash_value(e[1]) % m
    BY DEF home
  <2>8. \A x \in Held(b) : x[1] # e[1]
    <3> SUFFICES ASSUME NEW x \in Held(b), x[1] = e[1] PROVE FALSE
      OBVIOUS
    <3>1. PICK j \in 1 .. i : x = es[j]
      BY <2>5
    <3>2. j \in DOMAIN es /\ k \in DOMAIN es /\ j # k
      BY <1>2, <2>1
    <3> QED BY <3>1, <3>2
  <2> HIDE DEF b, b2, e
  <2>9. \A j \in DOMAIN b[home(k)] : b[home(k)][j][1] # e[1]
    <3>1. home(k) \in 0 .. m - 1
      BY <2>3, <2>7, HomeIsChain, PairParts
    <3>2. \A x \in Elems(b[home(k)]) : x \in Held(b)
      BY <2>4, <3>1, HeldAt
    <3> QED BY <2>8, <3>2 DEF Elems
  <2>10. /\ Table(b2, m)
         /\ \A x : x \in Held(b2) <=> x = e \/ x \in Held(b)
         /\ Length(Nodes(b2)) = Length(Nodes(b)) + 1
    BY <2>3, <2>4, <2>6, <2>7, <2>9, NewNode
  <2>11. Length(Nodes(b2)) = k
    BY <2>1, <2>4, <2>10
  <2>12. \A x : x \in Held(b2) <=> \E j \in 1 .. k : x = es[j]
    <3>1. 1 .. k = (1 .. i) \cup {k}
      BY <2>1
    <3> QED BY <2>5, <2>10, <3>1 DEF e
  <2>13. Right(k)
    BY <2>10, <2>11, <2>12 DEF Right, b2
  <2> QED BY <2>13 DEF k
<1>6. N \in S
  <2> HIDE DEF S
  <2> QED BY <1>2, <1>4, <1>5, NatInd
<1>7. Right(N)
  BY <1>2, <1>6
<1>8. Held(r[N]) = Elems(es)
  BY <1>2, <1>7 DEF Right, Elems
<1>9. Length(es) = N
  BY DEF Length, N
<1>10. Table(r[N], m) /\ Length(Nodes(r[N])) = N
  BY <1>7 DEF Right
<1> QED BY <1>8, <1>9, <1>10 DEF r, N

\* Growing keeps every node.
LEMMA ResizeTable ==
  ASSUME NEW n \in Nat \ {0}, NEW b, Table(b, n)
  PROVE  /\ Table(rc_map_resize(b), 2 * n)
         /\ Held(rc_map_resize(b)) = Held(b)
         /\ Length(Nodes(rc_map_resize(b))) = Length(Nodes(b))
<1>1. b \in Arrays(n) /\ capacity(b) = n
  BY Capacity DEF Table, Arrays
<1>2. Nodes(b) \in Seq(Pairs) /\ Elems(Nodes(b)) = Held(b)
  BY <1>1, NodesElems
<1>3. \A p, q \in DOMAIN Nodes(b) : Nodes(b)[p][1] = Nodes(b)[q][1] => p = q
  BY NodesSingle
<1>4. 2 * n \in Nat \ {0}
  OBVIOUS
<1>5. rc_map_resize(b) = Rehash(Nodes(b), 2 * n)[Len(Nodes(b))]
  BY <1>1 DEF rc_map_resize
<1> QED BY <1>2, <1>3, <1>4, <1>5, RehashTable

-----------------------------------------------------------------------------
\* The buckets are a table, and size is the number of nodes in it.
Tabled(b, sz) == \E n \in Nat \ {0} : Table(b, n) /\ sz = Length(Nodes(b))

MapInv == Tabled(buckets, size)

\* The new map satisfies the invariant.
LEMMA MapInitInv == MapInit => MapInv
<1> SUFFICES ASSUME MapInit PROVE MapInv
  OBVIOUS
<1>1. buckets = Fresh(MapInitCap) /\ size = 0
  BY DEF MapInit, Fresh
<1>2. MapInitCap \in Nat \ {0}
  BY MapAssumption
<1> QED BY <1>1, <1>2, FreshTable DEF MapInv, Tabled

\* rc_map_set binds the key, in a larger array when the old one was full.
LEMMA SetStep ==
  ASSUME MapInv, NEW k \in MapKeys, NEW v \in MapValues, rc_map_set(k, v)
  PROVE  MapInv' /\ Rebinds(buckets, buckets', k, v)
<1> DEFINE b == IF 4 * size >= 3 * capacity(buckets) THEN rc_map_resize(buckets) ELSE buckets
           i == hash_value(k) % capacity(b)
           at == Find(b[i], k)
<1>1. PICK m \in Nat \ {0} : Table(buckets, m) /\ size = Length(Nodes(buckets))
  BY DEF MapInv, Tabled
<1>2. \E n \in Nat \ {0} : Table(b, n) /\ Held(b) = Held(buckets)
                           /\ Length(Nodes(b)) = size
  <2>1. 2 * m \in Nat \ {0}
    BY <1>1
  <2>2. CASE b = buckets
    BY <1>1, <2>2
  <2>3. CASE b = rc_map_resize(buckets)
    BY <1>1, <2>1, <2>3, ResizeTable, SMTT(30)
  <2> QED BY <2>2, <2>3
<1>3. \/ at # 0 /\ buckets' = [b EXCEPT ![i][at] = <<@[1], v>>] /\ size' = size
      \/ at = 0 /\ buckets' = [b EXCEPT ![i] = <<<<k, v>>>> \o @] /\ size' = size + 1
  BY DEF rc_map_set
<1> HIDE DEF b
<1>4. PICK n \in Nat \ {0} : Table(b, n) /\ Held(b) = Held(buckets)
                             /\ Length(Nodes(b)) = size
  BY <1>2
<1>5. capacity(b) = n /\ b \in Arrays(n)
  BY <1>4, Capacity DEF Table, Arrays
<1>6. i = hash_value(k) % n /\ i \in 0 .. n - 1
  BY <1>5, HomeIsChain
<1>7. b[i] \in Seq(Pairs) /\ <<k, v>> \in Pairs /\ <<k, v>>[1] = k
  BY <1>5, <1>6 DEF Arrays, Pairs
<1>8. \A p, q \in DOMAIN b[i] : b[i][p][1] = b[i][q][1] => p = q
  BY <1>4, <1>5, <1>6 DEF Table, Single, Arrays
<1>9. \/ at = 0 /\ \A j \in DOMAIN b[i] : b[i][j][1] # k
      \/ at # 0 /\ at \in DOMAIN b[i] /\ b[i][at][1] = k
  BY <1>7, <1>8, FindIs
<1> HIDE DEF i, at
<1>10. CASE at # 0
  <2>1. at \in DOMAIN b[i] /\ b[i][at][1] = k
    BY <1>9, <1>10
  <2>2. buckets' = [b EXCEPT ![i] = [b[i] EXCEPT ![at] = <<k, v>>]]
    <3>1. buckets' = [b EXCEPT ![i][at] = <<@[1], v>>]
      BY <1>3, <1>10
    <3> QED BY <2>1, <3>1
  <2>3. [b[i] EXCEPT ![at] = <<k, v>>] \in Seq(Pairs)
    <3> DEFINE s == b[i]
               e == <<k, v>>
    <3>1. s \in Seq(Pairs) /\ e \in Pairs /\ at \in DOMAIN s
      BY <1>7, <2>1
    <3> HIDE DEF s, e
    <3>2. [s EXCEPT ![at] = e] \in Seq(Pairs)
      BY <3>1
    <3> QED BY <3>2 DEF s, e
  <2>4. Replaced(b, buckets', n, i, [b[i] EXCEPT ![at] = <<k, v>>])
    BY <1>4, <1>6, <2>2, <2>3, ReplacedBy
  <2>5. /\ Table(buckets', n)
        /\ Rebinds(b, buckets', k, v)
        /\ Length(Nodes(buckets')) = Length(Nodes(b))
    BY <1>4, <1>6, <2>1, <2>4, Overwrite
  <2>6. size' = Length(Nodes(buckets'))
    BY <1>3, <1>4, <1>10, <2>5
  <2>7. Rebinds(buckets, buckets', k, v)
    BY <1>4, <2>5 DEF Rebinds
  <2> QED BY <2>5, <2>6, <2>7 DEF MapInv, Tabled
<1>11. CASE at = 0
  <2>1. \A j \in DOMAIN b[i] : b[i][j][1] # k
    BY <1>9, <1>11
  <2> DEFINE e == <<k, v>>
  <2>2. buckets' = [b EXCEPT ![i] = <<e>> \o b[i]] /\ size' = size + 1
    BY <1>3, <1>11
  <2>3. e \in Pairs /\ e[1] = k
    BY <1>7
  <2>4. <<e>> \o b[i] \in Seq(Pairs)
    <3> HIDE DEF e
    <3> QED BY <1>7, <2>3
  <2>5. Replaced(b, buckets', n, i, <<e>> \o b[i])
    BY <1>4, <1>6, <2>2, <2>4, ReplacedBy
  <2> HIDE DEF e
  <2>6. /\ Table(buckets', n)
        /\ \A x : x \in Held(buckets') <=> x = e \/ x \in Held(b)
        /\ \A x \in Held(b) : x[1] # e[1]
        /\ Length(Nodes(buckets')) = Length(Nodes(b)) + 1
    BY <1>4, <1>6, <2>1, <2>3, <2>5, NewNode
  <2>7. size' = Length(Nodes(buckets'))
    BY <1>4, <2>2, <2>6
  <2>8. Rebinds(buckets, buckets', k, v)
    <3>1. \A x : x \in Held(buckets') <=> x = e \/ (x \in Held(buckets) /\ x[1] # k)
      BY <1>4, <2>3, <2>6
    <3> QED BY <3>1 DEF Rebinds, e
  <2> QED BY <2>6, <2>7, <2>8 DEF MapInv, Tabled
<1> QED BY <1>10, <1>11

\* rc_map_remove unbinds the key.
LEMMA RemoveStep ==
  ASSUME MapInv, NEW k \in MapKeys, rc_map_remove(k)
  PROVE  MapInv' /\ Unbinds(buckets, buckets', k)
<1> DEFINE b == buckets
           i == hash_value(k) % capacity(b)
           at == Find(b[i], k)
<1>1. PICK n \in Nat \ {0} : Table(b, n) /\ size = Length(Nodes(b))
  BY DEF MapInv, Tabled
<1>2. at # 0 /\ buckets' = [b EXCEPT ![i] = RemoveAt(b[i], at)] /\ size' = size - 1
  BY DEF rc_map_remove
<1>3. capacity(b) = n /\ b \in Arrays(n)
  BY <1>1, Capacity DEF Table, Arrays
<1>4. i = hash_value(k) % n /\ i \in 0 .. n - 1
  BY <1>3, HomeIsChain
<1>5. b[i] \in Seq(Pairs)
  BY <1>3, <1>4 DEF Arrays
<1>6. \A p, q \in DOMAIN b[i] : b[i][p][1] = b[i][q][1] => p = q
  BY <1>1, <1>3, <1>4 DEF Table, Single, Arrays
<1>7. at \in DOMAIN b[i] /\ b[i][at][1] = k
  BY <1>2, <1>5, <1>6, FindIs
<1> HIDE DEF i, at
<1>8. RemoveAt(b[i], at) \in Seq(Pairs)
  <2> DEFINE s == b[i]
  <2>1. s \in Seq(Pairs) /\ at \in 1 .. Len(s)
    BY <1>5, <1>7
  <2> HIDE DEF s
  <2>2. SubSeq(s, 1, at - 1) \in Seq(Pairs) /\ SubSeq(s, at + 1, Len(s)) \in Seq(Pairs)
    BY <2>1
  <2>3. RemoveAt(s, at) \in Seq(Pairs)
    BY <2>2, ElemsConcat DEF RemoveAt
  <2> QED BY <2>3 DEF s
<1>9. Replaced(b, buckets', n, i, RemoveAt(b[i], at))
  BY <1>1, <1>2, <1>4, <1>8, ReplacedBy
<1>10. /\ Table(buckets', n)
       /\ Unbinds(b, buckets', k)
       /\ Length(Nodes(b)) \in Nat /\ Length(Nodes(buckets')) = Length(Nodes(b)) - 1
  BY <1>1, <1>4, <1>7, <1>9, Unlink
<1>11. size' = Length(Nodes(buckets'))
  BY <1>1, <1>2, <1>10
<1> QED BY <1>10, <1>11 DEF MapInv, Tabled

\* The invariant of the map.
LEMMA MapInvariant == MapSpec => []MapInv
<1>1. MapInv /\ [MapNext]_mapvars => MapInv'
  <2> SUFFICES ASSUME MapInv, [MapNext]_mapvars PROVE MapInv'
    OBVIOUS
  <2>1. ASSUME NEW k \in MapKeys, rc_map_remove(k) PROVE MapInv'
    BY <2>1, RemoveStep
  <2>2. ASSUME NEW k \in MapKeys, NEW v \in MapValues, rc_map_set(k, v) PROVE MapInv'
    BY <2>2, SetStep
  <2>3. CASE UNCHANGED mapvars
    BY <2>3 DEF mapvars, MapInv
  <2> QED BY <2>1, <2>2, <2>3 DEF MapNext
<1> QED BY <1>1, MapInitInv, PTL DEF MapSpec

\* The count is the number of nodes the walk meets, and has() agrees with it.
THEOREM KeysAlwaysFit == MapSpec => []KeysFit
<1>1. MapInv => KeysFit
  <2> SUFFICES ASSUME MapInv PROVE KeysFit
    OBVIOUS
  <2>1. PICK n \in Nat \ {0} : Table(buckets, n) /\ size = Length(Nodes(buckets))
    BY DEF MapInv, Tabled
  <2>2. Elems(Nodes(buckets)) = Held(buckets)
    BY <2>1, NodesElems DEF Table
  <2>3. ASSUME NEW k \in MapKeys
        PROVE  rc_map_has(k) <=> \E i \in DOMAIN Nodes(buckets) : Nodes(buckets)[i][1] = k
    <3>1. rc_map_has(k) <=> \E e \in Held(buckets) : e[1] = k
      BY <2>1, GetHeld DEF rc_map_has
    <3> QED BY <2>2, <3>1 DEF Elems
  <2> QED BY <2>1, <2>3 DEF KeysFit, Length
<1> QED BY <1>1, MapInvariant, PTL

\* The map implements the dictionary.
THEOREM ImplementsDictionary == MapSpec => MapImplementsDictionary
<1> DEFINE d == [k \in MapKeys |-> rc_map_get(k)]
<1>1. \A k \in MapKeys : rc_map_get(k) = Get(buckets, k)
  BY DEF rc_map_get, Get
<1>2. \A k \in MapKeys : rc_map_get(k)' = Get(buckets', k)
  BY DEF rc_map_get, Get
<1>3. MapInit => Dict!DInit
  <2> SUFFICES ASSUME MapInit PROVE \A k \in MapKeys : rc_map_get(k) = Missing
    BY DEF Dict!DInit
  <2> TAKE k \in MapKeys
  <2>1. MapInitCap \in Nat \ {0} /\ buckets = Fresh(MapInitCap)
    BY MapAssumption DEF MapInit, Fresh
  <2>2. Get(buckets, k) = Missing
    BY <2>1, FreshTable, GetHeld
  <2> QED BY <1>1, <2>2
<1>4. MapInv /\ MapInv' /\ [MapNext]_mapvars => [Dict!DNext]_d
  <2> SUFFICES ASSUME MapInv, MapInv', [MapNext]_mapvars PROVE [Dict!DNext]_d
    OBVIOUS
  <2>1. PICK n \in Nat \ {0} : Table(buckets, n)
    BY DEF MapInv, Tabled
  <2>2. PICK n2 \in Nat \ {0} : Table(buckets', n2)
    BY DEF MapInv, Tabled
  <2>3. ASSUME NEW k \in MapKeys, NEW k2 \in MapKeys,
               \A v \in MapValues : <<k2, v>> \in Held(buckets') <=> <<k2, v>> \in Held(buckets)
        PROVE  Get(buckets', k2) = Get(buckets, k2)
    <3>1. CASE \E v \in MapValues : <<k2, v>> \in Held(buckets)
      BY <2>1, <2>2, <2>3, <3>1, GetHeld
    <3>2. CASE ~ \E v \in MapValues : <<k2, v>> \in Held(buckets)
      <4>1. Get(buckets, k2) = Missing
        BY <2>1, <3>2, GetHeld
      <4>2. Get(buckets', k2) = Missing
        BY <2>2, <2>3, <3>2, GetHeld
      <4> QED BY <4>1, <4>2
    <3> QED BY <3>1, <3>2
  <2>4. ASSUME NEW k \in MapKeys, rc_map_remove(k) PROVE Dict!DNext
    <3>1. Unbinds(buckets, buckets', k)
      BY <2>4, RemoveStep
    <3>2. Get(buckets', k) = Missing
      <4>1. \A v \in MapValues : <<k, v>> \notin Held(buckets')
        BY <3>1 DEF Unbinds
      <4> QED BY <2>2, <4>1, GetHeld
    <3>3. ASSUME NEW k2 \in MapKeys, k2 # k PROVE Get(buckets', k2) = Get(buckets, k2)
      <4>1. \A v \in MapValues : <<k2, v>> \in Held(buckets') <=> <<k2, v>> \in Held(buckets)
        BY <3>1, <3>3 DEF Unbinds
      <4> QED BY <2>3, <4>1
    <3>4. d' = [d EXCEPT ![k] = Missing]
      BY <1>1, <1>2, <3>2, <3>3
    <3> QED BY <3>4 DEF Dict!DNext, Dict!Forget
  <2>5. ASSUME NEW k \in MapKeys, NEW v \in MapValues, rc_map_set(k, v) PROVE Dict!DNext
    <3>1. Rebinds(buckets, buckets', k, v)
      BY <2>5, SetStep
    <3>2. Get(buckets', k) = v
      <4>1. <<k, v>> \in Held(buckets')
        BY <3>1 DEF Rebinds
      <4> QED BY <2>2, <4>1, GetHeld
    <3>3. ASSUME NEW k2 \in MapKeys, k2 # k PROVE Get(buckets', k2) = Get(buckets, k2)
      <4>1. \A w \in MapValues : <<k2, w>> \in Held(buckets') <=> <<k2, w>> \in Held(buckets)
        BY <3>1, <3>3 DEF Rebinds
      <4> QED BY <2>3, <4>1
    <3>4. d' = [d EXCEPT ![k] = v]
      BY <1>1, <1>2, <3>2, <3>3
    <3> QED BY <3>4 DEF Dict!DNext, Dict!Assign
  <2>6. CASE UNCHANGED mapvars
    <3>1. \A k \in MapKeys : Get(buckets', k) = Get(buckets, k)
      BY <2>6 DEF mapvars
    <3>2. d' = d
      BY <1>1, <1>2, <3>1
    <3> QED BY <3>2
  <2> QED BY <2>4, <2>5, <2>6 DEF MapNext
<1> QED BY <1>3, <1>4, MapInvariant, PTL DEF MapSpec, MapImplementsDictionary, Dict!DSpec

-----------------------------------------------------------------------------
(* The overflow tests are exact for every width.                           *)

\* An expression that fits is evaluated exactly, whatever an overflow gives.
LEMMA EvalFits ==
  ASSUME NEW n \in Ints PROVE Eval(n) = n
  BY DEF Eval

\* The ints of the VM are integers.
LEMMA RangeTypes == INT_MAX \in Int /\ INT_MIN \in Int /\ Ints \subseteq Int
  BY ArithmeticAssumption DEF INT_MIN, Ints

\* pyro_add_ovf: the test evaluates INT_MAX - b only for b > 0 and
\* INT_MIN - b only for b < 0, so it never overflows itself.
THEOREM AddOvfExact ==
  \A a, b \in Ints : pyro_add_ovf(a, b) <=> a + b \notin Ints
<1> SUFFICES ASSUME NEW a \in Ints, NEW b \in Ints
             PROVE  pyro_add_ovf(a, b) <=> a + b \notin Ints
  OBVIOUS
<1>1. b > 0 => INT_MAX - b \in Ints
  BY ArithmeticAssumption DEF Ints, INT_MIN
<1>2. b < 0 => INT_MIN - b \in Ints
  BY ArithmeticAssumption DEF Ints, INT_MIN
<1>3. b > 0 => Eval(INT_MAX - b) = INT_MAX - b
  BY <1>1, EvalFits
<1>4. b < 0 => Eval(INT_MIN - b) = INT_MIN - b
  BY <1>2, EvalFits
<1> QED
  BY <1>3, <1>4, ArithmeticAssumption DEF pyro_add_ovf, Ints, INT_MIN

\* pyro_sub_ovf: likewise.
THEOREM SubOvfExact ==
  \A a, b \in Ints : pyro_sub_ovf(a, b) <=> a - b \notin Ints
<1> SUFFICES ASSUME NEW a \in Ints, NEW b \in Ints
             PROVE  pyro_sub_ovf(a, b) <=> a - b \notin Ints
  OBVIOUS
<1>1. b < 0 => INT_MAX + b \in Ints
  BY ArithmeticAssumption DEF Ints, INT_MIN
<1>2. b > 0 => INT_MIN + b \in Ints
  BY ArithmeticAssumption DEF Ints, INT_MIN
<1>3. b < 0 => Eval(INT_MAX + b) = INT_MAX + b
  BY <1>1, EvalFits
<1>4. b > 0 => Eval(INT_MIN + b) = INT_MIN + b
  BY <1>2, EvalFits
<1> QED
  BY <1>3, <1>4, ArithmeticAssumption DEF pyro_sub_ovf, Ints, INT_MIN

\* Division of naturals: the quotient q of n by d is the largest with
\* d * q <= n.
LEMMA DivBounds ==
  ASSUME NEW n \in Nat, NEW d \in Nat, d > 0
  PROVE  /\ n \div d \in Nat
         /\ d * (n \div d) <= n
         /\ n < d * ((n \div d) + 1)
  BY Z3

\* Multiplication by a positive number keeps the order.
LEMMA MulMono ==
  ASSUME NEW d \in Nat, d > 0, NEW k \in Int, NEW m \in Int, k <= m
  PROVE  d * k <= d * m
  BY Z3

\* How C division compares with a product.
LEMMA DivCompare ==
  ASSUME NEW n \in Nat, NEW d \in Nat, d > 0, NEW k \in Nat
  PROVE  k > n \div d <=> d * k > n
<1> DEFINE q == n \div d
<1>1. q \in Nat /\ d * q <= n /\ n < d * (q + 1)
  BY DivBounds
<1> HIDE DEF q
<1>2. CASE k > q
  <2>1. d * (q + 1) <= d * k
    BY <1>1, <1>2, MulMono
  <2> QED BY <2>1, <1>1, <1>2 DEF q
<1>3. CASE k <= q
  <2>1. d * k <= d * q
    BY <1>1, <1>3, MulMono
  <2> QED BY <2>1, <1>1, <1>3 DEF q
<1> QED BY <1>1, <1>2, <1>3

\* One sign case of a product that must not exceed n in size.
LEMMA DivFits ==
  ASSUME NEW n \in Nat, NEW d \in Nat, d > 0
  PROVE  n \div d \in 0 .. n
<1>1. n \div d \in Nat /\ d * (n \div d) <= n
  BY DivBounds
<1>2. (n \div d) * 1 <= (n \div d) * d
  <2>1. CASE n \div d > 0
    BY <2>1, <1>1, MulMono
  <2>2. CASE n \div d = 0
    BY <2>2
  <2> QED BY <1>1, <2>1, <2>2
<1>3. (n \div d) * d = d * (n \div d)
  BY <1>1
<1> QED BY <1>1, <1>2, <1>3

\* pyro_mul_ovf: the divisions of the four sign cases never overflow and
\* decide exactly whether the product fits.
THEOREM MulOvfExact ==
  \A a, b \in Ints : pyro_mul_ovf(a, b) <=> a * b \notin Ints
<1> SUFFICES ASSUME NEW a \in Ints, NEW b \in Ints
             PROVE  pyro_mul_ovf(a, b) <=> a * b \notin Ints
  OBVIOUS
<1> USE ArithmeticAssumption
<1>0. a \in Int /\ b \in Int /\ INT_MIN \in Int /\ INT_MAX + 1 \in Nat
  BY DEF Ints, INT_MIN
<1>1. CASE a > 0 /\ b > 0
  <2>1. Quot(INT_MAX, b) = INT_MAX \div b
    BY <1>0, <1>1 DEF Quot, Abs
  <2>2. INT_MAX \div b \in Ints
    BY <1>0, <1>1, DivFits DEF Ints, INT_MIN
  <2>3. a > INT_MAX \div b <=> b * a > INT_MAX
    BY <1>0, <1>1, DivCompare
  <2>4. a * b = b * a /\ a * b >= 0
    BY <1>0, <1>1
  <2>5. a * b \in Int
    BY <1>0
  <2> QED BY <1>0, <1>1, <2>1, <2>2, <2>3, <2>4, <2>5, EvalFits DEF pyro_mul_ovf, Ints, INT_MIN
<1>2. CASE a > 0 /\ b <= 0
  <2>1. Quot(INT_MIN, a) = -((INT_MAX + 1) \div a)
    BY <1>0, <1>2 DEF Quot, Abs, INT_MIN
  <2>2. (INT_MAX + 1) \div a \in 0 .. INT_MAX + 1
    BY <1>0, <1>2, DivFits
  <2>3. -b > (INT_MAX + 1) \div a <=> a * (-b) > INT_MAX + 1
    BY <1>0, <1>2, DivCompare
  <2>4. a * (-b) = -(a * b) /\ a * b <= 0
    BY <1>0, <1>2
  <2>5. a * b \in Int
    BY <1>0
  <2>6. Eval(Quot(INT_MIN, a)) = -((INT_MAX + 1) \div a)
    BY <2>1, <2>2, EvalFits DEF Ints, INT_MIN
  <2> QED BY <1>0, <1>2, <2>6, <2>2, <2>3, <2>4, <2>5 DEF pyro_mul_ovf, Ints, INT_MIN
<1>3. CASE a <= 0 /\ b > 0
  <2>1. Quot(INT_MIN, b) = -((INT_MAX + 1) \div b)
    BY <1>0, <1>3 DEF Quot, Abs, INT_MIN
  <2>2. (INT_MAX + 1) \div b \in 0 .. INT_MAX + 1
    BY <1>0, <1>3, DivFits
  <2>3. -a > (INT_MAX + 1) \div b <=> b * (-a) > INT_MAX + 1
    BY <1>0, <1>3, DivCompare
  <2>4. b * (-a) = -(a * b) /\ a * b <= 0
    BY <1>0, <1>3
  <2>5. a * b \in Int
    BY <1>0
  <2>6. Eval(Quot(INT_MIN, b)) = -((INT_MAX + 1) \div b)
    BY <2>1, <2>2, EvalFits DEF Ints, INT_MIN
  <2> QED BY <1>0, <1>3, <2>6, <2>2, <2>3, <2>4, <2>5 DEF pyro_mul_ovf, Ints, INT_MIN
<1>4. CASE a < 0 /\ b <= 0
  <2>1. Quot(INT_MAX, a) = -(INT_MAX \div (-a))
    BY <1>0, <1>4 DEF Quot, Abs
  <2>2. INT_MAX \div (-a) \in 0 .. INT_MAX
    BY <1>0, <1>4, DivFits
  <2>3. -b > INT_MAX \div (-a) <=> (-a) * (-b) > INT_MAX
    BY <1>0, <1>4, DivCompare
  <2>4. (-a) * (-b) = a * b /\ a * b >= 0
    BY <1>0, <1>4
  <2>5. a * b \in Int
    BY <1>0
  <2>6. Eval(Quot(INT_MAX, a)) = -(INT_MAX \div (-a))
    BY <2>1, <2>2, EvalFits DEF Ints, INT_MIN
  <2> QED BY <1>0, <1>4, <2>6, <2>2, <2>3, <2>4, <2>5 DEF pyro_mul_ovf, Ints, INT_MIN
<1>5. CASE a = 0 /\ b <= 0
  BY <1>0, <1>5 DEF pyro_mul_ovf, Ints, INT_MIN
<1> QED BY <1>0, <1>1, <1>2, <1>3, <1>4, <1>5

\* Truncating division: what is left has the dividend's sign and is smaller
\* than the divisor.
LEMMA QuotExact ==
  ASSUME NEW x \in Int, NEW y \in Int, y # 0
  PROVE  /\ Quot(x, y) \in Int
         /\ Abs(Quot(x, y)) <= Abs(x)
         /\ Rem(x, y) \in Int
         /\ Abs(Rem(x, y)) < Abs(y)
         /\ Rem(x, y) * x >= 0
         /\ x < 0 => Rem(x, y) <= 0
         /\ x >= 0 => Rem(x, y) >= 0
<1> DEFINE n == Abs(x)
           d == Abs(y)
           q == n \div d
<1>1. n \in Nat /\ d \in Nat /\ d > 0
  BY DEF Abs
<1>2. q \in Nat /\ d * q <= n /\ n < d * (q + 1)
  BY <1>1, DivBounds
<1>3. q <= n
  BY <1>1, DivFits
<1>4. d * q \in Int /\ n - d * q >= 0 /\ n - d * q < d
  <2>1. d * (q + 1) = d * q + d
    BY <1>1, <1>2
  <2> QED BY <1>1, <1>2, <2>1
<1>5. Quot(x, y) = IF (x < 0) = (y < 0) THEN q ELSE -q
  BY DEF Quot
<1> HIDE DEF q
<1>6. y * Quot(x, y) = IF x < 0 THEN -(d * q) ELSE d * q
  <2>1. CASE y < 0
    BY <2>1, <1>2, <1>5 DEF Abs
  <2>2. CASE y >= 0
    BY <2>2, <1>2, <1>5 DEF Abs
  <2> QED BY <2>1, <2>2
<1>7. Rem(x, y) = IF x < 0 THEN -(n - d * q) ELSE n - d * q
  BY <1>4, <1>6 DEF Rem, Abs
<1>8. Rem(x, y) * x >= 0
  <2>1. CASE x < 0
    <3>1. Rem(x, y) \in Int /\ Rem(x, y) <= 0
      BY <2>1, <1>1, <1>4, <1>7
    <3> QED BY <2>1, <3>1
  <2>2. CASE x >= 0
    <3>1. Rem(x, y) \in Int /\ Rem(x, y) >= 0
      BY <2>2, <1>1, <1>4, <1>7
    <3> QED BY <2>2, <3>1
  <2> QED BY <2>1, <2>2
<1> QED BY <1>1, <1>2, <1>3, <1>4, <1>5, <1>7, <1>8 DEF Abs

-----------------------------------------------------------------------------
\* The facts a step needs, one operation at a time: it is fatal exactly when
\* no int is its exact result, and otherwise gives that result.
StepExact(op, x, y) ==
  /\ ~Fatal(op, x, y) => Result(op, x, y) \in Ints /\ Exact(op, x, y, Result(op, x, y))
  /\ Fatal(op, x, y) => \A r \in Ints : ~Exact(op, x, y, r)

\* bin_op is exact on + - and *.
LEMMA AddSubMulExact ==
  ASSUME NEW op \in {"ADD", "SUB", "MUL"}, NEW x \in Ints, NEW y \in Ints
  PROVE  StepExact(op, x, y)
<1>1. CASE op = "ADD"
  BY <1>1, AddOvfExact, EvalFits DEF StepExact, Fatal, Result, Exact
<1>2. CASE op = "SUB"
  BY <1>2, SubOvfExact, EvalFits DEF StepExact, Fatal, Result, Exact
<1>3. CASE op = "MUL"
  BY <1>3, MulOvfExact, EvalFits DEF StepExact, Fatal, Result, Exact
<1> QED BY <1>1, <1>2, <1>3

\* bin_op is exact on /: the quotient truncates towards zero.
LEMMA DivExact ==
  ASSUME NEW x \in Ints, NEW y \in Ints
  PROVE  StepExact("DIV", x, y)
<1>0. x \in Int /\ y \in Int /\ INT_MIN \in Int /\ INT_MAX \in Int
  BY RangeTypes
<1>1. CASE y = 0
  <2>1. \A r \in Ints : x - y * r = x
    BY <1>0, <1>1, RangeTypes
  <2> QED BY <1>0, <1>1, <2>1 DEF StepExact, Fatal, Exact, Abs
<1>2. CASE x = INT_MIN /\ y = -1
  <2>1. ASSUME NEW r \in Ints PROVE ~Exact("DIV", x, y, r)
    <3>1. x - y * r = INT_MIN + r /\ r <= INT_MAX /\ r \in Int
      BY <1>0, <1>2, RangeTypes DEF Ints
    <3> QED BY <1>0, <1>2, <3>1 DEF Exact, Abs, INT_MIN
  <2> QED BY <1>2, <2>1 DEF StepExact, Fatal
<1>3. CASE y # 0 /\ ~(x = INT_MIN /\ y = -1)
  <2>1. /\ Quot(x, y) \in Int /\ Abs(Quot(x, y)) <= Abs(x)
        /\ Abs(Rem(x, y)) < Abs(y) /\ Rem(x, y) * x >= 0
    BY <1>0, <1>3, QuotExact
  <2>2. Quot(x, y) \in Ints
    <3>1. Quot(x, y) # INT_MAX + 1
      <4> SUFFICES ASSUME Quot(x, y) = INT_MAX + 1 PROVE FALSE
        OBVIOUS
      <4>1. x = INT_MIN
        BY <1>0, <2>1, ArithmeticAssumption, RangeTypes DEF Abs, Ints, INT_MIN, Quot
      <4>2. x - y * (INT_MAX + 1) = (-1 - y) * (INT_MAX + 1)
        BY <1>0, <4>1 DEF INT_MIN
      <4>3. y < 0
        BY <1>0, <1>3, <4>1, ArithmeticAssumption, DivFits DEF Quot, Abs, INT_MIN
      <4>4. Abs((-1 - y) * (INT_MAX + 1)) < Abs(y)
        BY <2>1, <4>2 DEF Rem
      <4>5. -y - 1 >= 1 /\ (-1 - y) * (INT_MAX + 1) >= -1 - y
        BY <1>0, <1>3, <4>1, <4>3, ArithmeticAssumption
      <4>6. INT_MAX >= 1
        BY <4>5, <1>0, ArithmeticAssumption DEF Ints, INT_MIN
      <4>7. (-1 - y) * (INT_MAX + 1) >= (-1 - y) * 2
        BY <4>5, <4>6, <1>0, MulMono
      <4> QED BY <4>3, <4>4, <4>5, <4>7, <1>0 DEF Abs
    <3> QED BY <1>0, <2>1, <3>1, ArithmeticAssumption DEF Abs, Ints, INT_MIN
  <2>3. Result("DIV", x, y) = Quot(x, y)
    BY <2>2, EvalFits DEF Result
  <2>4. ~Fatal("DIV", x, y)
    BY <1>3 DEF Fatal
  <2> QED BY <2>1, <2>2, <2>3, <2>4 DEF StepExact, Exact, Rem
<1> QED BY <1>1, <1>2, <1>3

\* bin_op is exact on %: the remainder has the sign of the dividend.
LEMMA ModExact ==
  ASSUME NEW x \in Ints, NEW y \in Ints
  PROVE  StepExact("MOD", x, y)
<1>0. x \in Int /\ y \in Int /\ INT_MIN \in Int /\ INT_MAX \in Nat
  BY RangeTypes, ArithmeticAssumption
<1>1. CASE y = 0
  BY <1>0, <1>1, RangeTypes DEF StepExact, Fatal, Exact, Abs
<1>2. CASE x = INT_MIN /\ y = -1
  <2>1. Result("MOD", x, y) = 0 /\ 0 \in Ints
    BY <1>0, <1>2 DEF Result, Ints, INT_MIN
  <2>2. x = y * (INT_MAX + 1) + 0 /\ INT_MAX + 1 \in -INT_MAX - 1 .. INT_MAX + 1
    BY <1>0, <1>2 DEF INT_MIN
  <2>3. Exact("MOD", x, y, 0)
    BY <1>0, <1>2, <2>2 DEF Exact, Abs
  <2> QED BY <1>0, <1>2, <2>1, <2>3 DEF StepExact, Fatal
<1>3. CASE y # 0 /\ ~(x = INT_MIN /\ y = -1)
  <2>1. /\ Quot(x, y) \in Int /\ Abs(Quot(x, y)) <= Abs(x)
        /\ Rem(x, y) \in Int /\ Abs(Rem(x, y)) < Abs(y) /\ Rem(x, y) * x >= 0
    BY <1>0, <1>3, QuotExact
  <2>2. Rem(x, y) \in Ints
    BY <1>0, <2>1 DEF Abs, Ints, INT_MIN
  <2>3. Result("MOD", x, y) = Rem(x, y)
    BY <1>3, <2>2, EvalFits DEF Result
  <2>4. Quot(x, y) \in -INT_MAX - 1 .. INT_MAX + 1
    BY <1>0, <2>1 DEF Abs, Ints, INT_MIN
  <2>5. x = y * Quot(x, y) + Rem(x, y)
    BY <1>0, <2>1 DEF Rem
  <2>6. ~Fatal("MOD", x, y)
    BY <1>3 DEF Fatal
  <2>7. Exact("MOD", x, y, Rem(x, y))
    BY <2>1, <2>4, <2>5 DEF Exact
  <2> QED BY <2>2, <2>3, <2>6, <2>7 DEF StepExact
<1> QED BY <1>1, <1>2, <1>3

\* Every operation bin_op applies leaves an exact result or stops.
LEMMA EveryStepExact ==
  ASSUME NEW op \in Ops, NEW x \in Ints, NEW y \in Ints
  PROVE  StepExact(op, x, y)
  BY AddSubMulExact, DivExact, ModExact DEF Ops

\* For every width: bin_op (pyro_runtime.c:3295-3369) stops the program
\* exactly when + - * / % has no result that fits, and otherwise computes it.
THEOREM ArithmeticIsExact == ArithSpec => [](ArithTypeOK /\ ArithmeticExact)
<1> USE ArithmeticAssumption
<1>1. ArithInit => ArithTypeOK /\ ArithmeticExact
  BY DEF ArithInit, ArithTypeOK, ArithmeticExact, Exact, Ops, Ints, INT_MIN
<1>2. ArithTypeOK /\ ArithmeticExact /\ [ArithNext]_sum => (ArithTypeOK /\ ArithmeticExact)'
  <2> SUFFICES ASSUME ArithTypeOK, ArithmeticExact, [ArithNext]_sum
               PROVE  (ArithTypeOK /\ ArithmeticExact)'
    OBVIOUS
  <2>1. CASE ArithNext
    <3>1. PICK op \in Ops, y \in Ints : bin_op(op, y)
      BY <2>1 DEF ArithNext
    <3>2. sum.r \in Ints
      BY DEF ArithTypeOK
    <3>3. StepExact(op, sum.r, y)
      BY <3>2, EveryStepExact
    <3>4. 0 \in Ints
      BY DEF Ints, INT_MIN
    <3>5. Fatal(op, sum.r, y) \in BOOLEAN
      BY DEF Fatal, pyro_add_ovf, pyro_sub_ovf, pyro_mul_ovf
    <3>6. CASE Fatal(op, sum.r, y)
      <4>1. sum' = [op |-> op, x |-> sum.r, y |-> y, ok |-> FALSE, r |-> 0]
        BY <3>1, <3>6 DEF bin_op
      <4> QED BY <3>2, <3>3, <3>4, <3>6, <4>1 DEF StepExact, ArithTypeOK, ArithmeticExact
    <3>7. CASE ~Fatal(op, sum.r, y)
      <4>1. sum' = [op |-> op, x |-> sum.r, y |-> y, ok |-> TRUE, r |-> Result(op, sum.r, y)]
        BY <3>1, <3>7 DEF bin_op
      <4> QED BY <3>2, <3>3, <3>7, <4>1 DEF StepExact, ArithTypeOK, ArithmeticExact
    <3> QED BY <3>6, <3>7
  <2>2. CASE UNCHANGED sum
    BY <2>2 DEF ArithTypeOK, ArithmeticExact
  <2> QED BY <2>1, <2>2
<1> QED BY <1>1, <1>2, PTL DEF ArithSpec

-----------------------------------------------------------------------------
(* Policies only narrow, for every set of policy texts, names and paths.   *)
(* The invariant: until the artifact's permissions are read, there is no   *)
(* artifact policy, so what they add is one more condition; and the        *)
(* operator's policy is only written while everything is allowed.          *)

ReadInOrder ==
  /\ phase = "start" => ~envPolicy.active /\ ~sandboxed
  /\ phase \in {"start", "sandbox", "load"} => ~artifactPolicy.active

\* The policies are read one after the other, PYRO_POLICY first.
LEMMA ReadInOrderInvariant == PolicySpec => []ReadInOrder
<1>1. PolicyInit => ReadInOrder
  BY DEF PolicyInit, ReadInOrder, NoPolicy
<1>2. ReadInOrder /\ [PolicyNext]_polvars => ReadInOrder'
  <2> SUFFICES ASSUME ReadInOrder, [PolicyNext]_polvars PROVE ReadInOrder'
    OBVIOUS
  <2> USE DEF ReadInOrder
  <2>1. ASSUME NEW t \in PolicyTexts, pyro_policy_init(t) PROVE ReadInOrder'
    BY <2>1 DEF pyro_policy_init
  <2>2. ASSUME NEW t \in PolicyTexts, pyro_policy_artifact(t) PROVE ReadInOrder'
    BY <2>2 DEF pyro_policy_artifact
  <2>3. ASSUME NEW b \in BOOLEAN, SandboxVariable(b) PROVE ReadInOrder'
    BY <2>3 DEF SandboxVariable
  <2>4. ASSUME NEW b \in BOOLEAN, SandboxFlag(b) PROVE ReadInOrder'
    BY <2>4 DEF SandboxFlag
  <2>5. CASE FromRoot
    BY <2>5 DEF FromRoot
  <2>6. ASSUME NEW s, AppendSegment(s) PROVE ReadInOrder'
    BY <2>6 DEF AppendSegment
  <2>7. ASSUME NEW r \in Requests, Request(r) PROVE ReadInOrder'
    BY <2>7 DEF Request
  <2>8. CASE UNCHANGED polvars
    BY <2>8 DEF polvars
  <2> QED BY <2>1, <2>2, <2>3, <2>4, <2>5, <2>6, <2>7, <2>8 DEF PolicyNext
<1> QED BY <1>1, <1>2, PTL DEF PolicySpec

\* A step that keeps the operator's policy and the path, adds at most an
\* artifact policy, and adds none to a flat deny, allows nothing new.
LEMMA NarrowingStep ==
  ASSUME envPolicy' = envPolicy, path' = path, sandboxed => sandboxed',
         artifactPolicy' = artifactPolicy \/ (~artifactPolicy.active /\ ~FlatDeny),
         NEW r \in Requests, Allowed(r)'
  PROVE  Allowed(r)
<1>1. CASE Ungated
  BY <1>1 DEF Allowed, Requests, cap_fs, cap_net, cap_exec, cap_env
<1>2. CASE ~Ungated
  <2>1. ~Ungated'
    BY <1>2 DEF Active, Ungated, FlatDeny
  <2>2. Active' => Active
    BY <1>2 DEF Active, Ungated, FlatDeny
  <2>3. ASSUME NEW cap, NEW p, cap_both_paths(cap, p)' PROVE cap_both_paths(cap, p)
    BY <2>2, <2>3 DEF cap_both_paths
  <2>4. ASSUME NEW cap, NEW w, cap_both_listed(cap, w)' PROVE cap_both_listed(cap, w)
    BY <2>2, <2>4 DEF cap_both_listed
  <2>5. ASSUME NEW b, cap_fs(b, path)' PROVE cap_fs(b, path)
    BY <2>1, <2>3, <2>5 DEF cap_fs
  <2>6. ASSUME NEW u, cap_net(u)' PROVE cap_net(u)
    BY <2>1, <2>4, <2>6 DEF cap_net
  <2>7. ASSUME NEW c, cap_exec(c)' PROVE cap_exec(c)
    BY <2>1, <2>4, <2>7 DEF cap_exec
  <2>8. ASSUME NEW n, cap_env(n)' PROVE cap_env(n)
    BY <2>1, <2>4, <2>8 DEF cap_env
  <2> QED BY <2>5, <2>6, <2>7, <2>8 DEF Allowed, Requests
<1> QED BY <1>1, <1>2

\* pyro_policy_init, PYRO_SANDBOX, pyro_policy_artifact and the sandbox bit,
\* in the order main() reads them: but for the artifact's permissions under a
\* flat deny, no refused request becomes an allowed one.
THEOREM PolicyNarrows == PolicySpec => PolicyOnlyNarrows
<1>1. ReadInOrder /\ [PolicyNext]_polvars =>
        [\A r \in Requests :
           path' = path /\ ~(FlatDeny /\ phase = "load") /\ Allowed(r)' => Allowed(r)]_polvars
  <2> SUFFICES ASSUME ReadInOrder, PolicyNext,
                      NEW r \in Requests, path' = path, ~(FlatDeny /\ phase = "load"),
                      Allowed(r)'
               PROVE  Allowed(r)
    OBVIOUS
  <2>1. CASE phase = "start"
    <3>1. Ungated
      BY <2>1 DEF ReadInOrder, Ungated, Active
    <3> QED BY <3>1 DEF Allowed, Requests, cap_fs, cap_net, cap_exec, cap_env
  <2>2. CASE phase # "start"
    <3> DEFINE Preserved ==
                 /\ envPolicy' = envPolicy /\ (sandboxed => sandboxed')
                 /\ artifactPolicy' = artifactPolicy \/ (~artifactPolicy.active /\ ~FlatDeny)
    <3>1. Preserved
      <4>1. ASSUME NEW t \in PolicyTexts, pyro_policy_init(t) \/ pyro_policy_artifact(t) PROVE Preserved
        BY <2>2, <4>1 DEF pyro_policy_init, pyro_policy_artifact, ReadInOrder
      <4>2. ASSUME NEW b \in BOOLEAN, SandboxVariable(b) \/ SandboxFlag(b) PROVE Preserved
        BY <4>2 DEF SandboxVariable, SandboxFlag
      <4>3. CASE FromRoot
        BY <4>3 DEF FromRoot
      <4>4. ASSUME NEW s, AppendSegment(s) PROVE Preserved
        BY <4>4 DEF AppendSegment
      <4>5. ASSUME NEW q \in Requests, Request(q) PROVE Preserved
        BY <4>5 DEF Request
      <4> QED BY <4>1, <4>2, <4>3, <4>4, <4>5 DEF PolicyNext
    <3> QED BY <3>1, NarrowingStep
  <2> QED BY <2>1, <2>2
<1> QED BY <1>1, ReadInOrderInvariant, PTL DEF PolicySpec, PolicyOnlyNarrows

-----------------------------------------------------------------------------
(* Grants cover subtrees, for every working directory, path and list of    *)
(* grants. What cap_abs keeps does not change when the first "." or ".." of *)
(* a path is cancelled, and each cancellation shortens the path; so it is  *)
(* what is left when none remains to do.                                   *)

\* A segment leaves a sequence of segments.
LEMMA PushKeeps ==
  ASSUME NEW S, NEW kept \in Seq(S), NEW s \in S
  PROVE  Push(kept, s) \in Seq(S)
<1>1. kept # <<>> => Front(kept) \in Seq(S)
  <2> SUFFICES ASSUME kept # <<>> PROVE SubSeq(kept, 1, Len(kept) - 1) \in Seq(S)
    BY DEF Front
  <2>1. \A i \in 1 .. Len(kept) - 1 : kept[i] \in S
    OBVIOUS
  <2> QED BY <2>1
<1> QED BY <1>1 DEF Push

\* What the loop keeps.
LEMMA KeptSteps ==
  ASSUME NEW S, NEW segs \in Seq(S)
  PROVE  /\ Kept(segs)[0] = <<>>
         /\ \A i \in 1 .. Len(segs) : Kept(segs)[i] = Push(Kept(segs)[i - 1], segs[i])
         /\ \A i \in 0 .. Len(segs) : Kept(segs)[i] \in Seq(S)
<1> DEFINE N == Len(segs)
           G == [i \in 0 .. N |-> Seq(S)]
           move == [i \in 1 .. N |-> [x \in Seq(S) |-> Push(x, segs[i])]]
           k == Kept(segs)
<1>1. N \in Nat /\ \A i \in 1 .. N : segs[i] \in S
  OBVIOUS
<1>2. \A i \in 1 .. N : \A x \in Seq(S) : move[i][x] = Push(x, segs[i])
  BY Zenon
<1>3. \A i \in 1 .. N : \A x \in Seq(S) : Push(x, segs[i]) \in Seq(S)
  BY <1>1, PushKeeps
<1>4. \A i \in 0 .. N : G[i] = Seq(S)
  OBVIOUS
<1>5. <<>> \in Seq(S)
  OBVIOUS
<1> HIDE DEF N, move, G
<1>6. Leads(move, G, N)
  <2> SUFFICES ASSUME NEW i \in 1 .. N, NEW x \in G[i - 1] PROVE move[i][x] \in G[i]
    BY DEF Leads
  <2>1. i \in 0 .. N /\ i - 1 \in 0 .. N
    BY <1>1
  <2>2. G[i] = Seq(S) /\ G[i - 1] = Seq(S)
    BY <1>4, <2>1
  <2>3. x \in Seq(S)
    BY <2>2
  <2>4. move[i][x] = Push(x, segs[i])
    BY <1>2, <2>3
  <2>5. Push(x, segs[i]) \in Seq(S)
    BY <1>3, <2>3
  <2> QED BY <2>2, <2>4, <2>5
<1>7. PICK f : Path(f, <<>>, N, move, G)
  <2>1. 0 \in 0 .. N
    BY <1>1
  <2>2. <<>> \in G[0]
    BY <1>4, <1>5, <2>1
  <2> QED BY <1>1, <1>6, <2>2, IterateWithin
<1>8. \A i \in 0 .. N : f[i] \in Seq(S)
  BY <1>4, <1>7 DEF Path
<1>9. f = [i \in 0 .. N |-> IF i = 0 THEN <<>> ELSE Push(f[i - 1], segs[i])]
  <2>1. ASSUME NEW i \in 0 .. N
        PROVE  f[i] = IF i = 0 THEN <<>> ELSE Push(f[i - 1], segs[i])
    <3>1. CASE i # 0
      <4>1. i \in 1 .. N /\ i - 1 \in 0 .. N
        BY <1>1, <3>1
      <4>2. f[i] = move[i][f[i - 1]] /\ f[i - 1] \in Seq(S)
        BY <1>7, <1>8, <4>1 DEF Path
      <4> QED BY <1>2, <3>1, <4>1, <4>2
    <3> QED BY <1>7, <3>1 DEF Path
  <2> QED BY <1>7, <2>1 DEF Path
<1>10. k = [i \in 0 .. N |-> IF i = 0 THEN <<>> ELSE Push(k[i - 1], segs[i])]
  BY <1>9, Zenon DEF Kept, N
<1> HIDE DEF k
<1>11. k[0] = <<>> /\ \A i \in 1 .. N : k[i] = Push(k[i - 1], segs[i])
  BY <1>1, <1>10
<1>12. \A i \in 0 .. N : k[i] \in Seq(S)
  <2> DEFINE I == {i \in Nat : i <= N => k[i] \in Seq(S)}
  <2>1. 0 \in I
    BY <1>5, <1>11
  <2>2. ASSUME NEW i \in Nat, i \in I PROVE i + 1 \in I
    <3> SUFFICES ASSUME i + 1 <= N PROVE k[i + 1] \in Seq(S)
      OBVIOUS
    <3>1. i + 1 \in 1 .. N /\ (i + 1) - 1 = i /\ i <= N
      BY <1>1
    <3>2. k[i] \in Seq(S)
      BY <2>2, <3>1
    <3>3. k[i + 1] = Push(k[i], segs[i + 1])
      BY <1>11, <3>1
    <3> QED BY <1>3, <3>1, <3>2, <3>3
  <2>3. Nat \subseteq I
    <3> HIDE DEF I
    <3> QED BY <2>1, <2>2, NatInd
  <2> QED BY <1>1, <2>3
<1> QED BY <1>11, <1>12 DEF N, k

\* What follows a point is treated alike wherever it comes from: if t is s
\* without d segments that change nothing, both leave the same.
LEMMA KeptSkips ==
  ASSUME NEW S, NEW s \in Seq(S), NEW t \in Seq(S), NEW m \in Nat, NEW d \in Nat,
         m + d <= Len(s), Len(t) = Len(s) - d,
         \A i \in m + 1 .. Len(t) : t[i] = s[i + d],
         Kept(t)[m] = Kept(s)[m + d]
  PROVE  Kept(t)[Len(t)] = Kept(s)[Len(s)]
<1> DEFINE ks == Kept(s)
           kt == Kept(t)
           I == {i \in Nat : m + i <= Len(t) => kt[m + i] = ks[m + i + d]}
<1>1. /\ \A i \in 1 .. Len(s) : ks[i] = Push(ks[i - 1], s[i])
      /\ \A i \in 1 .. Len(t) : kt[i] = Push(kt[i - 1], t[i])
  BY KeptSteps
<1>0. kt[m] = ks[m + d]
  OBVIOUS
<1>l. Len(t) \in Nat /\ Len(s) \in Nat
  OBVIOUS
<1> HIDE DEF ks, kt
<1>2. 0 \in I
  BY <1>0
<1>3. ASSUME NEW i \in Nat, i \in I PROVE i + 1 \in I
  <2> SUFFICES ASSUME m + (i + 1) <= Len(t) PROVE kt[m + (i + 1)] = ks[m + (i + 1) + d]
    OBVIOUS
  <2>1. /\ m + (i + 1) \in m + 1 .. Len(t) /\ m + (i + 1) \in 1 .. Len(t)
        /\ m + (i + 1) + d \in 1 .. Len(s)
        /\ m + (i + 1) - 1 = m + i /\ m + (i + 1) + d - 1 = m + i + d /\ m + i <= Len(t)
    BY <1>l
  <2>2. kt[m + i] = ks[m + i + d]
    BY <1>3, <2>1
  <2>3. kt[m + (i + 1)] = Push(kt[m + i], t[m + (i + 1)])
    BY <1>1, <2>1
  <2>4. ks[m + (i + 1) + d] = Push(ks[m + i + d], s[m + (i + 1) + d])
    BY <1>1, <2>1
  <2>5. t[m + (i + 1)] = s[m + (i + 1) + d]
    BY <2>1
  <2> QED BY <2>2, <2>3, <2>4, <2>5
<1>4. Nat \subseteq I
  <2> HIDE DEF I
  <2> QED BY <1>2, <1>3, NatInd
<1>5. PICK e \in Nat : m + e = Len(t) /\ m + e + d = Len(s)
  <2>1. Len(t) - m \in Nat /\ m + (Len(t) - m) = Len(t) /\ m + (Len(t) - m) + d = Len(s)
    BY <1>l
  <2> QED BY <2>1
<1>6. kt[m + e] = ks[m + e + d]
  <2>1. e \in I
    BY <1>4
  <2>2. m + e <= Len(t)
    BY <1>5, <1>l
  <2> QED BY <2>1, <2>2
<1>7. kt[Len(t)] = ks[Len(s)]
  BY <1>5, <1>6
<1> QED BY <1>7 DEF ks, kt

\* The first m segments are names.
Plain(segs, m) == \A i \in 1 .. m : segs[i] \notin {Dot, DotDot}

\* As long as there are only names, and not too many, all are kept.
LEMMA KeptPlain ==
  ASSUME NEW S, NEW s \in Seq(S), NEW m \in 0 .. Len(s), Plain(s, m), m <= MaxSegments,
         MaxSegments \in Nat
  PROVE  \A i \in 0 .. m : Kept(s)[i] = SubSeq(s, 1, i)
<1> DEFINE ks == Kept(s)
           I == {i \in Nat : i <= m => ks[i] = SubSeq(s, 1, i)}
<1>1. /\ ks[0] = <<>>
      /\ \A i \in 1 .. Len(s) : ks[i] = Push(ks[i - 1], s[i])
  BY KeptSteps
<1>l. Len(s) \in Nat /\ m \in Nat
  OBVIOUS
<1> HIDE DEF ks
<1>2. 0 \in I
  <2>1. SubSeq(s, 1, 0) = <<>>
    OBVIOUS
  <2> QED BY <1>1, <2>1
<1>3. ASSUME NEW i \in Nat, i \in I PROVE i + 1 \in I
  <2> SUFFICES ASSUME i + 1 <= m PROVE ks[i + 1] = SubSeq(s, 1, i + 1)
    OBVIOUS
  <2>1. i + 1 \in 1 .. Len(s) /\ i + 1 \in 1 .. m /\ (i + 1) - 1 = i /\ i <= m
    BY <1>l
  <2>2. ks[i] = SubSeq(s, 1, i)
    BY <1>3, <2>1
  <2>3. ks[i + 1] = Push(ks[i], s[i + 1])
    BY <1>1, <2>1
  <2>4. s[i + 1] # Dot /\ s[i + 1] # DotDot
    BY <2>1 DEF Plain
  <2>5. Len(SubSeq(s, 1, i)) = i /\ i < MaxSegments
    BY <2>1, <1>l
  <2>6. Push(SubSeq(s, 1, i), s[i + 1]) = Append(SubSeq(s, 1, i), s[i + 1])
    BY <2>4, <2>5 DEF Push
  <2>7. Append(SubSeq(s, 1, i), s[i + 1]) = SubSeq(s, 1, i + 1)
    BY <2>1
  <2> QED BY <2>2, <2>3, <2>6, <2>7
<1>4. Nat \subseteq I
  <2> HIDE DEF I
  <2> QED BY <1>2, <1>3, NatInd
<1>5. \A i \in 0 .. m : ks[i] = SubSeq(s, 1, i)
  BY <1>l, <1>4
<1> QED BY <1>5 DEF ks

\* A sequence without the segments from left + 1 to right.
Without(s, left, right) == SubSeq(s, 1, left) \o SubSeq(s, right + 1, Len(s))

LEMMA WithoutParts ==
  ASSUME NEW S, NEW s \in Seq(S), NEW right \in 1 .. Len(s), NEW left \in 0 .. right
  PROVE  /\ Without(s, left, right) \in Seq(S)
         /\ Len(Without(s, left, right)) = Len(s) - (right - left)
         /\ \A i \in 1 .. left : Without(s, left, right)[i] = s[i]
         /\ \A i \in left + 1 .. Len(s) - (right - left) :
              Without(s, left, right)[i] = s[i + (right - left)]
<1> DEFINE a == SubSeq(s, 1, left)
           b == SubSeq(s, right + 1, Len(s))
<1>l. Len(s) \in Nat /\ right \in Nat /\ left \in Nat /\ left <= right /\ right <= Len(s)
  OBVIOUS
<1>1. a \in Seq(S) /\ Len(a) = left /\ \A i \in 1 .. left : a[i] = s[i]
  <2>1. \A i \in 1 .. left : s[i] \in S
    BY <1>l
  <2> QED BY <1>l, <2>1
<1>2. /\ b \in Seq(S) /\ Len(b) = Len(s) - right
      /\ \A i \in 1 .. Len(s) - right : b[i] = s[right + i]
  <2>1. \A i \in right + 1 .. Len(s) : s[i] \in S
    BY <1>l
  <2> QED BY <1>l, <2>1
<1> HIDE DEF a, b
<1>3. a \o b \in Seq(S) /\ Len(a \o b) = Len(a) + Len(b)
  <2>1. a \o b \in Seq(S)
    BY <1>1, <1>2
  <2>2. Len(a \o b) = Len(a) + Len(b)
    BY <1>1, <1>2, LengthConcat DEF Length
  <2> QED BY <2>1, <2>2
<1> DEFINE r == a \o b
<1>4. ASSUME NEW i \in 1 .. Len(s) - (right - left)
      PROVE  r[i] = IF i <= left THEN a[i] ELSE b[i - left]
  <2>1. DOMAIN r = 1 .. Len(s) - (right - left)
    BY <1>l, <1>1, <1>2, <1>3
  <2>2. i \in DOMAIN r
    BY <2>1
  <2>3. r = a \o b
    OBVIOUS
  <2> HIDE DEF r
  <2>4. \/ i \in DOMAIN a /\ r[i] = a[i]
        \/ i > Len(a) /\ i - Len(a) \in DOMAIN b /\ r[i] = b[i - Len(a)]
    BY <1>1, <1>2, <2>2, <2>3, ConcatAt
  <2>5. DOMAIN a = 1 .. left
    BY <1>1
  <2> QED BY <1>l, <1>1, <2>4, <2>5
<1>5. \A i \in 1 .. left : (a \o b)[i] = s[i]
  BY <1>l, <1>1, <1>2, <1>4
<1>6. ASSUME NEW i \in left + 1 .. Len(s) - (right - left)
      PROVE  (a \o b)[i] = s[i + (right - left)]
  <2>1. /\ i \in 1 .. Len(s) - (right - left) /\ ~(i <= left) /\ i - left \in 1 .. Len(s) - right
        /\ right + (i - left) = i + (right - left)
    BY <1>l
  <2>2. (a \o b)[i] = b[i - left]
    BY <1>4, <2>1
  <2> QED BY <1>2, <2>1, <2>2
<1>7. Without(s, left, right) = a \o b
  BY DEF Without, a, b
<1> QED BY <1>l, <1>1, <1>2, <1>3, <1>5, <1>6, <1>7, SMTT(30)

\* ".." takes back the segment before it.
LEMMA PushPops ==
  ASSUME NEW S, NEW s \in Seq(S), NEW n \in 2 .. Len(s)
  PROVE  Push(SubSeq(s, 1, n - 1), DotDot) = SubSeq(s, 1, n - 2)
<1> DEFINE u == SubSeq(s, 1, n - 1)
<1>1. \A i \in 1 .. n - 1 : s[i] \in S
  OBVIOUS
<1>2. u \in Seq(S) /\ Len(u) = n - 1 /\ \A i \in 1 .. n - 1 : u[i] = s[i]
  BY <1>1
<1>3. n - 1 > 0
  OBVIOUS
<1> HIDE DEF u
<1>4. u # <<>>
  BY <1>2, <1>3
<1>5. Push(u, DotDot) = SubSeq(u, 1, n - 2)
  BY <1>2, <1>4 DEF Push, Front, Dot, DotDot
<1>6. SubSeq(u, 1, n - 2) = SubSeq(s, 1, n - 2)
  BY <1>2
<1> QED BY <1>5, <1>6 DEF u

\* A cancellation does not change what cap_abs keeps, and shortens the path as
\* long as there is anything to cancel.
LEMMA CancelKeeps ==
  ASSUME NEW S, NEW s \in Seq(S), Len(s) <= MaxSegments, MaxSegments \in Nat
  PROVE  /\ Cancel(s) \in Seq(S)
         /\ Kept(Cancel(s))[Len(Cancel(s))] = Kept(s)[Len(s)]
         /\ \/ Plain(s, Len(s)) /\ Cancel(s) = s
            \/ Len(Cancel(s)) < Len(s)
<1> DEFINE at == {i \in DOMAIN s : s[i] \in {Dot, DotDot}}
<1>l. Len(s) \in Nat /\ DOMAIN s = 1 .. Len(s)
  OBVIOUS
<1>1. CASE at = {}
  <2>1. Cancel(s) = s
    BY <1>1 DEF Cancel
  <2>2. Plain(s, Len(s))
    BY <1>1, <1>l DEF Plain
  <2> QED BY <2>1, <2>2
<1>2. CASE at # {}
  <2> DEFINE first == CHOOSE i \in at : \A j \in at : i <= j
             left  == IF s[first] = Dot \/ first = 1 THEN first - 1 ELSE first - 2
             t     == Without(s, left, first)
  <2>1. at \in SUBSET Nat
    BY <1>l
  <2>2. first \in at /\ \A j \in at : first <= j
    <3> HIDE DEF at
    <3> QED BY <1>2, <2>1, HasLeast
  <2>3. first \in 1 .. Len(s) /\ s[first] \in {Dot, DotDot}
    BY <1>l, <2>2
  <2>4. Plain(s, first - 1)
    <3> SUFFICES ASSUME NEW i \in 1 .. first - 1, s[i] \in {Dot, DotDot} PROVE FALSE
      BY DEF Plain
    <3>1. i \in at /\ i < first
      BY <1>l, <2>3, SMTT(30)
    <3> HIDE DEF first, at
    <3> QED BY <2>2, <2>3, <3>1, <1>l
  <2>5. Cancel(s) = t
    BY <1>2 DEF Cancel, Without
  <2> HIDE DEF first
  <2>6. left \in 0 .. first - 1
    BY <2>3
  <2>7. /\ left \in 0 .. first /\ first \in Nat /\ left \in Nat
        /\ first - left \in Nat /\ first - left > 0
    <3> HIDE DEF left
    <3> QED BY <2>3, <2>6
  <2> HIDE DEF t
  <2>8. /\ t \in Seq(S) /\ Len(t) = Len(s) - (first - left)
        /\ \A i \in 1 .. left : t[i] = s[i]
        /\ \A i \in left + 1 .. Len(s) - (first - left) : t[i] = s[i + (first - left)]
    <3> HIDE DEF left
    <3> QED BY <2>3, <2>7, WithoutParts, ZenonT(30) DEF t
  <2>9. /\ Len(t) \in Nat /\ left <= Len(t) /\ left <= MaxSegments /\ first - 1 <= MaxSegments
        /\ first - 1 \in 0 .. Len(s) /\ left \in 0 .. Len(t) /\ left \in 0 .. first - 1
    <3> HIDE DEF left
    <3> QED BY <1>l, <2>3, <2>6, <2>7, <2>8
  <2>10. Plain(t, left)
    <3> HIDE DEF left
    <3> QED BY <2>4, <2>6, <2>7, <2>8, SMTT(30) DEF Plain
  <2>11. \A i \in 0 .. first - 1 : Kept(s)[i] = SubSeq(s, 1, i)
    BY <2>4, <2>9, KeptPlain
  <2>12. Kept(t)[left] = SubSeq(t, 1, left)
    <3> HIDE DEF left
    <3>1. \A i \in 0 .. left : Kept(t)[i] = SubSeq(t, 1, i)
      BY <2>8, <2>9, <2>10, KeptPlain
    <3>2. left \in 0 .. left
      BY <2>7
    <3> QED BY <3>1, <3>2
  <2>13. SubSeq(t, 1, left) = SubSeq(s, 1, left)
    <3> HIDE DEF left
    <3>1. left <= Len(s)
      BY <2>3, <2>9
    <3> QED BY <2>7, <2>8, <2>9, <3>1
  <2>14. Kept(s)[first] = Push(SubSeq(s, 1, first - 1), s[first])
    <3>1. first \in 1 .. Len(s) /\ first - 1 \in 0 .. first - 1
      BY <2>3
    <3> QED BY <2>11, <3>1, KeptSteps
  <2>15. Push(SubSeq(s, 1, first - 1), s[first]) = SubSeq(s, 1, left)
    <3>1. CASE s[first] = Dot
      BY <3>1 DEF Push
    <3>2. CASE s[first] # Dot /\ first = 1
      <4>1. SubSeq(s, 1, 0) = <<>>
        OBVIOUS
      <4> QED BY <2>3, <3>2, <4>1 DEF Push
    <3>3. CASE s[first] # Dot /\ first # 1
      <4>1. left = first - 2 /\ s[first] = DotDot
        BY <2>3, <3>3
      <4>2. first \in 2 .. Len(s)
        BY <2>3, <3>3
      <4> QED BY <4>1, <4>2, PushPops
    <3> QED BY <3>1, <3>2, <3>3
  <2>16. Kept(t)[left] = Kept(s)[left + (first - left)]
    <3>1. left + (first - left) = first
      <4> HIDE DEF left
      <4> QED BY <2>7
    <3> QED BY <2>12, <2>13, <2>14, <2>15, <3>1
  <2>17. left + (first - left) <= Len(s)
    <3> HIDE DEF left
    <3> QED BY <2>3, <2>7
  <2>18. Kept(t)[Len(t)] = Kept(s)[Len(s)]
    <3> HIDE DEF left
    <3> QED BY <2>7, <2>8, <2>16, <2>17, KeptSkips
  <2>19. Len(t) < Len(s)
    <3> HIDE DEF left
    <3> QED BY <1>l, <2>7, <2>8
  <2> QED BY <2>5, <2>8, <2>18, <2>19
<1> QED BY <1>1, <1>2

\* Where there are only names there is nothing to cancel.
LEMMA NothingToCancel ==
  ASSUME NEW S, NEW s \in Seq(S), Plain(s, Len(s))
  PROVE  Cancel(s) = s
<1>1. {i \in DOMAIN s : s[i] \in {Dot, DotDot}} = {}
  <2>1. DOMAIN s = 1 .. Len(s)
    OBVIOUS
  <2> QED BY <2>1 DEF Plain
<1> QED BY <1>1 DEF Cancel

\* The paths that i cancellations may leave of s.
Leaves(S, s, i) ==
  {t \in Seq(S) : /\ Len(t) <= Len(s)
                  /\ Kept(t)[Len(t)] = Kept(s)[Len(s)]
                  /\ Plain(t, Len(t)) \/ Len(t) <= Len(s) - i}

LEMMA CancelLeaves ==
  ASSUME NEW S, NEW s \in Seq(S), Len(s) <= MaxSegments, MaxSegments \in Nat,
         NEW i \in Nat, NEW t \in Leaves(S, s, i)
  PROVE  Cancel(t) \in Leaves(S, s, i + 1)
<1> USE DEF Leaves
<1>1. /\ t \in Seq(S) /\ Len(t) \in Nat /\ Len(s) \in Nat /\ Len(t) <= MaxSegments
      /\ Kept(t)[Len(t)] = Kept(s)[Len(s)]
      /\ Plain(t, Len(t)) \/ Len(t) <= Len(s) - i
  OBVIOUS
<1>2. /\ Cancel(t) \in Seq(S) /\ Len(Cancel(t)) \in Nat
      /\ Kept(Cancel(t))[Len(Cancel(t))] = Kept(t)[Len(t)]
      /\ \/ Plain(t, Len(t)) /\ Cancel(t) = t
         \/ Len(Cancel(t)) < Len(t)
  BY <1>1, CancelKeeps
<1>3. CASE Plain(t, Len(t))
  <2>1. Cancel(t) = t
    BY <1>1, <1>3, NothingToCancel
  <2> QED BY <1>3, <2>1
<1>4. CASE ~Plain(t, Len(t))
  <2>1. Len(Cancel(t)) <= Len(s) - (i + 1) /\ Len(Cancel(t)) <= Len(s)
    BY <1>1, <1>2, <1>4
  <2> QED BY <1>1, <1>2, <2>1
<1> QED BY <1>3, <1>4

\* What cap_abs keeps is what cancelling leaves.
LEMMA ResolveIsKept ==
  ASSUME NEW S, NEW s \in Seq(S), Len(s) <= MaxSegments, MaxSegments \in Nat
  PROVE  Resolve(s) = Kept(s)[Len(s)]
<1> DEFINE N == Len(s)
           G == [i \in 0 .. N |-> Leaves(S, s, i)]
           move == [i \in 1 .. N |-> [x \in G[i - 1] |-> Cancel(x)]]
           c == Cancelled(s)
<1>1. N \in Nat
  OBVIOUS
<1>2. \A i \in 1 .. N : \A x \in G[i - 1] : move[i][x] = Cancel(x)
  BY Zenon
<1>3. \A i \in 0 .. N : G[i] = Leaves(S, s, i)
  OBVIOUS
<1>4. s \in Leaves(S, s, 0)
  BY DEF Leaves
<1>5. \A i \in Nat : \A x \in Leaves(S, s, i) : Cancel(x) \in Leaves(S, s, i + 1)
  BY CancelLeaves
<1> HIDE DEF N, move, G
<1>6. ASSUME NEW i \in 1 .. N, NEW x \in G[i - 1]
      PROVE  move[i][x] = Cancel(x) /\ Cancel(x) \in G[i]
  <2>1. i \in 0 .. N /\ i - 1 \in 0 .. N /\ i - 1 \in Nat /\ (i - 1) + 1 = i
    BY <1>1
  <2>2. x \in Leaves(S, s, i - 1)
    BY <1>3, <2>1
  <2>3. Cancel(x) \in Leaves(S, s, i)
    BY <1>5, <2>1, <2>2
  <2> QED BY <1>2, <1>3, <2>1, <2>3
<1>7. PICK f : Path(f, s, N, move, G)
  <2>1. Leads(move, G, N)
    BY <1>6 DEF Leads
  <2>2. 0 \in 0 .. N
    BY <1>1
  <2>3. s \in G[0]
    BY <1>3, <1>4, <2>2
  <2> QED BY <1>1, <2>1, <2>3, IterateWithin
<1>8. ASSUME NEW i \in 0 .. N
      PROVE  f[i] = IF i = 0 THEN s ELSE Cancel(f[i - 1])
  <2>1. CASE i # 0
    <3>1. i \in 1 .. N /\ i - 1 \in 0 .. N
      BY <1>1, <2>1
    <3>2. f[i] = move[i][f[i - 1]] /\ f[i - 1] \in G[i - 1]
      BY <1>7, <3>1 DEF Path
    <3> QED BY <1>6, <2>1, <3>1, <3>2
  <2> QED BY <1>7, <2>1 DEF Path
<1>9. f = [i \in 0 .. N |-> IF i = 0 THEN s ELSE Cancel(f[i - 1])]
  BY <1>7, <1>8 DEF Path
<1>10. c = [i \in 0 .. N |-> IF i = 0 THEN s ELSE Cancel(c[i - 1])]
  BY <1>9, Zenon DEF Cancelled, N
<1> HIDE DEF c
<1>11. c[0] = s /\ \A i \in 1 .. N : c[i] = Cancel(c[i - 1])
  BY <1>1, <1>10
<1>12. \A i \in 0 .. N : c[i] \in G[i]
  <2>1. c[0] \in G[0]
    <3>1. 0 \in 0 .. N
      BY <1>1
    <3> QED BY <1>3, <1>4, <1>11, <3>1
  <2>2. \A i \in 1 .. N : c[i - 1] \in G[i - 1] => c[i] \in G[i]
    BY <1>6, <1>11
  <2> QED BY <1>1, <2>1, <2>2, StaysWithin
<1>13. c[N] \in Leaves(S, s, N)
  <2>1. N \in 0 .. N
    BY <1>1
  <2> QED BY <1>3, <1>12, <2>1
<1> DEFINE t == c[N]
<1> HIDE DEF t
<1>14. /\ t \in Seq(S) /\ Len(t) \in Nat /\ Len(t) <= MaxSegments
       /\ Kept(t)[Len(t)] = Kept(s)[Len(s)]
       /\ Plain(t, Len(t))
  <2>1. /\ t \in Seq(S) /\ Len(t) \in Nat /\ Len(t) <= Len(s)
        /\ Kept(t)[Len(t)] = Kept(s)[Len(s)]
        /\ Plain(t, Len(t)) \/ Len(t) <= N - N
    BY <1>13 DEF Leaves, N, t
  <2>2. Len(t) <= N - N => Plain(t, Len(t))
    BY <1>1, <2>1 DEF Plain
  <2>3. Len(t) <= MaxSegments
    BY <1>1, <2>1 DEF N
  <2> QED BY <2>1, <2>2, <2>3
<1>15. Kept(t)[Len(t)] = SubSeq(t, 1, Len(t))
  <2>1. Len(t) \in 0 .. Len(t)
    BY <1>14
  <2>2. \A i \in 0 .. Len(t) : Kept(t)[i] = SubSeq(t, 1, i)
    BY <1>14, <2>1, KeptPlain
  <2> QED BY <2>1, <2>2
<1>16. SubSeq(t, 1, Len(t)) = t
  BY <1>14
<1> QED BY <1>14, <1>15, <1>16 DEF Resolve, c, N, t

\* What a policy grants: lists of paths for the files.
Grants ==
  {g \in [Capabilities -> Seq(Paths) \cup Seq(Names \cup {Star})] :
     \A c \in Capabilities : g[c] \in ItemLists(c)}

\* One clause more.
LEMMA ClauseTyped ==
  ASSUME NEW g \in Grants, NEW c \in Capabilities, NEW items \in ItemLists(c)
  PROVE  [g EXCEPT ![c] = @ \o items] \in Grants
<1>1. g[c] \in ItemLists(c)
  BY DEF Grants
<1>2. g[c] \o items \in ItemLists(c)
  <2>1. CASE c \in {"fs.read", "fs.write"}
    BY <1>1, <2>1 DEF ItemLists
  <2>2. CASE c \notin {"fs.read", "fs.write"}
    BY <1>1, <2>2 DEF ItemLists
  <2> QED BY <2>1, <2>2
<1>3. ItemLists(c) \subseteq Seq(Paths) \cup Seq(Names \cup {Star})
  BY DEF ItemLists
<1> DEFINE v == g[c] \o items
<1> HIDE DEF v
<1>4. v \in ItemLists(c)
  BY <1>2 DEF v
<1>5. [g EXCEPT ![c] = v] \in Grants
  BY <1>3, <1>4, Zenon DEF Grants
<1> QED BY <1>5 DEF v

\* The policies hold what their texts list, and the path is one.
PolicyTyped ==
  /\ envPolicy.grants \in Grants
  /\ artifactPolicy.grants \in Grants
  /\ path \in Paths

\* Reading a text adds its clauses.
LEMMA GrantedTyped ==
  ASSUME NEW g \in Grants, NEW text \in PolicyTexts, WellFormed(text)
  PROVE  Granted(g, text)[Len(text)] \in Grants
<1> DEFINE N == Len(text)
           add(x, i) == [x EXCEPT ![text[i].key] = @ \o text[i].items]
           move == [i \in 1 .. N |-> [x \in Grants |-> add(x, i)]]
           a == Granted(g, text)
<1>1. N \in Nat /\ DOMAIN text = 1 .. N
  BY PolicyAssumption
<1>2. \A i \in 1 .. N : text[i].key \in Capabilities /\ text[i].items \in ItemLists(text[i].key)
  BY <1>1, PolicyAssumption DEF WellFormed
<1>3. \A i \in 1 .. N : \A x \in Grants : add(x, i) \in Grants
  BY <1>2, ClauseTyped
<1>4. \A i \in 1 .. N : \A x \in Grants : move[i][x] = add(x, i)
  <2> HIDE DEF add
  <2> QED BY Zenon
<1>5. move \in Steps(N, Grants)
  <2> HIDE DEF add, N
  <2> QED BY <1>3 DEF Steps
<1>6. PICK f : Iteration(f, g, N, Grants, move)
  <2> HIDE DEF move, N
  <2> QED BY <1>1, <1>5, Iterate
<1> HIDE DEF move, N
<1>7. ASSUME NEW i \in 0 .. N
      PROVE  f[i] = IF i = 0 THEN g ELSE add(f[i - 1], i)
  <2> HIDE DEF add
  <2>1. CASE i # 0
    <3>1. i \in 1 .. N /\ i - 1 \in 0 .. N
      BY <1>1, <2>1
    <3> QED BY <1>4, <1>6, <2>1, <3>1 DEF Iteration
  <2> QED BY <1>6, <2>1 DEF Iteration
<1>8. f = [i \in 0 .. N |-> IF i = 0 THEN g ELSE add(f[i - 1], i)]
  <2> HIDE DEF add
  <2> QED BY <1>6, <1>7 DEF Iteration
<1>9. a = [i \in 0 .. N |-> IF i = 0 THEN g ELSE add(a[i - 1], i)]
  BY <1>8, Zenon DEF Granted, N
<1> HIDE DEF a, add
<1>10. a[0] = g /\ \A i \in 1 .. N : a[i] = add(a[i - 1], i)
  BY <1>1, <1>9
<1> DEFINE G == [i \in 0 .. N |-> Grants]
<1>11. \A i \in 0 .. N : a[i] \in G[i]
  <2>1. \A i \in 0 .. N : G[i] = Grants
    OBVIOUS
  <2>2. 0 \in 0 .. N /\ \A i \in 1 .. N : i \in 0 .. N /\ i - 1 \in 0 .. N
    BY <1>1
  <2>3. a[0] \in G[0] /\ \A i \in 1 .. N : a[i - 1] \in G[i - 1] => a[i] \in G[i]
    BY <1>3, <1>10, <2>1, <2>2
  <2> HIDE DEF G
  <2> QED BY <1>1, <2>3, StaysWithin
<1>12. N \in 0 .. N
  BY <1>1
<1>13. a[N] \in Grants
  BY <1>11, <1>12
<1> QED BY <1>13 DEF a, N

\* A text that is not refused leaves a policy that is typed.
LEMMA ParseTyped ==
  ASSUME NEW pol, pol.grants \in Grants, NEW text \in PolicyTexts, WellFormed(text)
  PROVE  policy_parse(pol, text).grants \in Grants
<1>1. Granted(pol.grants, text)[Len(text)] \in Grants
  BY GrantedTyped
<1> QED BY <1>1 DEF policy_parse

LEMMA PolicyTypedInvariant == PolicySpec => []PolicyTyped
<1>1. PolicyInit => PolicyTyped
  <2>1. \A c \in Capabilities : <<>> \in ItemLists(c) /\ <<>> \in Seq(Paths)
    BY DEF ItemLists
  <2>2. [c \in Capabilities |-> <<>>] \in Grants
    BY <2>1 DEF Grants
  <2>3. [absolute |-> FALSE, segs |-> <<>>] \in Paths
    BY DEF Paths
  <2> QED BY <2>2, <2>3 DEF PolicyInit, PolicyTyped, NoPolicy
<1>2. PolicyTyped /\ [PolicyNext]_polvars => PolicyTyped'
  <2> SUFFICES ASSUME PolicyTyped, [PolicyNext]_polvars PROVE PolicyTyped'
    OBVIOUS
  <2> USE DEF PolicyTyped
  <2>1. ASSUME NEW t \in PolicyTexts, pyro_policy_init(t) PROVE PolicyTyped'
    BY <2>1, ParseTyped DEF pyro_policy_init
  <2>2. ASSUME NEW t \in PolicyTexts, pyro_policy_artifact(t) PROVE PolicyTyped'
    BY <2>2, ParseTyped DEF pyro_policy_artifact
  <2>3. ASSUME NEW b \in BOOLEAN, SandboxVariable(b) PROVE PolicyTyped'
    BY <2>3 DEF SandboxVariable
  <2>4. ASSUME NEW b \in BOOLEAN, SandboxFlag(b) PROVE PolicyTyped'
    BY <2>4 DEF SandboxFlag
  <2>5. CASE FromRoot
    BY <2>5 DEF FromRoot, Paths
  <2>6. ASSUME NEW s \in Names \cup {Dot, DotDot}, AppendSegment(s) PROVE PolicyTyped'
    <3>1. s \in Segment /\ path.segs \in Seq(Segment)
      BY DEF Segment, Paths
    <3>2. Append(path.segs, s) \in Seq(Segment)
      BY <3>1
    <3>3. path' = [path EXCEPT !.segs = Append(path.segs, s)]
      BY <2>6 DEF AppendSegment
    <3>4. path' \in Paths
      BY <3>2, <3>3 DEF Paths
    <3> QED BY <2>6, <3>4 DEF AppendSegment
  <2>7. ASSUME NEW r \in Requests, Request(r) PROVE PolicyTyped'
    BY <2>7 DEF Request
  <2>8. CASE UNCHANGED polvars
    BY <2>8 DEF polvars
  <2> QED BY <2>1, <2>2, <2>3, <2>4, <2>5, <2>6, <2>7, <2>8 DEF PolicyNext
<1> QED BY <1>1, <1>2, PTL DEF PolicySpec

\* What cap_abs makes of a path that fits is where the path leads.
LEMMA AbsLeads ==
  ASSUME NEW p \in Paths, Fits(p)
  PROVE  cap_abs(p) = Resolve(Joined(p))
<1>1. Joined(p) \in Seq(Segment)
  BY PolicyAssumption DEF Joined, Paths
<1> QED BY <1>1, PolicyAssumption, ResolveIsKept DEF cap_abs, Fits

\* cap_path_allowed decides by where the path leads, for every working
\* directory, every grant and every path of up to MaxSegments segments.
THEOREM GrantsAreSubtrees == PolicySpec => []GrantsCoverSubtrees
<1>1. PolicyTyped => GrantsCoverSubtrees
  <2> SUFFICES ASSUME PolicyTyped,
                      NEW pol \in {envPolicy, artifactPolicy},
                      NEW cap \in {"fs.read", "fs.write"},
                      Fits(path), \A i \in DOMAIN pol.grants[cap] : Fits(pol.grants[cap][i])
               PROVE  cap_path_allowed(pol.grants[cap], path) <=>
                        \E i \in DOMAIN pol.grants[cap] :
                          \/ pol.grants[cap][i] = Anywhere
                          \/ IsPrefix(Resolve(Joined(pol.grants[cap][i])), Resolve(Joined(path)))
    BY ZenonT(30) DEF GrantsCoverSubtrees
  <2>1. pol.grants \in Grants /\ cap \in Capabilities
    BY DEF PolicyTyped, Capabilities
  <2>2. pol.grants[cap] \in Seq(Paths)
    BY <2>1 DEF Grants, ItemLists
  <2>3. \A i \in DOMAIN pol.grants[cap] :
          cap_abs(pol.grants[cap][i]) = Resolve(Joined(pol.grants[cap][i]))
    <3>1. \A i \in DOMAIN pol.grants[cap] : pol.grants[cap][i] \in Paths
      BY <2>2
    <3> QED BY <3>1, AbsLeads
  <2>4. cap_abs(path) = Resolve(Joined(path))
    BY AbsLeads DEF PolicyTyped
  <2> QED BY <2>3, <2>4, Zenon DEF cap_path_allowed
<1> QED BY <1>1, PolicyTypedInvariant, PTL

-----------------------------------------------------------------------------
(* write_file_atomic leaves the old file or the new one, and says which,   *)
(* for every set of contents and every number of blocks. The invariant     *)
(* adds to the two properties what they rest on: the target is not touched *)
(* before the rename, and the rename is reached only with a temporary file *)
(* that holds everything.                                                  *)

\* Until write_file_atomic returns, the target is what it was when called.
TargetUntouched == step # "idle" => before = target

\* Once everything was flushed the temporary file is complete, and only then
\* is it renamed.
RenamesWhole ==
  /\ step = "close" /\ ok => temp = Whole(version)
  /\ step = "rename" => ok /\ temp = Whole(version)

FileInv ==
  FileTypeOK /\ TargetUntouched /\ RenamesWhole /\ TargetAlwaysWhole /\ ResultTellsTheTruth

Files == {NoFile} \cup [v : Versions, n : 0 .. Blocks]

\* What the system calls can leave in the temporary file is a file.
LEMMA WrittenFiles ==
  ASSUME NEW v \in Versions
  PROVE  /\ Whole(v) \in Files
         /\ Part(v) \subseteq Files
         /\ [v |-> v, n |-> 0] \in Files
         /\ Whole(v).n = Blocks
  BY AtomicFileAssumption DEF Whole, Part, Files

\* The invariant holds before the first call.
LEMMA FileInvInit == FileInit => FileInv
  BY DEF FileInit, FileInv, FileTypeOK, TargetUntouched, RenamesWhole,
         TargetAlwaysWhole, ResultTellsTheTruth, NoFile

\* The invariant survives every call, failure and death of the process.
LEMMA FileInvNext == FileInv /\ [FileNext]_filevars => FileInv'
<1> SUFFICES ASSUME FileInv, [FileNext]_filevars PROVE FileInv'
  OBVIOUS
<1> USE DEF FileInv, TargetUntouched, RenamesWhole, TargetAlwaysWhole, ResultTellsTheTruth
<1>t. /\ {target, temp, before} \subseteq Files
      /\ step \in {"idle", "open", "write", "flush", "close", "rename", "remove"}
      /\ ok \in BOOLEAN
      /\ version \in Versions \cup {"none"}
      /\ step # "idle" => version \in Versions
      /\ outcome \in {"none", "true", "false", "died"}
  BY DEF FileTypeOK, Files
<1>s. ASSUME {target', temp', before'} \subseteq Files,
             step' \in {"idle", "open", "write", "flush", "close", "rename", "remove"},
             ok' \in BOOLEAN,
             version' \in Versions \cup {"none"},
             step' # "idle" => version' \in Versions,
             outcome' \in {"none", "true", "false", "died"}
      PROVE  FileTypeOK'
  BY <1>s DEF FileTypeOK, Files
<1>1. ASSUME NEW v \in Versions, write_file_atomic(v) PROVE FileInv'
  BY <1>1, <1>t, <1>s DEF write_file_atomic
<1>2. CASE OpenTemp
  <2>1. temp' \in Files
    BY <1>2, <1>t, WrittenFiles DEF OpenTemp
  <2> QED BY <1>2, <2>1, <1>t, <1>s DEF OpenTemp
<1>3. CASE OpenTempFails
  BY <1>3, <1>t, <1>s DEF OpenTempFails, Returns
<1>4. ASSUME NEW good \in BOOLEAN, WriteTemp(good) PROVE FileInv'
  <2>1. temp' \in Files
    BY <1>4, <1>t, WrittenFiles DEF WriteTemp
  <2> QED BY <1>4, <2>1, <1>t, <1>s DEF WriteTemp
<1>5. ASSUME NEW good \in BOOLEAN, FlushTemp(good) PROVE FileInv'
  <2>1. temp' \in Files
    BY <1>5, <1>t, WrittenFiles DEF FlushTemp
  <2>2. good => temp' = Whole(version')
    BY <1>5 DEF FlushTemp, Whole
  <2> QED BY <1>5, <2>1, <2>2, <1>t, <1>s DEF FlushTemp
<1>6. CASE CloseTemp
  <2>1. temp' \in Files
    BY <1>6, <1>t, WrittenFiles DEF CloseTemp
  <2>2. ok => temp' = Whole(version')
    BY <1>6 DEF CloseTemp, Whole
  <2> QED BY <1>6, <2>1, <2>2, <1>t, <1>s DEF CloseTemp
<1>7. CASE RenameTemp
  <2>1. /\ temp = Whole(version) /\ target' = Whole(version') /\ temp' = NoFile
        /\ version' = version /\ version \in Versions /\ step' = "idle" /\ outcome' = "true"
        /\ ok' = ok /\ before' = before
    BY <1>7, <1>t DEF RenameTemp, Returns, Whole
  <2>2. target'.n = Blocks /\ {target', temp'} \subseteq Files
    BY <2>1, WrittenFiles DEF Files
  <2> QED BY <2>1, <2>2, <1>t, <1>s
<1>8. CASE RenameFails
  BY <1>8, <1>t, <1>s DEF RenameFails
<1>9. ASSUME NEW good \in BOOLEAN, RemoveTemp(good) PROVE FileInv'
  <2>1. temp' \in Files
    BY <1>9, <1>t DEF RemoveTemp, Files
  <2> QED BY <1>9, <2>1, <1>t, <1>s DEF RemoveTemp, Returns
<1>10. CASE Dies
  BY <1>10, <1>t, <1>s DEF Dies
<1>11. CASE UNCHANGED filevars
  BY <1>11, <1>t, <1>s DEF filevars, Whole
<1> QED BY <1>1, <1>2, <1>3, <1>4, <1>5, <1>6, <1>7, <1>8, <1>9, <1>10, <1>11 DEF FileNext

\* The inductive invariant of write_file_atomic (pyro_runtime.c:3070-3105).
THEOREM FileInvariance == FileSpec => []FileInv
<1>1. FileInit => FileInv
  BY FileInvInit
<1>2. FileInv /\ [FileNext]_filevars => FileInv'
  BY FileInvNext
<1> QED BY <1>1, <1>2, PTL DEF FileSpec

\* A reader never meets a truncated target, whichever system call fails and
\* wherever the process dies.
THEOREM TargetStaysWhole == FileSpec => []TargetAlwaysWhole
<1>1. FileInv => TargetAlwaysWhole
  BY DEF FileInv
<1> QED BY <1>1, FileInvariance, PTL

\* The boolean write_file_atomic returns is the truth about the target.
THEOREM ResultIsTrue == FileSpec => []ResultTellsTheTruth
<1>1. FileInv => ResultTellsTheTruth
  BY DEF FileInv
<1> QED BY <1>1, FileInvariance, PTL

-----------------------------------------------------------------------------
(* The loader. A cursor that is inside the file stays inside it through    *)
(* each of the readers, because a count or a length is checked against the *)
(* cells that are left before it is used; the one read without a check of  *)
(* its own, in a table of functions, has had its cells checked with the    *)
(* table.                                                                  *)

\* What has been read last, and the cursors there are.
Piece == Seq(Nat) \cup [tag : Nat, val : Seq(Nat)] \cup Function
           \cup (Seq(Nat) \X Seq(Nat))

Cursor == [pos : Nat, st : {"ok", "fatal", "overrun"}, v : Piece, out : Seq(Piece)]

\* The C and C++ VMs read cells.
Bytes == engine \in {"C", "Cpp"} /\ file \in Seq(Nat)

\* The cursor has not passed the end of the file.
Inside(c) == c \in Cursor /\ c.st # "overrun" /\ (c.st = "ok" => c.pos <= Len(file))

\* r is c after n more cells, or the file has been refused.
Read(r, c, n) ==
  /\ Inside(r) /\ r.out = c.out
  /\ r.st = "ok" => c.st = "ok" /\ r.pos = c.pos + n

\* need_bytes refuses the file or finds the cells there, and moves nothing.
LEMMA Needs ==
  ASSUME Bytes, NEW c, Inside(c), NEW n \in Nat
  PROVE  /\ Read(need_bytes(c, n), c, 0)
         /\ need_bytes(c, n).st = "ok" => need_bytes(c, n) = c /\ n <= Left(c)
<1>1. CASE c.st = "ok" /\ n > Left(c)
  <2>1. need_bytes(c, n) = [c EXCEPT !.st = "fatal"]
    BY <1>1 DEF need_bytes, Bytes
  <2> QED BY <2>1 DEF Read, Inside, Cursor
<1>2. CASE ~ (c.st = "ok" /\ n > Left(c))
  <2>1. need_bytes(c, n) = c
    BY <1>2 DEF need_bytes
  <2> QED BY <1>2, <2>1 DEF Read, Inside, Cursor, Left, Bytes
<1> QED BY <1>1, <1>2

\* Cells taken without a check are those of the file, if they are there.
LEMMA Takes ==
  ASSUME Bytes, NEW c, Inside(c), NEW n \in Nat, c.st = "ok" => n <= Left(c)
  PROVE  /\ Read(Take(c, n), c, n)
         /\ Take(c, n).st = "ok" => /\ Take(c, n).v = SubSeq(file, c.pos + 1, c.pos + n)
                                    /\ Take(c, n).v \in Seq(Nat) /\ Len(Take(c, n).v) = n
<1>1. CASE c.st # "ok"
  <2>1. Take(c, n) = c
    BY <1>1 DEF Take
  <2> QED BY <1>1, <2>1 DEF Read
<1>2. CASE c.st = "ok"
  <2> DEFINE s == SubSeq(file, c.pos + 1, c.pos + n)
  <2>1. c.pos \in Nat /\ c.pos + n <= Len(file)
    BY <1>2 DEF Inside, Cursor, Left, Bytes
  <2>2. s \in Seq(Nat) /\ Len(s) = n
    <3>1. file \in Seq(Nat) /\ Len(file) \in Nat
      BY DEF Bytes
    <3> DEFINE lo == c.pos + 1
               hi == c.pos + n
    <3>2. lo \in Nat /\ hi \in Nat /\ lo >= 1 /\ hi <= Len(file) /\ (hi - lo) + 1 = n
      <4> DEFINE pos == c.pos
      <4>1. pos \in Nat /\ pos + n <= Len(file)
        BY <2>1
      <4> HIDE DEF pos
      <4>2. (pos + n) - (pos + 1) + 1 = n /\ pos + 1 \in Nat /\ pos + n \in Nat /\ pos + 1 >= 1
        BY <4>1
      <4> QED BY <4>1, <4>2 DEF pos
    <3> HIDE DEF lo, hi
    <3>3. SubSeq(file, lo, hi) \in Seq(Nat) /\ Len(SubSeq(file, lo, hi)) = n
      <4>1. \A i \in lo .. hi : file[i] \in Nat
        BY <3>1, <3>2
      <4> QED BY <3>2, <4>1
    <3> QED BY <3>3 DEF lo, hi
  <2> HIDE DEF s
  <2>3. Take(c, n) = [c EXCEPT !.pos = @ + n, !.v = s]
    BY <1>2 DEF Take, s
  <2>4. s \in Piece
    BY <2>2 DEF Piece
  <2> DEFINE r == Take(c, n)
  <2>5. c.pos + n \in Nat
    BY <2>1
  <2>6. r \in Cursor /\ r.st = "ok" /\ r.pos = c.pos + n /\ r.v = s /\ r.out = c.out
    BY <1>2, <2>3, <2>4, <2>5 DEF Inside, Cursor
  <2> HIDE DEF r
  <2>7. Read(r, c, n)
    BY <1>2, <2>1, <2>6 DEF Read, Inside
  <2> QED BY <2>2, <2>6, <2>7 DEF r, s
<1> QED BY <1>1, <1>2

\* A checked block of n cells is inside the file, or the file is refused.
LEMMA BlockReads ==
  ASSUME Bytes, NEW c, Inside(c), NEW n \in Nat
  PROVE  /\ Read(Block(c, n), c, n)
         /\ Block(c, n).st = "ok" => /\ Block(c, n).v = SubSeq(file, c.pos + 1, c.pos + n)
                                    /\ Block(c, n).v \in Seq(Nat) /\ Len(Block(c, n).v) = n
                                    /\ n <= Left(c)
<1> DEFINE b == need_bytes(c, n)
<1>1. Read(b, c, 0) /\ (b.st = "ok" => b = c /\ n <= Left(c))
  BY Needs
<1>2. Inside(b) /\ (b.st = "ok" => n <= Left(b))
  BY <1>1 DEF Read
<1> HIDE DEF b
<1>3. /\ Read(Take(b, n), b, n)
      /\ Take(b, n).st = "ok" => /\ Take(b, n).v = SubSeq(file, b.pos + 1, b.pos + n)
                                 /\ Take(b, n).v \in Seq(Nat) /\ Len(Take(b, n).v) = n
  BY <1>2, Takes
<1>4. Take(b, n).st = "ok" => b = c /\ n <= Left(c)
  BY <1>1, <1>3 DEF Read
<1>5. Block(c, n) = Take(b, n)
  BY DEF Block, b
<1>6. Read(Take(b, n), c, n)
  BY <1>1, <1>3, <1>4 DEF Read
<1> QED BY <1>3, <1>4, <1>5, <1>6

\* A part of a sequence of one cell.
LEMMA OneCell ==
  ASSUME NEW f \in Seq(Nat), NEW p \in Nat, p + 1 <= Len(f)
  PROVE  LET s == SubSeq(f, p + 1, p + 1) IN s[1] = f[p + 1] /\ s = <<s[1]>>
<1> DEFINE s == SubSeq(f, p + 1, p + 1)
<1>1. s \in Seq(Nat) /\ Len(s) = 1 /\ s[1] = f[p + 1]
  OBVIOUS
<1> HIDE DEF s
<1>2. s = <<s[1]>>
  BY <1>1
<1> QED BY <1>1, <1>2 DEF s

\* One cell.
LEMMA Rds ==
  ASSUME Bytes, NEW c, Inside(c)
  PROVE  /\ Read(rd(c), c, 1) /\ One(rd(c)) \in Nat
         /\ rd(c).st = "ok" => /\ rd(c).v \in Seq(Nat) /\ 1 <= Left(c)
                               /\ One(rd(c)) = file[c.pos + 1] /\ rd(c).v = <<One(rd(c))>>
<1>1. rd(c) = Block(c, 1) /\ 1 \in Nat
  BY DEF rd, Block
<1>2. /\ Read(rd(c), c, 1)
      /\ rd(c).st = "ok" => /\ rd(c).v = SubSeq(file, c.pos + 1, c.pos + 1)
                            /\ rd(c).v \in Seq(Nat) /\ Len(rd(c).v) = 1 /\ 1 <= Left(c)
  <2> DEFINE n == 1
  <2>1. n \in Nat /\ rd(c) = Block(c, n)
    BY <1>1
  <2> HIDE DEF n
  <2>2. /\ Read(rd(c), c, n)
        /\ rd(c).st = "ok" => /\ rd(c).v = SubSeq(file, c.pos + 1, c.pos + n)
                              /\ rd(c).v \in Seq(Nat) /\ Len(rd(c).v) = n /\ n <= Left(c)
    BY <2>1, BlockReads
  <2> QED BY <2>2 DEF n
<1>3. CASE rd(c).st = "ok"
  <2>1. c.pos \in Nat /\ c.pos + 1 <= Len(file)
    BY <1>2, <1>3 DEF Read, Inside, Cursor, Left, Bytes
  <2>2. rd(c).v[1] = file[c.pos + 1] /\ rd(c).v = <<rd(c).v[1]>>
    <3> DEFINE p == c.pos
               f == file
    <3>1. p \in Nat /\ p + 1 <= Len(f) /\ f \in Seq(Nat)
      BY <2>1 DEF Bytes
    <3>2. rd(c).v = SubSeq(f, p + 1, p + 1)
      BY <1>2, <1>3
    <3> HIDE DEF p, f
    <3>3. rd(c).v[1] = f[p + 1] /\ rd(c).v = <<rd(c).v[1]>>
      BY <3>1, <3>2, OneCell
    <3> QED BY <3>3 DEF p, f
  <2>3. One(rd(c)) = rd(c).v[1] /\ rd(c).v[1] \in Nat
    BY <1>2, <1>3 DEF One
  <2> QED BY <1>2, <1>3, <2>2, <2>3
<1>4. CASE rd(c).st # "ok"
  BY <1>2, <1>4 DEF One
<1> QED BY <1>3, <1>4

\* r is c further on, or the file has been refused.
After(r, c) == Inside(r) /\ r.out = c.out /\ (r.st = "ok" => c.st = "ok")

\* A string: its length is checked before its bytes are taken.
LEMMA Strings ==
  ASSUME Bytes, NEW c, Inside(c)
  PROVE  After(rd_string(c), c) /\ (rd_string(c).st = "ok" => rd_string(c).v \in Seq(Nat))
<1>1. Inside(rd(c)) /\ rd(c).out = c.out /\ One(rd(c)) \in Nat /\ (rd(c).st = "ok" => c.st = "ok")
  BY Rds DEF Read
<1>2. /\ Read(Block(rd(c), One(rd(c))), rd(c), One(rd(c)))
      /\ Block(rd(c), One(rd(c))).st = "ok" => Block(rd(c), One(rd(c))).v \in Seq(Nat)
  BY <1>1, BlockReads
<1> QED BY <1>1, <1>2 DEF Read, After, rd_string

\* The cursor of a refused file is inside it,
LEMMA Refused ==
  ASSUME NEW c, Inside(c)
  PROVE  After([c EXCEPT !.st = "fatal"], c)
BY DEF After, Inside, Cursor

\* and so is one that has been given the value of an entry.
LEMMA Given ==
  ASSUME NEW r, NEW c, After(r, c), NEW x \in Piece
  PROVE  After([r EXCEPT !.v = x], c) /\ [r EXCEPT !.v = x].pos = r.pos
<1> DEFINE g == [r EXCEPT !.v = x]
<1>1. g \in Cursor /\ g.st = r.st /\ g.pos = r.pos /\ g.out = r.out
  BY DEF After, Inside, Cursor
<1> HIDE DEF g
<1>2. After(g, c)
  BY <1>1 DEF After, Inside
<1> QED BY <1>1, <1>2 DEF g

\* A line of the debug section.
LEMMA Lines ==
  ASSUME Bytes, NEW c, Inside(c)
  PROVE  After(ReadLine(c), c)
<1> DEFINE p == rd(c)
           l == rd(p)
<1>1. Read(p, c, 1) /\ One(p) \in Nat
  BY Rds
<1> HIDE DEF p
<1>2. Read(l, p, 1) /\ One(l) \in Nat
  BY <1>1, Rds DEF Read
<1> HIDE DEF l
<1>3. After(l, c)
  BY <1>1, <1>2 DEF Read, After
<1> DEFINE x == <<One(p), One(l)>>
<1>4. x \in Piece
  BY <1>1, <1>2 DEF Piece
<1> HIDE DEF x
<1>5. ReadLine(c) = IF l.st = "ok" THEN [l EXCEPT !.v = x] ELSE l
  BY DEF ReadLine, l, p, x
<1> QED BY <1>3, <1>4, <1>5, Given

\* An embedded asset: two strings.
LEMMA Assets ==
  ASSUME Bytes, NEW c, Inside(c)
  PROVE  After(ReadAsset(c), c)
<1> DEFINE nm == rd_string(c)
           d  == rd_string(nm)
<1>1. After(nm, c) /\ (nm.st = "ok" => nm.v \in Seq(Nat))
  BY Strings
<1> HIDE DEF nm
<1>2. After(d, nm) /\ (d.st = "ok" => d.v \in Seq(Nat))
  BY <1>1, Strings DEF After
<1> HIDE DEF d
<1>3. After(d, c) /\ (d.st = "ok" => nm.v \in Seq(Nat))
  BY <1>1, <1>2 DEF After
<1> DEFINE x == <<nm.v, d.v>>
<1>4. d.st = "ok" => x \in Piece
  BY <1>2, <1>3 DEF Piece
<1> HIDE DEF x
<1>5. ReadAsset(c) = IF d.st = "ok" THEN [d EXCEPT !.v = x] ELSE d
  BY DEF ReadAsset, d, nm, x
<1> QED BY <1>3, <1>4, <1>5, Given

\* A function, whose parameter count is taken without a check of its own:
\* that is safe when the four cells of the entry are there (main.c:213, 226).
LEMMA Funcs ==
  ASSUME Bytes, NEW c, Inside(c), c.st = "ok" => 4 <= Left(c)
  PROVE  Read(ReadFunc(c), c, 4)
<1> DEFINE nm == rd(c)
           known == IF nm.st = "ok" /\ One(nm) >= Len(prog.consts) THEN [nm EXCEPT !.st = "fatal"]
                 ELSE nm
           en == rd(known)
           np == Take(en, 1)
           nl == rd(np)
<1>1. Read(nm, c, 1) /\ One(nm) \in Nat
  BY Rds
<1> HIDE DEF nm
<1>2. Read(known, c, 1)
  <2>1. Inside(nm)
    BY <1>1 DEF Read
  <2>2. After([nm EXCEPT !.st = "fatal"], nm) /\ [nm EXCEPT !.st = "fatal"].st # "ok"
    BY <2>1, Refused DEF Inside, Cursor
  <2> QED BY <1>1, <2>2 DEF Read, After
<1> HIDE DEF known
<1>3. Read(en, known, 1) /\ One(en) \in Nat
  BY <1>2, Rds DEF Read
<1> HIDE DEF en
<1>4. en.st = "ok" => 1 <= Left(en)
  BY <1>2, <1>3, SMTT(30) DEF Read, Left, Inside, Cursor, Bytes
<1>5. Read(np, en, 1) /\ (np.st = "ok" => np.v \in Seq(Nat) /\ Len(np.v) = 1)
  <2> DEFINE n == 1
  <2>1. n \in Nat /\ Inside(en) /\ (en.st = "ok" => n <= Left(en))
    BY <1>3, <1>4 DEF Read
  <2> HIDE DEF n
  <2>2. Read(Take(en, n), en, n)
        /\ (Take(en, n).st = "ok" => Take(en, n).v \in Seq(Nat) /\ Len(Take(en, n).v) = n)
    BY <2>1, Takes
  <2> QED BY <2>2 DEF n
<1> HIDE DEF np
<1>6. One(np) \in Nat
  BY <1>5 DEF One
<1>7. Read(nl, np, 1) /\ One(nl) \in Nat
  BY <1>5, Rds DEF Read
<1> HIDE DEF nl
<1>8. Read(nl, c, 4)
  <2>1. Inside(nl) /\ nl.out = c.out
    BY <1>2, <1>3, <1>5, <1>7 DEF Read
  <2>2. ASSUME nl.st = "ok" PROVE c.st = "ok" /\ nl.pos = c.pos + 4
    <3>1. np.st = "ok" /\ nl.pos = np.pos + 1
      BY <1>7, <2>2 DEF Read
    <3>2. en.st = "ok" /\ np.pos = en.pos + 1
      BY <1>5, <3>1 DEF Read
    <3>3. known.st = "ok" /\ en.pos = known.pos + 1
      BY <1>3, <3>2 DEF Read
    <3>4. c.st = "ok" /\ known.pos = c.pos + 1
      BY <1>2, <3>3 DEF Read
    <3>5. c.pos \in Nat
      BY DEF Inside, Cursor
    <3> QED BY <3>1, <3>2, <3>3, <3>4, <3>5
  <2> QED BY <2>1, <2>2 DEF Read
<1> DEFINE x == [name |-> One(nm), entry |-> One(en), nparams |-> One(np), nlocals |-> One(nl)]
<1>9. x \in Piece
  BY <1>1, <1>3, <1>6, <1>7 DEF Piece, Function
<1> HIDE DEF x
<1>10. ReadFunc(c) = IF nl.st = "ok" THEN [nl EXCEPT !.v = x] ELSE nl
  BY DEF ReadFunc, nl, np, en, known, nm, x
<1>11. After([nl EXCEPT !.v = x], c) /\ [nl EXCEPT !.v = x].pos = nl.pos
  <2>1. After(nl, c)
    BY <1>8 DEF Read, After
  <2> QED BY <1>9, <2>1, Given
<1> QED BY <1>8, <1>10, <1>11 DEF Read, After

\* A constant, of whatever tag and version.
LEMMA Constants ==
  ASSUME Bytes, NEW c, Inside(c)
  PROVE  After(ReadConst(c), c)
<1> DEFINE t  == rd(c)
           hi == rd(t)
           lo == IF image.ver >= 3 THEN rd(hi) ELSE hi
           n  == IF image.ver >= 3 THEN 256 * One(hi) + One(lo) ELSE One(lo)
           v  == CASE One(t) = TAG_STR -> Block(lo, n)
                   [] One(t) \in {TAG_INT, TAG_FLT, TAG_BOOL} -> hi
                   [] OTHER -> [t EXCEPT !.st = "fatal"]
           val == IF One(t) = TAG_BOOL /\ v.v # <<0>> THEN <<1>> ELSE v.v
           x == [tag |-> One(t), val |-> val]
<1>1. Read(t, c, 1) /\ One(t) \in Nat
  BY Rds
<1> HIDE DEF t
<1>2. Read(hi, t, 1) /\ One(hi) \in Nat /\ (hi.st = "ok" => hi.v \in Seq(Nat))
  BY <1>1, Rds DEF Read
<1> HIDE DEF hi
<1>3. After(lo, hi) /\ One(lo) \in Nat
  <2>1. Read(rd(hi), hi, 1) /\ One(rd(hi)) \in Nat
    BY <1>2, Rds DEF Read
  <2> QED BY <1>2, <2>1 DEF Read, After
<1> HIDE DEF lo
<1>4. n \in Nat
  BY <1>2, <1>3
<1> HIDE DEF n
<1>5. Read(Block(lo, n), lo, n) /\ (Block(lo, n).st = "ok" => Block(lo, n).v \in Seq(Nat))
  BY <1>3, <1>4, BlockReads DEF After
<1>6. After(v, c) /\ (v.st = "ok" => v.v \in Seq(Nat))
  <2>1. CASE One(t) = TAG_STR
    <3>1. v = Block(lo, n)
      BY <2>1 DEF TAG_STR, TAG_INT, TAG_FLT, TAG_BOOL
    <3> HIDE DEF v
    <3> QED BY <1>1, <1>2, <1>3, <1>5, <3>1 DEF Read, After
  <2>2. CASE One(t) # TAG_STR /\ One(t) \in {TAG_INT, TAG_FLT, TAG_BOOL}
    <3>1. v = hi
      BY <2>2
    <3> HIDE DEF v
    <3> QED BY <1>1, <1>2, <3>1 DEF Read, After
  <2>3. CASE One(t) # TAG_STR /\ One(t) \notin {TAG_INT, TAG_FLT, TAG_BOOL}
    <3>1. v = [t EXCEPT !.st = "fatal"]
      BY <2>3
    <3>2. After([t EXCEPT !.st = "fatal"], t) /\ [t EXCEPT !.st = "fatal"].st # "ok"
      BY <1>1, Refused DEF Read, Inside, Cursor
    <3> HIDE DEF v
    <3> QED BY <1>1, <3>1, <3>2 DEF Read, After
  <2> QED BY <2>1, <2>2, <2>3
<1> HIDE DEF v
<1>7. v.st = "ok" => val \in Seq(Nat)
  BY <1>6
<1> HIDE DEF val
<1>8. v.st = "ok" => x \in Piece
  BY <1>1, <1>7 DEF Piece
<1> HIDE DEF x
<1>9. ReadConst(c) = IF v.st = "ok" THEN [v EXCEPT !.v = x] ELSE v
  BY DEF ReadConst, x, val, v, n, lo, hi, t
<1> QED BY <1>6, <1>8, <1>9, Given

\* One more entry.
Advance(kind, c) ==
  LET e == Entry(kind, c) IN IF e.st = "ok" THEN [e EXCEPT !.out = Append(e.out, e.v)] ELSE e

\* Before the first entry.
Begun(c) == [c EXCEPT !.out = <<>>]

\* If each entry leads from G[i - 1] to G[i], so do all of them.
LEMMA EntriesWithin ==
  ASSUME NEW kind, NEW w, NEW c, NEW n, Tries(w, c, n) \in Nat, NEW G, Begun(c) \in G[0],
         \A i \in 1 .. Tries(w, c, n) : \A x \in G[i - 1] : Advance(kind, x) \in G[i]
  PROVE  Times(kind, w, c, n) \in G[Tries(w, c, n)]
<1> DEFINE N == Tries(w, c, n)
           move == [i \in 1 .. N |-> [x \in G[i - 1] |-> Advance(kind, x)]]
<1>1. \A i \in 1 .. N : \A x \in G[i - 1] : move[i][x] = Advance(kind, x)
  BY Zenon
<1>2. \A i \in 1 .. N : \A x \in G[i - 1] : move[i][x] \in G[i]
  BY <1>1
<1> HIDE DEF N, move
<1>3. N \in Nat
  BY DEF N
<1>4. PICK f : /\ f = [i \in 0 .. N |-> f[i]]
               /\ f[0] = Begun(c)
               /\ \A i \in 1 .. N : f[i] = move[i][f[i - 1]]
               /\ \A i \in 0 .. N : f[i] \in G[i]
  <2>1. \E f : Path(f, Begun(c), N, move, G)
    BY <1>2, <1>3, IterateWithin, Zenon DEF Leads
  <2> QED BY <2>1 DEF Path
<1>5. \A i \in 0 .. N : f[i] = IF i = 0 THEN Begun(c) ELSE Advance(kind, f[i - 1])
  <2> TAKE i \in 0 .. N
  <2>1. CASE i # 0
    <3>1. i \in 1 .. N /\ i - 1 \in 0 .. N
      BY <1>3, <2>1
    <3> QED BY <1>1, <1>4, <2>1, <3>1
  <2> QED BY <1>4, <2>1
<1>6. f = [i \in 0 .. N |-> IF i = 0 THEN Begun(c) ELSE Advance(kind, f[i - 1])]
  BY <1>4, <1>5
<1> DEFINE t == Entries(kind, w, c, n)
<1>7. t = [i \in 0 .. N |-> IF i = 0 THEN Begun(c) ELSE Advance(kind, t[i - 1])]
  BY <1>6, Zenon DEF Entries, Advance, Begun, N
<1> HIDE DEF t
<1>8. t[0] = Begun(c) /\ \A i \in 1 .. N : t[i] = Advance(kind, t[i - 1])
  BY <1>3, <1>7
<1>9. \A i \in 1 .. N : t[i - 1] \in G[i - 1] => t[i] \in G[i]
  BY <1>1, <1>2, <1>8
<1>10. t[0] \in G[0]
  BY <1>8
<1>11. N \in 0 .. N /\ \A i \in 0 .. N : t[i] \in G[i]
  BY <1>3, <1>9, <1>10, StaysWithin
<1> QED BY <1>11 DEF Times, N, t

Kinds == {"const", "func", "line", "asset"}

\* What an entry takes without a check of its own is left.
Room(kind, c) == kind = "func" /\ c.st = "ok" => 4 <= Left(c)

\* An entry of any kind.
LEMMA AnEntry ==
  ASSUME Bytes, NEW c, Inside(c), NEW kind \in Kinds, Room(kind, c)
  PROVE  /\ After(Entry(kind, c), c)
         /\ kind = "func" => Read(Entry(kind, c), c, 4)
<1>1. CASE kind = "const"
  BY <1>1, Constants DEF Entry
<1>2. CASE kind = "func"
  <2>1. Entry(kind, c) = ReadFunc(c) /\ (c.st = "ok" => 4 <= Left(c))
    BY <1>2 DEF Entry, Room
  <2>2. Read(ReadFunc(c), c, 4)
    BY <2>1, Funcs
  <2> QED BY <2>1, <2>2 DEF Read, After
<1>3. CASE kind = "line"
  BY <1>3, Lines DEF Entry
<1>4. CASE kind = "asset"
  BY <1>4, Assets DEF Entry
<1> QED BY <1>1, <1>2, <1>3, <1>4 DEF Kinds

\* The same when the entry is appended to those before it.
LEMMA Advanced ==
  ASSUME Bytes, NEW c, Inside(c), NEW kind \in Kinds, Room(kind, c)
  PROVE  /\ Inside(Advance(kind, c))
         /\ Advance(kind, c).st = "ok" => c.st = "ok"
         /\ Advance(kind, c).st = "ok" /\ kind = "func" => Advance(kind, c).pos = c.pos + 4
<1> DEFINE e == Entry(kind, c)
           a == [e EXCEPT !.out = Append(e.out, e.v)]
<1>1. After(e, c) /\ (kind = "func" => Read(e, c, 4))
  BY AnEntry
<1> HIDE DEF e
<1>2. e \in Cursor
  BY <1>1 DEF After, Inside
<1>3. Append(e.out, e.v) \in Seq(Piece)
  BY <1>2 DEF Cursor
<1>4. a \in Cursor /\ a.st = e.st /\ a.pos = e.pos
  BY <1>2, <1>3 DEF Cursor
<1> HIDE DEF a
<1>5. Advance(kind, c) = IF e.st = "ok" THEN a ELSE e
  BY DEF Advance, a, e
<1>6. Inside(a)
  BY <1>1, <1>4 DEF After, Inside
<1> QED BY <1>1, <1>4, <1>5, <1>6 DEF After, Read

\* Nothing has been read before the first entry.
LEMMA BegunInside ==
  ASSUME NEW c, Inside(c)
  PROVE  Inside(Begun(c)) /\ Begun(c).st = c.st /\ Begun(c).pos = c.pos
<1> DEFINE f == Begun(c)
<1>1. <<>> \in Seq(Piece)
  OBVIOUS
<1>2. f \in Cursor /\ f.st = c.st /\ f.pos = c.pos
  BY <1>1 DEF Inside, Cursor, Begun
<1> HIDE DEF f
<1>3. Inside(f)
  BY <1>2 DEF Inside
<1> QED BY <1>2, <1>3 DEF f

\* No more entries are tried than there are.
LEMMA TriesFew ==
  ASSUME Bytes, NEW c, Inside(c), NEW w \in {2, 4}, NEW n \in Nat
  PROVE  Tries(w, c, n) \in Nat /\ Tries(w, c, n) <= n
<1>1. CASE c.st # "ok"
  BY <1>1 DEF Tries
<1>2. CASE c.st = "ok"
  <2>1. Left(c) \in Nat
    BY <1>2 DEF Inside, Cursor, Left, Bytes
  <2> DEFINE l == Left(c)
  <2> HIDE DEF l
  <2>2. l \in Nat
    BY <2>1 DEF l
  <2>3. l \div 2 \in Nat /\ l \div 4 \in Nat
    BY ONLY <2>2
  <2>4. \A q \in Nat : (IF n <= q THEN n ELSE q + 1) \in Nat /\ (IF n <= q THEN n ELSE q + 1) <= n
    OBVIOUS
  <2>5. l \div w \in Nat
    BY <2>3
  <2>6. Tries(w, c, n) = IF n <= l \div w THEN n ELSE l \div w + 1
    BY <1>2 DEF Tries, l
  <2> QED BY <2>4, <2>5, <2>6
<1> QED BY <1>1, <1>2

\* A table of functions is reserved beforehand, other entries are checked one
\* by one.
LEMMA TableInside ==
  ASSUME Bytes, NEW c, Inside(c), NEW w \in {2, 4}, NEW n \in Nat, NEW kind \in Kinds,
         kind = "func" /\ c.st = "ok" => 4 * n <= Left(c)
  PROVE  Inside(Times(kind, w, c, n))
<1> DEFINE N == Tries(w, c, n)
           Good(i) == {x \in Cursor :
                         Inside(x) /\ (kind = "func" /\ x.st = "ok" => 4 * (n - i) <= Left(x))}
           G == [i \in 0 .. N |-> Good(i)]
<1>1. N \in Nat /\ N <= n
  BY TriesFew
<1> HIDE DEF N
<1>2. Begun(c) \in G[0]
  <2>1. 0 \in 0 .. N
    BY <1>1
  <2>2. Begun(c) \in Good(0)
    BY BegunInside DEF Inside, Left
  <2> HIDE DEF Good
  <2> QED BY <2>1, <2>2
<1>3. ASSUME NEW i \in 1 .. N, NEW x \in G[i - 1] PROVE Advance(kind, x) \in G[i]
  <2>1. i \in 0 .. N /\ i - 1 \in 0 .. N /\ i <= n
    BY <1>1
  <2>2. x \in Good(i - 1)
    <3> HIDE DEF Good
    <3> QED BY <2>1
  <2>3. Inside(x) /\ x \in Cursor /\ (kind = "func" /\ x.st = "ok" => 4 * (n - (i - 1)) <= Left(x))
    BY <2>2
  <2>4. Room(kind, x)
    <3> SUFFICES ASSUME kind = "func", x.st = "ok" PROVE 4 <= Left(x)
      BY DEF Room
    <3>1. 4 * (n - (i - 1)) <= Left(x) /\ Left(x) \in Int
      BY <2>3 DEF Left, Cursor, Bytes
    <3> QED BY <2>1, <3>1
  <2> DEFINE a == Advance(kind, x)
  <2>5. /\ Inside(a) /\ (a.st = "ok" => x.st = "ok")
        /\ a.st = "ok" /\ kind = "func" => a.pos = x.pos + 4
    BY <2>3, <2>4, Advanced
  <2> HIDE DEF a
  <2>6. kind = "func" /\ a.st = "ok" => 4 * (n - i) <= Left(a)
    <3> SUFFICES ASSUME kind = "func", a.st = "ok" PROVE 4 * (n - i) <= Left(a)
      OBVIOUS
    <3>1. 4 * (n - (i - 1)) <= Left(x) /\ Left(x) \in Int
      BY <2>3, <2>5 DEF Left, Cursor, Bytes
    <3>2. Left(a) = Left(x) - 4
      BY <2>3, <2>5 DEF Left, Cursor, Bytes
    <3> QED BY <2>1, <3>1, <3>2
  <2>7. a \in Good(i)
    BY <2>5, <2>6 DEF Inside
  <2> HIDE DEF Good
  <2> QED BY <2>1, <2>7 DEF a
<1> HIDE DEF G
<1>4. Times(kind, w, c, n) \in G[N]
  BY <1>1, <1>2, <1>3, EntriesWithin DEF N
<1>5. N \in 0 .. N
  BY <1>1
<1>6. Times(kind, w, c, n) \in Good(N)
  <2> HIDE DEF Good
  <2> QED BY <1>4, <1>5 DEF G
<1> QED BY <1>6

\* The four tables of a file are read without leaving it.
LEMMA Tables ==
  ASSUME Bytes, NEW c, Inside(c)
  PROVE  /\ Inside(ReadConsts(c)) /\ Inside(ReadFuncs(c))
         /\ Inside(ReadDebug(c)) /\ Inside(ReadAssets(c))
<1> DEFINE r == rd(c)
           n == One(r)
<1>1. Inside(r) /\ n \in Nat
  BY Rds DEF Read
<1> HIDE DEF r, n
<1>2. n \in Nat /\ 2 * n \in Nat /\ 4 * n \in Nat
  BY <1>1
<1>3. \A m \in Nat : /\ Inside(need_bytes(r, m))
                    /\ (need_bytes(r, m).st = "ok" => m <= Left(need_bytes(r, m)))
  <2> TAKE m \in Nat
  <2>1. /\ Read(need_bytes(r, m), r, 0)
        /\ (need_bytes(r, m).st = "ok" => need_bytes(r, m) = r /\ m <= Left(r))
    BY <1>1, Needs
  <2> QED BY <2>1 DEF Read
<1>4. Inside(Times("const", 2, need_bytes(r, n), n))
  BY <1>2, <1>3, TableInside DEF Kinds
<1>5. Inside(Times("func", 4, need_bytes(r, 4 * n), n))
  <2> DEFINE m == 4 * n
             b == need_bytes(r, m)
  <2>1. m \in Nat /\ Inside(b) /\ (b.st = "ok" => m <= Left(b))
    BY <1>2, <1>3
  <2> HIDE DEF b
  <2>2. Inside(Times("func", 4, b, n))
    BY <1>2, <2>1, TableInside DEF Kinds
  <2> QED BY <2>2 DEF b
<1>6. /\ Inside(Times("line", 2, need_bytes(r, 2 * n), n))
      /\ Inside(Times("asset", 2, need_bytes(r, 2 * n), n))
  <2> DEFINE b == need_bytes(r, 2 * n)
  <2>1. Inside(b)
    BY <1>2, <1>3
  <2> HIDE DEF b
  <2>2. Inside(Times("line", 2, b, n)) /\ Inside(Times("asset", 2, b, n))
    BY <1>2, <2>1, TableInside DEF Kinds
  <2> QED BY <2>2 DEF b
<1> QED BY <1>4, <1>5, <1>6 DEF ReadConsts, ReadFuncs, ReadDebug, ReadAssets, r, n

\* The inductive invariant: the C and C++ VMs have not left the file.
LoadInv ==
  /\ engine \in {"none", "C", "Cpp", "Go"}
  /\ engine \in {"C", "Cpp"} => file \in Seq(Nat) /\ Inside(cursor)

-----------------------------------------------------------------------------
(* What is written and what is read. The exclusive or undoes itself, so    *)
(* decoding recovers the code and with it the key of the next byte.        *)

\* The exclusive or with the same byte twice: of bits,
LEMMA Xor1Twice ==
  ASSUME NEW a \in 0 .. 1, NEW b \in 0 .. 1
  PROVE  Xor1(a, b) \in 0 .. 1 /\ Xor1(Xor1(a, b), b) = a
BY DEF Xor1

\* of two bits,
LEMMA Xor2Twice ==
  ASSUME NEW a \in 0 .. 3, NEW b \in 0 .. 3
  PROVE  Xor2(a, b) \in 0 .. 3 /\ Xor2(Xor2(a, b), b) = a
<1> DEFINE p == Xor1(a % 2, b % 2)
           q == Xor1(a \div 2, b \div 2)
           x == Xor2(a, b)
<1>1. a % 2 \in 0 .. 1 /\ b % 2 \in 0 .. 1 /\ a \div 2 \in 0 .. 1 /\ b \div 2 \in 0 .. 1
      /\ a = (a % 2) + 2 * (a \div 2)
  OBVIOUS
<1>2. /\ p \in 0 .. 1 /\ Xor1(p, b % 2) = a % 2
      /\ q \in 0 .. 1 /\ Xor1(q, b \div 2) = a \div 2
  BY <1>1, Xor1Twice, Zenon
<1>3. x = p + 2 * q
  BY DEF Xor2
<1> HIDE DEF p, q, x
<1>4. x \in 0 .. 3 /\ x % 2 = p /\ x \div 2 = q
  BY <1>2, <1>3
<1>5. Xor2(x, b) = Xor1(p, b % 2) + 2 * Xor1(q, b \div 2)
  BY <1>4 DEF Xor2
<1> QED BY <1>1, <1>2, <1>4, <1>5 DEF x

\* of four,
LEMMA Xor4Twice ==
  ASSUME NEW a \in 0 .. 15, NEW b \in 0 .. 15
  PROVE  Xor4(a, b) \in 0 .. 15 /\ Xor4(Xor4(a, b), b) = a
<1> DEFINE p == Xor2(a % 4, b % 4)
           q == Xor2(a \div 4, b \div 4)
           x == Xor4(a, b)
<1>1. a % 4 \in 0 .. 3 /\ b % 4 \in 0 .. 3 /\ a \div 4 \in 0 .. 3 /\ b \div 4 \in 0 .. 3
      /\ a = (a % 4) + 4 * (a \div 4)
  OBVIOUS
<1>2. /\ p \in 0 .. 3 /\ Xor2(p, b % 4) = a % 4
      /\ q \in 0 .. 3 /\ Xor2(q, b \div 4) = a \div 4
  BY <1>1, Xor2Twice, Zenon
<1>3. x = p + 4 * q
  BY DEF Xor4
<1> HIDE DEF p, q, x
<1>4. x \in 0 .. 15 /\ x % 4 = p /\ x \div 4 = q
  BY <1>2, <1>3
<1>5. Xor4(x, b) = Xor2(p, b % 4) + 4 * Xor2(q, b \div 4)
  BY <1>4 DEF Xor4
<1> QED BY <1>1, <1>2, <1>4, <1>5 DEF x

\* of a byte.
LEMMA XorTwice ==
  ASSUME NEW a \in 0 .. 255, NEW b \in 0 .. 255
  PROVE  Xor(a, b) \in 0 .. 255 /\ Xor(Xor(a, b), b) = a
<1> DEFINE p == Xor4(a % 16, b % 16)
           q == Xor4(a \div 16, b \div 16)
           x == Xor(a, b)
<1>1. a % 16 \in 0 .. 15 /\ b % 16 \in 0 .. 15 /\ a \div 16 \in 0 .. 15 /\ b \div 16 \in 0 .. 15
      /\ a = (a % 16) + 16 * (a \div 16)
  OBVIOUS
<1>2. /\ p \in 0 .. 15 /\ Xor4(p, b % 16) = a % 16
      /\ q \in 0 .. 15 /\ Xor4(q, b \div 16) = a \div 16
  BY <1>1, Xor4Twice, Zenon
<1>3. x = p + 16 * q
  BY DEF Xor
<1> HIDE DEF p, q, x
<1>4. x \in 0 .. 255 /\ x % 16 = p /\ x \div 16 = q
  BY <1>2, <1>3
<1>5. Xor(x, b) = Xor4(p, b % 16) + 16 * Xor4(q, b \div 16)
  BY <1>4 DEF Xor
<1> QED BY <1>1, <1>2, <1>4, <1>5 DEF x

Byte == 0 .. 255

\* A key is a byte.
LEMMA NextKeyByte == \A k \in Byte, b \in Byte : NextKey(k, b) \in Byte
BY DEF NextKey, Byte

\* The keys of the generator.
LEMMA KeysAre ==
  ASSUME NEW code \in Seq(Byte)
  PROVE  /\ Keys(code)[0] = 90
         /\ \A i \in 0 .. Len(code) : Keys(code)[i] \in Byte
         /\ \A i \in 1 .. Len(code) : Keys(code)[i] = NextKey(Keys(code)[i - 1], code[i])
<1> DEFINE N == Len(code)
           move == [i \in 1 .. N |-> [k \in Byte |-> NextKey(k, code[i])]]
           K == Keys(code)
<1>1. N \in Nat /\ \A i \in 1 .. N : code[i] \in Byte
  OBVIOUS
<1>2. 90 \in Byte
  BY DEF Byte
<1> HIDE DEF N
<1>3. move \in Steps(N, Byte)
  <2>1. \A i \in 1 .. N : [k \in Byte |-> NextKey(k, code[i])] \in [Byte -> Byte]
    BY <1>1, NextKeyByte
  <2> QED BY <2>1 DEF Steps
<1>4. PICK f : Iteration(f, 90, N, Byte, move)
  <2> HIDE DEF move
  <2> QED BY <1>1, <1>2, <1>3, Iterate
<1>5. f \in [0 .. N -> Byte] /\ f[0] = 90 /\ \A i \in 1 .. N : f[i] = move[i][f[i - 1]]
  <2> HIDE DEF move
  <2> QED BY <1>4 DEF Iteration
<1>6. \A i \in 0 .. N : f[i] = IF i = 0 THEN 90 ELSE NextKey(f[i - 1], code[i])
  <2> TAKE i \in 0 .. N
  <2>1. CASE i # 0
    <3>1. i \in 1 .. N /\ i - 1 \in 0 .. N
      BY <1>1, <2>1
    <3>2. f[i - 1] \in Byte
      BY <1>5, <3>1
    <3> QED BY <1>5, <2>1, <3>1, <3>2
  <2> QED BY <1>5, <2>1
<1>7. f = [i \in 0 .. N |-> IF i = 0 THEN 90 ELSE NextKey(f[i - 1], code[i])]
  <2>1. f = [i \in 0 .. N |-> f[i]]
    BY <1>5
  <2> QED BY <1>6, <2>1
<1>8. K = [i \in 0 .. N |-> IF i = 0 THEN 90 ELSE NextKey(K[i - 1], code[i])]
  BY <1>7, Zenon DEF Keys, N
<1> HIDE DEF K, move
<1>9. K[0] = 90 /\ \A i \in 1 .. N : K[i] = NextKey(K[i - 1], code[i])
  BY <1>1, <1>8
<1> DEFINE G == [i \in 0 .. N |-> Byte]
<1>10. \A i \in 0 .. N : K[i] \in G[i]
  <2>1. K[0] \in G[0]
    BY <1>1, <1>2, <1>9
  <2>2. \A i \in 1 .. N : K[i - 1] \in G[i - 1] => K[i] \in G[i]
    <3> TAKE i \in 1 .. N
    <3>1. i \in 0 .. N /\ i - 1 \in 0 .. N
      BY <1>1
    <3> QED BY <1>1, <1>9, <3>1, NextKeyByte
  <2> HIDE DEF G
  <2> QED BY <1>1, <2>1, <2>2, StaysWithin
<1> QED BY <1>9, <1>10 DEF K, N

\* Scrambled code is as long as the code, a byte for a byte.
LEMMA Scrambled ==
  ASSUME NEW code \in Seq(Byte)
  PROVE  /\ Scramble(code) \in Seq(Byte) /\ Len(Scramble(code)) = Len(code)
         /\ \A i \in 1 .. Len(code) : Scramble(code)[i] = Xor(code[i], Keys(code)[i - 1])
<1>1. \A i \in 1 .. Len(code) : code[i] \in Byte /\ Keys(code)[i - 1] \in Byte
  BY KeysAre
<1>2. \A i \in 1 .. Len(code) : Xor(code[i], Keys(code)[i - 1]) \in Byte
  BY <1>1, XorTwice, ZenonT(30) DEF Byte
<1>3. Scramble(code) = [i \in 1 .. Len(code) |-> Xor(code[i], Keys(code)[i - 1])]
  BY DEF Scramble
<1> QED BY <1>2, <1>3

\* xor_decode undoes what the generator does to the code, though the key of
\* each byte depends on the clear bytes before it.
LEMMA Decoded ==
  ASSUME NEW code \in Seq(Byte)
  PROVE  xor_decode(Scramble(code)) = code
<1> DEFINE s == Scramble(code)
           N == Len(code)
           T == [byte : Byte, key : Byte]
           start == [byte |-> 0, key |-> 90]
           Next1(r, c) == [byte |-> Xor(c, r.key), key |-> NextKey(r.key, Xor(c, r.key))]
           move == [i \in 1 .. N |-> [r \in T |-> Next1(r, s[i])]]
           D == Decoding(s)
<1>1. N \in Nat /\ s \in Seq(Byte) /\ Len(s) = N /\ \A i \in 1 .. N : s[i] \in Byte
  BY Scrambled
<1>2. \A i \in 1 .. N : s[i] = Xor(code[i], Keys(code)[i - 1]) /\ code[i] \in Byte
  BY Scrambled
<1> HIDE DEF s, N
<1>3. ASSUME NEW r \in T, NEW c \in Byte PROVE Next1(r, c) \in T
  <2>1. r.key \in Byte
    OBVIOUS
  <2>2. Xor(c, r.key) \in Byte
    BY <2>1, XorTwice, ZenonT(30) DEF Byte
  <2>3. NextKey(r.key, Xor(c, r.key)) \in Byte
    BY <2>1, <2>2, NextKeyByte
  <2> QED BY <2>2, <2>3
<1>4. start \in T
  BY DEF Byte
<1>5. move \in Steps(N, T)
  <2> HIDE DEF Next1, T
  <2>1. \A i \in 1 .. N : [r \in T |-> Next1(r, s[i])] \in [T -> T]
    BY <1>1, <1>3
  <2> QED BY <2>1 DEF Steps
<1>6. PICK f : Iteration(f, start, N, T, move)
  <2> HIDE DEF move, T, start
  <2> QED BY <1>1, <1>4, <1>5, Iterate
<1>7. f \in [0 .. N -> T] /\ f[0] = start /\ \A i \in 1 .. N : f[i] = move[i][f[i - 1]]
  <2> HIDE DEF move, T, start
  <2> QED BY <1>6 DEF Iteration
<1>8. \A i \in 0 .. N : f[i] = IF i = 0 THEN start ELSE Next1(f[i - 1], s[i])
  <2> TAKE i \in 0 .. N
  <2> HIDE DEF Next1, T, start
  <2>1. CASE i # 0
    <3>1. i \in 1 .. N /\ i - 1 \in 0 .. N
      BY <1>1, <2>1
    <3>2. f[i - 1] \in T
      BY <1>7, <3>1
    <3> QED BY <1>7, <2>1, <3>1, <3>2
  <2> QED BY <1>7, <2>1
<1>9. f = [i \in 0 .. N |-> IF i = 0 THEN start ELSE Next1(f[i - 1], s[i])]
  <2> HIDE DEF Next1, T, start
  <2>1. f = [i \in 0 .. N |-> f[i]]
    BY <1>7
  <2> QED BY <1>8, <2>1
<1>10. D = [i \in 0 .. N |-> IF i = 0 THEN start ELSE Next1(D[i - 1], s[i])]
  <2>1. Len(s) = N
    BY <1>1
  <2> QED BY <1>9, <2>1, Zenon DEF Decoding
<1> HIDE DEF D, move
<1>11. D[0] = start /\ \A i \in 1 .. N : D[i] = Next1(D[i - 1], s[i])
  <2> HIDE DEF Next1, start
  <2> QED BY <1>1, <1>10
<1> DEFINE Match(i) == {r \in T : r.key = Keys(code)[i] /\ (i > 0 => r.byte = code[i])}
           G == [i \in 0 .. N |-> Match(i)]
<1>12. \A i \in 0 .. N : D[i] \in G[i]
  <2>1. D[0] \in G[0]
    <3>1. start \in Match(0)
      BY <1>4, KeysAre
    <3> HIDE DEF Match, start
    <3> QED BY <1>1, <1>11, <3>1
  <2>2. ASSUME NEW i \in 1 .. N, D[i - 1] \in G[i - 1] PROVE D[i] \in G[i]
    <3>1. i \in 0 .. N /\ i - 1 \in 0 .. N
      BY <1>1
    <3>2. D[i - 1] \in Match(i - 1)
      <4> HIDE DEF Match
      <4> QED BY <2>2, <3>1
    <3>3. D[i - 1] \in T /\ D[i - 1].key = Keys(code)[i - 1]
      BY <3>2
    <3>4. D[i] = Next1(D[i - 1], s[i]) /\ D[i] \in T
      <4> HIDE DEF Next1, T, Match, G
      <4> QED BY <1>1, <1>3, <1>11, <3>3
    <3>5. code[i] \in Byte /\ Keys(code)[i - 1] \in Byte
          /\ Keys(code)[i] = NextKey(Keys(code)[i - 1], code[i])
      BY <1>2, <3>1, KeysAre DEF N
    <3>6. Xor(s[i], Keys(code)[i - 1]) = code[i]
      <4>1. s[i] = Xor(code[i], Keys(code)[i - 1])
        BY <1>2
      <4>2. Xor(Xor(code[i], Keys(code)[i - 1]), Keys(code)[i - 1]) = code[i]
        BY <3>5, XorTwice, ZenonT(30) DEF Byte
      <4> QED BY <4>1, <4>2
    <3>7. D[i].byte = code[i] /\ D[i].key = Keys(code)[i]
      BY <3>3, <3>4, <3>5, <3>6
    <3>8. D[i] \in Match(i)
      BY <3>4, <3>7
    <3> HIDE DEF Match
    <3> QED BY <3>1, <3>8
  <2> HIDE DEF G
  <2> QED BY <1>1, <2>1, <2>2, StaysWithin
<1>13. \A i \in 1 .. N : D[i].byte = code[i]
  <2> TAKE i \in 1 .. N
  <2>1. i \in 0 .. N /\ i > 0
    BY <1>1, SMTT(30)
  <2>2. D[i] \in Match(i)
    <3> HIDE DEF Match
    <3> QED BY <1>12, <2>1
  <2> QED BY <2>1, <2>2
<1>14. xor_decode(s) = [i \in 1 .. N |-> D[i].byte]
  <2>1. DOMAIN s = 1 .. N
    BY <1>1
  <2> QED BY <2>1 DEF xor_decode, D
<1>15. xor_decode(s) = [i \in 1 .. N |-> code[i]]
  BY <1>13, <1>14
<1>16. code = [i \in 1 .. N |-> code[i]]
  BY DEF N
<1> QED BY <1>15, <1>16 DEF s

\* The entries of each kind of table, and the least cells one takes.
Items(kind) == CASE kind = "const" -> Constant [] kind = "func" -> Function
                 [] kind = "line" -> Line [] kind = "asset" -> Asset

Width(kind) == IF kind = "func" THEN 4 ELSE 2

\* A string is its length and its cells.
LEMMA StringCells ==
  ASSUME NEW t \in Seq(Nat)
  PROVE  PutString(t) \in Seq(Nat) /\ Len(PutString(t)) = Len(t) + 1
BY DEF PutString

\* A function on 1 .. n is a sequence.
LEMMA Tuples ==
  ASSUME NEW n \in Nat, NEW S, NEW f \in [1 .. n -> S]
  PROVE  f \in Seq(S) /\ Len(f) = n /\ DOMAIN f = 1 .. n
OBVIOUS

\* A sequence over a set is one over a larger set.
LEMMA Widened ==
  ASSUME NEW S, NEW T, S \subseteq T, NEW s \in Seq(S)
  PROVE  s \in Seq(T)
<1>1. s = [i \in 1 .. Len(s) |-> s[i]] /\ Len(s) \in Nat /\ \A i \in 1 .. Len(s) : s[i] \in S
  OBVIOUS
<1>2. s \in [1 .. Len(s) -> T]
  BY <1>1
<1> QED BY <1>1, <1>2, Tuples

\* Two sequences, one behind the other.
LEMMA OneBehind ==
  ASSUME NEW s \in Seq(Nat), NEW t \in Seq(Nat)
  PROVE  s \o t \in Seq(Nat) /\ Len(s \o t) = Len(s) + Len(t)
OBVIOUS

\* What a constant can be.
LEMMA ConstantIs ==
  ASSUME NEW e \in Constant
  PROVE  /\ e.tag \in {TAG_INT, TAG_FLT, TAG_STR, TAG_BOOL} /\ e.tag \in Nat /\ e.val \in Seq(Nat)
         /\ e = [tag |-> e.tag, val |-> e.val]
         /\ e.tag # TAG_STR => Len(e.val) = 1
         /\ e.tag = TAG_BOOL => e.val \in {<<0>>, <<1>>}
<1>1. CASE e \in [tag : {TAG_INT, TAG_FLT}, val : [1 .. 1 -> Nat]]
  <2>1. e.val \in Seq(Nat) /\ Len(e.val) = 1
    <3>1. e.val \in [1 .. 1 -> Nat] /\ 1 \in Nat
      BY <1>1
    <3> QED BY <3>1, Tuples, Zenon
  <2> QED BY <1>1, <2>1 DEF TAG_INT, TAG_FLT, TAG_STR, TAG_BOOL
<1>2. CASE e \in [tag : {TAG_BOOL}, val : {<<0>>, <<1>>}]
  <2>1. e.tag = TAG_BOOL /\ e.val \in {<<0>>, <<1>>}
    BY <1>2
  <2>2. e = [tag |-> e.tag, val |-> e.val]
    BY <1>2
  <2>3. <<0>> \in Seq(Nat) /\ Len(<<0>>) = 1 /\ <<1>> \in Seq(Nat) /\ Len(<<1>>) = 1
    OBVIOUS
  <2>4. e.val \in Seq(Nat) /\ Len(e.val) = 1
    BY <2>1, <2>3
  <2> QED BY <2>1, <2>2, <2>4 DEF TAG_INT, TAG_FLT, TAG_STR, TAG_BOOL
<1>3. CASE e \in [tag : {TAG_STR}, val : Seq(Nat)]
  BY <1>3 DEF TAG_INT, TAG_FLT, TAG_STR, TAG_BOOL
<1> QED BY <1>1, <1>2, <1>3 DEF Constant

\* A constant takes two cells or more.
LEMMA ConstCells ==
  ASSUME NEW e \in Constant, NEW ver \in Nat
  PROVE  PutConst(ver, e) \in Seq(Nat) /\ Len(PutConst(ver, e)) >= 2
<1> DEFINE n == Len(e.val)
           t == IF e.tag # TAG_STR THEN e.val
                ELSE IF ver >= 3 THEN <<n \div 256, n % 256>> \o e.val ELSE PutString(e.val)
<1>1. e.tag \in Nat /\ e.val \in Seq(Nat) /\ n \in Nat /\ (e.tag # TAG_STR => n = 1)
  BY ConstantIs
<1>2. PutString(e.val) \in Seq(Nat) /\ Len(PutString(e.val)) = n + 1
  BY <1>1, StringCells
<1>3. PutConst(ver, e) = <<e.tag>> \o t
  BY DEF PutConst
<1>4. t \in Seq(Nat) /\ Len(t) >= 1
  <2> HIDE DEF n
  <2>1. n \div 256 \in Nat /\ n % 256 \in Nat
    BY <1>1
  <2> DEFINE s == <<n \div 256, n % 256>>
  <2>2. s \in Seq(Nat) /\ Len(s) = 2
    BY <2>1
  <2> HIDE DEF s
  <2>3. s \o e.val \in Seq(Nat) /\ Len(s \o e.val) = 2 + n
    BY <1>1, <2>2, OneBehind DEF n
  <2>4. t = IF e.tag # TAG_STR THEN e.val ELSE IF ver >= 3 THEN s \o e.val ELSE PutString(e.val)
    BY DEF s
  <2> HIDE DEF t
  <2>5. Len(e.val) = n
    BY DEF n
  <2> QED BY <1>1, <1>2, <2>3, <2>4, <2>5
<1> HIDE DEF t
<1>5. <<e.tag>> \in Seq(Nat) /\ Len(<<e.tag>>) = 1
  BY <1>1
<1> QED BY <1>3, <1>4, <1>5

\* An entry takes as many cells as its reader reckons with, or more.
LEMMA EntryCells ==
  ASSUME NEW kind \in Kinds, NEW e \in Items(kind), NEW ver \in Nat
  PROVE  PutEntry(kind, ver, e) \in Seq(Nat) /\ Len(PutEntry(kind, ver, e)) >= Width(kind)
<1>1. CASE kind = "const"
  BY <1>1, ConstCells DEF Items, PutEntry, Width
<1>2. CASE kind = "func"
  <2>1. e \in Function /\ PutEntry(kind, ver, e) = <<e.name, e.entry, e.nparams, e.nlocals>>
    BY <1>2 DEF Items, PutEntry
  <2>2. e.name \in Nat /\ e.entry \in Nat /\ e.nparams \in Nat /\ e.nlocals \in Nat
    BY <2>1 DEF Function
  <2>3. \A a, b, c, d \in Nat : <<a, b, c, d>> \in Seq(Nat) /\ Len(<<a, b, c, d>>) = 4
    OBVIOUS
  <2>4. PutEntry(kind, ver, e) \in Seq(Nat) /\ Len(PutEntry(kind, ver, e)) = 4
    BY <2>1, <2>2, <2>3
  <2>5. Width(kind) = 4
    BY <1>2 DEF Width
  <2> QED BY <2>4, <2>5
<1>3. CASE kind = "line"
  <2>1. e \in Line /\ PutEntry(kind, ver, e) = e
    BY <1>3 DEF Items, PutEntry
  <2>2. e \in Seq(Nat) /\ Len(e) = 2
    <3>1. e \in [1 .. 2 -> Nat] /\ 2 \in Nat
      BY <2>1 DEF Line
    <3> QED BY <3>1, Tuples, Zenon
  <2>3. Width(kind) = 2
    BY <1>3 DEF Width
  <2> QED BY <2>1, <2>2, <2>3
<1>4. CASE kind = "asset"
  <2>1. e \in Asset /\ PutEntry(kind, ver, e) = PutString(e[1]) \o PutString(e[2])
    BY <1>4 DEF Items, PutEntry
  <2>2. e[1] \in Seq(Nat) /\ e[2] \in Seq(Nat)
    BY <2>1 DEF Asset
  <2>3. /\ PutString(e[1]) \in Seq(Nat) /\ Len(PutString(e[1])) >= 1
        /\ PutString(e[2]) \in Seq(Nat) /\ Len(PutString(e[2])) >= 1
    <3>1. \A t \in Seq(Nat) : Len(t) \in Nat
      OBVIOUS
    <3>2. \A t \in Seq(Nat) : PutString(t) \in Seq(Nat) /\ Len(PutString(t)) >= 1
      BY <3>1, StringCells
    <3> QED BY <2>2, <3>2
  <2>4. \A s, t \in Seq(Nat) : Len(s) >= 1 /\ Len(t) >= 1 => s \o t \in Seq(Nat) /\ Len(s \o t) >= 2
    OBVIOUS
  <2> QED BY <1>4, <2>1, <2>3, <2>4 DEF Width
<1> QED BY <1>1, <1>2, <1>3, <1>4 DEF Kinds

-----------------------------------------------------------------------------
\* The cells of a table, entry by entry.
LEMMA PuttingIs ==
  ASSUME NEW kind \in Kinds, NEW items \in Seq(Items(kind)), NEW ver \in Nat
  PROVE  LET w == Putting(kind, ver, items)
         IN  /\ w[0] = <<Len(items)>>
             /\ \A i \in 1 .. Len(items) : w[i] = w[i - 1] \o PutEntry(kind, ver, items[i])
             /\ \A i \in 0 .. Len(items) : w[i] \in Seq(Nat) /\ Len(w[i]) >= 1 + Width(kind) * i
<1> DEFINE N == Len(items)
           E(i) == PutEntry(kind, ver, items[i])
           G == [i \in 0 .. N |-> {s \in Seq(Nat) : Len(s) >= 1 + Width(kind) * i}]
           move == [i \in 1 .. N |-> [s \in Seq(Nat) |-> s \o E(i)]]
           w == Putting(kind, ver, items)
<1>1. N \in Nat /\ \A i \in 1 .. N : E(i) \in Seq(Nat) /\ Len(E(i)) >= Width(kind)
  BY EntryCells
<1> HIDE DEF N, E
<1>2. move \in Steps(N, Seq(Nat))
  <2>1. \A i \in 1 .. N : [s \in Seq(Nat) |-> s \o E(i)] \in [Seq(Nat) -> Seq(Nat)]
    BY <1>1
  <2> QED BY <2>1 DEF Steps
<1> DEFINE a == <<N>>
<1>3. a \in Seq(Nat) /\ Len(a) = 1
  BY <1>1
<1> HIDE DEF a
<1>4. PICK f : Iteration(f, a, N, Seq(Nat), move)
  <2> HIDE DEF move
  <2> QED BY <1>1, <1>2, <1>3, Iterate
<1>5. f \in [0 .. N -> Seq(Nat)] /\ f[0] = a /\ \A i \in 1 .. N : f[i] = move[i][f[i - 1]]
  <2> HIDE DEF move
  <2> QED BY <1>4 DEF Iteration
<1>6. \A i \in 0 .. N : f[i] = IF i = 0 THEN a ELSE f[i - 1] \o E(i)
  <2> TAKE i \in 0 .. N
  <2>1. CASE i # 0
    <3>1. i \in 1 .. N /\ i - 1 \in 0 .. N
      BY <1>1, <2>1
    <3>2. f[i - 1] \in Seq(Nat)
      BY <1>5, <3>1
    <3> QED BY <1>5, <2>1, <3>1, <3>2
  <2> QED BY <1>5, <2>1
<1>7. f = [i \in 0 .. N |-> IF i = 0 THEN a ELSE f[i - 1] \o E(i)]
  <2>1. f = [i \in 0 .. N |-> f[i]]
    BY <1>5
  <2> QED BY <1>6, <2>1
<1>8. w = [i \in 0 .. N |-> IF i = 0 THEN a ELSE w[i - 1] \o E(i)]
  BY <1>7, Zenon DEF Putting, N, E, a
<1> HIDE DEF w, move
<1>9. w[0] = a /\ \A i \in 1 .. N : w[i] = w[i - 1] \o E(i)
  <2> DEFINE F(i) == IF i = 0 THEN a ELSE w[i - 1] \o E(i)
  <2>1. \A i \in 0 .. N : w[i] = F(i)
    <3> HIDE DEF F
    <3>1. w = [i \in 0 .. N |-> F(i)]
      BY <1>8 DEF F
    <3> QED BY <3>1
  <2>2. 0 \in 0 .. N /\ \A i \in 1 .. N : i \in 0 .. N /\ i # 0
    BY <1>1
  <2> QED BY <2>1, <2>2, Zenon
<1>10. Width(kind) \in Nat
  BY DEF Width
<1>11. \A i \in 0 .. N : w[i] \in G[i]
  <2>1. w[0] \in G[0]
    <3>1. 0 \in 0 .. N /\ 1 + Width(kind) * 0 = 1
      BY <1>1, <1>10
    <3>2. a \in {s \in Seq(Nat) : Len(s) >= 1 + Width(kind) * 0}
      <4> DEFINE x == 1 + Width(kind) * 0
      <4>1. x = 1
        BY <3>1
      <4> HIDE DEF x
      <4>2. a \in {s \in Seq(Nat) : Len(s) >= x}
        <5>1. Len(a) >= x
          BY ONLY <1>3, <4>1
        <5> QED BY <1>3, <5>1, Zenon
      <4> QED BY <4>2 DEF x
    <3> QED BY <1>9, <3>1, <3>2
  <2>2. ASSUME NEW i \in 1 .. N, w[i - 1] \in G[i - 1] PROVE w[i] \in G[i]
    <3>1. i \in 0 .. N /\ i - 1 \in 0 .. N
      BY <1>1
    <3> DEFINE s == w[i - 1]
               e == E(i)
               d == Width(kind)
    <3>2. s \in Seq(Nat) /\ Len(s) >= 1 + d * (i - 1)
      BY <2>2, <3>1
    <3>3. e \in Seq(Nat) /\ Len(e) >= d /\ d \in Nat
      BY <1>1, <1>10
    <3>4. w[i] = s \o e
      BY <1>9
    <3> HIDE DEF s, e, d
    <3>5. s \o e \in Seq(Nat) /\ Len(s \o e) = Len(s) + Len(e) /\ Len(s) \in Nat /\ Len(e) \in Nat
      BY <3>2, <3>3
    <3>6. d * (i - 1) + d = d * i
      BY <3>1, <3>3
    <3>7. d * (i - 1) \in Int /\ d * i \in Int
      BY <3>1, <3>3
    <3>8. Len(s \o e) >= 1 + d * i
      <4> DEFINE x == d * (i - 1)
                 y == d * i
      <4>1. x + d = y /\ x \in Int /\ y \in Int /\ Len(s) >= 1 + x
        BY <3>2, <3>6, <3>7
      <4> HIDE DEF x, y
      <4>2. Len(s \o e) >= 1 + y
        BY <3>3, <3>5, <4>1
      <4> QED BY <4>2 DEF y
    <3>9. w[i] \in {t \in Seq(Nat) : Len(t) >= 1 + d * i}
      BY <3>4, <3>5, <3>8
    <3> QED BY <3>1, <3>9 DEF d
  <2> HIDE DEF G
  <2> QED BY <1>1, <2>1, <2>2, StaysWithin
<1>12. \A i \in 0 .. N : w[i] \in Seq(Nat) /\ Len(w[i]) >= 1 + Width(kind) * i
  BY <1>11
<1> QED BY <1>9, <1>12 DEF w, N, a, E

\* A finite set as a sequence.
LEMMA SetAsSeq ==
  ASSUME NEW S, IsFiniteSet(S)
  PROVE  SetToSeq(S) \in Seq(S) /\ Range(SetToSeq(S)) = S
<1> DEFINE n == Cardinality(S)
           q == SetToSeq(S)
<1>1. n \in Nat /\ ExistsBijection(1 .. n, S)
  BY FS_CardinalityType
<1> HIDE DEF n
<1>2. \E f \in [1 .. n -> S] : IsInjective(f)
  BY <1>1 DEF ExistsBijection, Bijection, Injection
<1>3. q \in [1 .. n -> S] /\ IsInjective(q)
  BY <1>2 DEF SetToSeq, n
<1> HIDE DEF q
<1>4. q \in Injection(1 .. n, S)
  BY <1>3 DEF Injection
<1>5. Cardinality(1 .. n) = n
  <2>1. Cardinality(1 .. n) = IF 1 > n THEN 0 ELSE n - 1 + 1
    BY <1>1, FS_Interval
  <2> QED BY <1>1, <2>1
<1>6. q \in Surjection(1 .. n, S)
  BY <1>4, <1>5, FS_Injection DEF n
<1>7. \A x \in S : \E i \in 1 .. n : q[i] = x
  BY <1>6 DEF Surjection
<1>8. q \in Seq(S) /\ DOMAIN q = 1 .. n
  BY <1>1, <1>3, Tuples
<1>9. Range(q) = S
  BY <1>3, <1>7, <1>8 DEF Range
<1> QED BY <1>8, <1>9 DEF q

-----------------------------------------------------------------------------
(* What a file has at a place.                                             *)
Holds(F, p, t) == p + Len(t) <= Len(F) /\ \A i \in 1 .. Len(t) : F[p + i] = t[i]

\* What is written behind something else is found behind it.
LEMMA HoldsJoined ==
  ASSUME NEW F \in Seq(Nat), NEW p \in Nat, NEW s \in Seq(Nat), NEW t \in Seq(Nat),
         Holds(F, p, s \o t)
  PROVE  Holds(F, p, s) /\ Holds(F, p + Len(s), t)
<1> DEFINE m == Len(s)
           n == Len(t)
<1>1. m \in Nat /\ n \in Nat /\ Len(s \o t) = m + n
  OBVIOUS
<1>2. \A i \in 1 .. m : (s \o t)[i] = s[i]
  OBVIOUS
<1>3. \A i \in 1 .. n : (s \o t)[m + i] = t[i]
  OBVIOUS
<1>4. p + (m + n) <= Len(F) /\ \A i \in 1 .. m + n : F[p + i] = (s \o t)[i]
  BY <1>1 DEF Holds
<1> HIDE DEF m, n
<1>5. p + m <= Len(F) /\ (p + m) + n <= Len(F)
  BY <1>1, <1>4
<1>6. \A i \in 1 .. m : F[p + i] = s[i]
  <2> TAKE i \in 1 .. m
  <2>1. i \in 1 .. m + n
    BY <1>1
  <2> QED BY <1>2, <1>4, <2>1
<1>7. \A i \in 1 .. n : F[(p + m) + i] = t[i]
  <2> TAKE i \in 1 .. n
  <2>1. m + i \in 1 .. m + n /\ (p + m) + i = p + (m + i)
    BY <1>1
  <2> QED BY <1>3, <1>4, <2>1
<1> QED BY <1>5, <1>6, <1>7 DEF Holds, m, n

\* A file has itself at its beginning.
LEMMA HoldsWhole ==
  ASSUME NEW F \in Seq(Nat)
  PROVE  Holds(F, 0, F)
<1>1. Len(F) \in Nat
  OBVIOUS
<1>2. \A i \in 1 .. Len(F) : 0 + i = i
  BY <1>1
<1>3. 0 + Len(F) = Len(F)
  BY <1>1
<1> QED BY <1>1, <1>2, <1>3 DEF Holds

\* A table in a file: its count, and each entry behind those before it.
LEMMA TableAt ==
  ASSUME NEW kind \in Kinds, NEW items \in Seq(Items(kind)), NEW ver \in Nat,
         NEW F \in Seq(Nat), NEW p \in Nat, Holds(F, p, PutAll(kind, ver, items))
  PROVE  LET w == Putting(kind, ver, items)
         IN  /\ Holds(F, p, <<Len(items)>>)
             /\ \A i \in 1 .. Len(items) :
                  Holds(F, p + Len(w[i - 1]), PutEntry(kind, ver, items[i]))
<1> DEFINE N == Len(items)
           w == Putting(kind, ver, items)
           f == [j \in 0 .. N |-> w[N - j]]
           H == {s \in Seq(Nat) : Holds(F, p, s)}
           G == [j \in 0 .. N |-> H]
<1>1. /\ w[0] = <<N>> /\ \A i \in 1 .. N : w[i] = w[i - 1] \o PutEntry(kind, ver, items[i])
      /\ \A i \in 0 .. N : w[i] \in Seq(Nat)
  BY PuttingIs
<1>2. N \in Nat /\ \A i \in 1 .. N : PutEntry(kind, ver, items[i]) \in Seq(Nat)
  BY EntryCells
<1>3. Holds(F, p, w[N])
  BY DEF PutAll
<1> HIDE DEF N, w
<1>4. \A j \in 0 .. N : f[j] \in G[j]
  <2>1. f[0] \in G[0]
    <3>1. 0 \in 0 .. N /\ N - 0 = N /\ N \in 0 .. N
      BY <1>2
    <3>2. w[N] \in H
      BY <1>1, <1>3, <3>1
    <3> HIDE DEF H
    <3> QED BY <3>1, <3>2
  <2>2. ASSUME NEW j \in 1 .. N, f[j - 1] \in G[j - 1] PROVE f[j] \in G[j]
    <3> DEFINE i == N - (j - 1)
    <3>1. j \in 0 .. N /\ j - 1 \in 0 .. N /\ i \in 1 .. N /\ i - 1 = N - j /\ i - 1 \in 0 .. N
      BY <1>2
    <3>2. w[i] \in H
      <4> HIDE DEF H
      <4> QED BY <2>2, <3>1
    <3> HIDE DEF i
    <3>3. w[i] = w[i - 1] \o PutEntry(kind, ver, items[i]) /\ w[i - 1] \in Seq(Nat)
          /\ PutEntry(kind, ver, items[i]) \in Seq(Nat)
      BY <1>1, <1>2, <3>1
    <3>4. Holds(F, p, w[i - 1])
      BY <3>2, <3>3, HoldsJoined
    <3>5. w[i - 1] \in H
      BY <3>3, <3>4
    <3> HIDE DEF H
    <3> QED BY <3>1, <3>5
  <2> HIDE DEF f, G
  <2> QED BY <1>2, <2>1, <2>2, StaysWithin
<1>5. \A i \in 0 .. N : Holds(F, p, w[i])
  <2> TAKE i \in 0 .. N
  <2>1. N - i \in 0 .. N /\ N - (N - i) = i
    BY <1>2
  <2>2. f[N - i] \in H
    <3> HIDE DEF H, f
    <3> QED BY <1>4, <2>1
  <2>3. f[N - i] = w[i]
    BY <2>1
  <2> HIDE DEF f
  <2> QED BY <2>2, <2>3
<1>6. \A i \in 1 .. N : Holds(F, p + Len(w[i - 1]), PutEntry(kind, ver, items[i]))
  <2> TAKE i \in 1 .. N
  <2>1. i \in 0 .. N /\ i - 1 \in 0 .. N
    BY <1>2
  <2>2. w[i] = w[i - 1] \o PutEntry(kind, ver, items[i]) /\ w[i - 1] \in Seq(Nat)
        /\ PutEntry(kind, ver, items[i]) \in Seq(Nat) /\ Holds(F, p, w[i])
    BY <1>1, <1>2, <1>5, <2>1
  <2> QED BY <2>2, HoldsJoined, ZenonT(30)
<1>7. Holds(F, p, <<N>>)
  <2>1. 0 \in 0 .. N
    BY <1>2
  <2> QED BY <1>1, <1>5, <2>1
<1> QED BY <1>6, <1>7 DEF N, w

\* The cells of a table are cells.
LEMMA TableCells ==
  ASSUME NEW kind \in Kinds, NEW items \in Seq(Items(kind)), NEW ver \in Nat
  PROVE  PutAll(kind, ver, items) \in Seq(Nat)
<1>1. Len(items) \in 0 .. Len(items)
  OBVIOUS
<1>2. Putting(kind, ver, items)[Len(items)] \in Seq(Nat)
  BY <1>1, PuttingIs
<1> QED BY <1>2 DEF PutAll

-----------------------------------------------------------------------------
(* The file is what was written, F, or its beginning.                      *)
Cut(F) ==
  /\ Bytes /\ F \in Seq(Nat) /\ Len(file) <= Len(F)
  /\ \A i \in 1 .. Len(file) : file[i] = F[i]

\* The cursor is at q, or the file has been refused.
Placed(c, q) == Inside(c) /\ (c.st = "ok" => c.pos = q)

\* From c the cursor r has got to q; only a cut file is refused on the way.
Reached(r, c, q, F) ==
  /\ Placed(r, q)
  /\ r.st = "ok" => c.st = "ok"
  /\ c.st = "ok" /\ Len(file) = Len(F) => r.st = "ok"

\* One read after another.
LEMMA Onward ==
  ASSUME NEW F, NEW a, NEW b, NEW c, NEW p, NEW q, Reached(b, a, p, F), Reached(c, b, q, F)
  PROVE  Reached(c, a, q, F)
BY DEF Reached

\* Cells that are there are not refused.
LEMMA BlockFits ==
  ASSUME Bytes, NEW c, Inside(c), c.st = "ok", NEW n \in Nat, n <= Left(c)
  PROVE  Block(c, n).st = "ok"
<1>1. Left(c) \in Int
  BY DEF Left, Inside, Cursor, Bytes
<1>2. need_bytes(c, n) = c
  BY <1>1 DEF need_bytes
<1> DEFINE s == SubSeq(file, c.pos + 1, c.pos + n)
<1> HIDE DEF s
<1>3. Take(c, n) = [c EXCEPT !.pos = @ + n, !.v = s]
  BY DEF Take, s
<1>4. Take(c, n).st = "ok"
  BY <1>3 DEF Inside, Cursor
<1> QED BY <1>2, <1>4 DEF Block

\* Sequences with the same cells are the same.
LEMMA SameCells ==
  ASSUME NEW s \in Seq(Nat), NEW t \in Seq(Nat), Len(s) = Len(t),
         \A i \in 1 .. Len(t) : s[i] = t[i]
  PROVE  s = t
BY SMTT(30)

\* The cells of a part of a sequence.
LEMMA Window ==
  ASSUME NEW f \in Seq(Nat), NEW q \in Nat, NEW n \in Nat, q + n <= Len(f)
  PROVE  \A i \in 1 .. n : SubSeq(f, q + 1, q + n)[i] = f[q + i]
OBVIOUS

\* A block is what was written where it is read.
LEMMA BlockAt ==
  ASSUME NEW F, Cut(F), NEW c, NEW q \in Nat, Placed(c, q), NEW t \in Seq(Nat), Holds(F, q, t),
         NEW n \in Nat, c.st = "ok" => n = Len(t)
  PROVE  /\ Reached(Block(c, n), c, q + Len(t), F)
         /\ Block(c, n).st = "ok" => Block(c, n).v = t
<1> DEFINE b == Block(c, n)
<1>0. Bytes /\ Inside(c) /\ Len(t) \in Nat /\ file \in Seq(Nat) /\ Len(file) \in Nat
  BY DEF Cut, Placed, Bytes
<1>1. /\ Read(b, c, n)
      /\ b.st = "ok" => b.v = SubSeq(file, c.pos + 1, c.pos + n)
                        /\ b.v \in Seq(Nat) /\ Len(b.v) = n /\ n <= Left(c)
  BY <1>0, BlockReads
<1>2. c.st = "ok" /\ Len(file) = Len(F) => b.st = "ok"
  <2> SUFFICES ASSUME c.st = "ok", Len(file) = Len(F) PROVE b.st = "ok"
    OBVIOUS
  <2>1. q + Len(t) <= Len(file) /\ n = Len(t) /\ c.pos = q
    BY DEF Holds, Placed
  <2>2. n <= Left(c)
    BY <1>0, <2>1 DEF Left
  <2> QED BY <1>0, <2>2, BlockFits
<1> HIDE DEF b
<1>3. Placed(b, q + Len(t))
  BY <1>1 DEF Read, Placed
<1>4. b.st = "ok" => b.v = t
  <2> SUFFICES ASSUME b.st = "ok" PROVE b.v = t
    OBVIOUS
  <2>1. c.st = "ok" /\ n = Len(t) /\ c.pos = q
    BY <1>1 DEF Read, Placed
  <2>2. q + n <= Len(file) /\ b.v = SubSeq(file, q + 1, q + n) /\ b.v \in Seq(Nat) /\ Len(b.v) = n
    BY <1>0, <1>1, <2>1 DEF Left
  <2>3. \A i \in 1 .. n : b.v[i] = file[q + i]
    <3> DEFINE f == file
    <3>1. f \in Seq(Nat) /\ q + n <= Len(f) /\ q \in Nat /\ n \in Nat
      BY <1>0, <2>2
    <3> HIDE DEF f
    <3>2. \A i \in 1 .. n : SubSeq(f, q + 1, q + n)[i] = f[q + i]
      BY <3>1, Window, Zenon
    <3> QED BY <2>2, <3>2 DEF f
  <2>4. \A i \in 1 .. n : b.v[i] = t[i]
    <3> TAKE i \in 1 .. n
    <3>1. q + i \in 1 .. Len(file)
      BY <1>0, <2>2
    <3>2. file[q + i] = F[q + i]
      BY <3>1 DEF Cut
    <3>3. F[q + i] = t[i]
      BY <2>1 DEF Holds
    <3> QED BY <2>3, <3>2, <3>3
  <2>5. Len(b.v) = Len(t) /\ \A i \in 1 .. Len(t) : b.v[i] = t[i]
    BY <2>1, <2>2, <2>4
  <2> QED BY <2>2, <2>5, SameCells
<1>5. b.st = "ok" => c.st = "ok"
  BY <1>1 DEF Read
<1> QED BY <1>2, <1>3, <1>4, <1>5 DEF Reached, b

\* One cell.
LEMMA RdAt ==
  ASSUME NEW F, Cut(F), NEW c, NEW q \in Nat, Placed(c, q), NEW x \in Nat, Holds(F, q, <<x>>)
  PROVE  /\ Reached(rd(c), c, q + 1, F)
         /\ rd(c).st = "ok" => rd(c).v = <<x>> /\ One(rd(c)) = x
<1> DEFINE t == <<x>>
           n == 1
<1>1. t \in Seq(Nat) /\ Len(t) = 1 /\ t[1] = x /\ n \in Nat /\ n = Len(t)
  OBVIOUS
<1>2. rd(c) = Block(c, n)
  BY DEF rd, Block
<1> HIDE DEF n, t
<1>3. Holds(F, q, t)
  BY DEF t
<1>4. /\ Reached(Block(c, n), c, q + Len(t), F)
      /\ Block(c, n).st = "ok" => Block(c, n).v = t
  <2>1. t \in Seq(Nat) /\ n \in Nat /\ n = Len(t)
    BY <1>1
  <2> QED BY <1>3, <2>1, BlockAt
<1>5. Reached(rd(c), c, q + 1, F) /\ (rd(c).st = "ok" => rd(c).v = t)
  BY <1>1, <1>2, <1>4
<1>6. rd(c).st = "ok" => One(rd(c)) = x
  BY <1>1, <1>5 DEF One
<1> QED BY <1>5, <1>6 DEF t

\* A string.
LEMMA StringAt ==
  ASSUME NEW F, Cut(F), NEW c, NEW q \in Nat, Placed(c, q), NEW t \in Seq(Nat),
         Holds(F, q, PutString(t))
  PROVE  /\ Reached(rd_string(c), c, q + (Len(t) + 1), F)
         /\ rd_string(c).st = "ok" => rd_string(c).v = t
<1> DEFINE r == rd(c)
           n == One(r)
           l == Len(t)
           s == <<l>>
<1>1. F \in Seq(Nat) /\ l \in Nat /\ s \in Seq(Nat) /\ Len(s) = 1
  BY DEF Cut
<1>2. Holds(F, q, s \o t)
  BY DEF PutString
<1> HIDE DEF s
<1>3. Holds(F, q, s) /\ Holds(F, q + 1, t)
  <2>1. Holds(F, q, s) /\ Holds(F, q + Len(s), t)
    BY <1>1, <1>2, HoldsJoined
  <2> QED BY <1>1, <2>1
<1>4. Reached(r, c, q + 1, F) /\ (r.st = "ok" => n = l)
  <2>1. Holds(F, q, <<l>>)
    BY <1>3 DEF s
  <2> HIDE DEF l
  <2> QED BY <1>1, <2>1, RdAt
<1>5. n \in Nat
  BY Rds DEF Placed, Cut
<1> HIDE DEF r, n
<1>6. q + 1 \in Nat /\ Placed(r, q + 1)
  BY <1>4 DEF Reached
<1>7. /\ Reached(Block(r, n), r, (q + 1) + Len(t), F)
      /\ Block(r, n).st = "ok" => Block(r, n).v = t
  BY <1>3, <1>4, <1>5, <1>6, BlockAt
<1>8. rd_string(c) = Block(r, n) /\ (q + 1) + Len(t) = q + (Len(t) + 1)
  BY <1>1 DEF rd_string, r, n
<1> QED BY <1>4, <1>7, <1>8, Onward

\* An entry that has been put together from what was read.
LEMMA GivenAt ==
  ASSUME NEW F, NEW r, NEW c, NEW q, Reached(r, c, q, F), r.st = "ok", NEW x \in Piece
  PROVE  Reached([r EXCEPT !.v = x], c, q, F) /\ [r EXCEPT !.v = x].v = x
<1> DEFINE g == [r EXCEPT !.v = x]
<1>1. g \in Cursor /\ g.st = r.st /\ g.pos = r.pos /\ g.v = x
  BY DEF Reached, Placed, Inside, Cursor
<1> HIDE DEF g
<1>2. Reached(g, c, q, F)
  BY <1>1 DEF Reached, Placed, Inside
<1> QED BY <1>1, <1>2 DEF g

\* Each cell of what was written.
LEMMA HoldsCell ==
  ASSUME NEW F \in Seq(Nat), NEW p \in Nat, NEW t \in Seq(Nat), Holds(F, p, t),
         NEW i \in 1 .. Len(t)
  PROVE  Holds(F, p + (i - 1), <<t[i]>>) /\ t[i] \in Nat /\ p + (i - 1) \in Nat
<1> DEFINE x == t[i]
           s == <<x>>
<1>1. x \in Nat /\ Len(s) = 1 /\ s[1] = x
  OBVIOUS
<1>2. p + Len(t) <= Len(F) /\ F[p + i] = x
  BY DEF Holds
<1>3. (p + (i - 1)) + 1 = p + i /\ p + i <= Len(F)
  BY <1>2
<1> HIDE DEF s, x
<1>4. (p + (i - 1)) + Len(s) <= Len(F)
  BY <1>1, <1>3
<1>5. \A j \in 1 .. Len(s) : F[(p + (i - 1)) + j] = s[j]
  <2> TAKE j \in 1 .. Len(s)
  <2>1. j = 1
    BY <1>1
  <2> QED BY <1>1, <1>2, <1>3, <2>1
<1>6. Holds(F, p + (i - 1), s)
  BY <1>4, <1>5 DEF Holds
<1>7. p + (i - 1) \in Nat
  OBVIOUS
<1> QED BY <1>1, <1>6, <1>7 DEF s, x

\* A sequence of two.
LEMMA PairOf ==
  ASSUME NEW S, NEW e \in Seq(S), Len(e) = 2
  PROVE  e = <<e[1], e[2]>> /\ e[1] \in S /\ e[2] \in S
<1>1. 1 \in 1 .. Len(e) /\ 2 \in 1 .. Len(e) /\ DOMAIN e = 1 .. 2
  OBVIOUS
<1>2. e[1] \in S /\ e[2] \in S
  BY <1>1
<1>3. e = [i \in 1 .. 2 |-> e[i]]
  BY <1>1
<1>4. [i \in 1 .. 2 |-> e[i]] = <<e[1], e[2]>>
  OBVIOUS
<1> QED BY <1>2, <1>3, <1>4

\* A line of the debug section is read as it was written.
LEMMA LineAt ==
  ASSUME NEW F, Cut(F), NEW c, NEW q \in Nat, Placed(c, q), NEW e \in Line, Holds(F, q, e)
  PROVE  /\ Reached(ReadLine(c), c, q + 2, F)
         /\ ReadLine(c).st = "ok" => ReadLine(c).v = e
<1> DEFINE p == rd(c)
           l == rd(p)
           y == <<One(p), One(l)>>
           a == e[1]
           b == e[2]
<1>1. F \in Seq(Nat) /\ e \in Seq(Nat) /\ Len(e) = 2 /\ e = <<a, b>> /\ a \in Nat /\ b \in Nat
  <2>1. e \in [1 .. 2 -> Nat] /\ 2 \in Nat
    BY DEF Line
  <2>2. e \in Seq(Nat) /\ Len(e) = 2
    BY <2>1, Tuples, Zenon
  <2>3. e = <<a, b>> /\ a \in Nat /\ b \in Nat
    BY <2>2, PairOf, Zenon
  <2> QED BY <2>2, <2>3 DEF Cut
<1>2. Holds(F, q, <<a>>) /\ Holds(F, q + 1, <<b>>)
  <2>1. 1 \in 1 .. Len(e) /\ 2 \in 1 .. Len(e) /\ q + (1 - 1) = q /\ q + (2 - 1) = q + 1
    BY <1>1
  <2>2. Holds(F, q + (1 - 1), <<a>>)
    BY <1>1, <2>1, HoldsCell
  <2>3. Holds(F, q + (2 - 1), <<b>>)
    BY <1>1, <2>1, HoldsCell
  <2> HIDE DEF a, b
  <2> QED BY <2>1, <2>2, <2>3
<1> HIDE DEF a, b
<1>3. Reached(p, c, q + 1, F) /\ (p.st = "ok" => One(p) = a)
  BY <1>1, <1>2, RdAt
<1> HIDE DEF p
<1>4. q + 1 \in Nat /\ Placed(p, q + 1) /\ (q + 1) + 1 = q + 2
  BY <1>3 DEF Reached
<1>5. Reached(l, p, (q + 1) + 1, F) /\ (l.st = "ok" => One(l) = b)
  BY <1>1, <1>2, <1>4, RdAt
<1> HIDE DEF l
<1>6. Reached(l, c, q + 2, F)
  BY <1>3, <1>4, <1>5, Onward
<1>7. l.st = "ok" => y = e
  BY <1>1, <1>3, <1>5 DEF Reached
<1>8. y = e => y \in Piece
  BY <1>1 DEF Piece
<1> HIDE DEF y
<1>9. ReadLine(c) = IF l.st = "ok" THEN [l EXCEPT !.v = y] ELSE l
  BY DEF ReadLine, l, p, y
<1> QED BY <1>6, <1>7, <1>8, <1>9, GivenAt

\* So is an embedded asset.
LEMMA AssetAt ==
  ASSUME NEW F, Cut(F), NEW c, NEW q \in Nat, Placed(c, q), NEW e \in Asset,
         Holds(F, q, PutString(e[1]) \o PutString(e[2]))
  PROVE  /\ Reached(ReadAsset(c), c, q + Len(PutString(e[1]) \o PutString(e[2])), F)
         /\ ReadAsset(c).st = "ok" => ReadAsset(c).v = e
<1> DEFINE nm == rd_string(c)
           d == rd_string(nm)
           y == <<nm.v, d.v>>
           a == e[1]
           b == e[2]
           k == Len(a) + 1
           m == Len(b) + 1
<1>1. F \in Seq(Nat) /\ e = <<a, b>> /\ a \in Seq(Nat) /\ b \in Seq(Nat)
  <2>1. e \in [1 .. 2 -> Seq(Nat)] /\ 2 \in Nat
    BY DEF Asset
  <2>2. e \in Seq(Seq(Nat)) /\ Len(e) = 2
    BY <2>1, Tuples, Zenon
  <2>3. e = <<a, b>> /\ a \in Seq(Nat) /\ b \in Seq(Nat)
    BY <2>2, PairOf, Zenon
  <2> QED BY <2>3 DEF Cut
<1>2. /\ PutString(a) \in Seq(Nat) /\ Len(PutString(a)) = k
      /\ PutString(b) \in Seq(Nat) /\ Len(PutString(b)) = m
  BY <1>1, StringCells
<1>3. k \in Nat /\ m \in Nat
  BY <1>1
<1>4. Holds(F, q, PutString(a)) /\ Holds(F, q + k, PutString(b))
      /\ Len(PutString(a) \o PutString(b)) = k + m
  <2> HIDE DEF a, b, k, m
  <2>1. Holds(F, q, PutString(a) \o PutString(b))
    BY DEF a, b
  <2>2. Holds(F, q, PutString(a)) /\ Holds(F, q + Len(PutString(a)), PutString(b))
    BY <1>1, <1>2, <2>1, HoldsJoined
  <2>3. Len(PutString(a) \o PutString(b)) = Len(PutString(a)) + Len(PutString(b))
    BY <1>2, OneBehind
  <2> QED BY <1>2, <2>2, <2>3
<1>5. Reached(nm, c, q + k, F) /\ (nm.st = "ok" => nm.v = a)
  <2> HIDE DEF a
  <2> QED BY <1>1, <1>4, StringAt
<1> HIDE DEF nm, k, m
<1>6. q + k \in Nat /\ Placed(nm, q + k) /\ (q + k) + m = q + (k + m)
  BY <1>3, <1>5 DEF Reached
<1>7. Reached(d, nm, (q + k) + m, F) /\ (d.st = "ok" => d.v = b)
  <2> HIDE DEF a, b
  <2> QED BY <1>1, <1>4, <1>6, StringAt DEF m
<1> HIDE DEF d, a, b
<1>8. Reached(d, c, q + (k + m), F)
  BY <1>5, <1>6, <1>7, Onward
<1>9. d.st = "ok" => y = e
  BY <1>1, <1>5, <1>7 DEF Reached
<1>10. y = e => y \in Piece
  BY <1>1 DEF Piece
<1> HIDE DEF y
<1>11. ReadAsset(c) = IF d.st = "ok" THEN [d EXCEPT !.v = y] ELSE d
  BY DEF ReadAsset, d, nm, y
<1>12. q + Len(PutString(e[1]) \o PutString(e[2])) = q + (k + m)
  BY <1>4 DEF a, b
<1> QED BY <1>8, <1>9, <1>10, <1>11, <1>12, GivenAt

\* A function is read as it was written.
LEMMA FuncAt ==
  ASSUME NEW F, Cut(F), NEW c, NEW q \in Nat, Placed(c, q), NEW e \in Function,
         Holds(F, q, <<e.name, e.entry, e.nparams, e.nlocals>>),
         c.st = "ok" => 4 <= Left(c) /\ e.name < Len(prog.consts)
  PROVE  /\ Reached(ReadFunc(c), c, q + 4, F)
         /\ ReadFunc(c).st = "ok" => ReadFunc(c).v = e
<1> DEFINE t  == <<e.name, e.entry, e.nparams, e.nlocals>>
           nm == rd(c)
           known == IF nm.st = "ok" /\ One(nm) >= Len(prog.consts) THEN [nm EXCEPT !.st = "fatal"]
                 ELSE nm
           en == rd(known)
           np == Take(en, 1)
           nl == rd(np)
           y == [name |-> One(nm), entry |-> One(en), nparams |-> One(np), nlocals |-> One(nl)]
<1>1. /\ e.name \in Nat /\ e.entry \in Nat /\ e.nparams \in Nat /\ e.nlocals \in Nat
      /\ e = [name |-> e.name, entry |-> e.entry, nparams |-> e.nparams, nlocals |-> e.nlocals]
  BY DEF Function
<1>2. /\ t \in Seq(Nat) /\ Len(t) = 4
      /\ t[1] = e.name /\ t[2] = e.entry /\ t[3] = e.nparams /\ t[4] = e.nlocals
  BY <1>1
<1>3. Bytes /\ F \in Seq(Nat) /\ Holds(F, q, t)
  BY DEF Cut
<1> HIDE DEF t
<1>4. /\ Holds(F, q, <<e.name>>) /\ Holds(F, q + 1, <<e.entry>>)
      /\ Holds(F, q + 2, <<e.nparams>>) /\ Holds(F, q + 3, <<e.nlocals>>)
  <2>1. \A i \in 1 .. 4 : Holds(F, q + (i - 1), <<t[i]>>)
    <3> TAKE i \in 1 .. 4
    <3>1. i \in 1 .. Len(t)
      BY <1>2
    <3> QED BY <1>2, <1>3, <3>1, HoldsCell
  <2>2. /\ 1 \in 1 .. 4 /\ 2 \in 1 .. 4 /\ 3 \in 1 .. 4 /\ 4 \in 1 .. 4
        /\ q + (1 - 1) = q /\ q + (2 - 1) = q + 1 /\ q + (3 - 1) = q + 2 /\ q + (4 - 1) = q + 3
    OBVIOUS
  <2>3. Holds(F, q, <<t[1]>>)
    BY <2>1, <2>2
  <2>4. Holds(F, q + 1, <<t[2]>>)
    BY <2>1, <2>2
  <2>5. Holds(F, q + 2, <<t[3]>>)
    BY <2>1, <2>2
  <2>6. Holds(F, q + 3, <<t[4]>>)
    BY <2>1, <2>2
  <2> QED BY <1>2, <2>3, <2>4, <2>5, <2>6
<1>5. /\ q + 1 \in Nat /\ q + 2 \in Nat /\ q + 3 \in Nat
      /\ (q + 1) + 1 = q + 2 /\ (q + 2) + 1 = q + 3 /\ (q + 3) + 1 = q + 4
  OBVIOUS
<1>6. Reached(nm, c, q + 1, F) /\ (nm.st = "ok" => One(nm) = e.name) /\ Inside(c)
  BY <1>1, <1>4, RdAt, ZenonT(30) DEF Placed
<1> HIDE DEF nm
<1>7. known = nm
  <2>1. nm.st = "ok" => One(nm) = e.name /\ e.name < Len(prog.consts)
    BY <1>6 DEF Reached
  <2>2. nm.st = "ok" => ~ (One(nm) >= Len(prog.consts))
    BY <1>1, <2>1
  <2> QED BY <2>2
<1> HIDE DEF known
<1>8. Reached(en, nm, q + 2, F) /\ (en.st = "ok" => One(en) = e.entry)
  <2>1. Placed(nm, q + 1)
    BY <1>6 DEF Reached
  <2>2. Reached(rd(nm), nm, (q + 1) + 1, F) /\ (rd(nm).st = "ok" => One(rd(nm)) = e.entry)
    BY <1>1, <1>4, <1>5, <2>1, RdAt
  <2> QED BY <1>5, <1>7, <2>2
<1> HIDE DEF en
<1>9. Placed(en, q + 2) /\ (en.st = "ok" => c.st = "ok" /\ c.pos = q /\ en.pos = q + 2)
  BY <1>6, <1>8 DEF Reached, Placed
<1>10. en.st = "ok" => 1 <= Left(en)
  BY <1>3, <1>9 DEF Left, Bytes
<1>11. Reached(np, en, q + 3, F) /\ (np.st = "ok" => One(np) = e.nparams)
  <2> DEFINE n == 1
  <2>1. n \in Nat /\ Inside(en) /\ (en.st = "ok" => n <= Left(en))
    BY <1>9, <1>10 DEF Placed
  <2>2. need_bytes(en, n) = en
    <3>1. en.st = "ok" => Left(en) \in Int
      BY <1>3, <1>9 DEF Left, Bytes
    <3> QED BY <2>1, <3>1 DEF need_bytes
  <2>3. np = rd(en)
    BY <2>2 DEF rd
  <2>4. Reached(rd(en), en, (q + 2) + 1, F) /\ (rd(en).st = "ok" => One(rd(en)) = e.nparams)
    <3> DEFINE p == q + 2
               pn == e.nparams
    <3>1. p \in Nat /\ Placed(en, p) /\ pn \in Nat /\ Holds(F, p, <<pn>>)
      BY <1>1, <1>4, <1>5, <1>9
    <3> HIDE DEF p, pn
    <3>2. Reached(rd(en), en, p + 1, F) /\ (rd(en).st = "ok" => One(rd(en)) = pn)
      BY <3>1, RdAt
    <3> QED BY <3>2 DEF p, pn
  <2> HIDE DEF n, np
  <2> QED BY <1>5, <2>3, <2>4
<1> HIDE DEF np
<1>12. Reached(nl, np, q + 4, F) /\ (nl.st = "ok" => One(nl) = e.nlocals)
  <2>1. Placed(np, q + 3)
    BY <1>11 DEF Reached
  <2>2. Reached(nl, np, (q + 3) + 1, F) /\ (nl.st = "ok" => One(nl) = e.nlocals)
    BY <1>1, <1>4, <1>5, <2>1, RdAt
  <2> QED BY <1>5, <2>2
<1> HIDE DEF nl
<1>13. Reached(nl, c, q + 4, F)
  BY <1>6, <1>8, <1>11, <1>12, Onward, SMTT(30)
<1>14. nl.st = "ok" => y = e
  <2>1. nl.st = "ok" => One(nm) = e.name /\ One(en) = e.entry /\ One(np) = e.nparams
                        /\ One(nl) = e.nlocals
    BY <1>6, <1>8, <1>11, <1>12 DEF Reached
  <2> QED BY <1>1, <2>1
<1>15. y = e => y \in Piece
  BY DEF Piece
<1> HIDE DEF y
<1>16. ReadFunc(c) = IF nl.st = "ok" THEN [nl EXCEPT !.v = y] ELSE nl
  BY DEF ReadFunc, nl, np, en, known, nm, y
<1> QED BY <1>13, <1>14, <1>15, <1>16, GivenAt

\* A length in two bytes.
LEMMA TwoDigits ==
  ASSUME NEW x \in Nat
  PROVE  x \div 256 \in Nat /\ x % 256 \in Nat /\ 256 * (x \div 256) + (x % 256) = x
OBVIOUS

\* A constant is read as it was written, in both versions of the format.
LEMMA ConstAt ==
  ASSUME NEW F, Cut(F), NEW c, NEW q \in Nat, Placed(c, q), NEW e \in Constant, image.ver \in Nat,
         Holds(F, q, PutConst(image.ver, e))
  PROVE  /\ Reached(ReadConst(c), c, q + Len(PutConst(image.ver, e)), F)
         /\ ReadConst(c).st = "ok" => ReadConst(c).v = e
<1> DEFINE t  == rd(c)
           hi == rd(t)
           lo == IF image.ver >= 3 THEN rd(hi) ELSE hi
           n  == IF image.ver >= 3 THEN 256 * One(hi) + One(lo) ELSE One(lo)
           v  == CASE One(t) = TAG_STR -> Block(lo, n)
                   [] One(t) \in {TAG_INT, TAG_FLT, TAG_BOOL} -> hi
                   [] OTHER -> [t EXCEPT !.st = "fatal"]
           val == IF One(t) = TAG_BOOL /\ v.v # <<0>> THEN <<1>> ELSE v.v
           y == [tag |-> One(t), val |-> val]
           l == Len(e.val)
           w == IF e.tag # TAG_STR THEN e.val
                ELSE IF image.ver >= 3 THEN <<l \div 256, l % 256>> \o e.val ELSE PutString(e.val)
           s == <<e.tag>>
           m == Len(w)
<1>0. F \in Seq(Nat)
  BY DEF Cut
<1>1. /\ e.tag \in {TAG_INT, TAG_FLT, TAG_STR, TAG_BOOL} /\ e.tag \in Nat /\ e.val \in Seq(Nat)
      /\ e = [tag |-> e.tag, val |-> e.val] /\ l \in Nat
      /\ e.tag # TAG_STR => l = 1
      /\ e.tag = TAG_BOOL => e.val \in {<<0>>, <<1>>}
  BY ConstantIs
<1> HIDE DEF l
<1> DEFINE u == <<l \div 256, l % 256>>
<1>2. u \in Seq(Nat) /\ Len(u) = 2 /\ u[1] = l \div 256 /\ u[2] = l % 256
      /\ l \div 256 \in Nat /\ l % 256 \in Nat /\ 256 * (l \div 256) + (l % 256) = l
  <2>1. l \div 256 \in Nat /\ l % 256 \in Nat /\ 256 * (l \div 256) + (l % 256) = l
    BY <1>1, TwoDigits, ZenonT(30)
  <2>2. \A a, b \in Nat : /\ <<a, b>> \in Seq(Nat) /\ Len(<<a, b>>) = 2
                         /\ <<a, b>>[1] = a /\ <<a, b>>[2] = b
    OBVIOUS
  <2> QED BY <1>1, <2>1, <2>2
<1>3. w = IF e.tag # TAG_STR THEN e.val
          ELSE IF image.ver >= 3 THEN u \o e.val ELSE PutString(e.val)
  OBVIOUS
<1> HIDE DEF u, w
<1>4. PutString(e.val) \in Seq(Nat) /\ Len(PutString(e.val)) = l + 1
  BY <1>1, StringCells DEF l
<1>5. u \o e.val \in Seq(Nat) /\ Len(u \o e.val) = 2 + l
  <2>1. e.val \in Seq(Nat) /\ u \in Seq(Nat) /\ Len(u) = 2
    BY <1>1, <1>2
  <2>2. u \o e.val \in Seq(Nat) /\ Len(u \o e.val) = Len(u) + Len(e.val)
    BY <2>1, OneBehind, Zenon
  <2> QED BY <1>1, <2>1, <2>2 DEF l
<1>6. w \in Seq(Nat) /\ m \in Nat
  BY <1>1, <1>3, <1>4, <1>5, SMTT(30)
<1>7. s \in Seq(Nat) /\ Len(s) = 1
  BY <1>1
<1>8. PutConst(image.ver, e) = s \o w
  BY DEF PutConst, w, l
<1> HIDE DEF s
<1>9. Holds(F, q, s) /\ Holds(F, q + 1, w) /\ Len(s \o w) = 1 + m
  <2>1. Holds(F, q, s) /\ Holds(F, q + Len(s), w)
    BY <1>0, <1>6, <1>7, <1>8, HoldsJoined
  <2>2. Len(s \o w) = Len(s) + Len(w)
    BY <1>6, <1>7, OneBehind
  <2> QED BY <1>7, <2>1, <2>2
<1> HIDE DEF m
<1>10. Reached(t, c, q + 1, F) /\ (t.st = "ok" => One(t) = e.tag)
  <2>1. Holds(F, q, <<e.tag>>)
    BY <1>9 DEF s
  <2> QED BY <1>1, <2>1, RdAt
<1> HIDE DEF t
<1>11. Bytes /\ Inside(t) /\ Placed(t, q + 1) /\ q + 1 \in Nat /\ Inside(hi) /\ Inside(lo)
       /\ One(hi) \in Nat /\ One(lo) \in Nat /\ n \in Nat
  <2>1. Bytes /\ Inside(t) /\ Placed(t, q + 1)
    BY <1>10 DEF Cut, Reached, Placed
  <2>2. Inside(hi) /\ One(hi) \in Nat
    BY <2>1, Rds DEF Read
  <2>3. Inside(rd(hi)) /\ One(rd(hi)) \in Nat
    <3> HIDE DEF hi
    <3> QED BY <2>1, <2>2, Rds DEF Read
  <2> HIDE DEF hi
  <2>4. Inside(lo) /\ One(lo) \in Nat
    BY <2>2, <2>3
  <2> HIDE DEF lo
  <2> QED BY <2>1, <2>2, <2>4
<1>12. v.st = "ok" => One(t) = e.tag
  <2>1. CASE t.st = "ok"
    BY <1>10, <2>1
  <2>2. CASE t.st # "ok"
    <3>1. One(t) = 0
      BY <2>2 DEF One
    <3>2. v = [t EXCEPT !.st = "fatal"]
      BY <3>1 DEF TAG_INT, TAG_FLT, TAG_BOOL, TAG_STR
    <3>3. v.st # "ok"
      <4> HIDE DEF v
      <4> QED BY <1>11, <3>2 DEF Inside, Cursor
    <3> QED BY <3>3
  <2> QED BY <2>1, <2>2
<1>13. Reached(v, c, (q + 1) + m, F) /\ (v.st = "ok" => val = e.val)
  <2>1. CASE t.st # "ok"
    <3>1. One(t) = 0
      BY <2>1 DEF One
    <3>2. v = [t EXCEPT !.st = "fatal"]
      BY <3>1 DEF TAG_INT, TAG_FLT, TAG_BOOL, TAG_STR
    <3>3. Inside(v) /\ v.st # "ok"
      <4> HIDE DEF v
      <4> QED BY <1>11, <3>2, Refused DEF After, Inside, Cursor
    <3> HIDE DEF v, val
    <3> QED BY <1>10, <2>1, <3>3 DEF Reached, Placed
  <2>2. CASE t.st = "ok" /\ e.tag # TAG_STR
    <3>1. One(t) = e.tag /\ One(t) # TAG_STR /\ One(t) \in {TAG_INT, TAG_FLT, TAG_BOOL}
      BY <1>1, <1>10, <2>2
    <3>2. v = hi
      BY <3>1
    <3> DEFINE x == e.val[1]
    <3>3. w = e.val /\ l = 1 /\ x \in Nat /\ e.val = <<x>> /\ m = 1
      <4>1. w = e.val /\ l = 1
        BY <1>1, <1>3, <2>2
      <4>2. Len(e.val) = 1 /\ e.val \in Seq(Nat)
        BY <1>1, <4>1 DEF l
      <4>3. x \in Nat /\ e.val = <<x>>
        BY <4>2
      <4> QED BY <4>1, <4>2, <4>3 DEF m
    <3> HIDE DEF x
    <3>4. Reached(hi, t, (q + 1) + 1, F) /\ (hi.st = "ok" => hi.v = <<x>>)
      <4>1. Holds(F, q + 1, <<x>>)
        BY <1>9, <3>3
      <4> QED BY <1>11, <3>3, <4>1, RdAt
    <3>5. hi.st = "ok" => val = e.val
      <4>1. hi.st = "ok" => v.v = e.val
        BY <3>2, <3>3, <3>4
      <4>2. One(t) = TAG_BOOL => e.val \in {<<0>>, <<1>>}
        BY <1>1, <3>1
      <4> HIDE DEF v, hi
      <4> QED BY <4>1, <4>2
    <3> HIDE DEF v, val, hi
    <3>6. Reached(v, t, (q + 1) + m, F)
      BY <3>2, <3>3, <3>4
    <3> QED BY <1>10, <3>2, <3>5, <3>6, Onward
  <2>3. CASE t.st = "ok" /\ e.tag = TAG_STR
    <3>1. One(t) = TAG_STR /\ One(t) # TAG_BOOL
      BY <1>10, <2>3 DEF TAG_STR, TAG_BOOL
    <3>2. v = Block(lo, n) /\ val = v.v
      BY <3>1 DEF TAG_STR, TAG_INT, TAG_FLT, TAG_BOOL
    <3> DEFINE k == IF image.ver >= 3 THEN 2 ELSE 1
    <3>3. /\ Reached(lo, t, (q + 1) + k, F) /\ (lo.st = "ok" => n = l)
          /\ Holds(F, (q + 1) + k, e.val) /\ m = k + l
      <4>1. CASE image.ver >= 3
        <5>1. w = u \o e.val /\ k = 2 /\ lo = rd(hi) /\ n = 256 * One(hi) + One(lo)
          BY <1>3, <2>3, <4>1
        <5> HIDE DEF lo, n, k
        <5>2. Holds(F, q + 1, u) /\ Holds(F, (q + 1) + 2, e.val)
          <6>1. Holds(F, q + 1, u) /\ Holds(F, (q + 1) + Len(u), e.val)
            BY <1>0, <1>1, <1>2, <1>9, <1>11, <5>1, HoldsJoined, ZenonT(30)
          <6> QED BY <1>2, <6>1
        <5> DEFINE a == l \div 256
                   b == l % 256
        <5>3. Holds(F, q + 1, <<a>>) /\ Holds(F, (q + 1) + 1, <<b>>) /\ a \in Nat /\ b \in Nat
          <6>1. 1 \in 1 .. Len(u) /\ 2 \in 1 .. Len(u)
            BY <1>2
          <6>0. \A i \in 1 .. Len(u) : Holds(F, (q + 1) + (i - 1), <<u[i]>>)
            <7> DEFINE p == q + 1
            <7>1. F \in Seq(Nat) /\ p \in Nat /\ u \in Seq(Nat) /\ Holds(F, p, u)
              BY <1>0, <1>2, <1>11, <5>2
            <7> HIDE DEF p
            <7>2. \A i \in 1 .. Len(u) : Holds(F, p + (i - 1), <<u[i]>>)
              BY <7>1, HoldsCell
            <7> QED BY <7>2 DEF p
          <6>2. Holds(F, (q + 1) + (1 - 1), <<u[1]>>)
            BY <6>0, <6>1, Zenon
          <6>3. Holds(F, (q + 1) + (2 - 1), <<u[2]>>)
            BY <6>0, <6>1, Zenon
          <6>4. (q + 1) + (1 - 1) = q + 1 /\ (q + 1) + (2 - 1) = (q + 1) + 1
            OBVIOUS
          <6>5. u[1] = a /\ u[2] = b /\ a \in Nat /\ b \in Nat
            BY <1>2
          <6> HIDE DEF a, b
          <6> QED BY <6>2, <6>3, <6>4, <6>5
        <5>4. 256 * a + b = l
          BY <1>1, TwoDigits, ZenonT(30)
        <5> HIDE DEF a, b
        <5>5. Reached(hi, t, (q + 1) + 1, F) /\ (hi.st = "ok" => One(hi) = a)
          BY <1>11, <5>3, RdAt
        <5> HIDE DEF hi
        <5>6. (q + 1) + 1 \in Nat /\ Placed(hi, (q + 1) + 1) /\ ((q + 1) + 1) + 1 = (q + 1) + 2
          BY <5>5 DEF Reached
        <5>7. Reached(lo, hi, ((q + 1) + 1) + 1, F) /\ (lo.st = "ok" => One(lo) = b)
          BY <5>1, <5>3, <5>6, RdAt
        <5>8. Reached(lo, t, (q + 1) + k, F)
          BY <5>1, <5>5, <5>6, <5>7, Onward
        <5>9. lo.st = "ok" => n = l
          BY <5>1, <5>4, <5>5, <5>7 DEF Reached
        <5>10. m = k + l
          BY <1>5, <5>1 DEF m
        <5> QED BY <5>1, <5>2, <5>8, <5>9, <5>10
      <4>2. CASE ~ (image.ver >= 3)
        <5>1. w = PutString(e.val) /\ k = 1 /\ lo = hi /\ n = One(lo)
          BY <1>3, <2>3, <4>2
        <5> HIDE DEF lo, n, k
        <5> DEFINE a == <<l>>
        <5>2. Holds(F, q + 1, a) /\ Holds(F, (q + 1) + 1, e.val)
          <6>1. a \in Seq(Nat) /\ Len(a) = 1 /\ w = a \o e.val
            BY <1>1, <5>1 DEF PutString, l
          <6> HIDE DEF a
          <6>2. Holds(F, q + 1, a) /\ Holds(F, (q + 1) + Len(a), e.val)
            BY <1>0, <1>1, <1>9, <1>11, <6>1, HoldsJoined
          <6> QED BY <6>1, <6>2
        <5>3. Reached(hi, t, (q + 1) + 1, F) /\ (hi.st = "ok" => One(hi) = l)
          BY <1>1, <1>11, <5>2, RdAt
        <5> HIDE DEF hi
        <5>4. m = k + l
          BY <1>1, <1>4, <5>1 DEF m
        <5> QED BY <5>1, <5>2, <5>3, <5>4
      <4> QED BY <4>1, <4>2
    <3>4. k \in Nat /\ (q + 1) + k \in Nat
      BY <1>11
    <3> HIDE DEF k, lo, n
    <3>5. Placed(lo, (q + 1) + k) /\ (lo.st = "ok" => n = Len(e.val))
      BY <3>3 DEF Reached, l
    <3>6. /\ Reached(Block(lo, n), lo, ((q + 1) + k) + Len(e.val), F)
          /\ Block(lo, n).st = "ok" => Block(lo, n).v = e.val
      <4> DEFINE r == (q + 1) + k
      <4>1. r \in Nat /\ Placed(lo, r) /\ Holds(F, r, e.val) /\ e.val \in Seq(Nat) /\ n \in Nat
        BY <1>1, <1>11, <3>3, <3>4, <3>5
      <4> HIDE DEF r
      <4>2. /\ Reached(Block(lo, n), lo, r + Len(e.val), F)
            /\ Block(lo, n).st = "ok" => Block(lo, n).v = e.val
        <5>1. \A str \in Seq(Nat) : \A k1 \in Nat :
                Holds(F, r, str) /\ (lo.st = "ok" => k1 = Len(str))
                  => /\ Reached(Block(lo, k1), lo, r + Len(str), F)
                     /\ Block(lo, k1).st = "ok" => Block(lo, k1).v = str
          <6> TAKE str \in Seq(Nat)
          <6> TAKE k1 \in Nat
          <6> HAVE Holds(F, r, str) /\ (lo.st = "ok" => k1 = Len(str))
          <6> QED BY <4>1, BlockAt
        <5> DEFINE str == e.val
        <5>2. str \in Seq(Nat) /\ Holds(F, r, str) /\ (lo.st = "ok" => n = Len(str))
          BY <3>5, <4>1
        <5> HIDE DEF str
        <5>3. /\ Reached(Block(lo, n), lo, r + Len(str), F)
              /\ Block(lo, n).st = "ok" => Block(lo, n).v = str
          BY <4>1, <5>1, <5>2, Zenon
        <5> QED BY <5>3 DEF str
      <4> QED BY <4>2 DEF r
    <3>7. ((q + 1) + k) + Len(e.val) = (q + 1) + m
      <4>1. l = Len(e.val) /\ m = k + l /\ l \in Nat
        BY <1>1, <3>3 DEF l
      <4>2. \A x1, x2, x3 \in Nat : (x1 + x2) + x3 = x1 + (x2 + x3)
        OBVIOUS
      <4>3. (q + 1) \in Nat
        OBVIOUS
      <4> QED BY <3>4, <4>1, <4>2, <4>3, ZenonT(30)
    <3> HIDE DEF v, val
    <3>8. Reached(v, t, (q + 1) + m, F)
      BY <3>2, <3>3, <3>6, <3>7, Onward
    <3>9. v.st = "ok" => val = e.val
      BY <3>2, <3>6
    <3> QED BY <1>10, <3>8, <3>9, Onward
  <2> QED BY <2>1, <2>2, <2>3
<1> HIDE DEF v, n, lo, hi
<1>14. (q + 1) + m = q + Len(PutConst(image.ver, e))
  BY <1>6, <1>8, <1>9
<1> HIDE DEF val
<1>15. v.st = "ok" => y = e
  <2>1. v.st = "ok" => One(t) = e.tag
    BY <1>12
  <2> QED BY <1>1, <1>13, <2>1
<1>16. y = e => y \in Piece
  BY <1>1 DEF Piece
<1> HIDE DEF y
<1>17. ReadConst(c) = IF v.st = "ok" THEN [v EXCEPT !.v = y] ELSE v
  BY DEF ReadConst, y, val, v, n, lo, hi, t
<1> QED BY <1>13, <1>14, <1>15, <1>16, <1>17, GivenAt

(* What the generator writes.                                              *)
\* Every section is a sequence of cells,
LEMMA SectionCells ==
  ASSUME NEW img, Compiled(img),
         NEW name \in {"consts", "funcs", "entry", "code", "debug", "assets", "perms"}
  PROVE  PutSection(img, name) \in Seq(Nat)
<1> DEFINE p == img.prog
<1>1. /\ p.consts \in Seq(Constant) /\ p.funcs \in Seq(Function) /\ p.entryFn \in Nat
      /\ p.code \in Seq(0 .. 255) /\ p.dbg \in Seq(Line) /\ p.perms \in Seq(Nat)
      /\ p.assets \subseteq Asset /\ img.ver \in Nat
  BY DEF Compiled, Program
<1>2. <<>> \in Seq(Nat)
  OBVIOUS
<1>3. CASE name = "consts"
  <2>1. PutAll("const", img.ver, p.consts) \in Seq(Nat)
    BY <1>1, TableCells, SMTT(30) DEF Kinds, Items
  <2> QED BY <1>3, <2>1 DEF PutSection
<1>4. CASE name = "funcs"
  <2>1. PutAll("func", img.ver, p.funcs) \in Seq(Nat)
    BY <1>1, TableCells, ZenonT(30) DEF Kinds, Items
  <2> QED BY <1>4, <2>1 DEF PutSection
<1>5. CASE name = "entry"
  <2>1. <<p.entryFn>> \in Seq(Nat)
    BY <1>1
  <2> QED BY <1>5, <2>1 DEF PutSection
<1>6. CASE name = "code"
  <2>1. p.code \in Seq(Byte)
    BY <1>1 DEF Byte
  <2>2. Scramble(p.code) \in Seq(Byte)
    BY <2>1, Scrambled
  <2>3. \A s \in Seq(Byte) : s \in Seq(Nat)
    <3>1. Byte \subseteq Nat
      BY DEF Byte
    <3> QED BY <3>1, Widened, Zenon
  <2>4. PutString(Scramble(p.code)) \in Seq(Nat) /\ PutString(p.code) \in Seq(Nat)
    BY <2>1, <2>2, <2>3, StringCells
  <2> QED BY <1>6, <2>4 DEF PutSection
<1>7. CASE name = "debug"
  <2>1. PutAll("line", img.ver, p.dbg) \in Seq(Nat)
    BY <1>1, TableCells DEF Kinds, Items
  <2> QED BY <1>2, <1>7, <2>1 DEF PutSection, Optional
<1>8. CASE name = "assets"
  <2>1. "assets" \in img.flags => PutAll("asset", img.ver, SetToSeq(p.assets)) \in Seq(Nat)
    <3> SUFFICES ASSUME "assets" \in img.flags
                 PROVE  PutAll("asset", img.ver, SetToSeq(p.assets)) \in Seq(Nat)
      OBVIOUS
    <3>1. IsFiniteSet(p.assets)
      BY DEF Compiled
    <3>2. SetToSeq(p.assets) \in Seq(p.assets)
      BY <3>1, SetAsSeq
    <3>3. SetToSeq(p.assets) \in Seq(Asset)
      BY <1>1, <3>2
    <3> QED BY <1>1, <3>3, TableCells DEF Kinds, Items
  <2> QED BY <1>2, <1>8, <2>1 DEF PutSection, Optional
<1>9. CASE name = "perms"
  <2>1. PutString(p.perms) \in Seq(Nat)
    BY <1>1, StringCells
  <2> QED BY <1>2, <1>9, <2>1 DEF PutSection, Optional
<1> QED BY <1>3, <1>4, <1>5, <1>6, <1>7, <1>8, <1>9

\* and so is the file,
LEMMA FileCells ==
  ASSUME NEW img, Compiled(img)
  PROVE  Put(img) \in Seq(Nat)
<1> DEFINE S(name) == PutSection(img, name)
<1>1. /\ S("consts") \in Seq(Nat) /\ S("funcs") \in Seq(Nat) /\ S("entry") \in Seq(Nat)
      /\ S("code") \in Seq(Nat) /\ S("debug") \in Seq(Nat) /\ S("assets") \in Seq(Nat)
      /\ S("perms") \in Seq(Nat)
  BY SectionCells
<1>2. Put(img) = S("consts") \o S("funcs") \o S("entry") \o S("code") \o S("debug")
                   \o S("assets") \o S("perms")
  BY DEF Put
<1> HIDE DEF S
<1>3. \A s, t \in Seq(Nat) : s \o t \in Seq(Nat)
  OBVIOUS
<1>4. S("consts") \o S("funcs") \o S("entry") \in Seq(Nat)
  BY <1>1, <1>3
<1>5. S("consts") \o S("funcs") \o S("entry") \o S("code") \o S("debug") \in Seq(Nat)
  BY <1>1, <1>3, <1>4
<1> QED BY <1>1, <1>2, <1>3, <1>5

\* damaged or not.
LEMMA DamagedCells ==
  ASSUME NEW cells \in Seq(Nat), NEW d \in Damages(cells)
  PROVE  d.cells \in Seq(Nat)
<1>1. CASE d \in [kind : {"none", "header"}, cells : {cells}]
  BY <1>1
<1>2. ASSUME NEW n \in 0 .. Len(cells) - 1, d = [kind |-> "cut", cells |-> SubSeq(cells, 1, n)]
      PROVE  d.cells \in Seq(Nat)
  <2>1. SubSeq(cells, 1, n) \in Seq(Nat)
    BY <1>2
  <2> QED BY <1>2, <2>1
<1>3. ASSUME NEW i \in DOMAIN cells, NEW b \in BadCells,
             d = [kind |-> "cell", cells |-> [cells EXCEPT ![i] = b]]
      PROVE  d.cells \in Seq(Nat)
  <2>1. b \in Nat
    BY LoaderAssumption
  <2>2. [cells EXCEPT ![i] = b] \in Seq(Nat)
    BY <2>1
  <2> QED BY <1>3, <2>2
<1> QED BY <1>1, <1>2, <1>3 DEF Damages

-----------------------------------------------------------------------------
\* A section that is read inside the file leaves the cursor there.
LEMMA IntoInside ==
  ASSUME NEW c, Inside(c), NEW read, Into(c, read), file' = file
  PROVE  Inside(cursor)'
<1>1. <<>> \in Piece /\ <<>> \in Seq(Piece)
  BY DEF Piece
<1> DEFINE g == [c EXCEPT !.v = <<>>, !.out = <<>>]
<1>2. g \in Cursor /\ g.st = c.st /\ g.pos = c.pos
  BY <1>1 DEF Inside, Cursor
<1>3. cursor' = g
  BY DEF Into
<1> HIDE DEF g
<1> QED BY <1>2, <1>3 DEF Inside, Cursor

\* The cursor before the first section.
LEMMA StartInside ==
  ASSUME NEW s \in {"ok", "fatal"}
  PROVE  [Start EXCEPT !.st = s] \in Cursor /\ [Start EXCEPT !.st = s].pos = 0
         /\ [Start EXCEPT !.st = s].st = s
<1>1. <<>> \in Piece /\ <<>> \in Seq(Piece)
  BY DEF Piece
<1> QED BY <1>1 DEF Start, Cursor

\* A file is opened at its beginning.
LEMMA OpenInside ==
  ASSUME NEW e \in Engines, NEW img \in Images, OpenFile(e, img)
  PROVE  engine' = e /\ file' \in Seq(Nat) /\ Inside(cursor)'
<1>1. Put(img) \in Seq(Nat)
  BY LoaderAssumption, FileCells
<1>2. PICK d \in Damages(Put(img)) :
        /\ file' = d.cells
        /\ cursor' = IF d.kind = "header" THEN [Start EXCEPT !.st = "fatal"] ELSE Start
  BY DEF OpenFile
<1>3. file' \in Seq(Nat)
  BY <1>1, <1>2, DamagedCells
<1>4. Start = [Start EXCEPT !.st = "ok"]
  BY DEF Start
<1>5. cursor' \in Cursor /\ cursor'.pos = 0 /\ cursor'.st \in {"ok", "fatal"}
  BY <1>2, <1>4, StartInside
<1>6. 0 <= Len(file')
  BY <1>3
<1>7. Inside(cursor)'
  BY <1>5, <1>6 DEF Inside
<1> QED BY <1>3, <1>7 DEF OpenFile

\* The entry function is one cell.
LEMMA EntriesInside ==
  ASSUME Bytes, NEW c, Inside(c)
  PROVE  Inside(ReadEntry(c)) /\ One(rd(c)) \in Nat
<1> DEFINE e == rd(c)
<1>1. Inside(e) /\ One(e) \in Nat
  BY Rds DEF Read
<1> HIDE DEF e
<1>2. Inside([e EXCEPT !.st = "fatal"])
  BY <1>1, Refused DEF After
<1>3. ReadEntry(c) = IF e.st = "ok" /\ engine # "Go" /\ One(e) >= Len(prog.funcs)
                     THEN [e EXCEPT !.st = "fatal"] ELSE e
  BY DEF ReadEntry, e
<1> QED BY <1>1, <1>2, <1>3 DEF e

\* The cursor stays inside the file whatever is read next.
LEMMA StepInside ==
  ASSUME Bytes, Inside(cursor), LoadNext, engine # "none"
  PROVE  Inside(cursor)'
<1>1. Inside(ReadConsts(cursor)) /\ Inside(ReadFuncs(cursor)) /\ Inside(ReadEntry(cursor))
      /\ Inside(ReadCode(cursor)) /\ Inside(ReadDebug(cursor)) /\ Inside(ReadAssets(cursor))
      /\ Inside(rd_string(cursor))
  <2>1. Inside(rd_string(cursor)) /\ Inside(ReadCode(cursor))
    BY Strings DEF After, ReadCode
  <2> QED BY <2>1, Tables, EntriesInside
<1>2. cursor' = cursor /\ file' = file => Inside(cursor)'
  BY DEF Inside
<1>3. CASE LoadConsts
  BY <1>1, <1>3, IntoInside DEF LoadConsts, Section
<1>4. CASE LoadFuncs
  BY <1>1, <1>4, IntoInside DEF LoadFuncs, Section
<1>5. CASE LoadEntry
  BY <1>1, <1>5, IntoInside DEF LoadEntry, Section
<1>6. CASE LoadCode
  BY <1>1, <1>6, IntoInside DEF LoadCode, Section
<1>7. CASE LoadDebug
  BY <1>1, <1>2, <1>7, IntoInside DEF LoadDebug, Section
<1>8. CASE LoadAssets
  BY <1>1, <1>2, <1>8, IntoInside DEF LoadAssets, Section
<1>9. CASE LoadPerms
  BY <1>1, <1>2, <1>9, IntoInside DEF LoadPerms, Section
<1>10. CASE CheckEntries
  <2>1. Inside([cursor EXCEPT !.st = "fatal"])
    BY Refused DEF After
  <2>2. file' = file /\ cursor' \in {cursor, [cursor EXCEPT !.st = "fatal"]}
    BY <1>10 DEF CheckEntries, Section
  <2> QED BY <2>1, <2>2 DEF Inside
<1> QED BY <1>3, <1>4, <1>5, <1>6, <1>7, <1>8, <1>9, <1>10 DEF LoadNext, OpenFile

\* Whatever was cut off or overwritten, the C and C++ VMs refuse a file rather
\* than read past its end (ReadsStayInside): for every program, every
\* damage and every file length.
THEOREM LoadersStayInside == LoadSpec => []ReadsStayInside
<1>1. LoadInit => LoadInv
  BY DEF LoadInit, LoadInv
<1>2. LoadInv /\ [LoadNext]_loadvars => LoadInv'
  <2> SUFFICES ASSUME LoadInv, [LoadNext]_loadvars PROVE LoadInv'
    OBVIOUS
  <2>1. CASE UNCHANGED loadvars
    BY <2>1 DEF LoadInv, loadvars, Inside
  <2>2. CASE LoadNext /\ engine = "none"
    <3>1. PICK e \in Engines, img \in Images : OpenFile(e, img)
      BY <2>2 DEF LoadNext, LoadConsts, LoadFuncs, LoadEntry, LoadCode, LoadDebug, LoadAssets,
                  LoadPerms, CheckEntries, Section
    <3> QED BY <3>1, OpenInside, LoaderAssumption DEF LoadInv
  <2>3. CASE LoadNext /\ engine # "none"
    <3>1. engine' = engine /\ file' = file
      BY <2>3 DEF LoadNext, OpenFile, LoadConsts, LoadFuncs, LoadEntry, LoadCode, LoadDebug,
                  LoadAssets, LoadPerms, CheckEntries, Section
    <3>2. engine \in {"C", "Cpp"} => Inside(cursor)'
      BY <2>3, StepInside DEF LoadInv, Bytes
    <3> QED BY <3>1, <3>2 DEF LoadInv
  <2> QED BY <2>1, <2>2, <2>3
<1>3. LoadInv => ReadsStayInside
  BY DEF LoadInv, ReadsStayInside, Inside
<1> QED BY <1>1, <1>2, <1>3, PTL DEF LoadSpec

-----------------------------------------------------------------------------
\* An entry of any kind is read as it was written.
LEMMA EntryAt ==
  ASSUME NEW F, Cut(F), NEW kind \in Kinds, NEW e \in Items(kind), image.ver \in Nat,
         NEW c, NEW q \in Nat, Placed(c, q), Holds(F, q, PutEntry(kind, image.ver, e)),
         Room(kind, c), kind = "func" /\ c.st = "ok" => e.name < Len(prog.consts)
  PROVE  /\ Reached(Entry(kind, c), c, q + Len(PutEntry(kind, image.ver, e)), F)
         /\ Entry(kind, c).st = "ok" => Entry(kind, c).v = e
<1>1. CASE kind = "const"
  <2>1. e \in Constant /\ Entry(kind, c) = ReadConst(c)
        /\ PutEntry(kind, image.ver, e) = PutConst(image.ver, e)
    BY <1>1 DEF Items, Entry, PutEntry
  <2> QED BY <2>1, ConstAt
<1>2. CASE kind = "func"
  <2> DEFINE t == <<e.name, e.entry, e.nparams, e.nlocals>>
  <2>1. e \in Function /\ Entry(kind, c) = ReadFunc(c) /\ PutEntry(kind, image.ver, e) = t
    BY <1>2 DEF Items, Entry, PutEntry
  <2>2. Len(t) = 4
    OBVIOUS
  <2>3. c.st = "ok" => 4 <= Left(c) /\ e.name < Len(prog.consts)
    BY <1>2 DEF Room
  <2>4. Reached(ReadFunc(c), c, q + 4, F) /\ (ReadFunc(c).st = "ok" => ReadFunc(c).v = e)
    BY <2>1, <2>3, FuncAt
  <2> HIDE DEF t
  <2> QED BY <2>1, <2>2, <2>4
<1>3. CASE kind = "line"
  <2>1. e \in Line /\ Entry(kind, c) = ReadLine(c) /\ PutEntry(kind, image.ver, e) = e
    BY <1>3 DEF Items, Entry, PutEntry
  <2>2. Len(e) = 2
    <3>1. e \in [1 .. 2 -> Nat] /\ 2 \in Nat
      BY <2>1 DEF Line
    <3> QED BY <3>1, Tuples, Zenon
  <2>3. Reached(ReadLine(c), c, q + 2, F) /\ (ReadLine(c).st = "ok" => ReadLine(c).v = e)
    BY <2>1, LineAt
  <2> QED BY <2>1, <2>2, <2>3
<1>4. CASE kind = "asset"
  <2>1. e \in Asset /\ Entry(kind, c) = ReadAsset(c)
        /\ PutEntry(kind, image.ver, e) = PutString(e[1]) \o PutString(e[2])
    BY <1>4 DEF Items, Entry, PutEntry
  <2> QED BY <2>1, AssetAt
<1> QED BY <1>1, <1>2, <1>3, <1>4 DEF Kinds

\* The same when the entry is appended to those before it.
LEMMA AdvanceAt ==
  ASSUME NEW F, Cut(F), NEW kind \in Kinds, NEW e \in Items(kind), image.ver \in Nat,
         NEW c, NEW q \in Nat, Placed(c, q), Holds(F, q, PutEntry(kind, image.ver, e)),
         Room(kind, c), kind = "func" /\ c.st = "ok" => e.name < Len(prog.consts)
  PROVE  /\ Reached(Advance(kind, c), c, q + Len(PutEntry(kind, image.ver, e)), F)
         /\ Advance(kind, c).st = "ok" => Advance(kind, c).out = Append(c.out, e)
<1> DEFINE x == Entry(kind, c)
           a == [x EXCEPT !.out = Append(x.out, x.v)]
           p == q + Len(PutEntry(kind, image.ver, e))
<1>1. Reached(x, c, p, F) /\ (x.st = "ok" => x.v = e)
  BY EntryAt
<1>2. x.out = c.out
  BY AnEntry DEF After, Placed, Cut
<1> HIDE DEF x, p
<1>3. x \in Cursor
  BY <1>1 DEF Reached, Placed, Inside
<1>4. Append(x.out, x.v) \in Seq(Piece)
  BY <1>3 DEF Cursor
<1>5. a \in Cursor /\ a.st = x.st /\ a.pos = x.pos /\ a.out = Append(x.out, x.v)
  BY <1>3, <1>4 DEF Cursor
<1> HIDE DEF a
<1>6. Advance(kind, c) = IF x.st = "ok" THEN a ELSE x
  BY DEF Advance, a, x
<1>7. Reached(a, c, p, F)
  BY <1>1, <1>5 DEF Reached, Placed, Inside
<1> QED BY <1>1, <1>2, <1>5, <1>6, <1>7 DEF p

\* A check of what is there refuses nothing.
LEMMA NeedAt ==
  ASSUME NEW F, Cut(F), NEW c, NEW q \in Nat, Placed(c, q), NEW m \in Nat,
         c.st = "ok" /\ Len(file) = Len(F) => q + m <= Len(file)
  PROVE  /\ Reached(need_bytes(c, m), c, q, F)
         /\ need_bytes(c, m).st = "ok" => m <= Left(need_bytes(c, m))
<1> DEFINE b == need_bytes(c, m)
<1>1. Bytes /\ Inside(c) /\ file \in Seq(Nat) /\ Len(file) \in Nat
  BY DEF Cut, Placed, Bytes
<1>2. Read(b, c, 0) /\ (b.st = "ok" => b = c /\ m <= Left(c))
  BY <1>1, Needs
<1>3. c.st = "ok" /\ Len(file) = Len(F) => b.st = "ok"
  <2> SUFFICES ASSUME c.st = "ok", Len(file) = Len(F) PROVE b.st = "ok"
    OBVIOUS
  <2>1. c.pos = q /\ q + m <= Len(file)
    BY DEF Placed
  <2>2. ~ (m > Left(c))
    BY <1>1, <2>1 DEF Left
  <2> QED BY <2>2 DEF need_bytes
<1> HIDE DEF b
<1>4. Reached(b, c, q, F)
  BY <1>2, <1>3 DEF Reached, Placed, Read
<1> QED BY <1>2, <1>4 DEF b

\* One more element of a sequence.
LEMMA OneMore ==
  ASSUME NEW S, NEW s \in Seq(S), NEW i \in 1 .. Len(s)
  PROVE  SubSeq(s, 1, i) = Append(SubSeq(s, 1, i - 1), s[i])
OBVIOUS

\* All of a sequence, and nothing of it.
LEMMA AllOfIt ==
  ASSUME NEW S, NEW s \in Seq(S)
  PROVE  SubSeq(s, 1, Len(s)) = s /\ SubSeq(s, 1, 0) = <<>>
OBVIOUS

\* More than a share of f cells does not fit into them.
LEMMA TooMany ==
  ASSUME NEW f \in Nat, NEW w \in {2, 4}
  PROVE  f \div w \in Nat /\ w * (f \div w + 1) > f
<1>1. f \div 2 \in Nat /\ 2 * (f \div 2 + 1) > f
  OBVIOUS
<1>2. f \div 4 \in Nat /\ 4 * (f \div 4 + 1) > f
  OBVIOUS
<1> QED BY <1>1, <1>2

\* The entries of a table are read as they were written, all of them, or the
\* file has been cut.
LEMMA EntriesAt ==
  ASSUME NEW F, Cut(F), NEW kind \in Kinds, NEW items \in Seq(Items(kind)), image.ver \in Nat,
         NEW q \in Nat, Holds(F, q, PutAll(kind, image.ver, items)), NEW c, Placed(c, q + 1),
         NEW n \in Nat, c.st = "ok" => n = Len(items),
         kind = "func" /\ c.st = "ok" =>
           4 * n <= Left(c) /\ \A i \in 1 .. Len(items) : items[i].name < Len(prog.consts)
  PROVE  LET r == Times(kind, Width(kind), c, n)
         IN  /\ Reached(r, c, q + Len(PutAll(kind, image.ver, items)), F)
             /\ r.st = "ok" => r.out = items
<1> DEFINE w == Width(kind)
           N == Tries(w, c, n)
           p == Putting(kind, image.ver, items)
           L == Len(items)
           At(x, i) == /\ Reached(x, c, q + Len(p[i]), F)
                       /\ x.st = "ok" => x.out = SubSeq(items, 1, i)
                       /\ kind = "func" /\ x.st = "ok" => 4 * (n - i) <= Left(x)
           G == [i \in 0 .. N |-> {x \in Cursor : At(x, i)}]
           r == Times(kind, w, c, n)
<1>1. Bytes /\ Inside(c) /\ w \in {2, 4} /\ L \in Nat /\ F \in Seq(Nat)
  BY DEF Cut, Placed, Width
<1>2. N \in Nat /\ N <= n
  BY <1>1, TriesFew
<1>3. /\ p[0] = <<L>> /\ \A i \in 1 .. L : p[i] = p[i - 1] \o PutEntry(kind, image.ver, items[i])
      /\ \A i \in 0 .. L : p[i] \in Seq(Nat) /\ Len(p[i]) >= 1 + w * i
  BY PuttingIs
<1>4. \A i \in 1 .. L : Holds(F, q + Len(p[i - 1]), PutEntry(kind, image.ver, items[i]))
  BY <1>1, TableAt
<1>5. \A i \in 1 .. L : /\ items[i] \in Items(kind)
                        /\ PutEntry(kind, image.ver, items[i]) \in Seq(Nat)
  BY EntryCells
<1>6. PutAll(kind, image.ver, items) = p[L]
  BY DEF PutAll
<1>7. c.st # "ok" => N = 0
  BY DEF Tries
<1>8. c.st = "ok" => N = IF n <= Left(c) \div w THEN n ELSE Left(c) \div w + 1
  BY DEF Tries
<1> HIDE DEF w, N, p, L
<1>9. N <= L
  <2>1. CASE c.st = "ok"
    BY <1>2, <2>1 DEF L
  <2> QED BY <1>1, <1>7, <2>1
<1>10. Begun(c) \in G[0]
  <2>1. 0 \in 0 .. N
    BY <1>2
  <2>2. Inside(Begun(c)) /\ Begun(c).st = c.st /\ Begun(c).pos = c.pos
    BY <1>1, BegunInside
  <2>3. Len(p[0]) = 1
    BY <1>3
  <2>4. Reached(Begun(c), c, q + Len(p[0]), F)
    BY <2>2, <2>3 DEF Reached, Placed
  <2>5. Begun(c).out = SubSeq(items, 1, 0)
    <3>1. SubSeq(items, 1, 0) = <<>>
      BY AllOfIt
    <3> QED BY <1>1, <3>1 DEF Begun, Inside, Cursor
  <2>6. Left(Begun(c)) = Left(c) /\ n - 0 = n
    BY <2>2 DEF Left
  <2>7. At(Begun(c), 0)
    BY <2>2, <2>4, <2>5, <2>6
  <2>8. Begun(c) \in Cursor
    BY <2>2 DEF Inside
  <2> HIDE DEF At
  <2> QED BY <2>1, <2>7, <2>8
<1>11. ASSUME NEW i \in 1 .. N, NEW x \in G[i - 1] PROVE Advance(kind, x) \in G[i]
  <2>1. i \in Nat /\ i - 1 \in Nat /\ i >= 1 /\ i <= N /\ i \in 0 .. N /\ i - 1 \in 0 .. N
    BY <1>2
  <2>2. i <= L /\ i <= n
    BY <1>1, <1>2, <1>9, <2>1
  <2>3. i \in 1 .. L /\ i - 1 \in 0 .. L /\ i \in 0 .. L
    BY <1>1, <2>1, <2>2
  <2>4. x \in Cursor /\ At(x, i - 1)
    <3> HIDE DEF At
    <3> QED BY <2>1
  <2> DEFINE e == items[i]
             z == PutEntry(kind, image.ver, e)
             b == q + Len(p[i - 1])
             d == 4 * (n - i)
             a == Advance(kind, x)
  <2>5. e \in Items(kind) /\ z \in Seq(Nat) /\ Holds(F, b, z)
    BY <1>4, <1>5, <2>3
  <2>6. p[i - 1] \in Seq(Nat) /\ p[i] = p[i - 1] \o z
    BY <1>3, <2>3
  <2>7. Len(p[i - 1]) \in Nat /\ Len(z) \in Nat /\ Len(p[i]) = Len(p[i - 1]) + Len(z)
    BY <2>5, <2>6, OneBehind
  <2>8. b \in Nat /\ b + Len(z) = q + Len(p[i])
    <3> DEFINE g == Len(p[i - 1])
               h == Len(z)
               k == Len(p[i])
    <3>1. g \in Nat /\ h \in Nat /\ k = g + h
      BY <2>7
    <3> HIDE DEF g, h, k
    <3>2. q + g \in Nat /\ (q + g) + h = q + k
      BY <3>1
    <3> QED BY <3>2 DEF g, h, k
  <2>9. 4 * (n - (i - 1)) = d + 4 /\ d \in Int /\ d >= 0
    BY <2>1, <2>2
  <2>10. Reached(x, c, b, F) /\ (x.st = "ok" => x.out = SubSeq(items, 1, i - 1))
         /\ (kind = "func" /\ x.st = "ok" => d + 4 <= Left(x))
    BY <2>4, <2>9
  <2>11. kind = "func" /\ x.st = "ok" => e.name < Len(prog.consts)
    <3>1. x.st = "ok" => c.st = "ok"
      BY <2>10 DEF Reached
    <3> QED BY <2>3, <3>1 DEF L
  <2> HIDE DEF d, z, b, At, G
  <2>12. x.st = "ok" => Left(x) \in Int
    BY <1>1, <2>4 DEF Left, Cursor, Bytes
  <2>13. Room(kind, x) /\ Placed(x, b) /\ Inside(x)
    BY <2>9, <2>10, <2>12 DEF Room, Reached, Placed
  <2>14. Reached(a, x, b + Len(z), F) /\ (a.st = "ok" => a.out = Append(x.out, e))
    <3> HIDE DEF e
    <3> QED BY <2>5, <2>8, <2>11, <2>13, AdvanceAt DEF z
  <2>15. a.st = "ok" /\ kind = "func" => a.pos = x.pos + 4
    BY <1>1, <2>13, Advanced
  <2> HIDE DEF a
  <2>16. Reached(a, c, q + Len(p[i]), F)
    BY <2>8, <2>10, <2>14, Onward
  <2>17. a.st = "ok" => x.st = "ok"
    BY <2>14 DEF Reached
  <2>18. a.st = "ok" => a.out = SubSeq(items, 1, i)
    <3>1. SubSeq(items, 1, i) = Append(SubSeq(items, 1, i - 1), items[i])
      BY <2>3, OneMore DEF L
    <3> QED BY <2>10, <2>14, <2>17, <3>1
  <2>19. a \in Cursor
    BY <2>16 DEF Reached, Placed, Inside
  <2>20. kind = "func" /\ a.st = "ok" => d <= Left(a)
    <3> SUFFICES ASSUME kind = "func", a.st = "ok" PROVE d <= Left(a)
      OBVIOUS
    <3>1. a.pos = x.pos + 4 /\ d + 4 <= Left(x)
      BY <2>10, <2>15, <2>17
    <3>2. x.pos \in Nat /\ Len(file) \in Nat
      BY <1>1, <2>4 DEF Cursor, Bytes
    <3>3. Left(x) \in Int /\ Left(a) = Left(x) - 4
      <4> DEFINE pos == x.pos
                 len == Len(file)
      <4>1. Left(x) = len - pos /\ Left(a) = len - (pos + 4)
        BY <3>1 DEF Left
      <4>2. pos \in Nat /\ len \in Nat
        BY <3>2
      <4> HIDE DEF pos, len
      <4> QED BY <4>1, <4>2
    <3>4. d \in Int /\ d + 4 <= Left(x)
      BY <2>9, <3>1
    <3> QED BY <3>3, <3>4
  <2>21. At(a, i)
    BY <2>16, <2>18, <2>20 DEF At, d
  <2> QED BY <2>1, <2>19, <2>21 DEF G, a
<1> HIDE DEF G
<1>12. r \in G[N]
  BY <1>2, <1>10, <1>11, EntriesWithin DEF N, w
<1>13. At(r, N)
  <2>1. N \in 0 .. N
    BY <1>2
  <2> HIDE DEF At, r
  <2> QED BY <1>12, <2>1 DEF G
<1> HIDE DEF r
<1>14. Reached(r, c, q + Len(p[N]), F) /\ (r.st = "ok" => r.out = SubSeq(items, 1, N))
  BY <1>13
<1> HIDE DEF At
<1>15. r.st = "ok" => N = L
  <2> SUFFICES ASSUME r.st = "ok" PROVE N = L
    OBVIOUS
  <2>1. c.st = "ok" /\ n = L /\ c.pos = q + 1 /\ r.pos = q + Len(p[N]) /\ r.pos <= Len(file)
    BY <1>14 DEF Reached, Placed, Inside, L
  <2>2. c.pos <= Len(file) /\ Len(file) \in Nat
    BY <1>1, <2>1 DEF Inside, Bytes
  <2> DEFINE f == Left(c)
  <2>3. f = Len(file) - (q + 1) /\ f \in Nat
    BY <2>1, <2>2 DEF Left
  <2>4. N = IF n <= f \div w THEN n ELSE f \div w + 1
    BY <1>8, <2>1
  <2> HIDE DEF f
  <2>5. CASE N = n
    BY <2>1, <2>5
  <2>6. CASE N = f \div w + 1
    <3> DEFINE y == w * N
    <3>1. y > f
      BY <1>1, <2>3, <2>6, TooMany
    <3>2. N \in 0 .. L
      BY <1>1, <1>2, <1>9
    <3>3. Len(p[N]) >= 1 + y /\ Len(p[N]) \in Nat
      BY <1>3, <3>2
    <3>4. y \in Nat
      BY <1>1, <1>2
    <3> HIDE DEF y
    <3> QED BY <2>1, <2>2, <2>3, <3>1, <3>3, <3>4
  <2> QED BY <2>4, <2>5, <2>6
<1>16. r.st = "ok" => r.out = items
  <2>1. SubSeq(items, 1, L) = items
    BY AllOfIt DEF L
  <2> QED BY <1>14, <1>15, <2>1
<1>17. Reached(r, c, q + Len(p[L]), F)
  BY <1>14, <1>15 DEF Reached, Placed
<1> QED BY <1>6, <1>16, <1>17 DEF r, w

\* A table takes as many cells as its reader reckons with, or more.
LEMMA TableLong ==
  ASSUME NEW kind \in Kinds, NEW items \in Seq(Items(kind)), NEW ver \in Nat
  PROVE  Len(PutAll(kind, ver, items)) >= 1 + Width(kind) * Len(items)
<1>1. Len(items) \in 0 .. Len(items)
  OBVIOUS
<1>2. Len(Putting(kind, ver, items)[Len(items)]) >= 1 + Width(kind) * Len(items)
  BY <1>1, PuttingIs
<1> QED BY <1>2 DEF PutAll

\* A table is read as it was written: the check of what is there, which
\* reckons with no more than the table takes, does not refuse it.
LEMMA TableRead ==
  ASSUME NEW F, Cut(F), NEW kind \in Kinds, NEW items \in Seq(Items(kind)), image.ver \in Nat,
         NEW q \in Nat, Holds(F, q, PutAll(kind, image.ver, items)), NEW c, Placed(c, q),
         NEW m \in Nat, m <= Width(kind) * One(rd(c)),
         kind = "func" => m = 4 * One(rd(c)),
         kind = "func" /\ c.st = "ok" => \A i \in 1 .. Len(items) : items[i].name < Len(prog.consts)
  PROVE  LET r == Times(kind, Width(kind), need_bytes(rd(c), m), One(rd(c)))
         IN  /\ Reached(r, c, q + Len(PutAll(kind, image.ver, items)), F)
             /\ r.st = "ok" => r.out = items
<1> DEFINE a == rd(c)
           n == One(a)
           b == need_bytes(a, m)
           w == Width(kind)
           L == Len(items)
           r == Times(kind, w, b, n)
           e == q + Len(PutAll(kind, image.ver, items))
<1>1. Bytes /\ Inside(c) /\ F \in Seq(Nat) /\ L \in Nat /\ w \in Nat
  BY DEF Cut, Placed, Width
<1>2. Holds(F, q, <<L>>)
  BY <1>1, TableAt
<1>3. n \in Nat
  BY <1>1, Rds
<1>4. Reached(a, c, q + 1, F) /\ (a.st = "ok" => n = L)
  <2> HIDE DEF L
  <2> QED BY <1>1, <1>2, RdAt
<1>5. e <= Len(F) /\ Len(PutAll(kind, image.ver, items)) >= 1 + w * L
  BY TableLong DEF Holds
<1>6. Len(PutAll(kind, image.ver, items)) \in Nat
  <2>1. PutAll(kind, image.ver, items) \in Seq(Nat)
    BY TableCells
  <2> QED BY <2>1
<1>7. m <= w * n
  OBVIOUS
<1> HIDE DEF a, n, w, L
<1>8. a.st = "ok" /\ Len(file) = Len(F) => (q + 1) + m <= Len(file)
  <2> SUFFICES ASSUME a.st = "ok", Len(file) = Len(F) PROVE (q + 1) + m <= Len(F)
    OBVIOUS
  <2> DEFINE y == w * L
             k == Len(PutAll(kind, image.ver, items))
             l == Len(F)
  <2>1. m <= y /\ k >= 1 + y /\ q + k <= l /\ y \in Nat /\ k \in Nat /\ l \in Nat
    BY <1>1, <1>4, <1>5, <1>6, <1>7
  <2> HIDE DEF y, k, l
  <2>2. (q + 1) + m <= l
    BY <2>1
  <2> QED BY <2>2 DEF l
<1>9. Placed(a, q + 1) /\ q + 1 \in Nat
  BY <1>4 DEF Reached
<1>10. Reached(b, a, q + 1, F) /\ (b.st = "ok" => m <= Left(b))
  BY <1>8, <1>9, NeedAt
<1> HIDE DEF b
<1>11. Placed(b, q + 1) /\ (b.st = "ok" => a.st = "ok" /\ c.st = "ok" /\ n = L)
  BY <1>4, <1>10 DEF Reached
<1>12. kind = "func" /\ b.st = "ok" =>
         4 * n <= Left(b) /\ \A i \in 1 .. L : items[i].name < Len(prog.consts)
  BY <1>10, <1>11 DEF L, n, a
<1> HIDE DEF e, r
<1>13. Reached(r, b, e, F) /\ (r.st = "ok" => r.out = items)
  BY <1>3, <1>11, <1>12, EntriesAt DEF L, r, e, w
<1>14. Reached(r, c, e, F)
  BY <1>4, <1>10, <1>13, Onward
<1> QED BY <1>13, <1>14 DEF r, e, b, n, a, w

\* The four tables of a file are read as they were written.
LEMMA TablesAt ==
  ASSUME NEW F, Cut(F), NEW q \in Nat, NEW c, Placed(c, q), image.ver \in Nat
  PROVE  /\ \A items \in Seq(Constant) : Holds(F, q, PutAll("const", image.ver, items)) =>
              /\ Reached(ReadConsts(c), c, q + Len(PutAll("const", image.ver, items)), F)
              /\ ReadConsts(c).st = "ok" => ReadConsts(c).out = items
         /\ \A items \in Seq(Function) :
              /\ Holds(F, q, PutAll("func", image.ver, items))
              /\ c.st = "ok" => \A i \in 1 .. Len(items) : items[i].name < Len(prog.consts)
              => /\ Reached(ReadFuncs(c), c, q + Len(PutAll("func", image.ver, items)), F)
                 /\ ReadFuncs(c).st = "ok" => ReadFuncs(c).out = items
         /\ \A items \in Seq(Line) : Holds(F, q, PutAll("line", image.ver, items)) =>
              /\ Reached(ReadDebug(c), c, q + Len(PutAll("line", image.ver, items)), F)
              /\ ReadDebug(c).st = "ok" => ReadDebug(c).out = items
         /\ \A items \in Seq(Asset) : Holds(F, q, PutAll("asset", image.ver, items)) =>
              /\ Reached(ReadAssets(c), c, q + Len(PutAll("asset", image.ver, items)), F)
              /\ ReadAssets(c).st = "ok" => ReadAssets(c).out = items
<1> DEFINE n == One(rd(c))
<1>1. n \in Nat
  BY Rds DEF Placed, Cut
<1>2. 2 * n \in Nat /\ 4 * n \in Nat /\ n <= 2 * n /\ 2 * n <= 2 * n /\ 4 * n <= 4 * n
  <2> HIDE DEF n
  <2> QED BY <1>1
<1> DEFINE m2 == 2 * n
           m4 == 4 * n
<1>3. Width("const") = 2 /\ Width("func") = 4 /\ Width("line") = 2 /\ Width("asset") = 2
      /\ Items("const") = Constant /\ Items("func") = Function
      /\ Items("line") = Line /\ Items("asset") = Asset
  BY DEF Width, Items
<1>4. m2 \in Nat /\ m4 \in Nat /\ n <= m2 /\ m2 <= 2 * n /\ m4 <= 4 * n /\ m4 = 4 * n
  BY <1>2
<1>5. /\ ReadConsts(c) = Times("const", 2, need_bytes(rd(c), n), n)
      /\ ReadFuncs(c) = Times("func", 4, need_bytes(rd(c), m4), n)
      /\ ReadDebug(c) = Times("line", 2, need_bytes(rd(c), m2), n)
      /\ ReadAssets(c) = Times("asset", 2, need_bytes(rd(c), m2), n)
  BY DEF ReadConsts, ReadFuncs, ReadDebug, ReadAssets
<1> HIDE DEF m2, m4
<1>6. ASSUME NEW items \in Seq(Constant), Holds(F, q, PutAll("const", image.ver, items))
      PROVE  /\ Reached(ReadConsts(c), c, q + Len(PutAll("const", image.ver, items)), F)
             /\ ReadConsts(c).st = "ok" => ReadConsts(c).out = items
  <2> DEFINE kind == "const"
  <2>1. kind \in Kinds /\ items \in Seq(Items(kind)) /\ Width(kind) = 2 /\ kind # "func"
    BY <1>3 DEF Kinds
  <2>2. n <= Width(kind) * n
    BY <1>2, <2>1
  <2>3. Holds(F, q, PutAll(kind, image.ver, items))
    BY <1>6
  <2>4. ReadConsts(c) = Times(kind, Width(kind), need_bytes(rd(c), n), n)
    BY <1>5, <2>1
  <2> HIDE DEF kind
  <2>5. /\ Reached(Times(kind, Width(kind), need_bytes(rd(c), n), n), c,
                   q + Len(PutAll(kind, image.ver, items)), F)
        /\ Times(kind, Width(kind), need_bytes(rd(c), n), n).st = "ok" =>
             Times(kind, Width(kind), need_bytes(rd(c), n), n).out = items
    BY <1>1, <2>1, <2>2, <2>3, TableRead
  <2> QED BY <2>4, <2>5 DEF kind
<1>7. ASSUME NEW items \in Seq(Function), Holds(F, q, PutAll("func", image.ver, items)),
             c.st = "ok" => \A i \in 1 .. Len(items) : items[i].name < Len(prog.consts)
      PROVE  /\ Reached(ReadFuncs(c), c, q + Len(PutAll("func", image.ver, items)), F)
             /\ ReadFuncs(c).st = "ok" => ReadFuncs(c).out = items
  <2> DEFINE kind == "func"
  <2>1. kind \in Kinds /\ items \in Seq(Items(kind)) /\ Width(kind) = 4
    BY <1>3 DEF Kinds
  <2>2. m4 <= Width(kind) * n /\ m4 = 4 * n
    BY <1>4, <2>1
  <2>3. Holds(F, q, PutAll(kind, image.ver, items))
    BY <1>7
  <2>4. ReadFuncs(c) = Times(kind, Width(kind), need_bytes(rd(c), m4), n)
    BY <1>5, <2>1
  <2> HIDE DEF kind
  <2>5. /\ Reached(Times(kind, Width(kind), need_bytes(rd(c), m4), n), c,
                   q + Len(PutAll(kind, image.ver, items)), F)
        /\ Times(kind, Width(kind), need_bytes(rd(c), m4), n).st = "ok" =>
             Times(kind, Width(kind), need_bytes(rd(c), m4), n).out = items
    BY <1>4, <1>7, <2>1, <2>2, <2>3, TableRead, SMTT(30)
  <2> QED BY <2>4, <2>5 DEF kind
<1>8. ASSUME NEW items \in Seq(Line), Holds(F, q, PutAll("line", image.ver, items))
      PROVE  /\ Reached(ReadDebug(c), c, q + Len(PutAll("line", image.ver, items)), F)
             /\ ReadDebug(c).st = "ok" => ReadDebug(c).out = items
  <2> DEFINE kind == "line"
  <2>1. kind \in Kinds /\ items \in Seq(Items(kind)) /\ Width(kind) = 2 /\ kind # "func"
    BY <1>3 DEF Kinds
  <2>2. m2 <= Width(kind) * n
    BY <1>4, <2>1
  <2>3. Holds(F, q, PutAll(kind, image.ver, items))
    BY <1>8
  <2>4. ReadDebug(c) = Times(kind, Width(kind), need_bytes(rd(c), m2), n)
    BY <1>5, <2>1
  <2> HIDE DEF kind
  <2>5. /\ Reached(Times(kind, Width(kind), need_bytes(rd(c), m2), n), c,
                   q + Len(PutAll(kind, image.ver, items)), F)
        /\ Times(kind, Width(kind), need_bytes(rd(c), m2), n).st = "ok" =>
             Times(kind, Width(kind), need_bytes(rd(c), m2), n).out = items
    BY <1>4, <2>1, <2>2, <2>3, TableRead
  <2> QED BY <2>4, <2>5 DEF kind
<1>9. ASSUME NEW items \in Seq(Asset), Holds(F, q, PutAll("asset", image.ver, items))
      PROVE  /\ Reached(ReadAssets(c), c, q + Len(PutAll("asset", image.ver, items)), F)
             /\ ReadAssets(c).st = "ok" => ReadAssets(c).out = items
  <2> DEFINE kind == "asset"
  <2>1. kind \in Kinds /\ items \in Seq(Items(kind)) /\ Width(kind) = 2 /\ kind # "func"
    BY <1>3 DEF Kinds
  <2>2. m2 <= Width(kind) * n
    BY <1>4, <2>1
  <2>3. Holds(F, q, PutAll(kind, image.ver, items))
    BY <1>9
  <2>4. ReadAssets(c) = Times(kind, Width(kind), need_bytes(rd(c), m2), n)
    BY <1>5, <2>1
  <2> HIDE DEF kind
  <2>5. /\ Reached(Times(kind, Width(kind), need_bytes(rd(c), m2), n), c,
                   q + Len(PutAll(kind, image.ver, items)), F)
        /\ Times(kind, Width(kind), need_bytes(rd(c), m2), n).st = "ok" =>
             Times(kind, Width(kind), need_bytes(rd(c), m2), n).out = items
    BY <1>4, <2>1, <2>2, <2>3, TableRead
  <2> QED BY <2>4, <2>5 DEF kind
<1> QED BY <1>6, <1>7, <1>8, <1>9

\* The same, table by table.
LEMMA ConstsAt ==
  ASSUME NEW F, Cut(F), NEW q \in Nat, NEW c, Placed(c, q), image.ver \in Nat,
         NEW items \in Seq(Constant), Holds(F, q, PutAll("const", image.ver, items))
  PROVE  /\ Reached(ReadConsts(c), c, q + Len(PutAll("const", image.ver, items)), F)
         /\ ReadConsts(c).st = "ok" => ReadConsts(c).out = items
<1>1. \A x \in Seq(Constant) : Holds(F, q, PutAll("const", image.ver, x)) =>
           /\ Reached(ReadConsts(c), c, q + Len(PutAll("const", image.ver, x)), F)
           /\ ReadConsts(c).st = "ok" => ReadConsts(c).out = x
  BY TablesAt
<1> QED BY <1>1, Zenon

LEMMA FuncsAt ==
  ASSUME NEW F, Cut(F), NEW q \in Nat, NEW c, Placed(c, q), image.ver \in Nat,
         NEW items \in Seq(Function), Holds(F, q, PutAll("func", image.ver, items)),
         c.st = "ok" => \A i \in 1 .. Len(items) : items[i].name < Len(prog.consts)
  PROVE  /\ Reached(ReadFuncs(c), c, q + Len(PutAll("func", image.ver, items)), F)
         /\ ReadFuncs(c).st = "ok" => ReadFuncs(c).out = items
<1>1. \A x \in Seq(Function) :
        /\ Holds(F, q, PutAll("func", image.ver, x))
        /\ c.st = "ok" => \A i \in 1 .. Len(x) : x[i].name < Len(prog.consts)
        => /\ Reached(ReadFuncs(c), c, q + Len(PutAll("func", image.ver, x)), F)
           /\ ReadFuncs(c).st = "ok" => ReadFuncs(c).out = x
  BY TablesAt
<1> QED BY <1>1, Zenon

LEMMA LinesAt ==
  ASSUME NEW F, Cut(F), NEW q \in Nat, NEW c, Placed(c, q), image.ver \in Nat,
         NEW items \in Seq(Line), Holds(F, q, PutAll("line", image.ver, items))
  PROVE  /\ Reached(ReadDebug(c), c, q + Len(PutAll("line", image.ver, items)), F)
         /\ ReadDebug(c).st = "ok" => ReadDebug(c).out = items
<1>1. \A x \in Seq(Line) : Holds(F, q, PutAll("line", image.ver, x)) =>
           /\ Reached(ReadDebug(c), c, q + Len(PutAll("line", image.ver, x)), F)
           /\ ReadDebug(c).st = "ok" => ReadDebug(c).out = x
  BY TablesAt
<1> QED BY <1>1, Zenon

LEMMA AssetsAt ==
  ASSUME NEW F, Cut(F), NEW q \in Nat, NEW c, Placed(c, q), image.ver \in Nat,
         NEW items \in Seq(Asset), Holds(F, q, PutAll("asset", image.ver, items))
  PROVE  /\ Reached(ReadAssets(c), c, q + Len(PutAll("asset", image.ver, items)), F)
         /\ ReadAssets(c).st = "ok" => ReadAssets(c).out = items
<1>1. \A x \in Seq(Asset) : Holds(F, q, PutAll("asset", image.ver, x)) =>
           /\ Reached(ReadAssets(c), c, q + Len(PutAll("asset", image.ver, x)), F)
           /\ ReadAssets(c).st = "ok" => ReadAssets(c).out = x
  BY TablesAt
<1> QED BY <1>1, Zenon

-----------------------------------------------------------------------------
(* The file up to its k-th section.                                        *)
SectionNames == {"consts", "funcs", "entry", "code", "debug", "assets", "perms"}

Upto(img, k) ==
  LET S(name) == PutSection(img, name)
  IN  CASE k = 0 -> <<>>
        [] k = 1 -> S("consts")
        [] k = 2 -> S("consts") \o S("funcs")
        [] k = 3 -> S("consts") \o S("funcs") \o S("entry")
        [] k = 4 -> S("consts") \o S("funcs") \o S("entry") \o S("code")
        [] k = 5 -> S("consts") \o S("funcs") \o S("entry") \o S("code") \o S("debug")
        [] k = 6 -> S("consts") \o S("funcs") \o S("entry") \o S("code") \o S("debug")
                      \o S("assets")
        [] k > 6 -> Put(img)

\* Each section comes behind those before it.
LEMMA UptoNext ==
  ASSUME NEW img, Compiled(img), NEW k \in 1 .. 7
  PROVE  /\ Upto(img, k) = Upto(img, k - 1) \o PutSection(img, load_program_C[k])
         /\ load_program_C[k] \in SectionNames
<1>1. CASE k = 1
  <2>1. PutSection(img, "consts") \in Seq(Nat)
    BY SectionCells
  <2>2. load_program_C[1] = "consts" /\ Upto(img, 1) = PutSection(img, "consts")
        /\ Upto(img, 0) = <<>>
    BY DEF load_program_C, Upto
  <2>3. <<>> \o PutSection(img, "consts") = PutSection(img, "consts")
    BY <2>1
  <2>4. k - 1 = 0 /\ load_program_C[k] = "consts"
    BY <1>1, <2>2
  <2> QED BY <1>1, <2>2, <2>3, <2>4 DEF SectionNames
<1>2. CASE k = 2
  <2>1. load_program_C[2] = "funcs"
    BY DEF load_program_C
  <2> QED BY <1>2, <2>1 DEF Upto, SectionNames
<1>3. CASE k = 3
  <2>1. load_program_C[3] = "entry"
    BY DEF load_program_C
  <2> QED BY <1>3, <2>1 DEF Upto, SectionNames
<1>4. CASE k = 4
  <2>1. load_program_C[4] = "code"
    BY DEF load_program_C
  <2> QED BY <1>4, <2>1 DEF Upto, SectionNames
<1>5. CASE k = 5
  <2>1. load_program_C[5] = "debug"
    BY DEF load_program_C
  <2> QED BY <1>5, <2>1 DEF Upto, SectionNames
<1>6. CASE k = 6
  <2>1. load_program_C[6] = "assets"
    BY DEF load_program_C
  <2> QED BY <1>6, <2>1 DEF Upto, SectionNames
<1>7. CASE k = 7
  <2>1. load_program_C[7] = "perms"
    BY DEF load_program_C
  <2> QED BY <1>7, <2>1 DEF Upto, Put, SectionNames
<1> QED BY <1>1, <1>2, <1>3, <1>4, <1>5, <1>6, <1>7

\* A prefix of a file, and what comes behind it.
LEMMA Peeled ==
  ASSUME NEW F \in Seq(Nat), NEW s \in Seq(Nat), NEW t \in Seq(Nat), Holds(F, 0, s \o t)
  PROVE  Holds(F, 0, s) /\ Holds(F, Len(s), t) /\ Len(s \o t) = Len(s) + Len(t) /\ Len(s) \in Nat
<1>1. Holds(F, 0, s) /\ Holds(F, 0 + Len(s), t)
  BY HoldsJoined
<1>2. 0 + Len(s) = Len(s) /\ Len(s) \in Nat
  OBVIOUS
<1> QED BY <1>1, <1>2, OneBehind

\* Where each section is in the file.
LEMMA SectionAt ==
  ASSUME NEW img, Compiled(img), NEW k \in 1 .. 7
  PROVE  /\ Len(Upto(img, k - 1)) \in Nat
         /\ Holds(Put(img), Len(Upto(img, k - 1)), PutSection(img, load_program_C[k]))
         /\ Len(Upto(img, k)) = Len(Upto(img, k - 1)) + Len(PutSection(img, load_program_C[k]))
<1> DEFINE F == Put(img)
           U(j) == Upto(img, j)
           S(j) == PutSection(img, load_program_C[j])
<1>1. F \in Seq(Nat) /\ U(7) = F
  BY FileCells DEF Upto
<1>2. \A j \in 1 .. 7 : S(j) \in Seq(Nat) /\ U(j) = U(j - 1) \o S(j)
  BY UptoNext, SectionCells DEF SectionNames
<1>3. U(0) \in Seq(Nat)
  BY DEF Upto
<1> HIDE DEF F, U, S
<1>4. \A j \in 1 .. 7 : U(j - 1) \in Seq(Nat) => U(j) \in Seq(Nat)
  BY <1>2, OneBehind
<1>5. \A j \in 0 .. 7 : U(j) \in Seq(Nat)
  <2> DEFINE f == [j \in 0 .. 7 |-> U(j)]
             G == [j \in 0 .. 7 |-> Seq(Nat)]
  <2>1. f[0] \in G[0] /\ \A j \in 1 .. 7 : f[j - 1] \in G[j - 1] => f[j] \in G[j]
    BY <1>3, <1>4
  <2>2. \A j \in 0 .. 7 : f[j] \in G[j]
    <3> HIDE DEF f, G
    <3> QED BY <2>1, StaysWithin
  <2> QED BY <2>2
<1>6. \A j \in 1 .. 7 : Holds(F, 0, U(j)) =>
        Holds(F, 0, U(j - 1)) /\ Holds(F, Len(U(j - 1)), S(j))
  <2> SUFFICES ASSUME NEW j \in 1 .. 7, Holds(F, 0, U(j))
               PROVE  Holds(F, 0, U(j - 1)) /\ Holds(F, Len(U(j - 1)), S(j))
    OBVIOUS
  <2>1. j - 1 \in 0 .. 7
    OBVIOUS
  <2> DEFINE a == U(j - 1)
             b == S(j)
  <2>2. a \in Seq(Nat) /\ b \in Seq(Nat) /\ Holds(F, 0, a \o b)
    BY <1>2, <1>5, <2>1
  <2> HIDE DEF a, b
  <2>3. Holds(F, 0, a) /\ Holds(F, Len(a), b)
    BY <1>1, <2>2, Peeled
  <2> QED BY <2>3 DEF a, b
<1>7. Holds(F, 0, U(7))
  BY <1>1, HoldsWhole
<1>8. \A j \in 0 .. 7 : Holds(F, 0, U(7 - j))
  <2> DEFINE H == {s \in Seq(Nat) : Holds(F, 0, s)}
             f == [j \in 0 .. 7 |-> U(7 - j)]
             G == [j \in 0 .. 7 |-> H]
  <2>1. f[0] = U(7) /\ U(7) \in H
    BY <1>1, <1>7
  <2>2. ASSUME NEW j \in 1 .. 7, f[j - 1] \in H PROVE f[j] \in H
    <3> DEFINE i == 7 - (j - 1)
    <3>1. i \in 1 .. 7 /\ i - 1 = 7 - j /\ i - 1 \in 0 .. 7
      OBVIOUS
    <3>2. f[j - 1] = U(i) /\ f[j] = U(i - 1)
      BY <3>1
    <3> HIDE DEF i, f
    <3> QED BY <1>5, <1>6, <2>2, <3>1, <3>2
  <2>3. f[0] \in G[0] /\ \A j \in 1 .. 7 : f[j - 1] \in G[j - 1] => f[j] \in G[j]
    <3> HIDE DEF f, H
    <3> QED BY <2>1, <2>2
  <2>4. \A j \in 0 .. 7 : f[j] \in G[j]
    <3> HIDE DEF f, G
    <3> QED BY <2>3, StaysWithin
  <2> QED BY <2>4
<1>9. Holds(F, 0, U(k))
  <2>1. 7 - k \in 0 .. 7 /\ 7 - (7 - k) = k
    OBVIOUS
  <2> QED BY <1>8, <2>1
<1>10. Holds(F, Len(U(k - 1)), S(k))
  BY <1>6, <1>9
<1>11. U(k - 1) \in Seq(Nat) /\ S(k) \in Seq(Nat) /\ U(k) = U(k - 1) \o S(k)
  <2>1. k - 1 \in 0 .. 7
    OBVIOUS
  <2> QED BY <1>2, <1>5, <2>1
<1>12. Len(U(k)) = Len(U(k - 1)) + Len(S(k)) /\ Len(U(k - 1)) \in Nat
  BY <1>11, OneBehind
<1> QED BY <1>10, <1>12 DEF F, U, S

\* Where the k-th section of the file ends.
End(k) == Len(Upto(image, k))

\* The file is that of a compiled program, or its beginning.
Written == Compiled(image) /\ Cut(Put(image))

\* The section before End(k).
SectionIs(k, cells) ==
  /\ cells = PutSection(image, load_program_C[k])
  /\ End(k - 1) \in Nat /\ Holds(Put(image), End(k - 1), cells)
  /\ End(k) = End(k - 1) + Len(cells)

\* The sections of the file.
LEMMA SectionsAre ==
  ASSUME Written
  PROVE  LET p == image.prog
         IN  /\ SectionIs(1, PutAll("const", image.ver, p.consts))
             /\ SectionIs(2, PutAll("func", image.ver, p.funcs))
             /\ SectionIs(3, <<p.entryFn>>)
             /\ SectionIs(4, PutString(IF "xor" \in image.flags THEN Scramble(p.code) ELSE p.code))
             /\ SectionIs(5, Optional(image, "debug", PutAll("line", image.ver, p.dbg)))
             /\ SectionIs(6, Optional(image, "assets",
                                      PutAll("asset", image.ver, SetToSeq(p.assets))))
             /\ SectionIs(7, Optional(image, "perms", PutString(p.perms)))
<1> DEFINE p == image.prog
<1>1. \A k \in 1 .. 7 : SectionIs(k, PutSection(image, load_program_C[k]))
  BY SectionAt DEF SectionIs, Written, End
<1>2. SectionIs(1, PutAll("const", image.ver, p.consts))
  <2>1. 1 \in 1 .. 7 /\ load_program_C[1] = "consts"
    BY DEF load_program_C
  <2>2. PutSection(image, "consts") = PutAll("const", image.ver, p.consts)
    BY DEF PutSection
  <2> QED BY <1>1, <2>1, <2>2
<1>3. SectionIs(2, PutAll("func", image.ver, p.funcs))
  <2>1. 2 \in 1 .. 7 /\ load_program_C[2] = "funcs"
    BY DEF load_program_C
  <2>2. PutSection(image, "funcs") = PutAll("func", image.ver, p.funcs)
    BY DEF PutSection
  <2> QED BY <1>1, <2>1, <2>2
<1>4. SectionIs(3, <<p.entryFn>>)
  <2>1. 3 \in 1 .. 7 /\ load_program_C[3] = "entry"
    BY DEF load_program_C
  <2>2. PutSection(image, "entry") = <<p.entryFn>>
    BY DEF PutSection
  <2> QED BY <1>1, <2>1, <2>2
<1>5. SectionIs(4, PutString(IF "xor" \in image.flags THEN Scramble(p.code) ELSE p.code))
  <2>1. 4 \in 1 .. 7 /\ load_program_C[4] = "code"
    BY DEF load_program_C
  <2>2. PutSection(image, "code")
          = PutString(IF "xor" \in image.flags THEN Scramble(p.code) ELSE p.code)
    BY DEF PutSection
  <2> QED BY <1>1, <2>1, <2>2
<1>6. SectionIs(5, Optional(image, "debug", PutAll("line", image.ver, p.dbg)))
  <2>1. 5 \in 1 .. 7 /\ load_program_C[5] = "debug"
    BY DEF load_program_C
  <2>2. PutSection(image, "debug") = Optional(image, "debug", PutAll("line", image.ver, p.dbg))
    BY DEF PutSection
  <2> QED BY <1>1, <2>1, <2>2
<1>7. SectionIs(6, Optional(image, "assets", PutAll("asset", image.ver, SetToSeq(p.assets))))
  <2>1. 6 \in 1 .. 7 /\ load_program_C[6] = "assets"
    BY DEF load_program_C
  <2>2. PutSection(image, "assets")
          = Optional(image, "assets", PutAll("asset", image.ver, SetToSeq(p.assets)))
    BY DEF PutSection
  <2> QED BY <1>1, <2>1, <2>2
<1>8. SectionIs(7, Optional(image, "perms", PutString(p.perms)))
  <2>1. 7 \in 1 .. 7 /\ load_program_C[7] = "perms"
    BY DEF load_program_C
  <2>2. PutSection(image, "perms") = Optional(image, "perms", PutString(p.perms))
    BY DEF PutSection
  <2> QED BY <1>1, <2>1, <2>2
<1> QED BY <1>2, <1>3, <1>4, <1>5, <1>6, <1>7, <1>8

\* The program of the file.
LEMMA ProgramIs ==
  ASSUME Written
  PROVE  LET p == image.prog
         IN  /\ image.ver \in Nat /\ p \in Program
             /\ p.consts \in Seq(Constant) /\ p.funcs \in Seq(Function) /\ p.entryFn \in Nat
             /\ p.code \in Seq(Byte) /\ p.dbg \in Seq(Line) /\ p.assets \subseteq Asset
             /\ p.perms \in Seq(Nat) /\ p.entryFn < Len(p.funcs)
             /\ \A i \in 1 .. Len(p.funcs) :
                  p.funcs[i].name < Len(p.consts) /\ p.funcs[i].entry <= Len(p.code)
<1> DEFINE p == image.prog
<1>1. /\ image.ver \in Nat /\ p \in Program /\ p.entryFn < Len(p.funcs)
      /\ \A i \in DOMAIN p.funcs :
           p.funcs[i].name < Len(p.consts) /\ p.funcs[i].entry <= Len(p.code)
  BY DEF Written, Compiled
<1>2. /\ p.consts \in Seq(Constant) /\ p.funcs \in Seq(Function) /\ p.entryFn \in Nat
      /\ p.code \in Seq(0 .. 255) /\ p.dbg \in Seq(Line) /\ p.assets \subseteq Asset
      /\ p.perms \in Seq(Nat)
  BY <1>1 DEF Program
<1>3. DOMAIN p.funcs = 1 .. Len(p.funcs)
  BY <1>2
<1> QED BY <1>1, <1>2, <1>3 DEF Byte

\* The constants and the functions are read as they were written,
LEMMA DefinitionsRead ==
  ASSUME Written, NEW c
  PROVE  /\ Placed(c, End(0)) =>
              /\ Reached(ReadConsts(c), c, End(1), Put(image))
              /\ ReadConsts(c).st = "ok" => ReadConsts(c).out = image.prog.consts
         /\ Placed(c, End(1)) /\ (c.st = "ok" => prog.consts = image.prog.consts) =>
              /\ Reached(ReadFuncs(c), c, End(2), Put(image))
              /\ ReadFuncs(c).st = "ok" => ReadFuncs(c).out = image.prog.funcs
<1> DEFINE p == image.prog
           F == Put(image)
           s1 == PutAll("const", image.ver, p.consts)
           s2 == PutAll("func", image.ver, p.funcs)
<1>1. /\ End(0) \in Nat /\ Holds(F, End(0), s1) /\ End(1) = End(0) + Len(s1)
      /\ End(1) \in Nat /\ Holds(F, End(1), s2) /\ End(2) = End(1) + Len(s2)
  <2>1. SectionIs(1, s1) /\ SectionIs(2, s2)
    BY SectionsAre
  <2>2. 1 - 1 = 0 /\ 2 - 1 = 1
    OBVIOUS
  <2> QED BY <2>1, <2>2 DEF SectionIs
<1>2. /\ Cut(F) /\ image.ver \in Nat /\ p.consts \in Seq(Constant) /\ p.funcs \in Seq(Function)
      /\ \A i \in 1 .. Len(p.funcs) : p.funcs[i].name < Len(p.consts)
  BY ProgramIs DEF Written
<1> HIDE DEF p, F
<1>3. ASSUME Placed(c, End(0))
      PROVE  /\ Reached(ReadConsts(c), c, End(1), F)
             /\ (ReadConsts(c).st = "ok" => ReadConsts(c).out = p.consts)
  <2>1. /\ Reached(ReadConsts(c), c, End(0) + Len(s1), F)
        /\ ReadConsts(c).st = "ok" => ReadConsts(c).out = p.consts
    BY <1>1, <1>2, <1>3, ConstsAt
  <2> QED BY <1>1, <2>1
<1>4. ASSUME Placed(c, End(1)), c.st = "ok" => prog.consts = p.consts
      PROVE  /\ Reached(ReadFuncs(c), c, End(2), F)
             /\ (ReadFuncs(c).st = "ok" => ReadFuncs(c).out = p.funcs)
  <2>1. c.st = "ok" => \A i \in 1 .. Len(p.funcs) : p.funcs[i].name < Len(prog.consts)
    BY <1>2, <1>4
  <2>2. /\ Reached(ReadFuncs(c), c, End(1) + Len(s2), F)
        /\ ReadFuncs(c).st = "ok" => ReadFuncs(c).out = p.funcs
    BY <1>1, <1>2, <1>4, <2>1, FuncsAt
  <2> QED BY <1>1, <2>2
<1> QED BY <1>3, <1>4 DEF p, F

\* the entry function,
LEMMA EntryFnRead ==
  ASSUME Written, NEW c, Placed(c, End(2)), c.st = "ok" => prog.funcs = image.prog.funcs
  PROVE  /\ Reached(ReadEntry(c), c, End(3), Put(image))
         /\ ReadEntry(c).st = "ok" => One(ReadEntry(c)) = image.prog.entryFn
<1> DEFINE x == image.prog.entryFn
           F == Put(image)
           s == <<x>>
           e == rd(c)
<1>1. End(2) \in Nat /\ Holds(F, End(2), s) /\ End(3) = End(2) + Len(s)
  <2>1. SectionIs(3, s)
    BY SectionsAre
  <2>2. 3 - 1 = 2
    OBVIOUS
  <2> QED BY <2>1, <2>2 DEF SectionIs
<1>2. Cut(F) /\ x \in Nat /\ x < Len(image.prog.funcs) /\ Len(image.prog.funcs) \in Nat
  <2>1. image.prog.funcs \in Seq(Function) /\ x \in Nat /\ x < Len(image.prog.funcs)
    BY ProgramIs
  <2> QED BY <2>1 DEF Written
<1>3. End(3) = End(2) + 1
  BY <1>1
<1> HIDE DEF x, F
<1>4. Reached(e, c, End(2) + 1, F) /\ (e.st = "ok" => One(e) = x)
  BY <1>1, <1>2, RdAt
<1> HIDE DEF e
<1>5. e.st = "ok" => ~ (One(e) >= Len(prog.funcs))
  BY <1>2, <1>4 DEF Reached
<1>6. ReadEntry(c) = e
  BY <1>5 DEF ReadEntry, e
<1> QED BY <1>3, <1>4, <1>6 DEF x, F

\* and the code.
LEMMA CodeRead ==
  ASSUME Written, NEW c, Placed(c, End(3))
  PROVE  /\ Reached(ReadCode(c), c, End(4), Put(image))
         /\ ReadCode(c).st = "ok" =>
              (IF "xor" \in image.flags THEN xor_decode(ReadCode(c).v) ELSE ReadCode(c).v)
                = image.prog.code
<1> DEFINE code == image.prog.code
           F == Put(image)
           t == IF "xor" \in image.flags THEN Scramble(code) ELSE code
<1>1. End(3) \in Nat /\ Holds(F, End(3), PutString(t)) /\ End(4) = End(3) + Len(PutString(t))
  <2>1. SectionIs(4, PutString(t))
    BY SectionsAre
  <2>2. 4 - 1 = 3
    OBVIOUS
  <2> QED BY <2>1, <2>2 DEF SectionIs
<1>2. Cut(F) /\ code \in Seq(Byte)
  BY ProgramIs DEF Written
<1> HIDE DEF code, F
<1>3. t \in Seq(Nat)
  <2>1. t \in Seq(Byte)
    BY <1>2, Scrambled
  <2>2. Byte \subseteq Nat
    BY DEF Byte
  <2> HIDE DEF t
  <2> QED BY <2>1, <2>2, Widened
<1>4. "xor" \in image.flags => xor_decode(t) = code
  BY <1>2, Decoded
<1>5. "xor" \notin image.flags => t = code
  OBVIOUS
<1> HIDE DEF t
<1>6. Len(PutString(t)) = Len(t) + 1
  BY <1>3, StringCells
<1>7. /\ Reached(rd_string(c), c, End(3) + (Len(t) + 1), F)
      /\ rd_string(c).st = "ok" => rd_string(c).v = t
  BY <1>1, <1>2, <1>3, StringAt
<1> QED BY <1>1, <1>4, <1>5, <1>6, <1>7 DEF ReadCode, code, F

\* So are the sections a file need not have: a file without the section has
\* no cells there,
LEMMA Absent ==
  ASSUME Written
  PROVE  /\ "debug" \notin image.flags => End(5) = End(4) /\ image.prog.dbg = <<>>
         /\ "assets" \notin image.flags => End(6) = End(5) /\ image.prog.assets = {}
         /\ "perms" \notin image.flags => End(7) = End(6) /\ image.prog.perms = <<>>
<1>1. \A k \in 1 .. 7 : SectionIs(k, <<>>) => End(k) = End(k - 1)
  <2>1. Len(<<>>) = 0
    OBVIOUS
  <2> QED BY <2>1 DEF SectionIs
<1>2. 5 \in 1 .. 7 /\ 6 \in 1 .. 7 /\ 7 \in 1 .. 7 /\ 5 - 1 = 4 /\ 6 - 1 = 5 /\ 7 - 1 = 6
  OBVIOUS
<1>3. /\ "debug" \notin image.flags => SectionIs(5, <<>>)
      /\ "assets" \notin image.flags => SectionIs(6, <<>>)
      /\ "perms" \notin image.flags => SectionIs(7, <<>>)
  BY SectionsAre DEF Optional
<1>4. "debug" \notin image.flags => End(5) = End(4)
  BY <1>1, <1>2, <1>3
<1>5. "assets" \notin image.flags => End(6) = End(5)
  BY <1>1, <1>2, <1>3
<1>6. "perms" \notin image.flags => End(7) = End(6)
  BY <1>1, <1>2, <1>3
<1> QED BY <1>4, <1>5, <1>6 DEF Written, Compiled

\* and one with it is read as it was written.
LEMMA DebugRead ==
  ASSUME Written, "debug" \in image.flags, NEW c, Placed(c, End(4))
  PROVE  /\ Reached(ReadDebug(c), c, End(5), Put(image))
         /\ ReadDebug(c).st = "ok" => ReadDebug(c).out = image.prog.dbg
<1> DEFINE x == image.prog.dbg
           F == Put(image)
           s == PutAll("line", image.ver, x)
<1>1. End(4) \in Nat /\ Holds(F, End(4), s) /\ End(5) = End(4) + Len(s)
  <2>1. SectionIs(5, s)
    BY SectionsAre DEF Optional
  <2>2. 5 - 1 = 4
    OBVIOUS
  <2> QED BY <2>1, <2>2 DEF SectionIs
<1>2. Cut(F) /\ image.ver \in Nat /\ x \in Seq(Line)
  BY ProgramIs DEF Written
<1> HIDE DEF x, F
<1>3. /\ Reached(ReadDebug(c), c, End(4) + Len(s), F)
      /\ (ReadDebug(c).st = "ok" => ReadDebug(c).out = x)
  BY <1>1, <1>2, LinesAt
<1> QED BY <1>1, <1>3 DEF x, F

\* The embedded assets are a set, written in some order.
LEMMA AssetsRead ==
  ASSUME Written, "assets" \in image.flags, NEW c, Placed(c, End(5))
  PROVE  /\ Reached(ReadAssets(c), c, End(6), Put(image))
         /\ ReadAssets(c).st = "ok" => Range(ReadAssets(c).out) = image.prog.assets
<1> DEFINE A == image.prog.assets
           x == SetToSeq(A)
           F == Put(image)
           s == PutAll("asset", image.ver, x)
<1>1. End(5) \in Nat /\ Holds(F, End(5), s) /\ End(6) = End(5) + Len(s)
  <2>1. SectionIs(6, s)
    BY SectionsAre DEF Optional
  <2>2. 6 - 1 = 5
    OBVIOUS
  <2> QED BY <2>1, <2>2 DEF SectionIs
<1>2. Cut(F) /\ image.ver \in Nat /\ A \subseteq Asset /\ IsFiniteSet(A)
  BY ProgramIs DEF Written, Compiled
<1>3. x \in Seq(A) /\ Range(x) = A
  <2> HIDE DEF A
  <2> QED BY <1>2, SetAsSeq
<1> HIDE DEF A, x, F
<1>4. x \in Seq(Asset)
  BY <1>2, <1>3, Widened
<1>5. /\ Reached(ReadAssets(c), c, End(5) + Len(s), F)
      /\ (ReadAssets(c).st = "ok" => ReadAssets(c).out = x)
  BY <1>1, <1>2, <1>4, AssetsAt
<1> QED BY <1>1, <1>3, <1>5 DEF A, F

\* The permissions come last.
LEMMA PermsRead ==
  ASSUME Written, "perms" \in image.flags, NEW c, Placed(c, End(6))
  PROVE  /\ Reached(rd_string(c), c, End(7), Put(image))
         /\ rd_string(c).st = "ok" => rd_string(c).v = image.prog.perms
<1> DEFINE x == image.prog.perms
           F == Put(image)
           s == PutString(x)
<1>1. End(6) \in Nat /\ Holds(F, End(6), s) /\ End(7) = End(6) + Len(s)
  <2>1. SectionIs(7, s)
    BY SectionsAre DEF Optional
  <2>2. 7 - 1 = 6
    OBVIOUS
  <2> QED BY <2>1, <2>2 DEF SectionIs
<1>2. Cut(F) /\ x \in Seq(Nat)
  BY ProgramIs DEF Written
<1> HIDE DEF x, F
<1>3. Len(s) = Len(x) + 1
  BY <1>2, StringCells
<1>4. /\ Reached(rd_string(c), c, End(6) + (Len(x) + 1), F)
      /\ (rd_string(c).st = "ok" => rd_string(c).v = x)
  BY <1>1, <1>2, StringAt
<1> QED BY <1>1, <1>3, <1>4 DEF x, F

\* The part of a program that its first k sections hold.
PartOf(p, k) ==
  [consts  |-> IF k > 0 THEN p.consts ELSE <<>>,
   funcs   |-> IF k > 1 THEN p.funcs ELSE <<>>,
   entryFn |-> IF k > 2 THEN p.entryFn ELSE 0,
   code    |-> IF k > 3 THEN p.code ELSE <<>>,
   dbg     |-> IF k > 4 THEN p.dbg ELSE <<>>,
   assets  |-> IF k > 5 THEN p.assets ELSE {},
   perms   |-> IF k > 6 THEN p.perms ELSE <<>>]

\* The first k sections have been read, or the file has been refused, which
\* an intact one is not.
ReadUpto(k) ==
  /\ todo = SubSeq(load_program_C, k + 1, 8)
  /\ Placed(cursor, End(k))
  /\ damage = "none" => cursor.st = "ok"
  /\ cursor.st = "ok" => prog = PartOf(image.prog, k)

\* The inductive invariant for the files that are intact or cut short.
WrittenInv ==
  engine \in {"C", "Cpp"} /\ damage \in {"none", "cut"} =>
    /\ Written
    /\ damage = "none" => Len(file) = Len(Put(image))
    /\ damage = "cut" => Len(file) < Len(Put(image))
    /\ \E k \in 0 .. 8 : ReadUpto(k)

\* What is left of a sequence behind its first k elements.
LEMMA Behind ==
  ASSUME NEW S, NEW s \in Seq(S), NEW k \in 0 .. Len(s)
  PROVE  LET rest(j) == SubSeq(s, j + 1, Len(s))
         IN  /\ rest(k) = <<>> <=> k = Len(s)
             /\ k < Len(s) => Head(rest(k)) = s[k + 1] /\ Tail(rest(k)) = rest(k + 1)
<1> DEFINE n == Len(s)
           r == SubSeq(s, k + 1, n)
           t == SubSeq(s, (k + 1) + 1, n)
<1>1. n \in Nat /\ k \in 0 .. n
  OBVIOUS
<1>2. r \in Seq(S) /\ Len(r) = n - k
  OBVIOUS
<1>3. r = <<>> <=> k = n
  <2> HIDE DEF r, n
  <2>1. r = <<>> <=> Len(r) = 0
    BY <1>2
  <2>2. Len(r) = 0 <=> k = n
    BY <1>1, <1>2
  <2> QED BY <2>1, <2>2
<1>4. ASSUME k < n PROVE Head(r) = s[k + 1] /\ Tail(r) = t
  <2>1. \A i \in 1 .. n - k : r[i] = s[k + i]
    OBVIOUS
  <2>2. t \in Seq(S) /\ Len(t) = n - (k + 1)
    BY <1>4
  <2>3. \A i \in 1 .. n - (k + 1) : t[i] = s[(k + 1) + i]
    BY <1>4
  <2>4. n - k >= 1 /\ 1 \in 1 .. n - k
    BY <1>1, <1>4
  <2> HIDE DEF r, t
  <2>5. Tail(r) \in Seq(S) /\ Len(Tail(r)) = Len(t) /\ Head(r) = r[1]
        /\ \A i \in 1 .. Len(t) : Tail(r)[i] = r[i + 1]
    BY <1>1, <1>2, <2>2, <2>4
  <2>6. \A i \in 1 .. Len(t) : Tail(r)[i] = t[i]
    <3> TAKE i \in 1 .. Len(t)
    <3>1. i \in 1 .. n - (k + 1) /\ i + 1 \in 1 .. n - k /\ k + (i + 1) = (k + 1) + i
      BY <1>1, <2>2
    <3> QED BY <2>1, <2>3, <2>5, <3>1
  <2> HIDE DEF n
  <2>7. Tail(r) = t
    BY <2>2, <2>5, <2>6
  <2> QED BY <2>1, <2>4, <2>5, <2>7
<1> QED BY <1>3, <1>4

\* The sections behind the k-th.
LEMMA Sections ==
  ASSUME NEW k \in 0 .. 8
  PROVE  LET rest(j) == SubSeq(load_program_C, j + 1, 8)
         IN  /\ rest(k) = <<>> <=> k = 8
             /\ k < 8 => Head(rest(k)) = load_program_C[k + 1] /\ Tail(rest(k)) = rest(k + 1)
<1> DEFINE s == load_program_C
           S == {"consts", "funcs", "entry", "code", "debug", "assets", "perms", "check"}
<1>1. s \in Seq(S) /\ Len(s) = 8
  BY DEF load_program_C
<1> HIDE DEF s, S
<1>2. /\ SubSeq(s, k + 1, Len(s)) = <<>> <=> k = Len(s)
      /\ k < Len(s) => /\ Head(SubSeq(s, k + 1, Len(s))) = s[k + 1]
                       /\ Tail(SubSeq(s, k + 1, Len(s))) = SubSeq(s, (k + 1) + 1, Len(s))
  <2>1. k \in 0 .. Len(s)
    BY <1>1
  <2> QED BY <1>1, <2>1, Behind
<1> QED BY <1>1, <1>2 DEF s

\* Which section comes next.
LEMMA NextSection ==
  ASSUME NEW k \in 0 .. 8, ReadUpto(k), NEW name, Section(name)
  PROVE  /\ k \in 0 .. 7 /\ load_program_C[k + 1] = name /\ cursor.st = "ok"
         /\ todo' = SubSeq(load_program_C, (k + 1) + 1, 8)
         /\ prog = PartOf(image.prog, k) /\ Placed(cursor, End(k))
         /\ UNCHANGED <<engine, image, file, damage>>
<1>1. todo # <<>> /\ Head(todo) = name /\ cursor.st = "ok" /\ todo' = Tail(todo)
      /\ UNCHANGED <<engine, image, file, damage>>
  BY DEF Section
<1>2. todo = SubSeq(load_program_C, k + 1, 8) /\ Placed(cursor, End(k))
      /\ prog = PartOf(image.prog, k)
  BY <1>1 DEF ReadUpto
<1>3. k < 8
  BY <1>1, <1>2, Sections
<1>4. /\ Head(todo) = load_program_C[k + 1]
      /\ Tail(todo) = SubSeq(load_program_C, (k + 1) + 1, 8)
  BY <1>2, <1>3, Sections
<1> QED BY <1>1, <1>2, <1>3, <1>4

\* A section's place among the others.
LEMMA PlaceOf ==
  ASSUME NEW k \in 0 .. 7
  PROVE  /\ load_program_C[k + 1] = "consts" => k = 0
         /\ load_program_C[k + 1] = "funcs" => k = 1
         /\ load_program_C[k + 1] = "entry" => k = 2
         /\ load_program_C[k + 1] = "code" => k = 3
         /\ load_program_C[k + 1] = "debug" => k = 4
         /\ load_program_C[k + 1] = "assets" => k = 5
         /\ load_program_C[k + 1] = "perms" => k = 6
         /\ load_program_C[k + 1] = "check" => k = 7
<1>1. /\ load_program_C[1] = "consts" /\ load_program_C[2] = "funcs"
      /\ load_program_C[3] = "entry" /\ load_program_C[4] = "code"
      /\ load_program_C[5] = "debug" /\ load_program_C[6] = "assets"
      /\ load_program_C[7] = "perms" /\ load_program_C[8] = "check"
  BY DEF load_program_C
<1>2. k \in {0, 1, 2, 3, 4, 5, 6, 7}
  OBVIOUS
<1> QED BY <1>1, <1>2

\* A section that is read as it was written leads from one part of the file
\* to the next.
LEMMA Continues ==
  ASSUME Written, damage = "none" => Len(file) = Len(Put(image)), cursor.st = "ok",
         NEW k \in 0 .. 7, todo' = SubSeq(load_program_C, (k + 1) + 1, 8),
         UNCHANGED <<engine, image, file, damage>>,
         NEW r, Reached(r, cursor, End(k + 1), Put(image)), NEW read, Into(r, read),
         r.st = "ok" => read = PartOf(image.prog, k + 1)
  PROVE  ReadUpto(k + 1)'
<1> DEFINE g == [r EXCEPT !.v = <<>>, !.out = <<>>]
<1>1. Inside(r) /\ (r.st = "ok" => r.pos = End(k + 1)) /\ (damage = "none" => r.st = "ok")
  BY DEF Reached, Placed
<1>2. g.st = r.st /\ g.pos = r.pos
  BY <1>1 DEF Inside, Cursor
<1>3. cursor' = g
  BY DEF Into
<1> HIDE DEF g
<1>4. Inside(cursor)'
  BY <1>1, IntoInside
<1>5. End(k + 1)' = End(k + 1)
  BY DEF End
<1>6. Placed(cursor, End(k + 1))'
  BY <1>1, <1>2, <1>3, <1>4, <1>5 DEF Placed
<1>7. (cursor.st = "ok" => prog = PartOf(image.prog, k + 1))'
  BY <1>2, <1>3 DEF Into
<1> QED BY <1>1, <1>2, <1>3, <1>6, <1>7 DEF ReadUpto

\* So does one the file does not have.
LEMMA Skips ==
  ASSUME Written, cursor.st = "ok", NEW k \in 0 .. 7,
         todo' = SubSeq(load_program_C, (k + 1) + 1, 8),
         UNCHANGED <<engine, image, file, damage, cursor, prog>>,
         Placed(cursor, End(k)), End(k + 1) = End(k),
         prog = PartOf(image.prog, k + 1)
  PROVE  ReadUpto(k + 1)'
<1>1. Inside(cursor)'
  BY DEF Placed, Inside
<1>2. End(k + 1)' = End(k + 1)
  BY DEF End
<1>3. Placed(cursor, End(k + 1))'
  BY <1>1, <1>2 DEF Placed
<1> QED BY <1>3 DEF ReadUpto

\* A program, part by part.
Made(a, b, c, d, e, f, g) ==
  [consts |-> a, funcs |-> b, entryFn |-> c, code |-> d, dbg |-> e, assets |-> f, perms |-> g]

\* The parts of a program one by one, and in turn.
LEMMA PartIs ==
  ASSUME NEW p
  PROVE  LET n == <<>>
         IN  /\ PartOf(p, 0) = Made(n, n, 0, n, n, {}, n)
             /\ PartOf(p, 1) = Made(p.consts, n, 0, n, n, {}, n)
             /\ PartOf(p, 2) = Made(p.consts, p.funcs, 0, n, n, {}, n)
             /\ PartOf(p, 3) = Made(p.consts, p.funcs, p.entryFn, n, n, {}, n)
             /\ PartOf(p, 4) = Made(p.consts, p.funcs, p.entryFn, p.code, n, {}, n)
             /\ PartOf(p, 5) = Made(p.consts, p.funcs, p.entryFn, p.code, p.dbg, {}, n)
             /\ PartOf(p, 6) = Made(p.consts, p.funcs, p.entryFn, p.code, p.dbg, p.assets, n)
             /\ PartOf(p, 7) = Made(p.consts, p.funcs, p.entryFn, p.code, p.dbg, p.assets, p.perms)
             /\ PartOf(p, 8) = Made(p.consts, p.funcs, p.entryFn, p.code, p.dbg, p.assets, p.perms)
BY DEF PartOf, Made

\* The next section makes the next part.
LEMMA PartNext ==
  ASSUME NEW p
  PROVE  /\ [PartOf(p, 0) EXCEPT !.consts = p.consts] = PartOf(p, 1)
         /\ [PartOf(p, 1) EXCEPT !.funcs = p.funcs] = PartOf(p, 2)
         /\ [PartOf(p, 2) EXCEPT !.entryFn = p.entryFn] = PartOf(p, 3)
         /\ [PartOf(p, 3) EXCEPT !.code = p.code] = PartOf(p, 4)
         /\ [PartOf(p, 4) EXCEPT !.dbg = p.dbg] = PartOf(p, 5)
         /\ [PartOf(p, 5) EXCEPT !.assets = p.assets] = PartOf(p, 6)
         /\ [PartOf(p, 6) EXCEPT !.perms = p.perms] = PartOf(p, 7)
         /\ PartOf(p, 7) = PartOf(p, 8)
         /\ p.dbg = <<>> => PartOf(p, 4) = PartOf(p, 5)
         /\ p.assets = {} => PartOf(p, 5) = PartOf(p, 6)
         /\ p.perms = <<>> => PartOf(p, 6) = PartOf(p, 7)
<1>1. [PartOf(p, 0) EXCEPT !.consts = p.consts] = PartOf(p, 1)
  <2>1. ASSUME NEW a, NEW b, NEW c, NEW d, NEW e, NEW f, NEW g, NEW x
        PROVE  [Made(a, b, c, d, e, f, g) EXCEPT !.consts = x]
                 = Made(x, b, c, d, e, f, g)
    BY DEF Made
  <2>2. [Made(<<>>, <<>>, 0, <<>>, <<>>, {}, <<>>) EXCEPT !.consts = p.consts]
          = Made(p.consts, <<>>, 0, <<>>, <<>>, {}, <<>>)
    BY <2>1
  <2> QED BY <2>2, PartIs, Zenon
<1>2. [PartOf(p, 1) EXCEPT !.funcs = p.funcs] = PartOf(p, 2)
  <2>1. ASSUME NEW a, NEW b, NEW c, NEW d, NEW e, NEW f, NEW g, NEW x
        PROVE  [Made(a, b, c, d, e, f, g) EXCEPT !.funcs = x]
                 = Made(a, x, c, d, e, f, g)
    BY DEF Made
  <2>2. [Made(p.consts, <<>>, 0, <<>>, <<>>, {}, <<>>) EXCEPT !.funcs = p.funcs]
          = Made(p.consts, p.funcs, 0, <<>>, <<>>, {}, <<>>)
    BY <2>1
  <2> QED BY <2>2, PartIs, Zenon
<1>3. [PartOf(p, 2) EXCEPT !.entryFn = p.entryFn] = PartOf(p, 3)
  <2>1. ASSUME NEW a, NEW b, NEW c, NEW d, NEW e, NEW f, NEW g, NEW x
        PROVE  [Made(a, b, c, d, e, f, g) EXCEPT !.entryFn = x]
                 = Made(a, b, x, d, e, f, g)
    BY DEF Made
  <2>2. [Made(p.consts, p.funcs, 0, <<>>, <<>>, {}, <<>>) EXCEPT !.entryFn = p.entryFn]
          = Made(p.consts, p.funcs, p.entryFn, <<>>, <<>>, {}, <<>>)
    BY <2>1
  <2> QED BY <2>2, PartIs, Zenon
<1>4. [PartOf(p, 3) EXCEPT !.code = p.code] = PartOf(p, 4)
  <2>1. ASSUME NEW a, NEW b, NEW c, NEW d, NEW e, NEW f, NEW g, NEW x
        PROVE  [Made(a, b, c, d, e, f, g) EXCEPT !.code = x]
                 = Made(a, b, c, x, e, f, g)
    BY DEF Made
  <2>2. [Made(p.consts, p.funcs, p.entryFn, <<>>, <<>>, {}, <<>>) EXCEPT !.code = p.code]
          = Made(p.consts, p.funcs, p.entryFn, p.code, <<>>, {}, <<>>)
    BY <2>1
  <2> QED BY <2>2, PartIs, Zenon
<1>5. [PartOf(p, 4) EXCEPT !.dbg = p.dbg] = PartOf(p, 5)
  <2>1. ASSUME NEW a, NEW b, NEW c, NEW d, NEW e, NEW f, NEW g, NEW x
        PROVE  [Made(a, b, c, d, e, f, g) EXCEPT !.dbg = x]
                 = Made(a, b, c, d, x, f, g)
    BY DEF Made
  <2>2. [Made(p.consts, p.funcs, p.entryFn, p.code, <<>>, {}, <<>>) EXCEPT !.dbg = p.dbg]
          = Made(p.consts, p.funcs, p.entryFn, p.code, p.dbg, {}, <<>>)
    BY <2>1
  <2> QED BY <2>2, PartIs, Zenon
<1>6. [PartOf(p, 5) EXCEPT !.assets = p.assets] = PartOf(p, 6)
  <2>1. ASSUME NEW a, NEW b, NEW c, NEW d, NEW e, NEW f, NEW g, NEW x
        PROVE  [Made(a, b, c, d, e, f, g) EXCEPT !.assets = x]
                 = Made(a, b, c, d, e, x, g)
    BY DEF Made
  <2>2. [Made(p.consts, p.funcs, p.entryFn, p.code, p.dbg, {}, <<>>) EXCEPT !.assets = p.assets]
          = Made(p.consts, p.funcs, p.entryFn, p.code, p.dbg, p.assets, <<>>)
    BY <2>1
  <2> QED BY <2>2, PartIs, Zenon
<1>7. [PartOf(p, 6) EXCEPT !.perms = p.perms] = PartOf(p, 7)
  <2>1. ASSUME NEW a, NEW b, NEW c, NEW d, NEW e, NEW f, NEW g, NEW x
        PROVE  [Made(a, b, c, d, e, f, g) EXCEPT !.perms = x]
                 = Made(a, b, c, d, e, f, x)
    BY DEF Made
  <2>2. [Made(p.consts, p.funcs, p.entryFn, p.code, p.dbg, p.assets, <<>>) EXCEPT !.perms = p.perms]
          = Made(p.consts, p.funcs, p.entryFn, p.code, p.dbg, p.assets, p.perms)
    BY <2>1
  <2> QED BY <2>2, PartIs, Zenon
<1>8. PartOf(p, 7) = PartOf(p, 8)
  BY PartIs, Zenon
<1>9. p.dbg = <<>> => PartOf(p, 4) = PartOf(p, 5)
  BY PartIs, Zenon
<1>10. p.assets = {} => PartOf(p, 5) = PartOf(p, 6)
  BY PartIs, Zenon
<1>11. p.perms = <<>> => PartOf(p, 6) = PartOf(p, 7)
  BY PartIs, Zenon
<1> QED BY <1>1, <1>2, <1>3, <1>4, <1>5, <1>6, <1>7, <1>8, <1>9, <1>10, <1>11

\* Every section that is read leads from one part of the file to the next.
LEMMA SectionStep ==
  ASSUME Written, damage = "none" => Len(file) = Len(Put(image)), engine # "none",
         NEW k \in 0 .. 8, ReadUpto(k), LoadNext
  PROVE  \E j \in 0 .. 8 : ReadUpto(j)'
<1> DEFINE p == image.prog
<1>2. ASSUME NEW i \in 0 .. 7, ReadUpto(i + 1)' PROVE \E j \in 0 .. 8 : ReadUpto(j)'
  <2>1. i + 1 \in 0 .. 8
    OBVIOUS
  <2> QED BY <1>2, <2>1
<1>3. CASE LoadConsts
  <2>1. Section("consts")
    BY <1>3 DEF LoadConsts
  <2>2. /\ k \in 0 .. 7 /\ load_program_C[k + 1] = "consts" /\ cursor.st = "ok"
        /\ todo' = SubSeq(load_program_C, (k + 1) + 1, 8)
        /\ prog = PartOf(p, k) /\ Placed(cursor, End(k))
        /\ UNCHANGED <<engine, image, file, damage>>
    BY <2>1, NextSection
  <2>3. k = 0 /\ k + 1 = 1
    <3>1. k = 0
      BY <2>2, PlaceOf, Zenon
    <3> QED BY <3>1
  <2> DEFINE r == ReadConsts(cursor)
             read == [prog EXCEPT !.consts = r.out]
  <2>4. Into(r, read)
    BY <1>3 DEF LoadConsts
  <2>5. Reached(r, cursor, End(k + 1), Put(image)) /\ (r.st = "ok" => r.out = p.consts)
    BY <2>2, <2>3, DefinitionsRead
  <2> HIDE DEF r
  <2>6. r.st = "ok" => read = PartOf(p, k + 1)
    BY <2>2, <2>3, <2>5, PartNext
  <2> HIDE DEF read, p
  <2>7. ReadUpto(k + 1)'
    BY <2>2, <2>4, <2>5, <2>6, Continues DEF p
  <2> QED BY <1>2, <2>2, <2>7
<1>4. CASE LoadFuncs
  <2>1. Section("funcs")
    BY <1>4 DEF LoadFuncs
  <2>2. /\ k \in 0 .. 7 /\ load_program_C[k + 1] = "funcs" /\ cursor.st = "ok"
        /\ todo' = SubSeq(load_program_C, (k + 1) + 1, 8)
        /\ prog = PartOf(p, k) /\ Placed(cursor, End(k))
        /\ UNCHANGED <<engine, image, file, damage>>
    BY <2>1, NextSection
  <2>3. k = 1 /\ k + 1 = 2
    <3>1. k = 1
      BY <2>2, PlaceOf, Zenon
    <3> QED BY <3>1
  <2> DEFINE r == ReadFuncs(cursor)
             read == [prog EXCEPT !.funcs = r.out]
  <2>4. Into(r, read)
    BY <1>4 DEF LoadFuncs
  <2>5. prog.consts = p.consts
    BY <2>2, <2>3 DEF PartOf
  <2>6. Reached(r, cursor, End(k + 1), Put(image)) /\ (r.st = "ok" => r.out = p.funcs)
    BY <2>2, <2>3, <2>5, DefinitionsRead
  <2> HIDE DEF r
  <2>7. r.st = "ok" => read = PartOf(p, k + 1)
    BY <2>2, <2>3, <2>6, PartNext
  <2> HIDE DEF read, p
  <2>8. ReadUpto(k + 1)'
    BY <2>2, <2>4, <2>6, <2>7, Continues DEF p
  <2> QED BY <1>2, <2>2, <2>8
<1>5. CASE LoadEntry
  <2>1. Section("entry")
    BY <1>5 DEF LoadEntry
  <2>2. /\ k \in 0 .. 7 /\ load_program_C[k + 1] = "entry" /\ cursor.st = "ok"
        /\ todo' = SubSeq(load_program_C, (k + 1) + 1, 8)
        /\ prog = PartOf(p, k) /\ Placed(cursor, End(k))
        /\ UNCHANGED <<engine, image, file, damage>>
    BY <2>1, NextSection
  <2>3. k = 2 /\ k + 1 = 3
    <3>1. k = 2
      BY <2>2, PlaceOf, Zenon
    <3> QED BY <3>1
  <2> DEFINE r == ReadEntry(cursor)
             read == [prog EXCEPT !.entryFn = One(r)]
  <2>4. Into(r, read)
    BY <1>5 DEF LoadEntry
  <2>5. prog.funcs = p.funcs
    BY <2>2, <2>3 DEF PartOf
  <2>6. Reached(r, cursor, End(k + 1), Put(image)) /\ (r.st = "ok" => One(r) = p.entryFn)
    BY <2>2, <2>3, <2>5, EntryFnRead
  <2> HIDE DEF r
  <2>7. r.st = "ok" => read = PartOf(p, k + 1)
    BY <2>2, <2>3, <2>6, PartNext, SMTT(30)
  <2> HIDE DEF read, p
  <2>8. ReadUpto(k + 1)'
    BY <2>2, <2>4, <2>6, <2>7, Continues DEF p
  <2> QED BY <1>2, <2>2, <2>8
<1>6. CASE LoadCode
  <2>1. Section("code")
    BY <1>6 DEF LoadCode
  <2>2. /\ k \in 0 .. 7 /\ load_program_C[k + 1] = "code" /\ cursor.st = "ok"
        /\ todo' = SubSeq(load_program_C, (k + 1) + 1, 8)
        /\ prog = PartOf(p, k) /\ Placed(cursor, End(k))
        /\ UNCHANGED <<engine, image, file, damage>>
    BY <2>1, NextSection
  <2>3. k = 3 /\ k + 1 = 4
    <3>1. k = 3
      BY <2>2, PlaceOf, Zenon
    <3> QED BY <3>1
  <2> DEFINE r == ReadCode(cursor)
             plain == IF "xor" \in image.flags THEN xor_decode(r.v) ELSE r.v
             read == [prog EXCEPT !.code = plain]
  <2>4. Into(r, read)
    BY <1>6 DEF LoadCode
  <2>5. Reached(r, cursor, End(k + 1), Put(image)) /\ (r.st = "ok" => plain = p.code)
    BY <2>2, <2>3, CodeRead
  <2> HIDE DEF r, plain
  <2>6. r.st = "ok" => read = PartOf(p, k + 1)
    BY <2>2, <2>3, <2>5, PartNext
  <2> HIDE DEF read, p
  <2>7. ReadUpto(k + 1)'
    BY <2>2, <2>4, <2>5, <2>6, Continues DEF p
  <2> QED BY <1>2, <2>2, <2>7
<1>7. CASE LoadDebug
  <2>1. Section("debug")
    BY <1>7 DEF LoadDebug
  <2>2. /\ k \in 0 .. 7 /\ load_program_C[k + 1] = "debug" /\ cursor.st = "ok"
        /\ todo' = SubSeq(load_program_C, (k + 1) + 1, 8)
        /\ prog = PartOf(p, k) /\ Placed(cursor, End(k))
        /\ UNCHANGED <<engine, image, file, damage>>
    BY <2>1, NextSection
  <2>3. k = 4 /\ k + 1 = 5
    <3>1. k = 4
      BY <2>2, PlaceOf, Zenon
    <3> QED BY <3>1
  <2> DEFINE r == ReadDebug(cursor)
             read == [prog EXCEPT !.dbg = r.out]
  <2>4. CASE "debug" \in image.flags
    <3>1. Into(r, read)
      BY <1>7, <2>4 DEF LoadDebug
    <3>2. Reached(r, cursor, End(k + 1), Put(image)) /\ (r.st = "ok" => r.out = p.dbg)
      BY <2>2, <2>3, <2>4, DebugRead
    <3> HIDE DEF r
    <3>3. r.st = "ok" => read = PartOf(p, k + 1)
      BY <2>2, <2>3, <3>2, PartNext
    <3> HIDE DEF read, p
    <3>4. ReadUpto(k + 1)'
      BY <2>2, <3>1, <3>2, <3>3, Continues DEF p
    <3> QED BY <1>2, <2>2, <3>4
  <2>5. CASE "debug" \notin image.flags
    <3>1. UNCHANGED <<cursor, prog>>
      BY <1>7, <2>5 DEF LoadDebug
    <3>2. End(k + 1) = End(k) /\ p.dbg = <<>>
      BY <2>3, <2>5, Absent
    <3>3. prog = PartOf(p, k + 1)
      BY <2>2, <2>3, <3>2, PartNext
    <3>4. ReadUpto(k + 1)'
      BY <2>2, <3>1, <3>2, <3>3, Skips
    <3> QED BY <1>2, <2>2, <3>4
  <2> QED BY <2>4, <2>5
<1>8. CASE LoadAssets
  <2>1. Section("assets")
    BY <1>8 DEF LoadAssets
  <2>2. /\ k \in 0 .. 7 /\ load_program_C[k + 1] = "assets" /\ cursor.st = "ok"
        /\ todo' = SubSeq(load_program_C, (k + 1) + 1, 8)
        /\ prog = PartOf(p, k) /\ Placed(cursor, End(k))
        /\ UNCHANGED <<engine, image, file, damage>>
    BY <2>1, NextSection
  <2>3. k = 5 /\ k + 1 = 6
    <3>1. k = 5
      BY <2>2, PlaceOf, Zenon
    <3> QED BY <3>1
  <2> DEFINE r == ReadAssets(cursor)
             found == Range(r.out)
             read == [prog EXCEPT !.assets = found]
  <2>4. CASE "assets" \in image.flags
    <3>1. Into(r, read)
      BY <1>8, <2>4 DEF LoadAssets
    <3>2. Reached(r, cursor, End(k + 1), Put(image)) /\ (r.st = "ok" => found = p.assets)
      BY <2>2, <2>3, <2>4, AssetsRead
    <3> HIDE DEF r, found
    <3>3. r.st = "ok" => read = PartOf(p, k + 1)
      BY <2>2, <2>3, <3>2, PartNext
    <3> HIDE DEF read, p
    <3>4. ReadUpto(k + 1)'
      BY <2>2, <3>1, <3>2, <3>3, Continues DEF p
    <3> QED BY <1>2, <2>2, <3>4
  <2>5. CASE "assets" \notin image.flags
    <3>1. UNCHANGED <<cursor, prog>>
      BY <1>8, <2>5 DEF LoadAssets
    <3>2. End(k + 1) = End(k) /\ p.assets = {}
      BY <2>3, <2>5, Absent
    <3>3. prog = PartOf(p, k + 1)
      BY <2>2, <2>3, <3>2, PartNext
    <3>4. ReadUpto(k + 1)'
      BY <2>2, <3>1, <3>2, <3>3, Skips
    <3> QED BY <1>2, <2>2, <3>4
  <2> QED BY <2>4, <2>5
<1>9. CASE LoadPerms
  <2>1. Section("perms")
    BY <1>9 DEF LoadPerms
  <2>2. /\ k \in 0 .. 7 /\ load_program_C[k + 1] = "perms" /\ cursor.st = "ok"
        /\ todo' = SubSeq(load_program_C, (k + 1) + 1, 8)
        /\ prog = PartOf(p, k) /\ Placed(cursor, End(k))
        /\ UNCHANGED <<engine, image, file, damage>>
    BY <2>1, NextSection
  <2>3. k = 6 /\ k + 1 = 7
    <3>1. k = 6
      BY <2>2, PlaceOf, Zenon
    <3> QED BY <3>1
  <2> DEFINE r == rd_string(cursor)
             read == [prog EXCEPT !.perms = r.v]
  <2>4. CASE "perms" \in image.flags
    <3>1. Into(r, read)
      BY <1>9, <2>4 DEF LoadPerms
    <3>2. Reached(r, cursor, End(k + 1), Put(image)) /\ (r.st = "ok" => r.v = p.perms)
      BY <2>2, <2>3, <2>4, PermsRead
    <3> HIDE DEF r
    <3>3. r.st = "ok" => read = PartOf(p, k + 1)
      BY <2>2, <2>3, <3>2, PartNext
    <3> HIDE DEF read, p
    <3>4. ReadUpto(k + 1)'
      BY <2>2, <3>1, <3>2, <3>3, Continues DEF p
    <3> QED BY <1>2, <2>2, <3>4
  <2>5. CASE "perms" \notin image.flags
    <3>1. UNCHANGED <<cursor, prog>>
      BY <1>9, <2>5 DEF LoadPerms
    <3>2. End(k + 1) = End(k) /\ p.perms = <<>>
      BY <2>3, <2>5, Absent
    <3>3. prog = PartOf(p, k + 1)
      BY <2>2, <2>3, <3>2, PartNext
    <3>4. ReadUpto(k + 1)'
      BY <2>2, <3>1, <3>2, <3>3, Skips
    <3> QED BY <1>2, <2>2, <3>4
  <2> QED BY <2>4, <2>5
<1>10. CASE CheckEntries
  <2>1. Section("check")
    BY <1>10 DEF CheckEntries
  <2>2. /\ k \in 0 .. 7 /\ load_program_C[k + 1] = "check" /\ cursor.st = "ok"
        /\ todo' = SubSeq(load_program_C, (k + 1) + 1, 8)
        /\ prog = PartOf(p, k) /\ Placed(cursor, End(k))
        /\ UNCHANGED <<engine, image, file, damage>>
    BY <2>1, NextSection
  <2>3. k = 7 /\ k + 1 = 8
    <3>1. k = 7
      BY <2>2, PlaceOf, Zenon
    <3> QED BY <3>1
  <2>4. prog.funcs = p.funcs /\ prog.code = p.code /\ prog = PartOf(p, k + 1)
    <3>1. prog = PartOf(p, 7)
      BY <2>2, <2>3
    <3>2. prog = PartOf(p, 8)
      BY <3>1, PartNext
    <3> QED BY <2>3, <3>1, <3>2 DEF PartOf
  <2>5. ~ \E i \in DOMAIN prog.funcs : prog.funcs[i].entry > Len(prog.code)
    <3>1. \A i \in 1 .. Len(p.funcs) : p.funcs[i].entry <= Len(p.code)
      BY ProgramIs
    <3>2. p.funcs \in Seq(Function) /\ p.code \in Seq(Byte)
      BY ProgramIs
    <3>3. DOMAIN p.funcs = 1 .. Len(p.funcs) /\ Len(p.code) \in Nat
          /\ \A i \in 1 .. Len(p.funcs) : p.funcs[i].entry \in Nat
      <4> HIDE DEF p
      <4>1. DOMAIN p.funcs = 1 .. Len(p.funcs) /\ Len(p.code) \in Nat
        BY <3>2
      <4>2. \A i \in 1 .. Len(p.funcs) : p.funcs[i] \in Function
        BY <3>2
      <4>3. \A f \in Function : f.entry \in Nat
        BY DEF Function
      <4> QED BY <4>1, <4>2, <4>3
    <3> HIDE DEF p
    <3>4. \A i \in 1 .. Len(p.funcs) : ~ (p.funcs[i].entry > Len(p.code))
      BY <3>1, <3>3
    <3> QED BY <2>4, <3>3, <3>4
  <2>6. UNCHANGED <<cursor, prog>>
    BY <1>10, <2>5 DEF CheckEntries
  <2>7. End(k + 1) = End(k)
    BY <2>3 DEF End, Upto
  <2>8. ReadUpto(k + 1)'
    BY <2>2, <2>4, <2>6, <2>7, Skips
  <2> QED BY <1>2, <2>2, <2>8
<1> QED BY <1>3, <1>4, <1>5, <1>6, <1>7, <1>8, <1>9, <1>10 DEF LoadNext, OpenFile

\* A file that is opened intact, or cut short, is what was written or its
\* beginning.
LEMMA OpenWritten ==
  ASSUME NEW e \in Engines, NEW img \in Images, OpenFile(e, img), prog = EmptyProg
  PROVE  WrittenInv'
<1> DEFINE F == Put(img)
<1>1. Compiled(img) /\ F \in Seq(Nat)
  BY LoaderAssumption, FileCells
<1>2. engine' = e /\ image' = img /\ file' \in Seq(Nat) /\ Inside(cursor)'
      /\ todo' = SectionsOf(e) /\ prog' = EmptyProg
  BY OpenInside DEF OpenFile
<1>3. PICK d \in Damages(F) :
        file' = d.cells /\ damage' = d.kind
        /\ cursor' = IF d.kind = "header" THEN [Start EXCEPT !.st = "fatal"] ELSE Start
  BY DEF OpenFile
<1> SUFFICES ASSUME e \in {"C", "Cpp"}, d.kind \in {"none", "cut"} PROVE WrittenInv'
  BY <1>2, <1>3 DEF WrittenInv
<1> HIDE DEF F
<1>4. /\ Len(file') <= Len(F) /\ \A i \in 1 .. Len(file') : file'[i] = F[i]
      /\ d.kind = "none" => Len(file') = Len(F)
      /\ d.kind = "cut" => Len(file') < Len(F)
  <2>1. CASE d \in [kind : {"none", "header"}, cells : {F}]
    <3>1. d.cells = F /\ d.kind # "cut"
      BY <2>1
    <3>2. Len(F) \in Nat
      BY <1>1
    <3> QED BY <1>3, <3>1, <3>2
  <2>2. ASSUME NEW n \in 0 .. Len(F) - 1, d = [kind |-> "cut", cells |-> SubSeq(F, 1, n)]
        PROVE  /\ Len(file') <= Len(F) /\ \A i \in 1 .. Len(file') : file'[i] = F[i]
               /\ d.kind = "none" => Len(file') = Len(F)
               /\ d.kind = "cut" => Len(file') < Len(F)
    <3>1. d.kind = "cut" /\ file' = SubSeq(F, 1, n)
      BY <1>3, <2>2
    <3>2. Len(SubSeq(F, 1, n)) = n /\ \A i \in 1 .. n : SubSeq(F, 1, n)[i] = F[i]
      BY <1>1
    <3>3. Len(F) \in Nat
      BY <1>1
    <3> QED BY <3>1, <3>2, <3>3
  <2>3. ASSUME NEW i \in DOMAIN F, NEW b \in BadCells,
               d = [kind |-> "cell", cells |-> [F EXCEPT ![i] = b]]
        PROVE  FALSE
    BY <2>3
  <2> QED BY <2>1, <2>2, <2>3 DEF Damages
<1>5. cursor' = Start
  BY <1>3
<1>6. Written'
  <2>1. Cut(Put(image))'
    BY <1>1, <1>2, <1>4 DEF Cut, Bytes, F
  <2> QED BY <1>1, <1>2, <2>1 DEF Written
<1>7. ReadUpto(0)'
  <2>1. todo' = load_program_C
    BY <1>2 DEF SectionsOf, load_program_C, load_program_Cpp
  <2>2. load_program_C = SubSeq(load_program_C, 0 + 1, 8)
    <3> DEFINE s == load_program_C
               S == {"consts", "funcs", "entry", "code", "debug", "assets", "perms", "check"}
    <3>1. s \in Seq(S) /\ Len(s) = 8
      BY DEF load_program_C
    <3> HIDE DEF s, S
    <3>2. SubSeq(s, 1, Len(s)) = s
      BY <3>1, AllOfIt
    <3> QED BY <3>1, <3>2 DEF s
  <2>3. End(0)' = 0
    <3>1. Upto(img, 0) = <<>>
      BY DEF Upto
    <3> QED BY <1>2, <3>1 DEF End
  <2>4. cursor'.pos = 0 /\ cursor'.st = "ok"
    BY <1>5 DEF Start
  <2>5. Placed(cursor, End(0))'
    BY <1>2, <2>3, <2>4 DEF Placed
  <2>6. PartOf(img.prog, 0) = EmptyProg
    BY DEF PartOf, EmptyProg
  <2> QED BY <1>2, <2>1, <2>2, <2>4, <2>5, <2>6 DEF ReadUpto
<1>8. 0 \in 0 .. 8
  OBVIOUS
<1> QED BY <1>2, <1>3, <1>4, <1>6, <1>7, <1>8 DEF WrittenInv, F

\* Before a file is opened nothing has been read.
Unread == engine = "none" => prog = EmptyProg

\* The invariant holds in every step.
LEMMA WrittenStep ==
  ASSUME Unread, WrittenInv, engine \in {"none", "C", "Cpp", "Go"}, [LoadNext]_loadvars
  PROVE  Unread' /\ WrittenInv'
<1>1. CASE UNCHANGED loadvars
  <2>1. engine' = engine /\ image' = image /\ file' = file /\ damage' = damage /\ todo' = todo
        /\ cursor' = cursor /\ prog' = prog
    BY <1>1 DEF loadvars
  <2>2. Unread'
    BY <2>1 DEF Unread
  <2>3. WrittenInv'
    BY <2>1 DEF WrittenInv, Written, Cut, Bytes, ReadUpto, Placed, Inside, End
  <2> QED BY <2>2, <2>3
<1>2. CASE LoadNext /\ engine = "none"
  <2>1. PICK e \in Engines, img \in Images : OpenFile(e, img)
    BY <1>2 DEF LoadNext, LoadConsts, LoadFuncs, LoadEntry, LoadCode, LoadDebug, LoadAssets,
                LoadPerms, CheckEntries, Section
  <2>2. e # "none" /\ engine' = e
    BY <2>1, LoaderAssumption DEF OpenFile
  <2>3. WrittenInv'
    BY <1>2, <2>1, OpenWritten DEF Unread
  <2> QED BY <2>2, <2>3 DEF Unread
<1>3. CASE LoadNext /\ engine # "none"
  <2>1. engine' = engine /\ image' = image /\ file' = file /\ damage' = damage
    BY <1>3 DEF LoadNext, OpenFile, LoadConsts, LoadFuncs, LoadEntry, LoadCode, LoadDebug,
                LoadAssets, LoadPerms, CheckEntries, Section
  <2>2. ASSUME engine \in {"C", "Cpp"}, damage \in {"none", "cut"}
        PROVE  Written' /\ \E j \in 0 .. 8 : ReadUpto(j)'
    <3>1. Written /\ (damage = "none" => Len(file) = Len(Put(image)))
      BY <2>2 DEF WrittenInv
    <3>2. PICK k \in 0 .. 8 : ReadUpto(k)
      BY <2>2 DEF WrittenInv
    <3>3. \E j \in 0 .. 8 : ReadUpto(j)'
      BY <1>3, <3>1, <3>2, SectionStep
    <3>4. Written'
      BY <2>1, <3>1 DEF Written, Cut, Bytes
    <3> QED BY <3>3, <3>4
  <2>3. WrittenInv'
    BY <2>1, <2>2 DEF WrittenInv
  <2> QED BY <1>3, <2>1, <2>3 DEF Unread
<1> QED BY <1>1, <1>2, <1>3

\* What the invariant says of a file that has been read to its end.
LEMMA WrittenMeans ==
  ASSUME WrittenInv
  PROVE  LoadsWhatWasWritten
<1> SUFFICES ASSUME Over, engine \in {"C", "Cpp"}
             PROVE  /\ damage = "none" => Loaded /\ prog = image.prog
                    /\ damage = "cut" => ~Loaded
  BY DEF LoadsWhatWasWritten
<1>1. ASSUME damage \in {"none", "cut"}, todo = <<>>, cursor.st = "ok"
      PROVE  prog = image.prog /\ damage # "cut"
  <2>1. PICK k \in 0 .. 8 : ReadUpto(k)
    BY <1>1 DEF WrittenInv
  <2>2. k = 8
    BY <1>1, <2>1, Sections DEF ReadUpto
  <2>3. prog = PartOf(image.prog, 8) /\ cursor.pos = End(8) /\ cursor.pos <= Len(file)
    BY <1>1, <2>1, <2>2 DEF ReadUpto, Placed, Inside
  <2>4. Written
    BY <1>1 DEF WrittenInv
  <2>5. PartOf(image.prog, 8) = image.prog
    <3>1. image.prog \in Program
      BY <2>4, ProgramIs
    <3> DEFINE p == image.prog
    <3> HIDE DEF p
    <3>2. p \in Program
      BY <3>1 DEF p
    <3>3. p = Made(p.consts, p.funcs, p.entryFn, p.code, p.dbg, p.assets, p.perms)
      BY <3>2 DEF Program, Made
    <3>4. PartOf(p, 8) = p
      BY <3>3, PartIs, Zenon
    <3> QED BY <3>4 DEF p
  <2>6. damage # "cut"
    <3>1. End(8) = Len(Put(image))
      BY DEF End, Upto
    <3>2. Put(image) \in Seq(Nat) /\ file \in Seq(Nat)
      BY <2>4 DEF Written, Cut, Bytes
    <3>3. damage = "cut" => Len(file) < Len(Put(image))
      BY <1>1 DEF WrittenInv
    <3>4. Len(Put(image)) \in Nat /\ Len(file) \in Nat
      BY <3>2
    <3> QED BY <2>3, <3>1, <3>3, <3>4
  <2> QED BY <2>3, <2>5, <2>6
<1>2. damage = "none" => cursor.st = "ok"
  BY DEF WrittenInv, ReadUpto
<1>3. damage = "none" => todo = <<>>
  BY <1>2 DEF Over
<1>4. damage = "none" => Loaded /\ prog = image.prog
  BY <1>1, <1>2, <1>3 DEF Loaded
<1>5. damage = "cut" => ~Loaded
  BY <1>1 DEF Loaded
<1> QED BY <1>4, <1>5

\* The C and C++ VMs load every intact file as the program that was written to
\* it, whatever its sections, flags and version, and refuse every file that
\* was cut short (LoadsWhatWasWritten).
THEOREM LoadersReadBack == LoadSpec => []LoadsWhatWasWritten
<1> DEFINE Inv == Unread /\ WrittenInv /\ engine \in {"none", "C", "Cpp", "Go"}
<1>1. LoadInit => Inv
  BY DEF LoadInit, Unread, WrittenInv
<1>2. Inv /\ [LoadNext]_loadvars => Inv'
  <2> SUFFICES ASSUME Inv, [LoadNext]_loadvars PROVE Inv'
    OBVIOUS
  <2>1. Unread' /\ WrittenInv'
    BY WrittenStep
  <2>2. engine' \in {"none", "C", "Cpp", "Go"}
    BY LoaderAssumption DEF LoadNext, loadvars, OpenFile, LoadConsts, LoadFuncs, LoadEntry,
       LoadCode, LoadDebug, LoadAssets, LoadPerms, CheckEntries, Section
  <2> QED BY <2>1, <2>2
<1>3. Inv => LoadsWhatWasWritten
  BY WrittenMeans
<1> QED BY <1>1, <1>2, <1>3, PTL DEF LoadSpec

=============================================================================
