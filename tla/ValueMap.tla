------------------------------ MODULE ValueMap ------------------------------
(***************************************************************************)
(* The hash map of vm/pyro_runtime.c: an array of chains that doubles when *)
(* it is three quarters full, with value_eq to compare keys. A key is a    *)
(* record of its kind, its number (ints, bools) and its text (strings);    *)
(* hash_value of a string is given by StrHash.                             *)
(***************************************************************************)
EXTENDS Integers, SequencesExt

CONSTANTS
  MapKeys,     \* the keys the program uses
  MapValues,
  StrHash,     \* StrHash[t]: hash of the text t
  NumText,     \* NumText[n]: the text of the int n (value_to_string)
  MapInitCap,  \* capacity of a new map (16 in the code)
  Missing      \* null, what a missing key gives

VARIABLES
  buckets,     \* buckets[i]: chain of <<key, value>>, i \in 0 .. capacity-1
  size

mapvars == <<buckets, size>>

capacity(b) == Cardinality(DOMAIN b)

\* (uint32_t)(i ^ (i >> 32)) is i itself, and for the small negative ints ~i.
hash_value(k) ==
  IF k.kind = "str" THEN StrHash[k.text]
  ELSE IF k.kind = "int" THEN (IF k.n >= 0 THEN k.n ELSE -k.n - 1)
  ELSE IF k.kind = "bool" THEN k.n
  ELSE 0

value_to_string(k) ==
  IF k.kind = "str" THEN k.text
  ELSE IF k.kind = "bool" THEN (IF k.n # 0 THEN "true" ELSE "false")
  ELSE NumText[k.n]

\* The conversions of value_eq, the number read for b depending on the kind of
\* a included.
value_eq(a, b) ==
  IF "null" \in {a.kind, b.kind} THEN a.kind = b.kind
  ELSE IF "str" \in {a.kind, b.kind} THEN value_to_string(a) = value_to_string(b)
  ELSE IF "bool" \in {a.kind, b.kind}
  THEN LET ba == a.n # 0
           bb == IF b.kind = "bool" THEN b.n # 0 ELSE a.kind = "int" /\ b.n # 0
       IN  ba = bb
  ELSE a.n = b.n

\* No two of the keys are equal under value_eq, as 1 and "1" would be.
ASSUME MapAssumption ==
  /\ MapInitCap \in Nat \ {0}
  /\ \A k \in MapKeys : hash_value(k) \in Nat
  /\ \A a, b \in MapKeys : value_eq(a, b) => a = b

Chain(b, k) == b[hash_value(k) % capacity(b)]

\* The position of k in a chain, 0 when it is not there.
Find(c, k) ==
  LET at == {i \in DOMAIN c : value_eq(c[i][1], k)}
  IN  IF at = {} THEN 0 ELSE CHOOSE i \in at : \A j \in at : i <= j

MapInit ==
  /\ buckets = [i \in 0 .. MapInitCap - 1 |-> <<>>]
  /\ size = 0

\* The nodes in the order in which the array is walked: Walk(b)[i] are those of
\* the first i chains.
Walk(b) ==
  LET w[i \in 0 .. capacity(b)] == IF i = 0 THEN <<>> ELSE w[i - 1] \o b[i - 1]
  IN  w

Nodes(b) == Walk(b)[capacity(b)]

\* Broken variant: the chains are copied, not rehashed.
ResizeWithoutRehash(b) ==
  [i \in 0 .. 2 * capacity(b) - 1 |-> IF i < capacity(b) THEN b[i] ELSE <<>>]

\* Every node goes to the front of the chain of its hash in the larger array:
\* Rehash(es, cap)[i] holds the first i nodes of es.
Rehash(es, cap) ==
  LET r[i \in 0 .. Len(es)] ==
        IF i = 0 THEN [c \in 0 .. cap - 1 |-> <<>>]
        ELSE [r[i - 1] EXCEPT ![hash_value(es[i][1]) % cap] = <<es[i]>> \o @]
  IN  r

rc_map_resize(b) == Rehash(Nodes(b), 2 * capacity(b))[Len(Nodes(b))]

\* The array grows before the key is looked for, even when it is there.
rc_map_set(k, v) ==
  LET b == IF 4 * size >= 3 * capacity(buckets) THEN rc_map_resize(buckets) ELSE buckets
      i == hash_value(k) % capacity(b)
      at == Find(b[i], k)
  IN  IF at # 0
      THEN /\ buckets' = [b EXCEPT ![i][at] = <<@[1], v>>]
           /\ UNCHANGED size
      ELSE /\ buckets' = [b EXCEPT ![i] = <<<<k, v>>>> \o @]
           /\ size' = size + 1

rc_map_get(k) ==
  LET c == Chain(buckets, k) IN IF Find(c, k) = 0 THEN Missing ELSE c[Find(c, k)][2]

rc_map_has(k) == Find(Chain(buckets, k), k) # 0

rc_map_remove(k) ==
  LET i == hash_value(k) % capacity(buckets)
      at == Find(buckets[i], k)
  IN  /\ at # 0
      /\ buckets' = [buckets EXCEPT ![i] = RemoveAt(@, at)]
      /\ size' = size - 1

MapNext == \E k \in MapKeys :
             rc_map_remove(k) \/ \E v \in MapValues : rc_map_set(k, v)

MapSpec == MapInit /\ [][MapNext]_mapvars

-----------------------------------------------------------------------------
Dict == INSTANCE Dictionary WITH
          DKeys <- MapKeys, DValues <- MapValues, None <- Missing,
          dict <- [k \in MapKeys |-> rc_map_get(k)]

\* Whatever is inserted, overwritten and removed, in whatever order the chains
\* end up in and however often the array has grown, every key gives its own
\* last value: rc_map_set, rc_map_get and rc_map_remove implement a dictionary
\* on keys of which no two are equal under value_eq.
MapImplementsDictionary == Dict!DSpec

\* The count is the number of nodes: rc_map_keys_sorted allocates size pairs
\* and then walks every chain (pyro_runtime.c:3394-3415), and has() agrees
\* with what that walk finds.
KeysFit ==
  /\ size = Len(Nodes(buckets))
  /\ \A k \in MapKeys :
       rc_map_has(k) <=> \E i \in DOMAIN Nodes(buckets) : Nodes(buckets)[i][1] = k
=============================================================================
