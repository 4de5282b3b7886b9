------------------------------- MODULE RcHeap -------------------------------
(***************************************************************************)
(* The reference-counted heap of vm/pyro_runtime.c, as operators that map  *)
(* a heap to a heap. A value is a number: Imm for every immediate (null,   *)
(* int, float, bool, a function without captures), or the object it refers *)
(* to. The kind of the object is the tag of the value: "cap" is the        *)
(* captured array a closure owns. The contents of strings and immediates   *)
(* are left out, and with them which of two different ones are equal.      *)
(***************************************************************************)
EXTENDS Integers, FiniteSets, SequencesExt

CONSTANTS
  NObj,      \* objects the heap can hold
  MaxItems   \* most values one container holds

ASSUME RcHeapAssumption == NObj \in Nat /\ MaxItems \in Nat

Imm   == 0
Objs  == 1 .. NObj
Value == {Imm} \cup Objs
Kinds == {"free", "str", "arr", "map", "cap"}

\* extra is no field of the C object: it records how many references its
\* constructor counted beyond the one it hands out.
Cell     == [kind : Kinds, rc : Nat, items : Seq(Value), extra : {0, 1}]
FreeCell == [kind |-> "free", rc |-> 0, items |-> <<>>, extra |-> 0]

IsRef(v)    == v \in Objs
Is(h, v, k) == IsRef(v) /\ h[v].kind = k
Live(h)     == {o \in Objs : h[o].kind # "free"}
Fresh(h)    == CHOOSE o \in Objs : o \notin Live(h)
HasRoom(h)  == Live(h) # Objs

\* How often o occurs in a sequence, and in a family of sequences.
Occurrences(s, o) == Cardinality({i \in DOMAIN s : s[i] = o})
Places(F)         == UNION {{<<d, i>> : i \in DOMAIN F[d]} : d \in DOMAIN F}
Spread(F, o)      == Cardinality({q \in Places(F) : F[q[1]][q[2]] = o})

Items(h)         == [o \in Objs |-> h[o].items]
References(h, o) == Spread(Items(h), o)

retain_value(h, v) == IF IsRef(v) THEN [h EXCEPT ![v].rc = @ + 1] ELSE h
RetainAll(h, vs)   == [o \in Objs |-> [h[o] EXCEPT !.rc = @ + Occurrences(vs, o)]]

\* One reference less: of the values s.due still to be released, the first one
\* is; a count that reaches zero frees the object and makes what it held due.
ReleaseHead(s) ==
  LET h == s.heap
      v == Head(s.due)
  IN  IF s.due = <<>> THEN s
      ELSE IF ~IsRef(v) THEN [heap |-> h, due |-> Tail(s.due)]
      ELSE IF h[v].rc = 1
      THEN [heap |-> [h EXCEPT ![v] = FreeCell], due |-> h[v].items \o Tail(s.due)]
      ELSE [heap |-> [h EXCEPT ![v].rc = @ - 1], due |-> Tail(s.due)]

\* Releases the values of vs one after the other. Each step settles one of the
\* references in vs and in the containers, so there are no more steps than those.
Pending(h, vs) == Len(vs) + Cardinality(Places(Items(h)))
Releasing(h, vs) ==
  LET r[i \in 0 .. Pending(h, vs)] ==
        IF i = 0 THEN [heap |-> h, due |-> vs] ELSE ReleaseHead(r[i - 1])
  IN  r
ReleaseAll(h, vs) == Releasing(h, vs)[Pending(h, vs)].heap
release_value(h, v) == ReleaseAll(h, <<v>>)

\* A new object as its constructor returns it. new_rc_string, rc_array_new
\* and rc_map_new start at one; val_array, val_map and val_str_rc add one to
\* it, val_func and val_str do not.
New(h, k, extra, items) ==
  [h EXCEPT ![Fresh(h)] =
     [kind |-> k, rc |-> 1 + extra, items |-> items, extra |-> extra]]
NewString(h)       == New(h, "str", 0, <<>>)
val_str_rc(h)      == New(h, "str", 1, <<>>)
val_func(h, vs)    == RetainAll(New(h, "cap", 0, vs), vs)
val_array(h, vs)   == RetainAll(New(h, "arr", 1, vs), vs)

\* rc_array_push, rc_array_set
rc_array_push(h, a, v) ==
  retain_value([h EXCEPT ![a].items = Append(@, v)], v)
rc_array_set(h, a, i, v) ==
  retain_value([release_value(h, h[a].items[i]) EXCEPT ![a].items[i] = v], v)

\* A map keeps its keys and values in turn. Two different values may be equal
\* under value_eq unless both are containers or closures.
KeyCells(h, m) == {j \in DOMAIN h[m].items : j % 2 = 1}
MayEqual(h, k, l) == k = l \/ \E x \in {k, l} : x = Imm \/ Is(h, x, "str")

\* The entries a look-up of k may end at, 0 for none.
Matches(h, m, k) ==
  {j \in KeyCells(h, m) : MayEqual(h, h[m].items[j], k)}
    \cup {j \in {0} : k = Imm \/ \A e \in KeyCells(h, m) : h[m].items[e] # k}

\* rc_map_set with the entry j that matched, 0 for none.
SetEntry(h, m, k, v, j) ==
  IF j # 0
  THEN retain_value([release_value(h, h[m].items[j + 1])
                       EXCEPT ![m].items[j + 1] = v], v)
  ELSE RetainAll([h EXCEPT ![m].items = @ \o <<k, v>>], <<k, v>>)

\* What m may become when the pairs kvs are put into it one after the other.
Puts(h, m, kvs) ==
  LET p[i \in 0 .. Len(kvs) \div 2] ==
        IF i = 0 THEN {h}
        ELSE UNION {{SetEntry(g, m, kvs[2 * i - 1], kvs[2 * i], j) :
                       j \in Matches(g, m, kvs[2 * i - 1])} : g \in p[i - 1]}
  IN  p
PutPairs(h, m, kvs) == Puts(h, m, kvs)[Len(kvs) \div 2]

RemoveEntry(h, m, j) ==
  IF j = 0 THEN h
  ELSE LET s == h[m].items
       IN  ReleaseAll([h EXCEPT ![m].items =
                         SubSeq(s, 1, j - 1) \o SubSeq(s, j + 2, Len(s))],
                      <<s[j], s[j + 1]>>)

KeyRefs(h, m) == [i \in 1 .. Len(h[m].items) \div 2 |-> h[m].items[2 * i - 1]]
=============================================================================
