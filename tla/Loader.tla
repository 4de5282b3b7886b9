------------------------------- MODULE Loader -------------------------------
(***************************************************************************)
(* Loading a .pyro file: load_program of vm/main.c and vm/main.cpp, load   *)
(* of vm/main.go. A file is a header and a sequence of cells; every fixed- *)
(* width field (u8, u16, u32, u64) is one cell, a v3 string length is two. *)
(* The generator that writes the file is not part of this repository: Put  *)
(* follows PYRO_BYTECODE.md. A file may have been cut short or damaged.    *)
(***************************************************************************)
EXTENDS Integers, SequencesExt

CONSTANTS
  Images,    \* the programs that are written to files
  Engines,   \* subset of {"C", "Cpp", "Go"}
  BadCells   \* what a damaged cell may read as

VARIABLES
  engine,    \* the VM that reads the file
  image,     \* what was written
  file,      \* the cells, possibly cut or damaged
  damage,    \* "none", "cut", "cell" or "header"
  todo,      \* the sections still to be read
  cursor,    \* pos, and "ok", "fatal" (refused) or "overrun" (read past the end)
  prog       \* what has been read

loadvars == <<engine, image, file, damage, todo, cursor, prog>>

TAG_INT  == 1
TAG_FLT  == 2
TAG_STR  == 3
TAG_BOOL == 4

EmptyProg == [consts |-> <<>>, funcs |-> <<>>, entryFn |-> 0, code |-> <<>>,
              dbg |-> <<>>, assets |-> {}, perms |-> <<>>]

\* Broken variant: the permissions are read before the assets.
PermsBeforeAssets == <<"consts", "funcs", "entry", "code", "debug", "perms", "assets", "check">>

\* The order in which each engine reads the sections.
load_program_C   == <<"consts", "funcs", "entry", "code", "debug", "assets", "perms", "check">>
load_program_Cpp == <<"consts", "funcs", "entry", "code", "debug", "assets", "perms", "check">>
\* Two deferred readers, run last in, first out.
load_Go          == <<"consts", "funcs", "entry", "code", "debug", "perms", "assets">>
SectionsOf(e) == CASE e = "C" -> load_program_C [] e = "Cpp" -> load_program_Cpp
                   [] e = "Go" -> load_Go

-----------------------------------------------------------------------------
(* The generator.                                                          *)
\* The exclusive or of two bits, of two pairs of bits, and so on to two bytes.
Xor1(a, b) == (a + b) % 2
Xor2(a, b) == Xor1(a % 2, b % 2) + 2 * Xor1(a \div 2, b \div 2)
Xor4(a, b) == Xor2(a % 4, b % 4) + 4 * Xor2(a \div 4, b \div 4)
Xor(a, b)  == Xor4(a % 16, b % 16) + 16 * Xor4(a \div 16, b \div 16)

NextKey(k, plain) == (k * 31 + 7 + plain) % 256

\* The key of each cell of the code, starting with the one before the first.
Keys(code) ==
  LET k[i \in 0 .. Len(code)] == IF i = 0 THEN 90 ELSE NextKey(k[i - 1], code[i]) IN k
Scramble(code) == [i \in DOMAIN code |-> Xor(code[i], Keys(code)[i - 1])]

PutString(cells) == <<Len(cells)>> \o cells

PutConst(ver, c) ==
  LET n == Len(c.val)
  IN  <<c.tag>> \o (IF c.tag # TAG_STR THEN c.val
                    ELSE IF ver >= 3 THEN <<n \div 256, n % 256>> \o c.val ELSE PutString(c.val))

PutEntry(kind, ver, e) ==
  CASE kind = "const" -> PutConst(ver, e)
    [] kind = "func"  -> <<e.name, e.entry, e.nparams, e.nlocals>>
    [] kind = "line"  -> e
    [] kind = "asset" -> PutString(e[1]) \o PutString(e[2])

\* The number of the entries, and the entries.
Putting(kind, ver, items) ==
  LET w[i \in 0 .. Len(items)] ==
        IF i = 0 THEN <<Len(items)>> ELSE w[i - 1] \o PutEntry(kind, ver, items[i])
  IN  w
PutAll(kind, ver, items) == Putting(kind, ver, items)[Len(items)]

Optional(img, flag, cells) == IF flag \in img.flags THEN cells ELSE <<>>

PutSection(img, name) ==
  LET p == img.prog
  IN  CASE name = "consts" -> PutAll("const", img.ver, p.consts)
        [] name = "funcs"  -> PutAll("func", img.ver, p.funcs)
        [] name = "entry"  -> <<p.entryFn>>
        [] name = "code"   -> PutString(IF "xor" \in img.flags THEN Scramble(p.code) ELSE p.code)
        [] name = "debug"  -> Optional(img, name, PutAll("line", img.ver, p.dbg))
        [] name = "assets" -> Optional(img, name, PutAll("asset", img.ver, SetToSeq(p.assets)))
        [] name = "perms"  -> Optional(img, name, PutString(p.perms))

Put(img) ==
  PutSection(img, "consts") \o PutSection(img, "funcs") \o PutSection(img, "entry")
    \o PutSection(img, "code") \o PutSection(img, "debug") \o PutSection(img, "assets")
    \o PutSection(img, "perms")

\* The programs the compiler makes, and the version and flags of their files.
Constant == [tag : {TAG_INT, TAG_FLT}, val : [1 .. 1 -> Nat]]
              \cup [tag : {TAG_BOOL}, val : {<<0>>, <<1>>}]
              \cup [tag : {TAG_STR}, val : Seq(Nat)]
Function == [name : Nat, entry : Nat, nparams : Nat, nlocals : Nat]
Line     == [1 .. 2 -> Nat]
Asset    == [1 .. 2 -> Seq(Nat)]

Program  == [consts : Seq(Constant), funcs : Seq(Function), entryFn : Nat,
             code : Seq(0 .. 255), dbg : Seq(Line), assets : SUBSET Asset, perms : Seq(Nat)]

Compiled(img) ==
  LET p == img.prog
  IN  /\ img.ver \in Nat /\ p \in Program
      /\ \A i \in DOMAIN p.funcs :
           p.funcs[i].name < Len(p.consts) /\ p.funcs[i].entry <= Len(p.code)
      /\ p.entryFn < Len(p.funcs)
      /\ "debug" \in img.flags \/ p.dbg = <<>>
      /\ IF "assets" \in img.flags THEN IsFiniteSet(p.assets) ELSE p.assets = {}
      /\ "perms" \in img.flags \/ p.perms = <<>>

ASSUME LoaderAssumption ==
  /\ Engines \subseteq {"C", "Cpp", "Go"}
  /\ \A img \in Images : Compiled(img)
  /\ BadCells \subseteq Nat

-----------------------------------------------------------------------------
(* Reading. A cursor carries the value read last in v; a cursor that is    *)
(* not "ok" stays as it is.                                                *)
Left(c) == Len(file) - c.pos

\* need_bytes of the C and C++ VMs; the Go VM relies on its slices.
need_bytes(c, n) ==
  IF c.st = "ok" /\ engine # "Go" /\ n > Left(c) THEN [c EXCEPT !.st = "fatal"] ELSE c

\* n cells taken without a check of the code's own: Go panics past the end.
Take(c, n) ==
  IF c.st # "ok" THEN c
  ELSE IF n <= Left(c)
  THEN [c EXCEPT !.pos = @ + n, !.v = SubSeq(file, c.pos + 1, c.pos + n)]
  ELSE [c EXCEPT !.st = IF engine = "Go" THEN "fatal" ELSE "overrun"]

One(c)    == IF c.st = "ok" THEN c.v[1] ELSE 0
rd(c)     == Take(need_bytes(c, 1), 1)
Block(c, n) == Take(need_bytes(c, n), n)
rd_string(c) == LET n == rd(c) IN Block(n, One(n))

ReadConst(c) ==
  LET t == rd(c)
      hi == rd(t)
      lo == IF image.ver >= 3 THEN rd(hi) ELSE hi
      n  == IF image.ver >= 3 THEN 256 * One(hi) + One(lo) ELSE One(lo)
      v == CASE One(t) = TAG_STR -> Block(lo, n)
             [] One(t) \in {TAG_INT, TAG_FLT, TAG_BOOL} -> hi
             [] OTHER -> [t EXCEPT !.st = "fatal"]
      val == IF One(t) = TAG_BOOL /\ v.v # <<0>> THEN <<1>> ELSE v.v
  IN  IF v.st = "ok" THEN [v EXCEPT !.v = [tag |-> One(t), val |-> val]] ELSE v

\* The parameter count is read without a check of its own.
ReadFunc(c) ==
  LET nm == rd(c)
      ok == IF nm.st = "ok" /\ One(nm) >= Len(prog.consts) THEN [nm EXCEPT !.st = "fatal"] ELSE nm
      en == rd(ok)
      np == Take(en, 1)
      nl == rd(np)
  IN  IF nl.st = "ok"
      THEN [nl EXCEPT !.v = [name |-> One(nm), entry |-> One(en),
                             nparams |-> One(np), nlocals |-> One(nl)]]
      ELSE nl

ReadLine(c) ==
  LET p == rd(c)
      l == rd(p)
  IN  IF l.st = "ok" THEN [l EXCEPT !.v = <<One(p), One(l)>>] ELSE l

ReadAsset(c) ==
  LET nm == rd_string(c)
      d  == rd_string(nm)
  IN  IF d.st = "ok" THEN [d EXCEPT !.v = <<nm.v, d.v>>] ELSE d

Entry(kind, c) ==
  CASE kind = "const" -> ReadConst(c)
    [] kind = "func"  -> ReadFunc(c)
    [] kind = "line"  -> ReadLine(c)
    [] kind = "asset" -> ReadAsset(c)

\* n entries, each appended to out. Every entry takes at least w cells, so of
\* more entries than the cells left can hold the first that does not fit is
\* the last one tried.
Tries(w, c, n) == IF c.st # "ok" THEN 0
                  ELSE IF n <= Left(c) \div w THEN n ELSE Left(c) \div w + 1
Entries(kind, w, c, n) ==
  LET t[i \in 0 .. Tries(w, c, n)] ==
        IF i = 0 THEN [c EXCEPT !.out = <<>>]
        ELSE LET e == Entry(kind, t[i - 1])
             IN  IF e.st = "ok" THEN [e EXCEPT !.out = Append(e.out, e.v)] ELSE e
  IN  t
Times(kind, w, c, n) == Entries(kind, w, c, n)[Tries(w, c, n)]

\* The sections: a count, a check that so many can be there, the entries.
ReadConsts(c) == LET n == rd(c) IN Times("const", 2, need_bytes(n, One(n)), One(n))

\* Broken variant: the size of the table is not checked first.
ReadFuncsUnchecked(c) == LET n == rd(c) IN Times("func", 4, n, One(n))

ReadFuncs(c) == LET n == rd(c) IN Times("func", 4, need_bytes(n, 4 * One(n)), One(n))

\* The C and C++ VMs refuse an entry function that does not exist.
ReadEntry(c) ==
  LET e == rd(c)
  IN  IF e.st = "ok" /\ engine # "Go" /\ One(e) >= Len(prog.funcs)
      THEN [e EXCEPT !.st = "fatal"] ELSE e

\* Each cell in the clear, and the key of the next one.
Decoding(code) ==
  LET d[i \in 0 .. Len(code)] ==
        IF i = 0 THEN [byte |-> 0, key |-> 90]
        ELSE LET b == Xor(code[i], d[i - 1].key) IN [byte |-> b, key |-> NextKey(d[i - 1].key, b)]
  IN  d
xor_decode(code) == [i \in DOMAIN code |-> Decoding(code)[i].byte]

ReadCode(c) == rd_string(c)

ReadDebug(c)  == LET n == rd(c) IN Times("line", 2, need_bytes(n, 2 * One(n)), One(n))
ReadAssets(c) == LET n == rd(c) IN Times("asset", 2, need_bytes(n, 2 * One(n)), One(n))

-----------------------------------------------------------------------------
Start == [pos |-> 0, st |-> "ok", v |-> <<>>, out |-> <<>>]

LoadInit ==
  /\ engine = "none" /\ image = <<>> /\ file = <<>> /\ damage = "none"
  /\ todo = <<>> /\ cursor = Start /\ prog = EmptyProg

\* What can have happened to a file between the generator and the VM.
Damages(cells) ==
  [kind : {"none", "header"}, cells : {cells}]
    \cup {[kind |-> "cut", cells |-> SubSeq(cells, 1, n)] : n \in 0 .. Len(cells) - 1}
    \cup {[kind |-> "cell", cells |-> [cells EXCEPT ![i] = b]] :
            i \in DOMAIN cells, b \in BadCells}

\* main() reads the file; the magic and the version are looked at first.
OpenFile(e, img) ==
  /\ engine = "none"
  /\ \E d \in Damages(Put(img)) :
       /\ file' = d.cells /\ damage' = d.kind
       /\ cursor' = IF d.kind = "header" THEN [Start EXCEPT !.st = "fatal"] ELSE Start
  /\ engine' = e /\ image' = img /\ todo' = SectionsOf(e)
  /\ UNCHANGED prog

Section(name) ==
  /\ engine # "none" /\ todo # <<>> /\ Head(todo) = name /\ cursor.st = "ok"
  /\ todo' = Tail(todo)
  /\ UNCHANGED <<engine, image, file, damage>>

\* The section is read into the program unless the file is refused in it.
Into(c, read) ==
  /\ cursor' = [c EXCEPT !.v = <<>>, !.out = <<>>]
  /\ prog' = IF c.st = "ok" THEN read ELSE prog

LoadConsts == LET c == ReadConsts(cursor)
              IN  Section("consts") /\ Into(c, [prog EXCEPT !.consts = c.out])

LoadFuncs == LET c == ReadFuncs(cursor)
             IN  Section("funcs") /\ Into(c, [prog EXCEPT !.funcs = c.out])

LoadEntry == LET c == ReadEntry(cursor)
             IN  Section("entry") /\ Into(c, [prog EXCEPT !.entryFn = One(c)])

LoadCode == LET c == ReadCode(cursor)
            IN  /\ Section("code")
                /\ Into(c, [prog EXCEPT !.code = IF "xor" \in image.flags
                                                 THEN xor_decode(c.v) ELSE c.v])

LoadDebug == LET c == ReadDebug(cursor)
             IN  /\ Section("debug")
                 /\ IF "debug" \in image.flags THEN Into(c, [prog EXCEPT !.dbg = c.out])
                    ELSE UNCHANGED <<cursor, prog>>

LoadAssets == LET c == ReadAssets(cursor)
              IN  /\ Section("assets")
                  /\ IF "assets" \in image.flags
                     THEN Into(c, [prog EXCEPT !.assets = Range(c.out)])
                     ELSE UNCHANGED <<cursor, prog>>

LoadPerms == LET c == rd_string(cursor)
             IN  /\ Section("perms")
                 /\ IF "perms" \in image.flags THEN Into(c, [prog EXCEPT !.perms = c.v])
                    ELSE UNCHANGED <<cursor, prog>>

\* Cross-field checks of the C and C++ VMs.
CheckEntries ==
  /\ Section("check")
  /\ cursor' = IF \E i \in DOMAIN prog.funcs : prog.funcs[i].entry > Len(prog.code)
               THEN [cursor EXCEPT !.st = "fatal"] ELSE cursor
  /\ UNCHANGED prog

LoadNext ==
  \/ \E e \in Engines, img \in Images : OpenFile(e, img)
  \/ LoadConsts \/ LoadFuncs \/ LoadEntry \/ LoadCode \/ LoadDebug
  \/ LoadAssets \/ LoadPerms \/ CheckEntries

LoadSpec == LoadInit /\ [][LoadNext]_loadvars

-----------------------------------------------------------------------------
Loaded == engine # "none" /\ todo = <<>> /\ cursor.st = "ok"

\* Whatever was cut off or overwritten, the C and C++ VMs refuse the file
\* rather than read past its end: every count and length is checked against
\* the bytes that remain before it is used (main.c:131-156), also for the one
\* read that has no check of its own (main.c:226, main.cpp:248).
ReadsStayInside == engine \in {"C", "Cpp"} => cursor.st # "overrun"

\* The reader has finished with the file, or has given up on it.
Over == engine # "none" /\ (todo = <<>> \/ cursor.st # "ok")

\* The C and C++ VMs load every intact file as the program that was written
\* to it, no section missing or shifted, for every combination of flags and
\* both versions; and a file that was cut short, wherever, is refused.
LoadsWhatWasWritten ==
  Over /\ engine \in {"C", "Cpp"} =>
    /\ damage = "none" => Loaded /\ prog = image.prog
    /\ damage = "cut" => ~Loaded

\* The same of the Go VM: main.go:824 and 843 say that the assets are read "in
\* the same order the generator writes them" and the permissions "last, after
\* the assets".
GoLoadsWhatWasWritten ==
  Over /\ engine = "Go" /\ damage = "none" => Loaded /\ prog = image.prog
=============================================================================
