----------------------------- MODULE MCRuntime -----------------------------
(***************************************************************************)
(* Small instances of the parts around the C runtime that share no state:  *)
(* the hash map, the arithmetic, the policy, the loader, the HTTP server,  *)
(* the HTTP client, the atomic file replacement, and the C++ loop over the *)
(* reference-counted heap. A behaviour exercises one of them; the others   *)
(* stay in their initial state.                                            *)
(***************************************************************************)
EXTENDS ValueMap, Arithmetic, PolicyPaths, Loader, HttpServer, HttpClient, AtomicFile, CppEngine

CONSTANT Parts   \* the parts to exercise

VARIABLE part    \* the one this behaviour exercises

vars == <<part, mapvars, sum, polvars, loadvars, httpvars, clientvars, filevars, cppvars>>

-----------------------------------------------------------------------------
(* Hash map: 0, 2 and -1 (whose hash is 0) share a chain of the new map,   *)
(* and the fourth key makes it grow.                                       *)
Key(k, n, t) == [kind |-> k, n |-> n, text |-> t]
MCKeys == {Key("int", 0, ""), Key("int", 2, ""), Key("int", -1, ""), Key("str", 0, "a")}
MCHash == [t \in {"a"} |-> 1]
MCText == [n \in {0, 2, -1} |-> "digits"]

(* Policy: texts with no clause, a malformed one, and grants of every kind, *)
(* one under a directory written with "..".                                *)
MCNames == {"a", "A", "b"}
MCFold  == [n \in MCNames |-> IF n = "A" THEN "a" ELSE n]
MCCwd   == <<"b">>
Clause(k, items) == [key |-> k, items |-> items]
Data == [absolute |-> FALSE, segs |-> <<"a">>]
MCTexts ==
  { <<>>,
    <<Clause("bogus", <<>>)>>,
    <<Clause("fs.read", <<Data>>), Clause("net", <<"a">>)>>,
    <<Clause("fs.write", <<Data>>), Clause("fs.read", <<Anywhere>>),
      Clause("exec", <<Star>>), Clause("net", <<"b">>), Clause("net", <<"A">>)>>,
    <<Clause("fs.read", <<[absolute |-> TRUE, segs |-> <<"b", "..">>]>>), Clause("env", <<"a">>)>> }

(* Loader: every combination of the optional sections, in both versions.   *)
MCProg(flags) ==
  [consts  |-> <<[tag |-> TAG_STR, val |-> <<5, 6>>], [tag |-> TAG_BOOL, val |-> <<1>>],
                 [tag |-> TAG_INT, val |-> <<9>>]>>,
   funcs   |-> <<[name |-> 0, entry |-> 1, nparams |-> 0, nlocals |-> 2]>>,
   entryFn |-> 0,
   code    |-> <<1, 2>>,
   dbg     |-> IF "debug" \in flags THEN <<<<0, 7>>>> ELSE <<>>,
   assets  |-> IF "assets" \in flags THEN {<<<<4>>, <<8, 9>>>>} ELSE {},
   perms   |-> IF "perms" \in flags THEN <<3>> ELSE <<>>]
MCImages == {[ver |-> v, flags |-> f, prog |-> MCProg(f)] :
               v \in {2, 3}, f \in SUBSET {"debug", "assets", "perms", "xor"}}

(* HTTP server: a request with a body, a malformed one, and one whose       *)
(* header, longer than what fits, comes in pieces.                         *)
Req(h, b, k) == [head |-> h, body |-> b, kind |-> k]
MCReqs == {Req(1, 1, "good"), Req(1, 0, "bad"), Req(3, 0, "good")}

(* HTTP client: every framing, and redirects with and without a location.  *)
Header(s, l, f, n, t) == [status |-> s, loc |-> l, framing |-> f, n |-> n, trailer |-> t]
MCAnswers ==
  { Header(200, FALSE, "length", 2, FALSE), Header(200, FALSE, "chunked", 2, FALSE),
    Header(200, FALSE, "chunked", 1, TRUE), Header(200, FALSE, "close", 2, FALSE),
    Header(204, FALSE, "length", 0, FALSE), Header(303, TRUE, "length", 0, FALSE),
    Header(307, TRUE, "chunked", 0, FALSE), Header(301, FALSE, "length", 1, FALSE),
    Header(302, TRUE, "close", 1, FALSE) }

-----------------------------------------------------------------------------
Init ==
  /\ part \in Parts
  /\ MapInit /\ ArithInit /\ PolicyInit /\ LoadInit /\ ServerInit /\ ClientInit /\ FileInit
  /\ CppInit

Next ==
  \/ /\ part = "map" /\ MapNext
     /\ UNCHANGED <<part, sum, polvars, loadvars, httpvars, clientvars, filevars, cppvars>>
  \/ /\ part = "arithmetic" /\ ArithNext
     /\ UNCHANGED <<part, mapvars, polvars, loadvars, httpvars, clientvars, filevars, cppvars>>
  \/ /\ part = "policy" /\ PolicyNext
     /\ UNCHANGED <<part, mapvars, sum, loadvars, httpvars, clientvars, filevars, cppvars>>
  \/ /\ part = "loader" /\ LoadNext
     /\ UNCHANGED <<part, mapvars, sum, polvars, httpvars, clientvars, filevars, cppvars>>
  \/ /\ part = "server" /\ ServerNext
     /\ UNCHANGED <<part, mapvars, sum, polvars, loadvars, clientvars, filevars, cppvars>>
  \/ /\ part = "client" /\ ClientNext
     /\ UNCHANGED <<part, mapvars, sum, polvars, loadvars, httpvars, filevars, cppvars>>
  \/ /\ part = "file" /\ FileNext
     /\ UNCHANGED <<part, mapvars, sum, polvars, loadvars, httpvars, clientvars, cppvars>>
  \/ /\ part = "ownership" /\ CppNext
     /\ UNCHANGED <<part, mapvars, sum, polvars, loadvars, httpvars, clientvars, filevars>>

\* The heap of the C++ loop is explored with deep stacks or many references,
\* not with both at their bounds.
DeepOrMany ==
  Len(stack) + Len(frames) + Len(handlers) + Len(globals)
    + FoldLeft(LAMBDA n, o : n + heap[o].rc, 0, [o \in Objs |-> o]) < MaxDepth + MaxRefs

Spec == Init /\ [][Next]_vars /\ ServerFairness /\ ClientFairness
=============================================================================
