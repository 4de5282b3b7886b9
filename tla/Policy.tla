------------------------------- MODULE Policy -------------------------------
(***************************************************************************)
(* The capability policy of vm/pyro_runtime.c: what the operator set in    *)
(* PYRO_POLICY and PYRO_SANDBOX, what the artifact declares, and the gates *)
(* the natives pass through. A path is absolute or relative and a sequence *)
(* of segments; a policy text is a sequence of clauses.                    *)
(***************************************************************************)
EXTENDS Naturals, SequencesExt

CONSTANTS
  Names,         \* host names, binaries, variables and path segments
  FoldCase,      \* FoldCase[n]: n in lower case, for cap_ieq
  Cwd,           \* the working directory, a sequence of segments
  MaxSegments,   \* 256: segments cap_abs keeps
  PolicyTexts,   \* texts PYRO_POLICY and the artifact may hold
  MaxPath        \* segments of a path the program asks for

VARIABLES
  envPolicy,       \* g_env_policy
  artifactPolicy,  \* g_artifact_policy
  sandboxed,       \* pyro_sandboxed
  phase,           \* where main() is
  path             \* the path a running program is about to open

polvars == <<envPolicy, artifactPolicy, sandboxed, phase, path>>

Capabilities == {"fs.read", "fs.write", "net", "exec", "env"}

Star   == "*"
Dot    == "."
DotDot == ".."
Anywhere == [absolute |-> FALSE, segs |-> <<Star>>]   \* the item "*" of a path list

Segment == Names \cup {Star, Dot, DotDot}
Paths   == [absolute : BOOLEAN, segs : Seq(Segment)]

\* What a clause for a capability lists.
ItemLists(c) == IF c \in {"fs.read", "fs.write"} THEN Seq(Paths) ELSE Seq(Names \cup {Star})

ASSUME PolicyAssumption ==
  /\ MaxSegments \in Nat
  /\ Cwd \in Seq(Segment)
  /\ \A t \in PolicyTexts :
       /\ Len(t) \in Nat /\ DOMAIN t = 1 .. Len(t)
       /\ \A i \in DOMAIN t : t[i].items \in ItemLists(t[i].key)

NoPolicy == [active |-> FALSE, grants |-> [c \in Capabilities |-> <<>>]]

Active == envPolicy.active \/ artifactPolicy.active

-----------------------------------------------------------------------------
(* Lists and paths.                                                        *)
cap_ieq(a, b) == FoldCase[a] = FoldCase[b]

cap_listed(l, want) ==
  \E i \in DOMAIN l : l[i] = Star \/ (l[i] \in Names /\ want \in Names /\ cap_ieq(l[i], want))

\* The segments from the root: those of a relative path follow Cwd.
Joined(p) == (IF p.absolute THEN <<>> ELSE Cwd) \o p.segs

\* Broken variant: ".." at the root is kept as a segment.
PushDotDot(kept, s) ==
  IF s = Dot THEN kept
  ELSE IF s = DotDot /\ kept # <<>> THEN Front(kept)
  ELSE IF Len(kept) < MaxSegments THEN Append(kept, s) ELSE kept

\* One segment more: "." is dropped, ".." pops a segment if there is one, and
\* those past the limit are dropped.
Push(kept, s) ==
  IF s = Dot THEN kept
  ELSE IF s = DotDot THEN (IF kept = <<>> THEN kept ELSE Front(kept))
  ELSE IF Len(kept) < MaxSegments THEN Append(kept, s) ELSE kept

\* Kept(segs)[i] is what the first i segments leave.
Kept(segs) ==
  LET k[i \in 0 .. Len(segs)] == IF i = 0 THEN <<>> ELSE Push(k[i - 1], segs[i])
  IN  k

cap_abs(p) == Kept(Joined(p))[Len(Joined(p))]

cap_path_allowed(roots, p) ==
  \E i \in DOMAIN roots : roots[i] = Anywhere \/ IsPrefix(cap_abs(roots[i]), cap_abs(p))

-----------------------------------------------------------------------------
(* Reading a policy. A clause is a capability and its items; malformed and *)
(* unknown ones end the program.                                           *)
WellFormed(text) == \A i \in DOMAIN text : text[i].key \in Capabilities

\* Clauses for one capability add up: Granted(g, text)[i] is g with the items of
\* the first i clauses.
Granted(g, text) ==
  LET a[i \in 0 .. Len(text)] ==
        IF i = 0 THEN g ELSE [a[i - 1] EXCEPT ![text[i].key] = @ \o text[i].items]
  IN  a

\* An empty text sets nothing.
policy_parse(pol, text) ==
  IF text = <<>> THEN pol
  ELSE [active |-> TRUE, grants |-> Granted(pol.grants, text)[Len(text)]]

PolicyInit ==
  /\ envPolicy = NoPolicy /\ artifactPolicy = NoPolicy
  /\ sandboxed = FALSE
  /\ phase = "start"
  /\ path = [absolute |-> FALSE, segs |-> <<>>]

\* pyro_policy_init(getenv("PYRO_POLICY"))
pyro_policy_init(text) ==
  /\ phase = "start"
  /\ IF WellFormed(text)
     THEN /\ envPolicy' = policy_parse(envPolicy, text)
          /\ sandboxed' = (sandboxed \/ text # <<>>)
          /\ phase' = "sandbox"
     ELSE /\ phase' = "fatal"
          /\ UNCHANGED <<envPolicy, sandboxed>>
  /\ UNCHANGED <<artifactPolicy, path>>

\* PYRO_SANDBOX=1
SandboxVariable(set) ==
  /\ phase = "sandbox"
  /\ sandboxed' = (sandboxed \/ set)
  /\ phase' = "load"
  /\ UNCHANGED <<envPolicy, artifactPolicy, path>>

\* The permissions section of the file, if it has one.
pyro_policy_artifact(text) ==
  /\ phase = "load"
  /\ IF WellFormed(text)
     THEN /\ artifactPolicy' = policy_parse(artifactPolicy, text)
          /\ sandboxed' = (sandboxed \/ text # <<>>)
          /\ phase' = "loaded"
     ELSE /\ phase' = "fatal"
          /\ UNCHANGED <<artifactPolicy, sandboxed>>
  /\ UNCHANGED <<envPolicy, path>>

\* run_program: the sandbox bit of the file.
SandboxFlag(set) ==
  /\ phase = "loaded"
  /\ sandboxed' = (sandboxed \/ set)
  /\ phase' = "run"
  /\ UNCHANGED <<envPolicy, artifactPolicy, path>>

-----------------------------------------------------------------------------
(* The gates. Every active policy must allow; with none active a gate      *)
(* refuses exactly when the sandbox is on.                                 *)
cap_both_paths(cap, p) ==
  /\ \A pol \in {envPolicy, artifactPolicy} :
       pol.active => cap_path_allowed(pol.grants[cap], p)
  /\ Active

\* Broken variant: one active policy that allows is enough.
EitherListed(cap, want) ==
  \E pol \in {envPolicy, artifactPolicy} : pol.active /\ cap_listed(pol.grants[cap], want)

cap_both_listed(cap, want) ==
  /\ \A pol \in {envPolicy, artifactPolicy} :
       pol.active => cap_listed(pol.grants[cap], want)
  /\ Active

Ungated == ~sandboxed /\ ~Active

cap_fs(read, p) == Ungated \/ cap_both_paths(IF read THEN "fs.read" ELSE "fs.write", p)

\* A URL without a host is looked up as it stands.
cap_net(url)  == Ungated \/ cap_both_listed("net", IF url.host = "" THEN url.text ELSE url.host)

\* The last segment of the command's first word.
cap_exec(cmd) == Ungated \/ cap_both_listed("exec", Last(cmd.word))

cap_env(name) == Ungated \/ cap_both_listed("env", name)

\* What a program may ask for: the gates natives 24 to 30, 52, 58, 59 and 61
\* to 64 pass through.
Requests ==
  [cap : {"fs"}, read : BOOLEAN]
    \cup [cap : {"net"}, url : [host : Names \cup {""}, text : Names]]
    \cup [cap : {"exec"}, word : [1 .. 2 -> Names]]
    \cup [cap : {"env"}, name : Names]

Allowed(r) ==
  CASE r.cap = "fs"   -> cap_fs(r.read, path)
    [] r.cap = "net"  -> cap_net(r.url)
    [] r.cap = "exec" -> cap_exec(r)
    [] r.cap = "env"  -> cap_env(r.name)

\* A running program makes up the path it opens.
AppendSegment(s) ==
  /\ phase = "run" /\ Len(path.segs) < MaxPath
  /\ path' = [path EXCEPT !.segs = Append(@, s)]
  /\ UNCHANGED <<envPolicy, artifactPolicy, sandboxed, phase>>

FromRoot ==
  /\ phase = "run" /\ ~path.absolute /\ path.segs = <<>>
  /\ path' = [path EXCEPT !.absolute = TRUE]
  /\ UNCHANGED <<envPolicy, artifactPolicy, sandboxed, phase>>

\* A request that is refused ends the program (cap_denied).
Request(r) ==
  /\ phase = "run" /\ ~Allowed(r)
  /\ phase' = "fatal"
  /\ UNCHANGED <<envPolicy, artifactPolicy, sandboxed, path>>

PolicyNext ==
  \/ \E t \in PolicyTexts : pyro_policy_init(t) \/ pyro_policy_artifact(t)
  \/ \E b \in BOOLEAN : SandboxVariable(b) \/ SandboxFlag(b)
  \/ FromRoot
  \/ \E s \in Names \cup {Dot, DotDot} : AppendSegment(s)
  \/ \E r \in Requests : Request(r)

-----------------------------------------------------------------------------
\* PYRO_SANDBOX=1 without PYRO_POLICY, so far.
FlatDeny == sandboxed /\ ~Active

\* "A capability must be allowed by both" (pyro_runtime.c:1575): of everything
\* that is read (PYRO_POLICY, PYRO_SANDBOX, the artifact's permissions, the
\* sandbox bit) nothing turns a refused request into an allowed one, except
\* the artifact's permissions when they take the place of a flat deny.
PolicyOnlyNarrows ==
  [][\A r \in Requests :
       path' = path /\ ~(FlatDeny /\ phase = "load") /\ Allowed(r)' => Allowed(r)]_polvars

\* "Parsed before PYRO_SANDBOX so a flat deny still wins" (main.c:953-954) and
\* "PYRO_SANDBOX=1: every gated native is refused" (PYRO_RUNTIME.md:377): what
\* the flag refuses is not allowed by what is read after it.
FlatDenyWins ==
  [][\A r \in Requests : path' = path /\ FlatDeny /\ Allowed(r)' => Allowed(r)]_polvars

PolicySpec == PolicyInit /\ [][PolicyNext]_polvars
=============================================================================
