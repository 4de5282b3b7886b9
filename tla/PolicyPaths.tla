---------------------------- MODULE PolicyPaths ----------------------------
(***************************************************************************)
(* cap_abs and cap_path_allowed against a reference definition.            *)
(***************************************************************************)
EXTENDS Policy

\* The reference: the first "." or ".." goes, and with ".." the name before it.
Cancel(segs) ==
  LET at == {i \in DOMAIN segs : segs[i] \in {Dot, DotDot}}
      first == CHOOSE i \in at : \A j \in at : i <= j
      left  == IF segs[first] = Dot \/ first = 1 THEN first - 1 ELSE first - 2
  IN  IF at = {} THEN segs
      ELSE SubSeq(segs, 1, left) \o SubSeq(segs, first + 1, Len(segs))

\* Cancelled(segs)[i] is what i such steps leave, Resolve(segs) what is left
\* when none remains to do.
Cancelled(segs) ==
  LET c[i \in 0 .. Len(segs)] == IF i = 0 THEN segs ELSE Cancel(c[i - 1])
  IN  c

Resolve(segs) == Cancelled(segs)[Len(segs)]

\* The segments past the limit are not looked at (pyro_runtime.c:1660).
Fits(p) == Len(Joined(p)) <= MaxSegments

\* A directory granted by name covers exactly what lies below it: a path
\* reaches into it or not by where it leads, whatever "." and ".." segments
\* it is written with (pyro_runtime.c:1619-1692, paths of up to MaxSegments).
GrantsCoverSubtrees ==
  \A pol \in {envPolicy, artifactPolicy} : \A cap \in {"fs.read", "fs.write"} :
    LET roots == pol.grants[cap]
    IN  Fits(path) /\ (\A i \in DOMAIN roots : Fits(roots[i])) =>
          (cap_path_allowed(roots, path) <=>
             \E i \in DOMAIN roots :
               \/ roots[i] = Anywhere
               \/ IsPrefix(Resolve(Joined(roots[i])), Resolve(Joined(path))))
=============================================================================
