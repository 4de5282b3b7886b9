----------------------------- MODULE AtomicFile -----------------------------
(***************************************************************************)
(* write_file_atomic (native 64 of vm/pyro_runtime.c): a sibling temporary *)
(* file, written, flushed, closed and renamed over the target. Every call  *)
(* into the system may fail, and the process may die between any two of    *)
(* them; it may then run again and find what it left. Content is a version *)
(* and the number of its blocks that reached the file. One process writes, *)
(* and the machine itself stays up.                                        *)
(***************************************************************************)
EXTENDS Integers

CONSTANTS
  Versions,   \* contents the program writes
  Blocks      \* blocks in each

ASSUME AtomicFileAssumption == Blocks \in Nat /\ "none" \notin Versions

VARIABLES
  target,   \* the file under its own name
  temp,     \* the file under name.tmp
  step,     \* where the native is
  ok,       \* its flag
  version,  \* what it was asked to write
  before,   \* the target when it was called
  outcome   \* what the last call gave: "none", "true", "false" or "died"

filevars == <<target, temp, step, ok, version, before, outcome>>

NoFile == [v |-> "none", n |-> 0]
Whole(v) == [v |-> v, n |-> Blocks]
Part(v)  == [v : {v}, n : 0 .. Blocks - 1]

FileInit ==
  /\ target = NoFile /\ temp = NoFile
  /\ step = "idle" /\ ok = FALSE /\ version = "none" /\ before = NoFile
  /\ outcome = "none"

write_file_atomic(v) ==
  /\ step = "idle"
  /\ step' = "open" /\ ok' = FALSE /\ version' = v /\ before' = target
  /\ UNCHANGED <<target, temp, outcome>>

Returns(b) == step' = "idle" /\ outcome' = IF b THEN "true" ELSE "false"

\* fopen(tmp, "wb") truncates what an earlier run may have left.
OpenTemp ==
  /\ step = "open"
  /\ step' = "write"
  /\ temp' = [v |-> version, n |-> 0]
  /\ UNCHANGED <<target, ok, version, before, outcome>>
OpenTempFails ==
  /\ step = "open"
  /\ Returns(FALSE)
  /\ UNCHANGED <<target, temp, ok, version, before>>

\* fwrite: any part of the data may already be in the file when it returns.
WriteTemp(good) ==
  /\ step = "write"
  /\ ok' = good
  /\ temp' \in Part(version) \cup (IF good THEN {Whole(version)} ELSE {})
  /\ step' = IF good THEN "flush" ELSE "close"
  /\ UNCHANGED <<target, version, before, outcome>>

\* Broken variant: the data is left in the buffer for fclose.
FlushSkipped(good) ==
  /\ step = "flush"
  /\ step' = "close"
  /\ UNCHANGED <<target, temp, ok, version, before, outcome>>

FlushTemp(good) ==
  /\ step = "flush"
  /\ ok' = good
  /\ IF good THEN temp' = Whole(version)
     ELSE temp' \in {t \in Part(version) : t.n >= temp.n}
  /\ step' = "close"
  /\ UNCHANGED <<target, version, before, outcome>>

\* fclose tries to write what a failed call left in the buffer; its own
\* result is not looked at.
CloseTemp ==
  /\ step = "close"
  /\ temp' \in IF temp = Whole(version) THEN {temp}
               ELSE {t \in Part(version) \cup {Whole(version)} : t.n >= temp.n}
  /\ step' = IF ok THEN "rename" ELSE "remove"
  /\ UNCHANGED <<target, ok, version, before, outcome>>

RenameTemp ==
  /\ step = "rename"
  /\ target' = temp /\ temp' = NoFile
  /\ Returns(TRUE)
  /\ UNCHANGED <<ok, version, before>>

\* Broken variant: a rename that fails is not noticed.
RenameFailsUnnoticed ==
  /\ step = "rename"
  /\ Returns(TRUE)
  /\ UNCHANGED <<target, temp, ok, version, before>>

RenameFails ==
  /\ step = "rename"
  /\ ok' = FALSE /\ step' = "remove"
  /\ UNCHANGED <<target, temp, version, before, outcome>>

\* remove(tmp), whether or not that succeeds.
RemoveTemp(good) ==
  /\ step = "remove"
  /\ IF good THEN temp' = NoFile ELSE UNCHANGED temp
  /\ Returns(FALSE)
  /\ UNCHANGED <<target, ok, version, before>>

\* The process dies; what is on disk stays. A rename takes place or not.
Dies ==
  /\ step # "idle"
  /\ step' = "idle" /\ outcome' = "died"
  /\ UNCHANGED <<target, temp, ok, version, before>>

FileNext ==
  \/ \E v \in Versions : write_file_atomic(v)
  \/ OpenTemp \/ OpenTempFails \/ CloseTemp \/ RenameTemp \/ RenameFails \/ Dies
  \/ \E good \in BOOLEAN : WriteTemp(good) \/ FlushTemp(good) \/ RemoveTemp(good)

FileSpec == FileInit /\ [][FileNext]_filevars

FileTypeOK ==
  /\ {target, temp, before} \subseteq {NoFile} \cup [v : Versions, n : 0 .. Blocks]
  /\ step \in {"idle", "open", "write", "flush", "close", "rename", "remove"}
  /\ ok \in BOOLEAN
  /\ version \in Versions \cup {"none"}
  /\ step # "idle" => version \in Versions
  /\ outcome \in {"none", "true", "false", "died"}

-----------------------------------------------------------------------------
\* "A reader sees the old file or the new one, never the truncated middle"
\* (pyro_runtime.c:3073): at every moment, crashes and leftovers of earlier
\* runs included, the target is absent or some version complete.
TargetAlwaysWhole == target = NoFile \/ target.n = Blocks

\* The result tells the truth: true means the target is what was written and
\* no temporary file is left, false means the target is what it was.
ResultTellsTheTruth ==
  step = "idle" =>
    /\ outcome = "true" => target = Whole(version) /\ temp = NoFile
    /\ outcome = "false" => target = before
=============================================================================
