----------------------------- MODULE MCDebugger -----------------------------
(* Two functions, the first with a prologue before its first statement; a   *)
(* loop on one line; a pc that begins two statements.                       *)
EXTENDS Debugger
MCDbg == << <<1, 1>>, <<2, 2>>, <<2, 3>>, <<4, 5>> >>
=============================================================================
