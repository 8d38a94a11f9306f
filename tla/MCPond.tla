------------------------------- MODULE MCPond -------------------------------
(* A small instance of PondRuns for TLC. *)
EXTENDS PondRuns, TLC

CONSTANTS r1, r2, scan1, scan2, status1

\* A scan and another request under one run id, and a scan under another.
MCIdOf == scan1 :> r1 @@ status1 :> r1 @@ scan2 :> r2
=============================================================================
