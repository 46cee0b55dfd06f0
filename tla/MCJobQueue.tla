------------------------------ MODULE MCJobQueue ------------------------------
(* JobQueue for TLC. *)
EXTENDS JobQueue, TLC

CONSTANTS j1, j2

TwoJobs == {j1, j2}
FirstJob == {j1}
=============================================================================
