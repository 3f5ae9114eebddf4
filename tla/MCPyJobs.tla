------------------------------ MODULE MCPyJobs ------------------------------
(* Model checking of PyJobs. *)
EXTENDS PyJobs

CONSTANTS j1, j2, w1, w2

MCJobs == {j1, j2}
MCOneJob == {j1}
MCWorkers == {w1, w2}
=============================================================================
