------------------------------ MODULE MCGoJobs ------------------------------
(* Model checking of GoJobs: two requests and a poll, a channel of capacity 1 *)
(* so that senders block, two queues so that Shutdown and Init overlap old    *)
(* workers and calls.                                                         *)
EXTENDS GoJobs

CONSTANTS j1, j2, g1

MCJobs == {j1, j2}
MCPolls == {g1}
MCNone == {}
=============================================================================
