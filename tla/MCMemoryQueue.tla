--------------------------- MODULE MCMemoryQueue ---------------------------
(* Small instances of MemoryQueue. *)
EXTENDS MemoryQueue
CONSTANTS j1, j2, j3, w1, w2
MCJobs == {j1, j2, j3}
MCTwoJobs == {j1, j2}
MCWorkers == {w1, w2}
=============================================================================
