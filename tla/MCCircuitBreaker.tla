-------------------------- MODULE MCCircuitBreaker --------------------------
(* Model checking of CircuitBreaker: three threads, two failures open it. *)
EXTENDS CircuitBreaker

CONSTANTS t1, t2, t3

MCThreads == {t1, t2, t3}
=============================================================================
