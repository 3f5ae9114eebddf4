----------------------------- MODULE MCConnPool -----------------------------
(* Model checking of ConnPool. *)
EXTENDS ConnPool

CONSTANTS t1, t2, t3

MCThreads == {t1, t2}
MCThreeThreads == {t1, t2, t3}
=============================================================================
