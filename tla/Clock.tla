-------------------------------- MODULE Clock --------------------------------
(* time.time(), in steps of one; MaxTime bounds it. *)
EXTENDS Naturals

CONSTANTS
    Epoch,      \* the time at which the process starts
    MaxTime     \* bound: the latest time explored

ASSUME ClockAssumption == Epoch \in Nat /\ MaxTime \in Nat /\ Epoch <= MaxTime

VARIABLE now    \* time.time()

Tick == now < MaxTime /\ now' = now + 1
=============================================================================
