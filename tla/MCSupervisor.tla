---------------------------- MODULE MCSupervisor ----------------------------
(* Model checking of Supervisor: identities are model values. *)
EXTENDS Supervisor

CONSTANTS c1, c2, a1, a2, t1, t2

MCCallers == {c1, c2}
MCAdmins  == {a1, a2}
MCOneTenant == {t1}
MCTwoTenants == {t1, t2}
=============================================================================
