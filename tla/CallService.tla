---------------------------- MODULE CallService ----------------------------
(***************************************************************************)
(* What runtime.CallPython promises its callers, with no lock, socket or   *)
(* process in sight: the handler of a call runs at most once and only      *)
(* while its caller is waiting; a caller that gets a response gets the one *)
(* of its own request, computed in the database of its own tenant; a       *)
(* refused call ("supervisor not started") has not run at all.             *)
(***************************************************************************)
EXTENDS CallTypes

VARIABLES
    pending,    \* callers waiting in CallPython
    creq,       \* creq[c]: the last request of c
    cres,       \* cres[c]: what the last call of c returned
    ran         \* requests whose handler was started

vars == <<pending, creq, cres, ran>>

Init ==
    /\ pending = {}
    /\ creq = [c \in Callers |-> [caller |-> c, k |-> 0, tenant |-> NoTenant]]
    /\ cres = [c \in Callers |-> NoResult]
    /\ ran = {}

Invoke(c) ==
    /\ c \notin pending
    /\ creq[c].k < MaxCalls
    /\ \E t \in TenantArg :
          creq' = [creq EXCEPT ![c] = [caller |-> c, k |-> creq[c].k + 1, tenant |-> t]]
    /\ pending' = pending \cup {c}
    /\ cres' = [cres EXCEPT ![c] = NoResult]
    /\ UNCHANGED ran

Execute(c) ==
    /\ c \in pending
    /\ creq[c] \notin ran
    /\ ran' = ran \cup {creq[c]}
    /\ UNCHANGED <<pending, creq, cres>>

Return(c, res) ==
    /\ c \in pending
    /\ pending' = pending \ {c}
    /\ cres' = [cres EXCEPT ![c] = res]
    /\ UNCHANGED <<creq, ran>>

Answer(c) ==
    /\ creq[c] \in ran
    /\ \E kind \in {"result", "error"} :
          Return(c, [kind |-> kind, req |-> creq[c], db |-> creq[c].tenant])

Lose(c) == Return(c, TransportError)

Refuse(c) ==
    /\ creq[c] \notin ran
    /\ Return(c, RuntimeError)

Next == \E c \in Callers :
           Invoke(c) \/ Execute(c) \/ Answer(c) \/ Lose(c) \/ Refuse(c)

Spec == Init /\ [][Next]_vars
=============================================================================
