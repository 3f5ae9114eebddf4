----------------------------- MODULE CallTypes -----------------------------
(***************************************************************************)
(* The data exchanged by one CallPython round trip, shared by the abstract *)
(* service (CallService) and the supervisor that implements it.  A payload *)
(* is known by the goroutine that sends it and by the number of that call; *)
(* its only argument a property looks at is args["tenant"], or NoTenant    *)
(* when the call carries none.                                             *)
(***************************************************************************)
EXTENDS Naturals

CONSTANTS
    Callers,    \* goroutines that call runtime.CallPython (HTTP handlers, the job worker)
    Tenants,    \* values of args["tenant"]
    NoTenant,   \* args carries no "tenant" key
    MaxCalls    \* bound: calls made by one goroutine

ASSUME CallAssumption ==
    /\ MaxCalls \in Nat
    /\ NoTenant \notin Tenants

TenantArg == Tenants \cup {NoTenant}

\* socket.Payload: {handler, args}; k = 0 stands for "no call made yet".
Request == [caller : Callers, k : 0..MaxCalls, tenant : TenantArg]

\* socket.Response: a result or a CrossError raised by the handler of req.  db
\* names the tenant whose database that handler opened.
Response == [kind : {"result", "error"}, req : Request, db : TenantArg]

\* The errors made on the Go side (socket.NewGoError) and "not answered yet".
NoResult       == [kind |-> "none"]
RuntimeError   == [kind |-> "RuntimeError"]
TransportError == [kind |-> "TransportError"]

Result == Response \cup {NoResult, RuntimeError, TransportError}
=============================================================================
