----------------------------- MODULE Supervisor -----------------------------
(***************************************************************************)
(* core/runtime: the Go Supervisor, its Unix-socket connection and the     *)
(* Python subprocess that serves it (pyclient.serve / dispatch).           *)
(*                                                                         *)
(* Callers are goroutines in runtime.CallPython; Admins are goroutines     *)
(* that Start, Restart (hot reload) or Stop (signal) the supervisor.  Both *)
(* are serialised by Supervisor.mu, which a caller keeps for a whole round *)
(* trip.  Python processes are numbered in the order of their launch: each *)
(* has its own connection, so a frame is never read by another process.    *)
(***************************************************************************)
EXTENDS CallTypes, Sequences

CONSTANTS
    Admins,         \* goroutines that call Start, Restart or Stop
    Free,           \* mu is not held
    MaxLaunches     \* bound: python processes launched

ASSUME SupervisorAssumption ==
    /\ MaxLaunches \in Nat
    /\ Callers \cap Admins = {}
    /\ Free \notin Callers \cup Admins

Procs == 1..MaxLaunches

VARIABLES
    mu,         \* owner of Supervisor.mu
    started,    \* Supervisor.started
    conn,       \* Supervisor.conn: the process at its other end, 0 for nil
    ln,         \* Supervisor.ln: "nil", "open", or closed but still referenced
    cmd,        \* Supervisor.cmd: the last process launched, 0 for nil (never reset)
    accepted,   \* the buffered accept channel: 0 empty, else who dialled
    apc,        \* apc[a]: where the admin goroutine is
    cpc,        \* cpc[c]: where the caller goroutine is
    creq,       \* creq[c]: the last payload of c
    cres,       \* cres[c]: what the last CallPython of c returned
    py,         \* py[n]: life cycle of process n
    ptenant,    \* ptenant[n]: db._current_tenant in process n
    toPy,       \* toPy[n]: request frames in flight to process n
    cur,        \* cur[n]: the request process n is executing, at most one
    toGo,       \* toGo[n]: response frames in flight from process n
    ran         \* requests a process started to execute

goVars   == <<mu, started, conn, ln, cmd, accepted, apc>>
callVars == <<cpc, creq, cres>>
pyVars   == <<py, ptenant, toPy, cur, toGo, ran>>
vars     == <<goVars, callVars, pyVars>>

\* At most one process is expected to live, but nothing here assumes it.
Live(n) == py[n] \in {"boot", "up"}

Init ==
    /\ mu = Free /\ started = FALSE /\ conn = 0 /\ ln = "nil" /\ cmd = 0 /\ accepted = 0
    /\ apc = [a \in Admins |-> "idle"]
    /\ cpc = [c \in Callers |-> "idle"]
    /\ creq = [c \in Callers |-> [caller |-> c, k |-> 0, tenant |-> NoTenant]]
    /\ cres = [c \in Callers |-> NoResult]
    /\ py = [n \in Procs |-> "none"]
    /\ ptenant = [n \in Procs |-> NoTenant]
    /\ toPy = [n \in Procs |-> <<>>]
    /\ cur = [n \in Procs |-> <<>>]
    /\ toGo = [n \in Procs |-> <<>>]
    /\ ran = {}

-----------------------------------------------------------------------------
(* CallPython *)

\* A handler or the job worker enters runtime.CallPython and asks for mu.
CallPython(c) ==
    /\ cpc[c] = "idle"
    /\ creq[c].k < MaxCalls
    /\ \E t \in TenantArg :
          creq' = [creq EXCEPT ![c] = [caller |-> c, k |-> creq[c].k + 1, tenant |-> t]]
    /\ cpc' = [cpc EXCEPT ![c] = "lock"]
    /\ cres' = [cres EXCEPT ![c] = NoResult]
    /\ UNCHANGED <<goVars, pyVars>>

Ready == started /\ conn # 0

\* mu taken and released at once: "supervisor not started".
CallNotStarted(c) ==
    /\ cpc[c] = "lock"
    /\ mu = Free
    /\ ~Ready
    /\ cpc' = [cpc EXCEPT ![c] = "idle"]
    /\ cres' = [cres EXCEPT ![c] = RuntimeError]
    /\ UNCHANGED <<goVars, creq, pyVars>>

CallBegin(c) ==
    /\ cpc[c] = "lock"
    /\ mu = Free
    /\ Ready
    /\ mu' = c
    /\ cpc' = [cpc EXCEPT ![c] = "send"]
    /\ UNCHANGED <<started, conn, ln, cmd, accepted, apc, creq, cres, pyVars>>

\* CallPython returns res; the deferred Unlock runs.
Return(c, res) ==
    /\ mu' = Free
    /\ cpc' = [cpc EXCEPT ![c] = "idle"]
    /\ cres' = [cres EXCEPT ![c] = res]
    /\ UNCHANGED <<started, conn, ln, cmd, accepted, apc, creq>>

\* Conn.Send: the whole frame is written.
CallSend(c) ==
    /\ cpc[c] = "send"
    /\ py[conn] = "up"
    /\ toPy' = [toPy EXCEPT ![conn] = Append(@, creq[c])]
    /\ cpc' = [cpc EXCEPT ![c] = "recv"]
    /\ UNCHANGED <<goVars, creq, cres, py, ptenant, cur, toGo, ran>>

\* Conn.Send fails before a frame is delivered: the arguments cannot be
\* marshalled, or the peer is gone and the write reports it.
CallSendFails(c) ==
    /\ cpc[c] = "send"
    /\ Return(c, TransportError)
    /\ UNCHANGED pyVars

\* Conn.Recv reads one frame.  A frame that does not decode is consumed all the
\* same and reported as a TransportError.
CallRecv(c) ==
    /\ cpc[c] = "recv"
    /\ toGo[conn] # <<>>
    /\ \E res \in {Head(toGo[conn]), TransportError} : Return(c, res)
    /\ toGo' = [toGo EXCEPT ![conn] = Tail(@)]
    /\ UNCHANGED <<py, ptenant, toPy, cur, ran>>

\* A receive that gives up although Python is still there, as a read deadline
\* on the connection would.
CallEOFOrDeadline(c) ==
    /\ cpc[c] = "recv"
    /\ toGo[conn] = <<>>
    /\ Return(c, TransportError)
    /\ UNCHANGED pyVars

\* The error return that forgets mu.
CallEOFKeepsLock(c) ==
    /\ cpc[c] = "recv"
    /\ toGo[conn] = <<>>
    /\ py[conn] = "dead"
    /\ cpc' = [cpc EXCEPT ![c] = "idle"]
    /\ cres' = [cres EXCEPT ![c] = TransportError]
    /\ UNCHANGED <<goVars, creq, pyVars>>

\* Conn.Recv hits the end of the stream: Python closed it or died.
CallEOF(c) ==
    /\ cpc[c] = "recv"
    /\ toGo[conn] = <<>>
    /\ py[conn] = "dead"
    /\ Return(c, TransportError)
    /\ UNCHANGED pyVars

-----------------------------------------------------------------------------
(* Start, Restart, Stop *)

\* Kill without the process: the connection and the listener are closed only.
StopLockedNoKill ==
    /\ conn' = 0
    /\ ln' = "nil"
    /\ started' = FALSE
    /\ UNCHANGED <<py, toPy, cur, toGo>>

\* stopLocked: close the connection, kill and reap the process, close the
\* listener.  What was in flight on that connection is gone.
StopLocked ==
    /\ conn' = 0
    /\ ln' = "nil"
    /\ started' = FALSE
    /\ py' = [n \in Procs |-> IF n = cmd THEN "dead" ELSE py[n]]
    /\ toPy' = [n \in Procs |-> IF n = cmd THEN <<>> ELSE toPy[n]]
    /\ cur' = [n \in Procs |-> IF n = cmd THEN <<>> ELSE cur[n]]
    /\ toGo' = [n \in Procs |-> IF n = cmd THEN <<>> ELSE toGo[n]]

\* Start goes on to launch; on a started supervisor it returns nil (a stutter).
Start(a) ==
    /\ mu = Free
    /\ ~started
    /\ mu' = a
    /\ apc' = [apc EXCEPT ![a] = "launch"]
    /\ UNCHANGED <<started, conn, ln, cmd, accepted, callVars, pyVars>>

\* Restart stops whatever runs, then launches like Start.
Restart(a) ==
    /\ mu = Free
    /\ StopLocked
    /\ mu' = a
    /\ apc' = [apc EXCEPT ![a] = "launch"]
    /\ UNCHANGED <<cmd, accepted, callVars, ptenant, ran>>

Stop(a) ==
    /\ mu = Free
    /\ StopLocked
    /\ UNCHANGED <<mu, cmd, accepted, apc, callVars, ptenant, ran>>

\* socket.Listen and cmd.Start succeed; the accept goroutine is spawned.
Launch(a) ==
    /\ apc[a] = "launch"
    /\ cmd < MaxLaunches
    /\ ln' = "open"
    /\ cmd' = cmd + 1
    /\ py' = [py EXCEPT ![cmd + 1] = "boot"]
    /\ accepted' = 0
    /\ apc' = [apc EXCEPT ![a] = "accept"]
    /\ UNCHANGED <<mu, started, conn, callVars, ptenant, toPy, cur, toGo, ran>>

\* Listen fails and leaves ln alone, or exec fails and the listener it set is
\* closed but still referenced.
LaunchFails(a) ==
    /\ apc[a] = "launch"
    /\ ln' \in {ln, "closed"}
    /\ mu' = Free
    /\ apc' = [apc EXCEPT ![a] = "idle"]
    /\ UNCHANGED <<started, conn, cmd, accepted, callVars, pyVars>>

\* The accept goroutine delivered Python's connection.
Accept(a) ==
    /\ apc[a] = "accept"
    /\ accepted # 0
    /\ conn' = accepted
    /\ started' = TRUE
    /\ mu' = Free
    /\ apc' = [apc EXCEPT ![a] = "idle"]
    /\ UNCHANGED <<ln, cmd, accepted, callVars, pyVars>>

\* Accept reports an error, or AcceptTimeout elapses (select may choose it even
\* when the connection is there too).
AcceptFails(a) ==
    /\ apc[a] = "accept"
    /\ StopLocked
    /\ mu' = Free
    /\ apc' = [apc EXCEPT ![a] = "idle"]
    /\ UNCHANGED <<cmd, accepted, callVars, ptenant, ran>>

-----------------------------------------------------------------------------
(* The Python process *)

\* serve connects; the kernel queues it and the accept goroutine picks it up.
PyDial(n) ==
    /\ py[n] = "boot"
    /\ ln = "open"
    /\ accepted' = n
    /\ py' = [py EXCEPT ![n] = "up"]
    /\ UNCHANGED <<mu, started, conn, ln, cmd, apc, callVars, ptenant, toPy, cur, toGo, ran>>

\* dispatch that only ever sets a tenant and never clears it.
PyRecvKeepsTenant(n) ==
    /\ py[n] = "up"
    /\ cur[n] = <<>>
    /\ toPy[n] # <<>>
    /\ LET req == Head(toPy[n]) IN
          /\ cur' = [cur EXCEPT ![n] = <<req>>]
          /\ ptenant' = [ptenant EXCEPT ![n] = IF req.tenant = NoTenant THEN @ ELSE req.tenant]
          /\ ran' = ran \cup {req}
    /\ toPy' = [toPy EXCEPT ![n] = Tail(@)]
    /\ UNCHANGED <<goVars, callVars, py, toGo>>

\* serve reads a frame and dispatch starts on it: set_tenant(args.get("tenant")).
PyRecv(n) ==
    /\ py[n] = "up"
    /\ cur[n] = <<>>
    /\ toPy[n] # <<>>
    /\ LET req == Head(toPy[n]) IN
          /\ cur' = [cur EXCEPT ![n] = <<req>>]
          /\ ptenant' = [ptenant EXCEPT ![n] = req.tenant]
          /\ ran' = ran \cup {req}
    /\ toPy' = [toPy EXCEPT ![n] = Tail(@)]
    /\ UNCHANGED <<goVars, callVars, py, toGo>>

\* dispatch returns (a result, a handler's exception, HandlerNotFound) and serve
\* sends the frame.  The handler worked on the database of _current_tenant.
PyReply(n) ==
    /\ py[n] = "up"
    /\ cur[n] # <<>>
    /\ \E kind \in {"result", "error"} :
          toGo' = [toGo EXCEPT ![n] =
                     Append(@, [kind |-> kind, req |-> Head(cur[n]), db |-> ptenant[n]])]
    /\ cur' = [cur EXCEPT ![n] = <<>>]
    /\ UNCHANGED <<goVars, callVars, py, ptenant, toPy, ran>>

\* The process ends by itself at any point: an exception in serve (a result
\* that does not pack, a frame that does not unpack), a crash, an import error.
PyCrash(n) ==
    /\ Live(n)
    /\ py' = [py EXCEPT ![n] = "dead"]
    /\ toPy' = [toPy EXCEPT ![n] = <<>>]
    /\ cur' = [cur EXCEPT ![n] = <<>>]
    /\ UNCHANGED <<goVars, callVars, ptenant, toGo, ran>>

-----------------------------------------------------------------------------
CallStep(c) == \/ CallPython(c) \/ CallNotStarted(c) \/ CallBegin(c)
               \/ CallSend(c) \/ CallSendFails(c) \/ CallRecv(c) \/ CallEOF(c)

AdminStep(a) == \/ Start(a) \/ Restart(a) \/ Stop(a)
                \/ Launch(a) \/ LaunchFails(a) \/ Accept(a) \/ AcceptFails(a)

PyStep(n) == PyDial(n) \/ PyRecv(n) \/ PyReply(n) \/ PyCrash(n)

Next == \/ \E c \in Callers : CallStep(c)
        \/ \E a \in Admins : AdminStep(a)
        \/ \E n \in Procs : PyStep(n)

Spec == Init /\ [][Next]_vars

\* A goroutine that can run is scheduled, AcceptTimeout elapses, a handler that
\* was started ends and its reply is sent.  A goroutine waiting for mu gets it
\* although others keep taking it: sync.Mutex hands the lock to a waiter it has
\* starved for 1ms.  Nothing is assumed of the arrival of calls, of Start,
\* Restart and Stop, or of crashes.
Fairness ==
    /\ \A c \in Callers : SF_vars(CallNotStarted(c) \/ CallBegin(c))
    /\ \A c \in Callers : WF_vars(CallSend(c) \/ CallSendFails(c) \/ CallRecv(c) \/ CallEOF(c))
    /\ \A a \in Admins : WF_vars(AdminStep(a) /\ apc[a] # "idle")
    /\ \A n \in Procs : WF_vars(PyRecv(n) \/ PyReply(n))

FairSpec == Spec /\ Fairness

-----------------------------------------------------------------------------
(* Properties *)

TypeOK ==
    /\ mu \in Callers \cup Admins \cup {Free}
    /\ started \in BOOLEAN
    /\ conn \in Procs \cup {0}
    /\ ln \in {"nil", "open", "closed"}
    /\ cmd \in Procs \cup {0}
    /\ accepted \in Procs \cup {0}
    /\ apc \in [Admins -> {"idle", "launch", "accept"}]
    /\ cpc \in [Callers -> {"idle", "lock", "send", "recv"}]
    /\ creq \in [Callers -> Request]
    /\ cres \in [Callers -> Result]
    /\ py \in [Procs -> {"none", "boot", "up", "dead"}]
    /\ ptenant \in [Procs -> TenantArg]
    /\ toPy \in [Procs -> Seq(Request)]
    /\ cur \in [Procs -> Seq(Request)]
    /\ toGo \in [Procs -> Seq(Response)]
    /\ ran \subseteq Request

\* CallPython never hands a goroutine the answer to another call, neither another
\* goroutine's nor its own earlier one (the round trip is serialised by mu and
\* every error path leaves no frame behind).
OwnResponse ==
    \A c \in Callers : cres[c] \in Response => cres[c].req = creq[c]

\* The answer to a call for a tenant was computed in that tenant's database, and to
\* a call without a tenant never in a tenant's (dispatch's single global
\* _current_tenant is safe because the supervisor serialises CallPython).
TenantIsolation ==
    \A c \in Callers : cres[c] \in Response => cres[c].db = creq[c].tenant

\* Never two Python processes at once, over any sequence of Start, Restart, Stop,
\* failed launches, timeouts and crashes.
OnePython ==
    \A m, n \in Procs : Live(m) /\ Live(n) => m = n

\* When Start, Restart or Stop has returned and the supervisor is not started, no
\* Python process is left behind, failed starts included.
StoppedMeansDead ==
    mu = Free /\ ~started => \A n \in Procs : ~Live(n)

\* A handler runs only on behalf of a goroutine that is still waiting for it: no
\* Restart, Stop or error return abandons a call whose handler goes on running.
NoOrphanRun ==
    \A n \in Procs : \A i \in 1..Len(cur[n]) :
        LET c == cur[n][i].caller IN
        cpc[c] = "recv" /\ creq[c] = cur[n][i] /\ conn = n

\* The life of the Python process over any sequence of Start, Restart, Stop, failed
\* launches and crashes: one at a time, none left behind, none stopped or replaced
\* while a handler runs for somebody.
ProcessLifecycle == OnePython /\ StoppedMeansDead /\ NoOrphanRun

\* The strengthening the proofs use: who holds mu, which process is the current
\* one, and the one frame that may be on its way.
MutexInv ==
    /\ \A c \in Callers : cpc[c] \in {"send", "recv"} <=> mu = c
    /\ \A a \in Admins : apc[a] # "idle" <=> mu = a

ProcInv ==
    /\ \A n \in Procs : Live(n) => n = cmd
    /\ \A n \in Procs : n > cmd => py[n] = "none"
    /\ \A n \in Procs : n <= cmd => py[n] # "none"
    /\ started <=> conn # 0
    /\ conn # 0 => conn = cmd /\ py[conn] # "boot"
    /\ mu \in Callers => conn # 0
    /\ mu \in Admins => ~started
    /\ \A a \in Admins : apc[a] = "launch" => \A n \in Procs : ~Live(n)
    /\ (\E a \in Admins : apc[a] = "accept") /\ accepted # 0 => accepted = cmd /\ py[accepted] # "boot"
    /\ StoppedMeansDead

Quiet(n) == toPy[n] = <<>> /\ cur[n] = <<>> /\ toGo[n] = <<>>

InFlight(n, req) ==
    \/ /\ toPy[n] = <<req>> /\ cur[n] = <<>> /\ toGo[n] = <<>>
       /\ py[n] = "up" /\ req \notin ran
    \/ /\ toPy[n] = <<>> /\ cur[n] = <<req>> /\ toGo[n] = <<>>
       /\ py[n] = "up" /\ req \in ran /\ ptenant[n] = req.tenant
    \/ /\ toPy[n] = <<>> /\ cur[n] = <<>> /\ req \in ran
       /\ \E kind \in {"result", "error"} :
             toGo[n] = <<[kind |-> kind, req |-> req, db |-> req.tenant]>>

WireInv ==
    /\ \A n \in Procs : Quiet(n) \/ (n = conn /\ \E c \in Callers : cpc[c] = "recv")
    /\ \A c \in Callers : cpc[c] = "recv" =>
          InFlight(conn, creq[c]) \/ (py[conn] = "dead" /\ Quiet(conn))

RanInv ==
    /\ \A c \in Callers : creq[c].caller = c
    /\ \A req \in ran : req.k <= creq[req.caller].k
    /\ \A c \in Callers : cpc[c] \in {"lock", "send"} => creq[c] \notin ran

IInv == TypeOK /\ MutexInv /\ ProcInv /\ WireInv /\ RanInv /\ OwnResponse /\ TenantIsolation

\* The supervisor implements the service its callers were promised.
Service == INSTANCE CallService WITH pending <- {c \in Callers : cpc[c] # "idle"}

\* Every handler runs at most once and only for a waiting caller, every answer is
\* its own call's, a refused call has not run: CallPython implements CallService.
ImplementsService == Service!Spec

\* Every CallPython returns, whatever crashes, restarts and stops happen meanwhile
\* (no error path of CallPython, Start or Restart keeps mu).
CallReturns ==
    \A c \in Callers : cpc[c] # "idle" ~> cpc[c] = "idle"

=============================================================================
