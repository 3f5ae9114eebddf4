-------------------------- MODULE SupervisorProofs --------------------------
(***************************************************************************)
(* Proofs about Supervisor, for any number of goroutines, tenants, calls   *)
(* and launches.  IInv is inductive: one lemma per action, one step per    *)
(* conjunct, an argument of its own where the action moves a frame or a    *)
(* process.  The safety invariants and the refinement follow from it.      *)
(***************************************************************************)
EXTENDS Supervisor, TLAPS

USE CallAssumption, SupervisorAssumption

\* stopLocked keeps the shapes of the process table and of the wires.
LEMMA StopLockedType ==
    ASSUME TypeOK, StopLocked
    PROVE  /\ py' \in [Procs -> {"none", "boot", "up", "dead"}]
           /\ toPy' \in [Procs -> Seq(Request)]
           /\ cur' \in [Procs -> Seq(Request)]
           /\ toGo' \in [Procs -> Seq(Response)]
<1>1. py' \in [Procs -> {"none", "boot", "up", "dead"}]
  BY DEF TypeOK, StopLocked
<1>2. toPy' \in [Procs -> Seq(Request)]
  <2>1. ASSUME NEW n \in Procs PROVE (IF n = cmd THEN <<>> ELSE toPy[n]) \in Seq(Request)
    BY DEF TypeOK
  <2>2. QED
    BY <2>1 DEF StopLocked
<1>3. cur' \in [Procs -> Seq(Request)]
  <2>1. ASSUME NEW n \in Procs PROVE (IF n = cmd THEN <<>> ELSE cur[n]) \in Seq(Request)
    BY DEF TypeOK
  <2>2. QED
    BY <2>1 DEF StopLocked
<1>4. toGo' \in [Procs -> Seq(Response)]
  <2>1. ASSUME NEW n \in Procs PROVE (IF n = cmd THEN <<>> ELSE toGo[n]) \in Seq(Response)
    BY DEF TypeOK
  <2>2. QED
    BY <2>1 DEF StopLocked
<1>5. QED
  BY <1>1, <1>2, <1>3, <1>4

\* A new call: its request is fresh, so it has not run.
LEMMA CallPythonKeeps ==
    ASSUME IInv, NEW c \in Callers, CallPython(c)
    PROVE  IInv'
<1>1. PICK t \in TenantArg :
        creq' = [creq EXCEPT ![c] = [caller |-> c, k |-> creq[c].k + 1, tenant |-> t]]
  BY DEF CallPython
<1> DEFINE req == [caller |-> c, k |-> creq[c].k + 1, tenant |-> t]
<1>2. creq[c].k \in Nat /\ req \in Request
  BY DEF IInv, TypeOK, CallPython, Request
<1>3. req \notin ran
  <2>1. req.caller = c /\ req.k > creq[c].k
    BY <1>2
  <2>2. QED
    BY <2>1, <1>2 DEF IInv, RanInv, TypeOK
<1>4. TypeOK'
  BY <1>1, <1>2 DEF IInv, TypeOK, CallPython, goVars, pyVars, Result
<1>5. MutexInv'
  BY DEF IInv, TypeOK, MutexInv, CallPython, goVars
<1>6. ProcInv'
  BY DEF IInv, TypeOK, ProcInv, StoppedMeansDead, Live, CallPython, goVars, pyVars
<1>7. WireInv'
  BY DEF IInv, TypeOK, WireInv, Quiet, InFlight, CallPython, goVars, pyVars
<1>8. RanInv'
  <2>1. ASSUME NEW r \in ran PROVE r.k <= creq'[r.caller].k
    BY <1>1, <1>2 DEF IInv, RanInv, TypeOK, Request
  <2>2. QED
    BY <1>1, <1>2, <1>3, <2>1 DEF IInv, RanInv, TypeOK, CallPython, pyVars
<1>9. OwnResponse' /\ TenantIsolation'
  BY DEF IInv, TypeOK, OwnResponse, TenantIsolation, Response, NoResult, CallPython
<1>10. QED
  BY <1>4, <1>5, <1>6, <1>7, <1>8, <1>9 DEF IInv

\* A refused call takes nothing and leaves nothing behind.
LEMMA CallNotStartedKeeps ==
    ASSUME IInv, NEW c \in Callers, CallNotStarted(c)
    PROVE  IInv'
<1> USE DEF IInv
<1>1. TypeOK'
  BY DEF TypeOK, Result, MutexInv, ProcInv, CallNotStarted, Ready, goVars, pyVars
<1>2. MutexInv'
  BY DEF TypeOK, MutexInv, CallNotStarted, Ready, goVars, pyVars
<1>3. ProcInv'
  BY DEF TypeOK, MutexInv, ProcInv, StoppedMeansDead, Procs, Live, CallNotStarted, Ready, goVars, pyVars
<1>4. WireInv'
  BY DEF TypeOK, MutexInv, ProcInv, WireInv, Quiet, InFlight, Procs, Live, CallNotStarted, Ready, goVars, pyVars
<1>5. RanInv'
  BY DEF TypeOK, RanInv, MutexInv, CallNotStarted, Ready, goVars, pyVars
<1>6. OwnResponse' /\ TenantIsolation'
  BY DEF TypeOK, OwnResponse, TenantIsolation, Response, RuntimeError, TransportError, CallNotStarted, Ready, goVars, pyVars
<1>7. QED
  BY <1>1, <1>2, <1>3, <1>4, <1>5, <1>6

\* Taking mu: the connection is the current process's and is quiet.
LEMMA CallBeginKeeps ==
    ASSUME IInv, NEW c \in Callers, CallBegin(c)
    PROVE  IInv'
<1> USE DEF IInv
<1>1. TypeOK'
  BY DEF TypeOK, MutexInv, ProcInv, CallBegin, Ready, pyVars
<1>2. MutexInv'
  BY DEF TypeOK, MutexInv, CallBegin, Ready, pyVars
<1>3. ProcInv'
  BY DEF TypeOK, MutexInv, ProcInv, StoppedMeansDead, Procs, Live, CallBegin, Ready, pyVars
<1>4. WireInv'
  BY DEF TypeOK, MutexInv, ProcInv, WireInv, Quiet, InFlight, Procs, Live, CallBegin, Ready, pyVars
<1>5. RanInv'
  BY DEF TypeOK, RanInv, MutexInv, CallBegin, Ready, pyVars
<1>6. OwnResponse' /\ TenantIsolation'
  BY DEF TypeOK, OwnResponse, TenantIsolation, CallBegin, Ready, pyVars
<1>7. QED
  BY <1>1, <1>2, <1>3, <1>4, <1>5, <1>6

\* Sending: the only frame of the connection becomes the caller's request.
LEMMA CallSendKeeps ==
    ASSUME IInv, NEW c \in Callers, CallSend(c)
    PROVE  IInv'
<1> USE DEF IInv
<1>0. mu = c /\ conn \in Procs
  BY DEF IInv, TypeOK, MutexInv, ProcInv, CallSend
<1>1. TypeOK'
  BY <1>0 DEF TypeOK, CallSend, goVars, callVars
<1>2. MutexInv'
  BY DEF TypeOK, MutexInv, CallSend, goVars
<1>3. ProcInv'
  BY DEF TypeOK, MutexInv, ProcInv, StoppedMeansDead, Procs, Live, CallSend, goVars
<1>4. WireInv'
  <2>1. \A n \in Procs : Quiet(n)
    BY <1>0 DEF MutexInv, WireInv, CallSend
  <2>2. toPy'[conn] = <<creq[c]>>
    <3>1. toPy'[conn] = Append(<<>>, creq[c])
      BY <1>0, <2>1 DEF TypeOK, Quiet, CallSend
    <3>2. QED
      BY <3>1
  <2>3. creq[c] \notin ran
    BY DEF RanInv, CallSend
  <2>4. InFlight(conn, creq[c])'
    BY <1>0, <2>1, <2>2, <2>3 DEF Quiet, InFlight, CallSend, goVars
  <2>5. \A n \in Procs : n # conn => Quiet(n)'
    BY <1>0, <2>1 DEF TypeOK, Quiet, CallSend
  <2>6. \A d \in Callers : d # c => cpc[d] # "recv"
    BY <1>0 DEF MutexInv
  <2>7. QED
    BY <1>0, <2>4, <2>5, <2>6 DEF WireInv, TypeOK, CallSend, goVars
<1>5. RanInv'
  BY DEF TypeOK, RanInv, MutexInv, CallSend, goVars
<1>6. OwnResponse' /\ TenantIsolation'
  BY DEF TypeOK, OwnResponse, TenantIsolation, CallSend, goVars
<1>7. QED
  BY <1>1, <1>2, <1>3, <1>4, <1>5, <1>6

\* A failed Send releases mu with the wire still quiet.
LEMMA CallSendFailsKeeps ==
    ASSUME IInv, NEW c \in Callers, CallSendFails(c)
    PROVE  IInv'
<1> USE DEF IInv
<1>1. TypeOK'
  BY DEF TypeOK, Result, MutexInv, ProcInv, CallSendFails, Return, pyVars
<1>2. MutexInv'
  BY DEF TypeOK, MutexInv, CallSendFails, Return, pyVars
<1>3. ProcInv'
  BY DEF TypeOK, MutexInv, ProcInv, StoppedMeansDead, Procs, Live, CallSendFails, Return, pyVars
<1>4. WireInv'
  BY DEF TypeOK, MutexInv, ProcInv, WireInv, Quiet, InFlight, Procs, Live, CallSendFails, Return, pyVars
<1>5. RanInv'
  BY DEF TypeOK, RanInv, MutexInv, CallSendFails, Return, pyVars
<1>6. OwnResponse' /\ TenantIsolation'
  BY DEF TypeOK, OwnResponse, TenantIsolation, Response, RuntimeError, TransportError, CallSendFails, Return, pyVars
<1>7. QED
  BY <1>1, <1>2, <1>3, <1>4, <1>5, <1>6

\* Receiving: the one frame of the connection is the answer to this call.
LEMMA CallRecvKeeps ==
    ASSUME IInv, NEW c \in Callers, CallRecv(c)
    PROVE  IInv'
<1> USE DEF IInv
<1>a. mu = c /\ conn \in Procs /\ \A d \in Callers : d # c => cpc[d] # "recv"
  BY DEF TypeOK, MutexInv, ProcInv, CallRecv
<1>b. PICK kind \in {"result", "error"} :
        toGo[conn] = <<[kind |-> kind, req |-> creq[c], db |-> creq[c].tenant]>>
  BY <1>a DEF CallRecv, WireInv, Quiet, InFlight
<1>c. toPy[conn] = <<>> /\ cur[conn] = <<>>
  BY <1>b DEF CallRecv, WireInv, Quiet, InFlight
<1> DEFINE resp == [kind |-> kind, req |-> creq[c], db |-> creq[c].tenant]
<1>d. Head(toGo[conn]) = resp /\ Tail(toGo[conn]) = <<>>
  BY <1>b
<1>e. resp \in Response
  BY DEF TypeOK, Request, Response
<1>f. PICK res \in {resp, TransportError} : Return(c, res)
  BY <1>d DEF CallRecv
<1>g. toGo' = [toGo EXCEPT ![conn] = <<>>]
  BY <1>d DEF CallRecv
<1>1. TypeOK'
  BY <1>a, <1>e, <1>f, <1>g DEF TypeOK, CallRecv, Return, Result
<1>2. MutexInv'
  BY DEF TypeOK, MutexInv, CallRecv, Return
<1>3. ProcInv'
  BY DEF TypeOK, MutexInv, ProcInv, StoppedMeansDead, Procs, Live, CallRecv, Return
<1>4. WireInv'
  <2>1. \A n \in Procs : Quiet(n)'
    BY <1>a, <1>c, <1>g DEF Quiet, WireInv, TypeOK, CallRecv
  <2>2. \A d \in Callers : cpc'[d] # "recv"
    BY <1>a, <1>f DEF Return, TypeOK
  <2>3. QED
    BY <2>1, <2>2 DEF WireInv
<1>5. RanInv'
  BY DEF TypeOK, RanInv, MutexInv, CallRecv, Return
<1>6. OwnResponse' /\ TenantIsolation'
  <2>1. cres' = [cres EXCEPT ![c] = res] /\ creq' = creq
    BY <1>f DEF Return
  <2>2. TransportError \notin Response
    BY DEF TransportError, Response
  <2>3. resp.req = creq[c] /\ resp.db = creq[c].tenant
    OBVIOUS
  <2> HIDE DEF resp
  <2>4. QED
    BY <2>1, <2>2, <2>3 DEF OwnResponse, TenantIsolation, TypeOK
<1>7. QED
  BY <1>1, <1>2, <1>3, <1>4, <1>5, <1>6

\* End of stream: the process is dead, so nothing of this call is left.
LEMMA CallEOFKeeps ==
    ASSUME IInv, NEW c \in Callers, CallEOF(c)
    PROVE  IInv'
<1> USE DEF IInv
<1>1. TypeOK'
  BY DEF TypeOK, Result, MutexInv, ProcInv, CallEOF, Return, pyVars
<1>2. MutexInv'
  BY DEF TypeOK, MutexInv, CallEOF, Return, pyVars
<1>3. ProcInv'
  BY DEF TypeOK, MutexInv, ProcInv, StoppedMeansDead, Procs, Live, CallEOF, Return, pyVars
<1>4. WireInv'
  <2>1. mu = c /\ conn \in Procs /\ \A d \in Callers : d # c => cpc[d] # "recv"
    BY DEF TypeOK, MutexInv, ProcInv, CallEOF
  <2>2. \A n \in Procs : Quiet(n)
    BY <2>1 DEF WireInv, InFlight, CallEOF
  <2>3. \A n \in Procs : Quiet(n)'
    BY <2>2 DEF Quiet, CallEOF, pyVars
  <2>4. \A d \in Callers : cpc'[d] # "recv"
    BY <2>1 DEF CallEOF, Return, TypeOK
  <2>5. QED
    BY <2>3, <2>4 DEF WireInv
<1>5. RanInv'
  BY DEF TypeOK, RanInv, MutexInv, CallEOF, Return, pyVars
<1>6. OwnResponse' /\ TenantIsolation'
  BY DEF TypeOK, OwnResponse, TenantIsolation, Response, RuntimeError, TransportError, CallEOF, Return, pyVars
<1>7. QED
  BY <1>1, <1>2, <1>3, <1>4, <1>5, <1>6

\* Start takes mu on a supervisor that is not started.
LEMMA StartKeeps ==
    ASSUME IInv, NEW a \in Admins, Start(a)
    PROVE  IInv'
<1> USE DEF IInv
<1>1. TypeOK'
  BY DEF TypeOK, MutexInv, ProcInv, Start, callVars, pyVars
<1>2. MutexInv'
  BY DEF TypeOK, MutexInv, Start, callVars, pyVars
<1>3. ProcInv'
  BY DEF TypeOK, MutexInv, ProcInv, StoppedMeansDead, Procs, Live, Start, callVars, pyVars
<1>4. WireInv'
  BY DEF TypeOK, MutexInv, ProcInv, WireInv, Quiet, InFlight, Procs, Live, Start, callVars, pyVars
<1>5. RanInv'
  BY DEF TypeOK, RanInv, MutexInv, Start, callVars, pyVars
<1>6. OwnResponse' /\ TenantIsolation'
  BY DEF TypeOK, OwnResponse, TenantIsolation, Start, callVars, pyVars
<1>7. QED
  BY <1>1, <1>2, <1>3, <1>4, <1>5, <1>6

\* Restart holds mu, so what it kills serves nobody.
LEMMA RestartKeeps ==
    ASSUME IInv, NEW a \in Admins, Restart(a)
    PROVE  IInv'
<1> USE DEF IInv
<1>1. TypeOK'
  <2>1. TypeOK /\ StopLocked
    BY DEF Restart
  <2>2. QED
    BY <2>1, StopLockedType DEF TypeOK, Restart, StopLocked, callVars
<1>2. MutexInv'
  BY DEF TypeOK, MutexInv, Restart, StopLocked, callVars
<1>3. ProcInv'
  BY DEF TypeOK, MutexInv, ProcInv, StoppedMeansDead, Procs, Live, Restart, StopLocked, callVars
<1>4. WireInv'
  BY DEF TypeOK, MutexInv, ProcInv, WireInv, Quiet, InFlight, Procs, Live, Restart, StopLocked, callVars
<1>5. RanInv'
  BY DEF TypeOK, RanInv, MutexInv, Restart, StopLocked, callVars
<1>6. OwnResponse' /\ TenantIsolation'
  BY DEF TypeOK, OwnResponse, TenantIsolation, Restart, StopLocked, callVars
<1>7. QED
  BY <1>1, <1>2, <1>3, <1>4, <1>5, <1>6

\* Stop holds mu, so what it kills serves nobody.
LEMMA StopKeeps ==
    ASSUME IInv, NEW a \in Admins, Stop(a)
    PROVE  IInv'
<1> USE DEF IInv
<1>1. TypeOK'
  <2>1. TypeOK /\ StopLocked
    BY DEF Stop
  <2>2. QED
    BY <2>1, StopLockedType DEF TypeOK, Stop, StopLocked, callVars
<1>2. MutexInv'
  BY DEF TypeOK, MutexInv, Stop, StopLocked, callVars
<1>3. ProcInv'
  BY DEF TypeOK, MutexInv, ProcInv, StoppedMeansDead, Procs, Live, Stop, StopLocked, callVars
<1>4. WireInv'
  BY DEF TypeOK, MutexInv, ProcInv, WireInv, Quiet, InFlight, Procs, Live, Stop, StopLocked, callVars
<1>5. RanInv'
  BY DEF TypeOK, RanInv, MutexInv, Stop, StopLocked, callVars
<1>6. OwnResponse' /\ TenantIsolation'
  BY DEF TypeOK, OwnResponse, TenantIsolation, Stop, StopLocked, callVars
<1>7. QED
  BY <1>1, <1>2, <1>3, <1>4, <1>5, <1>6

\* A launch adds the only live process.
LEMMA LaunchKeeps ==
    ASSUME IInv, NEW a \in Admins, Launch(a)
    PROVE  IInv'
<1> USE DEF IInv
<1>1. TypeOK'
  BY DEF TypeOK, Launch, Procs, goVars, callVars
<1>2. MutexInv'
  BY DEF TypeOK, MutexInv, Launch, callVars
<1>3. ProcInv'
  <2>1. mu = a /\ mu \notin Callers /\ ~started /\ conn = 0 /\ cmd \in Nat /\ cmd + 1 \in Procs
    BY DEF MutexInv, ProcInv, TypeOK, Launch, Procs
  <2>2. \A n \in Procs : ~Live(n)
    BY DEF ProcInv, Launch
  <2>3. /\ cmd' = cmd + 1 /\ accepted' = 0 /\ apc' = [apc EXCEPT ![a] = "accept"]
        /\ UNCHANGED <<mu, started, conn>>
    BY DEF Launch
  <2>4. \A n \in Procs : py'[n] = IF n = cmd + 1 THEN "boot" ELSE py[n]
    BY <2>1 DEF TypeOK, Launch
  <2>5. \A n \in Procs : Live(n)' => n = cmd'
    BY <2>2, <2>3, <2>4 DEF Live
  <2>6. \A n \in Procs : n > cmd' => py'[n] = "none"
    BY <2>1, <2>3, <2>4 DEF ProcInv, Procs
  <2>7. \A n \in Procs : n <= cmd' => py'[n] # "none"
    BY <2>1, <2>3, <2>4 DEF ProcInv, Procs
  <2>8. \A b \in Admins : apc'[b] # "launch"
    BY <2>1, <2>3 DEF MutexInv, TypeOK
  <2>9. mu' # Free
    BY <2>1, <2>3
  <2>10. QED
    BY <2>1, <2>3, <2>5, <2>6, <2>7, <2>8, <2>9 DEF ProcInv, StoppedMeansDead
<1>4. WireInv'
  BY DEF TypeOK, MutexInv, ProcInv, WireInv, Quiet, InFlight, Procs, Live, Launch, callVars
<1>5. RanInv'
  BY DEF TypeOK, RanInv, MutexInv, Launch, callVars
<1>6. OwnResponse' /\ TenantIsolation'
  BY DEF TypeOK, OwnResponse, TenantIsolation, Launch, callVars
<1>7. QED
  BY <1>1, <1>2, <1>3, <1>4, <1>5, <1>6

\* A failed launch leaves no process.
LEMMA LaunchFailsKeeps ==
    ASSUME IInv, NEW a \in Admins, LaunchFails(a)
    PROVE  IInv'
<1> USE DEF IInv
<1>1. TypeOK'
  BY DEF TypeOK, MutexInv, ProcInv, LaunchFails, callVars, pyVars
<1>2. MutexInv'
  BY DEF TypeOK, MutexInv, LaunchFails, callVars, pyVars
<1>3. ProcInv'
  BY DEF TypeOK, MutexInv, ProcInv, StoppedMeansDead, Procs, Live, LaunchFails, callVars, pyVars
<1>4. WireInv'
  BY DEF TypeOK, MutexInv, ProcInv, WireInv, Quiet, InFlight, Procs, Live, LaunchFails, callVars, pyVars
<1>5. RanInv'
  BY DEF TypeOK, RanInv, MutexInv, LaunchFails, callVars, pyVars
<1>6. OwnResponse' /\ TenantIsolation'
  BY DEF TypeOK, OwnResponse, TenantIsolation, LaunchFails, callVars, pyVars
<1>7. QED
  BY <1>1, <1>2, <1>3, <1>4, <1>5, <1>6

\* The connection handed over is the one of the process just launched.
LEMMA AcceptKeeps ==
    ASSUME IInv, NEW a \in Admins, Accept(a)
    PROVE  IInv'
<1> USE DEF IInv
<1>1. TypeOK'
  BY DEF TypeOK, MutexInv, ProcInv, Accept, callVars, pyVars
<1>2. MutexInv'
  BY DEF TypeOK, MutexInv, Accept, callVars, pyVars
<1>3. ProcInv'
  BY DEF TypeOK, MutexInv, ProcInv, StoppedMeansDead, Procs, Live, Accept, callVars, pyVars
<1>4. WireInv'
  BY DEF TypeOK, MutexInv, ProcInv, WireInv, Quiet, InFlight, Procs, Live, Accept, callVars, pyVars
<1>5. RanInv'
  BY DEF TypeOK, RanInv, MutexInv, Accept, callVars, pyVars
<1>6. OwnResponse' /\ TenantIsolation'
  BY DEF TypeOK, OwnResponse, TenantIsolation, Accept, callVars, pyVars
<1>7. QED
  BY <1>1, <1>2, <1>3, <1>4, <1>5, <1>6

\* A failed accept kills the process it launched.
LEMMA AcceptFailsKeeps ==
    ASSUME IInv, NEW a \in Admins, AcceptFails(a)
    PROVE  IInv'
<1> USE DEF IInv
<1>1. TypeOK'
  <2>1. TypeOK /\ StopLocked
    BY DEF AcceptFails
  <2>2. QED
    BY <2>1, StopLockedType DEF TypeOK, AcceptFails, StopLocked, callVars
<1>2. MutexInv'
  BY DEF TypeOK, MutexInv, AcceptFails, StopLocked, callVars
<1>3. ProcInv'
  BY DEF TypeOK, MutexInv, ProcInv, StoppedMeansDead, Procs, Live, AcceptFails, StopLocked, callVars
<1>4. WireInv'
  BY DEF TypeOK, MutexInv, ProcInv, WireInv, Quiet, InFlight, Procs, Live, AcceptFails, StopLocked, callVars
<1>5. RanInv'
  BY DEF TypeOK, RanInv, MutexInv, AcceptFails, StopLocked, callVars
<1>6. OwnResponse' /\ TenantIsolation'
  BY DEF TypeOK, OwnResponse, TenantIsolation, AcceptFails, StopLocked, callVars
<1>7. QED
  BY <1>1, <1>2, <1>3, <1>4, <1>5, <1>6

\* Dialling happens between launch and accept.
LEMMA PyDialKeeps ==
    ASSUME IInv, NEW n \in Procs, PyDial(n)
    PROVE  IInv'
<1> USE DEF IInv
<1>1. TypeOK'
  BY DEF TypeOK, MutexInv, ProcInv, PyDial, callVars
<1>2. MutexInv'
  BY DEF TypeOK, MutexInv, PyDial, callVars
<1>3. ProcInv'
  BY DEF TypeOK, MutexInv, ProcInv, StoppedMeansDead, Procs, Live, PyDial, callVars
<1>4. WireInv'
  BY DEF TypeOK, MutexInv, ProcInv, WireInv, Quiet, InFlight, Procs, Live, PyDial, callVars
<1>5. RanInv'
  BY DEF TypeOK, RanInv, MutexInv, PyDial, callVars
<1>6. OwnResponse' /\ TenantIsolation'
  BY DEF TypeOK, OwnResponse, TenantIsolation, PyDial, callVars
<1>7. QED
  BY <1>1, <1>2, <1>3, <1>4, <1>5, <1>6

\* Dispatch starts on the one request of the connection and sets its tenant.
LEMMA PyRecvKeeps ==
    ASSUME IInv, NEW n \in Procs, PyRecv(n)
    PROVE  IInv'
<1> USE DEF IInv
<1>a. PICK c \in Callers : cpc[c] = "recv" /\ n = conn
  BY DEF PyRecv, WireInv, Quiet
<1>b. toPy[n] = <<creq[c]>> /\ toGo[n] = <<>>
  BY <1>a DEF PyRecv, WireInv, InFlight, Quiet
<1>c. /\ cur' = [cur EXCEPT ![n] = <<creq[c]>>]
      /\ ptenant' = [ptenant EXCEPT ![n] = creq[c].tenant]
      /\ ran' = ran \cup {creq[c]}
      /\ toPy' = [toPy EXCEPT ![n] = <<>>]
      /\ UNCHANGED <<goVars, callVars, py, toGo>>
  <2>1. Head(toPy[n]) = creq[c] /\ Tail(toPy[n]) = <<>>
    BY <1>b
  <2>2. QED
    BY <2>1 DEF PyRecv
<1>1. TypeOK'
  <2>1. creq[c] \in Request /\ creq[c].tenant \in TenantArg
    BY DEF TypeOK, Request
  <2>2. QED
    BY <1>c, <2>1 DEF TypeOK, goVars, callVars
<1>2. MutexInv'
  BY DEF TypeOK, MutexInv, PyRecv, goVars, callVars
<1>3. ProcInv'
  BY DEF TypeOK, MutexInv, ProcInv, StoppedMeansDead, Procs, Live, PyRecv, goVars, callVars
<1>4. WireInv'
  <2>1. InFlight(n, creq[c])'
    BY <1>b, <1>c DEF InFlight, PyRecv, TypeOK, callVars
  <2>2. \A m \in Procs \ {n} : Quiet(m)'
    BY <1>a, <1>c DEF Quiet, WireInv, TypeOK
  <2>3. \A d \in Callers : cpc[d] = "recv" => d = c
    BY <1>a DEF MutexInv
  <2>4. QED
    BY <1>a, <1>c, <2>1, <2>2, <2>3 DEF WireInv, goVars, callVars
<1>5. RanInv'
  <2>1. creq' = creq /\ cpc' = cpc /\ ran' = ran \cup {creq[c]}
    BY <1>c DEF callVars
  <2>2. \A d \in Callers : creq[d].caller = d /\ creq[d].k \in Nat /\ creq[d] \in Request
    BY DEF RanInv, TypeOK, Request
  <2>3. \A d \in Callers : d # c => creq[d] # creq[c]
    BY <2>2
  <2>4. \A req \in ran' : req.k <= creq[req.caller].k
    BY <2>1, <2>2 DEF RanInv
  <2>5. QED
    BY <1>a, <2>1, <2>2, <2>3, <2>4 DEF RanInv
<1>6. OwnResponse' /\ TenantIsolation'
  BY DEF TypeOK, OwnResponse, TenantIsolation, PyRecv, goVars, callVars
<1>7. QED
  BY <1>1, <1>2, <1>3, <1>4, <1>5, <1>6

\* The reply is that of the running request, in its tenant's database.
LEMMA PyReplyKeeps ==
    ASSUME IInv, NEW n \in Procs, PyReply(n)
    PROVE  IInv'
<1> USE DEF IInv
<1>a. PICK kind \in {"result", "error"} :
        toGo' = [toGo EXCEPT ![n] =
                   Append(@, [kind |-> kind, req |-> Head(cur[n]), db |-> ptenant[n]])]
  BY DEF PyReply
<1>1. TypeOK'
  <2>1. [kind |-> kind, req |-> Head(cur[n]), db |-> ptenant[n]] \in Response
    BY DEF TypeOK, PyReply, Response
  <2>2. QED
    BY <1>a, <2>1 DEF TypeOK, PyReply, goVars, callVars
<1>2. MutexInv'
  BY DEF TypeOK, MutexInv, PyReply, goVars, callVars
<1>3. ProcInv'
  BY DEF TypeOK, MutexInv, ProcInv, StoppedMeansDead, Procs, Live, PyReply, goVars, callVars
<1>4. WireInv'
  <2>1. PICK c \in Callers : cpc[c] = "recv" /\ n = conn
    BY DEF PyReply, WireInv, Quiet
  <2>2. /\ toPy[n] = <<>> /\ cur[n] = <<creq[c]>> /\ toGo[n] = <<>>
        /\ ptenant[n] = creq[c].tenant /\ creq[c] \in ran
    BY <2>1 DEF PyReply, WireInv, InFlight, Quiet
  <2> DEFINE resp == [kind |-> kind, req |-> creq[c], db |-> creq[c].tenant]
  <2>3. toGo' = [toGo EXCEPT ![n] = <<resp>>]
    <3>1. Head(cur[n]) = creq[c] /\ Append(<<>>, resp) = <<resp>>
      BY <2>2
    <3>2. QED
      BY <1>a, <2>2, <3>1
  <2>4. InFlight(n, creq[c])'
    BY <2>2, <2>3 DEF InFlight, PyReply, TypeOK, callVars
  <2>5. \A m \in Procs \ {n} : Quiet(m)'
    BY <2>1, <2>3 DEF Quiet, WireInv, TypeOK, PyReply
  <2>6. \A d \in Callers : cpc[d] = "recv" => d = c
    BY <2>1 DEF MutexInv
  <2>7. QED
    BY <2>1, <2>4, <2>5, <2>6 DEF WireInv, PyReply, goVars, callVars
<1>5. RanInv'
  BY DEF TypeOK, RanInv, MutexInv, PyReply, goVars, callVars
<1>6. OwnResponse' /\ TenantIsolation'
  BY DEF TypeOK, OwnResponse, TenantIsolation, PyReply, goVars, callVars
<1>7. QED
  BY <1>1, <1>2, <1>3, <1>4, <1>5, <1>6

\* A crash drops what the process had not answered.
LEMMA PyCrashKeeps ==
    ASSUME IInv, NEW n \in Procs, PyCrash(n)
    PROVE  IInv'
<1> USE DEF IInv
<1>1. TypeOK'
  BY DEF TypeOK, MutexInv, ProcInv, PyCrash, goVars, callVars
<1>2. MutexInv'
  BY DEF TypeOK, MutexInv, PyCrash, goVars, callVars
<1>3. ProcInv'
  BY DEF TypeOK, MutexInv, ProcInv, StoppedMeansDead, Procs, Live, PyCrash, goVars, callVars
<1>4. WireInv'
  BY ZenonT(60) DEF TypeOK, MutexInv, ProcInv, WireInv, Quiet, InFlight, Procs, Live, PyCrash, goVars,
                   callVars
<1>5. RanInv'
  BY DEF TypeOK, RanInv, MutexInv, PyCrash, goVars, callVars
<1>6. OwnResponse' /\ TenantIsolation'
  BY DEF TypeOK, OwnResponse, TenantIsolation, PyCrash, goVars, callVars
<1>7. QED
  BY <1>1, <1>2, <1>3, <1>4, <1>5, <1>6

-----------------------------------------------------------------------------
LEMMA InitIInv == Init => IInv
<1> SUFFICES ASSUME Init PROVE IInv
  OBVIOUS
<1>1. TypeOK
  <2>1. \A c \in Callers : [caller |-> c, k |-> 0, tenant |-> NoTenant] \in Request
    BY DEF Request, TenantArg
  <2>2. creq \in [Callers -> Request] /\ cres \in [Callers -> Result]
    BY <2>1 DEF Init, Result
  <2>3. ptenant \in [Procs -> TenantArg] /\ ran \subseteq Request
    BY DEF Init, TenantArg
  <2>4. toPy \in [Procs -> Seq(Request)] /\ cur \in [Procs -> Seq(Request)] /\ toGo \in [Procs -> Seq(Response)]
    BY DEF Init
  <2>5. QED
    BY <2>2, <2>3, <2>4 DEF Init, TypeOK
<1>2. MutexInv /\ ProcInv /\ WireInv /\ RanInv
  BY DEF Init, MutexInv, ProcInv, StoppedMeansDead, Live, WireInv, Quiet, RanInv, Procs
<1>3. OwnResponse /\ TenantIsolation
  BY DEF Init, OwnResponse, TenantIsolation, Response, NoResult
<1>4. QED
  BY <1>1, <1>2, <1>3 DEF IInv

LEMMA StutterIInv == IInv /\ UNCHANGED vars => IInv'
<1> SUFFICES ASSUME IInv, UNCHANGED vars PROVE IInv'
  OBVIOUS
<1> USE DEF vars, goVars, callVars, pyVars
<1>1. TypeOK' /\ MutexInv' /\ RanInv' /\ OwnResponse' /\ TenantIsolation'
  BY DEF IInv, TypeOK, MutexInv, RanInv, OwnResponse, TenantIsolation
<1>2. ProcInv' /\ WireInv'
  BY DEF IInv, ProcInv, StoppedMeansDead, Live, WireInv, Quiet, InFlight
<1>3. QED
  BY <1>1, <1>2 DEF IInv

\* IInv is inductive: whatever goroutine or process moves, it is preserved.
THEOREM InductiveInvariant == Spec => []IInv
<1>1. IInv /\ [Next]_vars => IInv'
  <2> SUFFICES ASSUME IInv, [Next]_vars PROVE IInv'
    OBVIOUS
  <2>1. ASSUME NEW c \in Callers, CallStep(c) PROVE IInv'
    BY <2>1, CallPythonKeeps, CallNotStartedKeeps, CallBeginKeeps, CallSendKeeps,
       CallSendFailsKeeps, CallRecvKeeps, CallEOFKeeps DEF CallStep
  <2>2. ASSUME NEW a \in Admins, AdminStep(a) PROVE IInv'
    BY <2>2, StartKeeps, RestartKeeps, StopKeeps, LaunchKeeps, LaunchFailsKeeps,
       AcceptKeeps, AcceptFailsKeeps DEF AdminStep
  <2>3. ASSUME NEW n \in Procs, PyStep(n) PROVE IInv'
    BY <2>3, PyDialKeeps, PyRecvKeeps, PyReplyKeeps, PyCrashKeeps DEF PyStep
  <2>4. CASE UNCHANGED vars
    BY <2>4, StutterIInv
  <2>5. QED
    BY <2>1, <2>2, <2>3, <2>4 DEF Next
<1>2. QED
  BY <1>1, InitIInv, PTL DEF Spec

\* Every variable keeps its type.
THEOREM TypeCorrect == Spec => []TypeOK
<1>1. IInv => TypeOK
  BY DEF IInv
<1>2. QED
  BY <1>1, InductiveInvariant, PTL

\* No goroutine ever gets the answer to another call.
THEOREM ResponseIsOwn == Spec => []OwnResponse
<1>1. IInv => OwnResponse
  BY DEF IInv
<1>2. QED
  BY <1>1, InductiveInvariant, PTL

\* Every answer was computed in the database of the caller's tenant.
THEOREM TenantsIsolated == Spec => []TenantIsolation
<1>1. IInv => TenantIsolation
  BY DEF IInv
<1>2. QED
  BY <1>1, InductiveInvariant, PTL

\* There are never two live Python processes.
THEOREM AtMostOnePython == Spec => []OnePython
<1>1. IInv => OnePython
  BY DEF IInv, ProcInv, OnePython
<1>2. QED
  BY <1>1, InductiveInvariant, PTL

\* A supervisor that is not started has left no process behind.
THEOREM NoProcessLeft == Spec => []StoppedMeansDead
<1>1. IInv => StoppedMeansDead
  BY DEF IInv, ProcInv
<1>2. QED
  BY <1>1, InductiveInvariant, PTL

\* A running handler always has its caller waiting for it.
THEOREM NoHandlerOrphaned == Spec => []NoOrphanRun
<1>1. IInv => NoOrphanRun
  <2> SUFFICES ASSUME IInv, NEW n \in Procs, NEW i \in 1..Len(cur[n])
               PROVE  LET c == cur[n][i].caller IN
                      cpc[c] = "recv" /\ creq[c] = cur[n][i] /\ conn = n
    BY DEF NoOrphanRun
  <2>1. cur[n] # <<>>
    OBVIOUS
  <2>2. PICK c \in Callers : cpc[c] = "recv" /\ n = conn
    BY <2>1 DEF IInv, WireInv, Quiet
  <2>3. cur[n] = <<creq[c]>>
    BY <2>1, <2>2 DEF IInv, WireInv, InFlight, Quiet
  <2>4. cur[n][i] = creq[c]
    BY <2>3
  <2>5. QED
    BY <2>2, <2>4 DEF IInv, RanInv
<1>2. QED
  BY <1>1, InductiveInvariant, PTL

\* The process is never doubled, left behind, or taken from a running handler.
THEOREM LifecycleSafe == Spec => []ProcessLifecycle
<1>1. OnePython /\ StoppedMeansDead /\ NoOrphanRun => ProcessLifecycle
  BY DEF ProcessLifecycle
<1>2. QED
  BY <1>1, AtMostOnePython, NoProcessLeft, NoHandlerOrphaned, PTL

-----------------------------------------------------------------------------
(* Refinement *)

Pending == {c \in Callers : cpc[c] # "idle"}

\* A step of a Go caller is an Invoke, Refuse, Lose or Answer of the service, or
\* changes nothing the service can see.
LEMMA CallStepImplements ==
    ASSUME IInv, NEW c \in Callers, CallStep(c)
    PROVE  [Service!Next]_(Service!vars)
<1>1. CASE CallPython(c)
  <2>1. c \notin Pending /\ Pending' = Pending \cup {c}
    BY <1>1 DEF Pending, CallPython, IInv, TypeOK
  <2>2. Service!Invoke(c)
    BY <1>1, <2>1 DEF Pending, CallPython, Service!Invoke, pyVars, TenantArg,
       Service!TenantArg, NoResult, Service!NoResult
  <2>3. QED
    BY <2>2 DEF Service!Next
<1>2. CASE CallNotStarted(c)
  <2>1. c \in Pending /\ Pending' = Pending \ {c}
    BY <1>2 DEF Pending, CallNotStarted, IInv, TypeOK
  <2>2. creq[c] \notin ran
    BY <1>2 DEF CallNotStarted, IInv, RanInv
  <2>3. Service!Refuse(c)
    BY <1>2, <2>1, <2>2 DEF Pending, CallNotStarted, pyVars, Service!Refuse, Service!Return,
       RuntimeError, Service!RuntimeError
  <2>4. QED
    BY <2>3 DEF Service!Next
<1>3. CASE CallBegin(c) \/ CallSend(c)
  <2>1. Pending' = Pending
    BY <1>3 DEF Pending, CallBegin, CallSend, IInv, TypeOK
  <2>2. QED
    BY <1>3, <2>1 DEF Pending, CallBegin, CallSend, pyVars, Service!vars
<1>4. CASE CallSendFails(c) \/ CallEOF(c)
  <2>1. c \in Pending /\ Pending' = Pending \ {c}
    BY <1>4 DEF Pending, CallSendFails, CallEOF, Return, IInv, TypeOK
  <2>2. Service!Lose(c)
    BY <1>4, <2>1 DEF Pending, CallSendFails, CallEOF, Return, pyVars, Service!Lose,
       Service!Return, TransportError, Service!TransportError
  <2>3. QED
    BY <2>2 DEF Service!Next
<1>5. CASE CallRecv(c)
  <2>1. c \in Pending /\ Pending' = Pending \ {c}
    BY <1>5 DEF Pending, CallRecv, Return, IInv, TypeOK
  <2>2. PICK kind \in {"result", "error"} :
          toGo[conn] = <<[kind |-> kind, req |-> creq[c], db |-> creq[c].tenant]>>
    BY <1>5 DEF CallRecv, IInv, WireInv, Quiet, InFlight
  <2>3. creq[c] \in ran
    BY <1>5, <2>2 DEF CallRecv, IInv, WireInv, Quiet, InFlight
  <2> DEFINE resp == [kind |-> kind, req |-> creq[c], db |-> creq[c].tenant]
  <2>4. Head(toGo[conn]) = resp
    BY <2>2
  <2>5. PICK res \in {resp, TransportError} : Return(c, res)
    BY <1>5, <2>4 DEF CallRecv
  <2>6. CASE res = resp
    <3>1. Service!Answer(c)
      BY <1>5, <2>1, <2>3, <2>5, <2>6 DEF Pending, CallRecv, Return, Service!Answer, Service!Return
    <3>2. QED
      BY <3>1 DEF Service!Next
  <2>7. CASE res = TransportError
    <3>1. Service!Lose(c)
      BY <1>5, <2>1, <2>5, <2>7 DEF Pending, CallRecv, Return, Service!Lose, Service!Return,
         TransportError, Service!TransportError
    <3>2. QED
      BY <3>1 DEF Service!Next
  <2>8. QED
    BY <2>5, <2>6, <2>7
<1>6. QED
  BY <1>1, <1>2, <1>3, <1>4, <1>5 DEF CallStep

\* A step of an admin changes nothing the service can see.
LEMMA AdminStepImplements ==
    ASSUME NEW a \in Admins, AdminStep(a)
    PROVE  UNCHANGED Service!vars
  BY DEF AdminStep, Start, Restart, Stop, Launch, LaunchFails, Accept, AcceptFails,
     callVars, pyVars, Service!vars

\* A step of a Python process is an Execute or invisible.
LEMMA PyStepImplements ==
    ASSUME IInv, NEW n \in Procs, PyStep(n)
    PROVE  [Service!Next]_(Service!vars)
<1>1. CASE PyRecv(n)
  <2>1. PICK c \in Callers : cpc[c] = "recv" /\ n = conn
    BY <1>1 DEF PyRecv, IInv, WireInv, Quiet
  <2>2. toPy[n] = <<creq[c]>> /\ creq[c] \notin ran
    BY <1>1, <2>1 DEF PyRecv, IInv, WireInv, InFlight, Quiet
  <2>3. Head(toPy[n]) = creq[c]
    BY <2>2
  <2>4. Service!Execute(c)
    BY <1>1, <2>1, <2>2, <2>3 DEF PyRecv, callVars, Service!Execute
  <2>5. QED
    BY <2>4 DEF Service!Next
<1>2. CASE PyDial(n) \/ PyReply(n) \/ PyCrash(n)
  BY <1>2 DEF PyDial, PyReply, PyCrash, callVars, Service!vars
<1>3. QED
  BY <1>1, <1>2 DEF PyStep

\* The supervisor, with its lock, socket, restarts and crashes, implements the
\* service: at most one run per call, own answers, refused calls never run.
THEOREM SupervisorImplementsService == Spec => ImplementsService
<1>1. Init => Service!Init
  BY DEF Init, Service!Init, NoResult, Service!NoResult
<1>2. IInv /\ [Next]_vars => [Service!Next]_(Service!vars)
  <2> SUFFICES ASSUME IInv, [Next]_vars PROVE [Service!Next]_(Service!vars)
    OBVIOUS
  <2>1. CASE UNCHANGED vars
    BY <2>1 DEF vars, callVars, pyVars, Service!vars
  <2>2. QED
    BY <2>1, CallStepImplements, AdminStepImplements, PyStepImplements DEF Next
<1>3. QED
  BY <1>1, <1>2, InductiveInvariant, PTL DEF Spec, ImplementsService, Service!Spec
=============================================================================
