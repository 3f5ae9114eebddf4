------------------------------- MODULE GoJobs -------------------------------
(***************************************************************************)
(* core/runtime/jobs/queue.go: the in-memory background queue.  Each job   *)
(* is enqueued by the goroutine of its own HTTP request, a queue has one   *)
(* worker goroutine, and GET /jobs/:id polls it; Shutdown drops the        *)
(* default queue and a later Init (another Server) makes a new one, so     *)
(* queues are numbered.  Init and Shutdown are called from one goroutine.  *)
(* Enqueue and Get read the unlocked global defaultQueue again at every    *)
(* use, and Shutdown and Init may come between any two of their reads: a   *)
(* lock may then be left behind, or one released that is not held, which   *)
(* ends the process.                                                       *)
(***************************************************************************)
EXTENDS Integers, Sequences, FiniteSets

CONSTANTS
    Jobs,           \* jobs that requests enqueue
    Polls,          \* calls of Get
    NoJob,          \* the worker holds no job
    Cap,            \* capacity of the channel in (128 in the code)
    MaxQueues       \* bound: queues made by Init

ASSUME JobsAssumption ==
    /\ NoJob \notin Jobs
    /\ IsFiniteSet(Polls)
    /\ Cap \in Nat \ {0}
    /\ MaxQueues \in Nat

Queues == 1..MaxQueues

VARIABLES
    dq,         \* defaultQueue: a queue number, 0 for nil
    made,       \* queues made so far
    mpc,        \* where the goroutine is that calls Init and Shutdown
    quit,       \* queues whose quit channel is closed
    table,      \* table[q]: the map jobs of queue q
    mu,         \* mu[q]: 0 free, -1 locked for writing, n readers
    in,         \* in[q]: the buffered channel of queue q
    wpc,        \* wpc[q]: where the worker of queue q is
    wjob,       \* wjob[q]: the job it executes
    epc,        \* epc[j]: where Enqueue of job j is
    eq,         \* eq[j]: the queue whose lock, then whose channel it evaluated
    gpc,        \* gpc[g]: where Get g is
    gq,         \* gq[g]: the queue whose lock it asked for, then the one it will release
    status,     \* status[j]: Job.Status
    runs,       \* runs[j]: how many times the executor was called for j
    dead,       \* a fatal error of the Go runtime ended the process
    overtaken   \* history: calls under way in a queue when Shutdown dropped it

managerVars == <<dq, made, mpc, quit>>
workerVars  == <<wpc, wjob>>
enqueueVars == <<epc, eq>>
getVars     == <<gpc, gq>>
vars == <<managerVars, table, mu, in, workerVars, enqueueVars, getVars,
          status, runs, dead, overtaken>>

Finished == {"done", "failed"}

Init ==
    /\ dq = 0 /\ made = 0 /\ mpc = "idle" /\ quit = {}
    /\ table = [q \in Queues |-> {}]
    /\ mu = [q \in Queues |-> 0]
    /\ in = [q \in Queues |-> <<>>]
    /\ wpc = [q \in Queues |-> "none"]
    /\ wjob = [q \in Queues |-> NoJob]
    /\ epc = [j \in Jobs |-> "new"]
    /\ eq = [j \in Jobs |-> 0]
    /\ gpc = [g \in Polls |-> "new"]
    /\ gq = [g \in Polls |-> 0]
    /\ status = [j \in Jobs |-> "none"]
    /\ runs = [j \in Jobs |-> 0]
    /\ dead = FALSE /\ overtaken = {}

-----------------------------------------------------------------------------
(* The goroutine that starts and stops the default queue *)

\* jobs.Init: a second call on a live queue is a no-op.  Requests may come before the
\* worker is started.
QueueInit ==
    /\ mpc = "idle"
    /\ dq = 0
    /\ made < MaxQueues
    /\ made' = made + 1
    /\ dq' = made + 1
    /\ mpc' = "loop"
    /\ UNCHANGED <<quit, table, mu, in, workerVars, enqueueVars, getVars, status, runs, dead, overtaken>>

\* go defaultQueue.loop()
StartLoop ==
    /\ mpc = "loop"
    /\ mpc' = "idle"
    /\ wpc' = [wpc EXCEPT ![dq] = "select"]
    /\ UNCHANGED <<dq, made, quit, table, mu, in, wjob, enqueueVars, getVars, status, runs, dead, overtaken>>

\* jobs.Shutdown closes quit ...
Shutdown ==
    /\ mpc = "idle"
    /\ dq # 0
    /\ quit' = quit \cup {dq}
    /\ mpc' = "drop"
    /\ UNCHANGED <<dq, made, table, mu, in, workerVars, enqueueVars, getVars, status, runs, dead, overtaken>>

\* Calls that have evaluated defaultQueue and will evaluate it again.
BetweenReads == {j \in Jobs : epc[j] \in {"locking", "store", "unlock", "chan"}}
                \cup {g \in Polls : gpc[g] \in {"rlocking", "defer", "read"}}

\* ... and forgets the queue.
ShutdownDrops ==
    /\ mpc = "drop"
    /\ dq' = 0
    /\ mpc' = "idle"
    /\ overtaken' = overtaken \cup BetweenReads
    /\ UNCHANGED <<made, quit, table, mu, in, workerVars, enqueueVars, getVars, status, runs, dead>>

-----------------------------------------------------------------------------
(* sync.RWMutex *)

Lock(q) == mu[q] = 0 /\ mu' = [mu EXCEPT ![q] = -1]

\* Unlocking what is not locked is a fatal error, which nothing recovers.
Unlock(q) ==
    IF mu[q] = -1
      THEN mu' = [mu EXCEPT ![q] = 0] /\ UNCHANGED dead
      ELSE dead' = TRUE /\ UNCHANGED mu

RLock(q) == mu[q] >= 0 /\ mu' = [mu EXCEPT ![q] = @ + 1]

RUnlock(q) ==
    IF mu[q] > 0
      THEN mu' = [mu EXCEPT ![q] = @ - 1] /\ UNCHANGED dead
      ELSE dead' = TRUE /\ UNCHANGED mu

-----------------------------------------------------------------------------
(* Enqueue, in the goroutine of the request.  A nil dereference panics; net/http *)
(* recovers, and a lock that was taken stays taken.                              *)

\* The nil check, the new Job, and defaultQueue.mu, on which Lock may block.
EnqueueCheck(j) ==
    /\ epc[j] = "new"
    /\ IF dq = 0
         THEN epc' = [epc EXCEPT ![j] = "panic"] /\ UNCHANGED <<eq, status>>
         ELSE /\ epc' = [epc EXCEPT ![j] = "locking"]
              /\ eq' = [eq EXCEPT ![j] = dq]
              /\ status' = [status EXCEPT ![j] = "queued"]
    /\ UNCHANGED <<managerVars, table, mu, in, workerVars, getVars, runs, dead, overtaken>>

EnqueueLock(j) ==
    /\ epc[j] = "locking"
    /\ Lock(eq[j])
    /\ epc' = [epc EXCEPT ![j] = "store"]
    /\ UNCHANGED <<managerVars, table, in, workerVars, eq, getVars, status, runs, dead, overtaken>>

\* Somebody else is about to use the map of the default queue.
MapInUse(c) == \/ \E j \in Jobs \ {c} : epc[j] = "store"
               \/ \E g \in Polls \ {c} : gpc[g] = "read"

\* defaultQueue.jobs[j.ID] = j, in whatever queue is the default one now.
EnqueueStore(j) ==
    /\ epc[j] = "store"
    /\ IF dq = 0
         THEN epc' = [epc EXCEPT ![j] = "panic"] /\ UNCHANGED table
         ELSE /\ epc' = [epc EXCEPT ![j] = "unlock"]
              /\ table' = [table EXCEPT ![dq] = @ \cup {j}]
    /\ UNCHANGED <<managerVars, mu, in, workerVars, eq, getVars, status, runs, dead, overtaken>>

\* The runtime notices two uses of the map at once, one of them a write.
MapRace ==
    /\ dq # 0
    /\ \E j \in Jobs : epc[j] = "store" /\ MapInUse(j)
    /\ dead' = TRUE
    /\ UNCHANGED <<managerVars, table, mu, in, workerVars, enqueueVars, getVars, status, runs, overtaken>>

EnqueueUnlock(j) ==
    /\ epc[j] = "unlock"
    /\ IF dq = 0
         THEN epc' = [epc EXCEPT ![j] = "panic"] /\ UNCHANGED <<mu, dead>>
         ELSE epc' = [epc EXCEPT ![j] = "chan"] /\ Unlock(dq)
    /\ UNCHANGED <<managerVars, table, in, workerVars, eq, getVars, status, runs, overtaken>>

\* defaultQueue.in is evaluated, then the send may block on it for ever.
EnqueueChan(j) ==
    /\ epc[j] = "chan"
    /\ IF dq = 0
         THEN epc' = [epc EXCEPT ![j] = "panic"] /\ UNCHANGED eq
         ELSE epc' = [epc EXCEPT ![j] = "send"] /\ eq' = [eq EXCEPT ![j] = dq]
    /\ UNCHANGED <<managerVars, table, mu, in, workerVars, getVars, status, runs, dead, overtaken>>

\* The blocking send.
EnqueueSend(j) ==
    /\ epc[j] = "send"
    /\ Len(in[eq[j]]) < Cap
    /\ in' = [in EXCEPT ![eq[j]] = Append(@, j)]
    /\ epc' = [epc EXCEPT ![j] = "sent"]
    /\ UNCHANGED <<managerVars, table, mu, workerVars, eq, getVars, status, runs, dead, overtaken>>

\* Resets the job's status while the worker may have it already.
EnqueueReplyMarks(j) ==
    /\ epc[j] = "sent"
    /\ epc' = [epc EXCEPT ![j] = "returned"]
    /\ status' = [status EXCEPT ![j] = "queued"]
    /\ UNCHANGED <<managerVars, table, mu, in, workerVars, eq, getVars, runs, dead, overtaken>>

\* EnqueueJob reads j.Status without the lock and answers the request: the job may have
\* any status by then, also a final one.
EnqueueReply(j) ==
    /\ epc[j] = "sent"
    /\ epc' = [epc EXCEPT ![j] = "returned"]
    /\ UNCHANGED <<managerVars, table, mu, in, workerVars, eq, getVars, status, runs, dead, overtaken>>

-----------------------------------------------------------------------------
(* Get, in the goroutine of a request *)

\* Nothing to find in a nil queue; else defaultQueue.mu is evaluated.
GetCheck(g) ==
    /\ gpc[g] = "new"
    /\ gpc' = [gpc EXCEPT ![g] = IF dq = 0 THEN "done" ELSE "rlocking"]
    /\ gq' = [gq EXCEPT ![g] = dq]
    /\ UNCHANGED <<managerVars, table, mu, in, workerVars, enqueueVars, status, runs, dead, overtaken>>

GetRLock(g) ==
    /\ gpc[g] = "rlocking"
    /\ RLock(gq[g])
    /\ gpc' = [gpc EXCEPT ![g] = "defer"]
    /\ UNCHANGED <<managerVars, table, in, workerVars, enqueueVars, gq, status, runs, dead, overtaken>>

\* The deferred RUnlock is bound to what defaultQueue is now.
GetDefer(g) ==
    /\ gpc[g] = "defer"
    /\ gpc' = [gpc EXCEPT ![g] = IF dq = 0 THEN "done" ELSE "read"]
    /\ gq' = [gq EXCEPT ![g] = dq]
    /\ UNCHANGED <<managerVars, table, mu, in, workerVars, enqueueVars, status, runs, dead, overtaken>>

\* The lookup and the copy, or a panic when the queue is gone: either way the deferred call runs.
GetReturn(g) ==
    /\ gpc[g] = "read"
    /\ RUnlock(gq[g])
    /\ gpc' = [gpc EXCEPT ![g] = "done"]
    /\ gq' = [gq EXCEPT ![g] = 0]
    /\ UNCHANGED <<managerVars, table, in, workerVars, enqueueVars, status, runs, overtaken>>

-----------------------------------------------------------------------------
(* The worker goroutine *)

\* The job stays at the head of the channel until it is finished.
WorkerTakePeek(q) ==
    /\ wpc[q] = "select"
    /\ in[q] # <<>>
    /\ wjob' = [wjob EXCEPT ![q] = Head(in[q])]
    /\ wpc' = [wpc EXCEPT ![q] = "mark"]
    /\ UNCHANGED <<managerVars, table, mu, in, enqueueVars, getVars, status, runs, dead, overtaken>>

\* select takes a job.
WorkerTake(q) ==
    /\ wpc[q] = "select"
    /\ in[q] # <<>>
    /\ wjob' = [wjob EXCEPT ![q] = Head(in[q])]
    /\ in' = [in EXCEPT ![q] = Tail(@)]
    /\ wpc' = [wpc EXCEPT ![q] = "mark"]
    /\ UNCHANGED <<managerVars, table, mu, enqueueVars, getVars, status, runs, dead, overtaken>>

\* execute marks it running under the lock of its own queue ...
WorkerMark(q) ==
    /\ wpc[q] = "mark"
    /\ Lock(q)
    /\ status' = [status EXCEPT ![wjob[q]] = "running"]
    /\ wpc' = [wpc EXCEPT ![q] = "marked"]
    /\ UNCHANGED <<managerVars, table, in, wjob, enqueueVars, getVars, runs, dead, overtaken>>

\* ... and calls the executor without it.
WorkerRun(q) ==
    /\ wpc[q] = "marked"
    /\ Unlock(q)
    /\ runs' = [runs EXCEPT ![wjob[q]] = @ + 1]
    /\ wpc' = [wpc EXCEPT ![q] = "run"]
    /\ UNCHANGED <<managerVars, table, in, wjob, enqueueVars, getVars, status, overtaken>>

\* The executor returned, with an error or not.
WorkerFinish(q) ==
    /\ wpc[q] = "run"
    /\ Lock(q)
    /\ \E s \in Finished : status' = [status EXCEPT ![wjob[q]] = s]
    /\ wpc' = [wpc EXCEPT ![q] = "finished"]
    /\ UNCHANGED <<managerVars, table, in, wjob, enqueueVars, getVars, runs, dead, overtaken>>

\* A worker that stops at the first failing job.
WorkerUnlockStops(q) ==
    /\ wpc[q] = "finished"
    /\ Unlock(q)
    /\ wpc' = [wpc EXCEPT ![q] = IF status[wjob[q]] = "failed" THEN "gone" ELSE "select"]
    /\ wjob' = [wjob EXCEPT ![q] = NoJob]
    /\ UNCHANGED <<managerVars, table, in, enqueueVars, getVars, status, runs, overtaken>>

\* The deferred Unlock, and back to the select.
WorkerUnlock(q) ==
    /\ wpc[q] = "finished"
    /\ Unlock(q)
    /\ wpc' = [wpc EXCEPT ![q] = "select"]
    /\ wjob' = [wjob EXCEPT ![q] = NoJob]
    /\ UNCHANGED <<managerVars, table, in, enqueueVars, getVars, status, runs, overtaken>>

\* select may take quit although jobs are left in the channel.
WorkerQuit(q) ==
    /\ wpc[q] = "select"
    /\ q \in quit
    /\ wpc' = [wpc EXCEPT ![q] = "gone"]
    /\ UNCHANGED <<managerVars, table, mu, in, wjob, enqueueVars, getVars, status, runs, dead, overtaken>>

-----------------------------------------------------------------------------
ManagerStep == QueueInit \/ StartLoop \/ Shutdown \/ ShutdownDrops

EnqueueStep(j) == \/ EnqueueCheck(j) \/ EnqueueLock(j) \/ EnqueueStore(j) \/ EnqueueUnlock(j)
                  \/ EnqueueChan(j) \/ EnqueueSend(j) \/ EnqueueReply(j)

GetStep(g) == GetCheck(g) \/ GetRLock(g) \/ GetDefer(g) \/ GetReturn(g)

WorkerStep(q) == \/ WorkerTake(q) \/ WorkerMark(q) \/ WorkerRun(q)
                 \/ WorkerFinish(q) \/ WorkerUnlock(q) \/ WorkerQuit(q)

Next == /\ ~dead
        /\ \/ ManagerStep
           \/ MapRace
           \/ \E j \in Jobs : EnqueueStep(j)
           \/ \E g \in Polls : GetStep(g)
           \/ \E q \in Queues : WorkerStep(q)

Spec == Init /\ [][Next]_vars

\* Goroutines that can run are scheduled, a free lock is taken by one that waits for it
\* (each takes it a bounded number of times), and the executor returns.
Fairness ==
    /\ WF_vars(~dead /\ (StartLoop \/ ShutdownDrops))
    /\ \A j \in Jobs : WF_vars(~dead /\ EnqueueStep(j) /\ epc[j] # "new")
    /\ \A g \in Polls : WF_vars(~dead /\ GetStep(g) /\ gpc[g] # "new")
    /\ \A q \in Queues : WF_vars(~dead /\ WorkerStep(q))

FairSpec == Spec /\ Fairness

-----------------------------------------------------------------------------
(* Properties *)

TypeOK ==
    /\ dq \in 0..MaxQueues /\ made \in 0..MaxQueues /\ quit \subseteq Queues
    /\ mpc \in {"idle", "loop", "drop"}
    /\ table \in [Queues -> SUBSET Jobs]
    /\ mu \in [Queues -> Int]
    /\ in \in [Queues -> Seq(Jobs)]
    /\ wpc \in [Queues -> {"none", "select", "mark", "marked", "run", "finished", "gone"}]
    /\ wjob \in [Queues -> Jobs \cup {NoJob}]
    /\ epc \in [Jobs -> {"new", "locking", "store", "unlock", "chan", "send", "sent", "returned", "panic"}]
    /\ eq \in [Jobs -> 0..MaxQueues]
    /\ gpc \in [Polls -> {"new", "rlocking", "defer", "read", "done"}]
    /\ gq \in [Polls -> 0..MaxQueues]
    /\ status \in [Jobs -> {"none", "queued", "running"} \cup Finished]
    /\ runs \in [Jobs -> Nat]
    /\ dead \in BOOLEAN /\ overtaken \subseteq Jobs \cup Polls

\* The executor (CallPython) is called at most once for a job, over Shutdown,
\* Init and however the sends and the workers of several queues interleave.
RunAtMostOnce == \A j \in Jobs : runs[j] <= 1

Lifecycle == {<<"none", "queued">>, <<"queued", "running">>,
              <<"running", "done">>, <<"running", "failed">>}

\* What a client polling GET /jobs/:id sees never goes back or skips a stage:
\* queued, running, then done or failed for good.
StatusOnlyAdvances ==
    [][\A j \in Jobs : status'[j] = status[j] \/ <<status[j], status'[j]>> \in Lifecycle]_vars

\* Calls and workers that hold a lock of q and will release it.
Writers(q) == {j \in Jobs : epc[j] \in {"store", "unlock"} /\ eq[j] = q}
Readers(q) == {g \in Polls : gpc[g] \in {"defer", "read"} /\ gq[g] = q}

WorkerHolds(q) == wpc[q] \in {"marked", "finished"}

\* The lock of q is taken and nobody is left to release it.
LockLost(q) == \/ mu[q] = -1 /\ Writers(q) = {} /\ ~WorkerHolds(q)
               \/ mu[q] > Cardinality(Readers(q))

\* What the double reads of defaultQueue can break: a lock is lost, or the process ends.
Broken == dead \/ \E q \in Queues : LockLost(q)

\* As long as Shutdown overtakes no call that is between two reads of defaultQueue, no
\* lock is left behind and no fatal error occurs; and a call it did not overtake has stored
\* its job in the queue that executes it.
QueueIntact ==
    /\ overtaken = {} => ~Broken
    /\ \A q \in Queues : \A i \in 1..Len(in[q]) : in[q][i] \in table[q] \cup overtaken

\* Where nobody calls Shutdown (as router.go, which only calls Init), every job that
\* Enqueue stored is run to its end, however full the channel is.
StoredJobFinishes ==
    [](quit = {}) => \A j \in Jobs : (\E q \in Queues : j \in table[q]) ~> status[j] \in Finished

\* The job being executed is still recorded as done or failed over a Shutdown, unless a call
\* that Shutdown overtook has left a lock behind or ended the process.
StartedJobFinishes ==
    \A j \in Jobs : status[j] = "running" ~> status[j] \in Finished \/ Broken

\* Shutdown stops the worker goroutine, whatever is in the channel, under the same proviso.
WorkerStops == \A q \in Queues : q \in quit ~> wpc[q] = "gone" \/ Broken

\* The worker serves and stops as the queue promises, up to what a Shutdown that overtakes a
\* call breaks, and nothing else breaks a lock or misplaces a job.
JobsServed == []QueueIntact /\ StoredJobFinishes /\ StartedJobFinishes /\ WorkerStops

\* "Shutdown stops the worker goroutine (graceful)", with the process alive and nothing
\* excepted: refuted by an Enqueue that Shutdown overtakes between its Lock and its store.
ShutdownStopsWorker == \A q \in Queues : q \in quit ~> wpc[q] = "gone" \/ dead

-----------------------------------------------------------------------------
(* The strengthening the proofs use *)

\* A job in a channel was sent, once, and has not run.
ChanInv ==
    /\ \A q \in Queues : \A i \in 1..Len(in[q]) :
          /\ runs[in[q][i]] = 0
          /\ status[in[q][i]] = "queued"
          /\ epc[in[q][i]] \in {"sent", "returned"}
    /\ \A q, r \in Queues : \A i \in 1..Len(in[q]), k \in 1..Len(in[r]) :
          in[q][i] = in[r][k] => q = r /\ i = k

\* Where a job is that a worker holds, from its status and the calls of the executor.
WorkPhase(q) ==
    LET j == wjob[q] IN
    \/ wpc[q] = "mark" /\ status[j] = "queued" /\ runs[j] = 0
    \/ wpc[q] = "marked" /\ status[j] = "running" /\ runs[j] = 0
    \/ wpc[q] = "run" /\ status[j] = "running" /\ runs[j] = 1
    \/ wpc[q] = "finished" /\ status[j] \in Finished /\ runs[j] = 1

\* A job a worker holds was sent, is in its hands only and in no channel.
WorkInv ==
    /\ dq <= made
    /\ \A q \in Queues : q > made => wpc[q] = "none"
    /\ mpc = "loop" => dq \in Queues /\ wpc[dq] = "none"
    /\ \A q \in Queues : wpc[q] \in {"none", "select", "gone"} <=> wjob[q] = NoJob
    /\ \A q \in Queues : wjob[q] # NoJob => WorkPhase(q) /\ epc[wjob[q]] \in {"sent", "returned"}
    /\ \A q, r \in Queues : wjob[q] # NoJob /\ wjob[q] = wjob[r] => q = r
    /\ \A q, r \in Queues : \A i \in 1..Len(in[q]) : in[q][i] # wjob[r]

\* A job whose Enqueue has not sent it has not run.
EnqInv ==
    \A j \in Jobs :
       /\ epc[j] = "new" => status[j] = "none" /\ runs[j] = 0
       /\ epc[j] \in {"locking", "store", "unlock", "chan", "send"} => status[j] = "queued" /\ runs[j] = 0
       /\ epc[j] \in {"locking", "send"} => eq[j] \in Queues

\* A Get that waits for a lock or holds one has the queue it belongs to.
PollInv == \A g \in Polls : gpc[g] \in {"rlocking", "defer", "read"} => gq[g] \in Queues

IInv == TypeOK /\ ChanInv /\ WorkInv /\ EnqInv /\ PollInv /\ RunAtMostOnce
=============================================================================
