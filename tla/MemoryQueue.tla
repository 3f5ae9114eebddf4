---------------------------- MODULE MemoryQueue ----------------------------
(***************************************************************************)
(* queue/queue.go: MemoryQueue.  The workers Process starts share one      *)
(* slice of jobs; Enqueue and Dequeue hold mu, so each is one step.  Every *)
(* job has a name of its own, so a handler may be missing for some jobs.   *)
(* Clients enqueue, register handlers, cancel the context and Close at any *)
(* time.                                                                   *)
(***************************************************************************)
EXTENDS Naturals, Sequences, SequencesExt

CONSTANTS
    Jobs,           \* jobs that clients enqueue, each once
    NoJob,          \* a worker holds no job
    Workers,        \* the goroutines Process starts
    MaxAttempts     \* Job.MaxAttempts (3 by default)

ASSUME QueueAssumption ==
    /\ NoJob \notin Jobs
    /\ MaxAttempts \in Nat

VARIABLES
    jobs,       \* q.jobs
    handlers,   \* names with a handler
    early,      \* jobs whose RunAt is still to come
    attempts,   \* attempts[j]: Job.Attempts
    runs,       \* runs[j]: calls of the handler for j
    fate,       \* fate[j]: "new", "live", then "done", "exhausted" or "unhandled"
    stop,       \* stopCh is closed
    cancelled,  \* ctx is done
    wpc,        \* wpc[w]: where worker w is
    wjob,       \* wjob[w]: the job it holds
    cpc         \* the goroutine in Close

vars == <<jobs, handlers, early, attempts, runs, fate, stop, cancelled, wpc, wjob, cpc>>
jobVars == <<jobs, early, attempts, runs, fate>>
lifeVars == <<stop, cancelled, cpc>>

Init ==
    /\ jobs = <<>> /\ handlers = {} /\ early = {}
    /\ attempts = [j \in Jobs |-> 0]
    /\ runs = [j \in Jobs |-> 0]
    /\ fate = [j \in Jobs |-> "new"]
    /\ stop = FALSE /\ cancelled = FALSE /\ cpc = "open"
    /\ wpc = [w \in Workers |-> "none"]
    /\ wjob = [w \in Workers |-> NoJob]

-----------------------------------------------------------------------------
(* Clients *)

RegisterHandler(j) ==
    /\ j \notin handlers
    /\ handlers' = handlers \cup {j}
    /\ UNCHANGED <<jobVars, lifeVars, wpc, wjob>>

\* A client's Enqueue, with a RunAt that has come (or none) or is in the future.
Enqueue(j) ==
    /\ fate[j] = "new"
    /\ fate' = [fate EXCEPT ![j] = "live"]
    /\ jobs' = Append(jobs, j)
    /\ early' \in {early, early \cup {j}}
    /\ UNCHANGED <<attempts, runs, handlers, lifeVars, wpc, wjob>>

RunAtComes(j) ==
    /\ j \in early
    /\ early' = early \ {j}
    /\ UNCHANGED <<jobs, attempts, runs, fate, handlers, lifeVars, wpc, wjob>>

\* Process: wg.Add and go worker for each of the concurrency workers.
Process ==
    /\ \A w \in Workers : wpc[w] = "none"
    /\ wpc' = [w \in Workers |-> "loop"]
    /\ UNCHANGED <<jobVars, handlers, lifeVars, wjob>>

Cancel ==
    /\ ~cancelled
    /\ cancelled' = TRUE
    /\ UNCHANGED <<jobVars, handlers, stop, cpc, wpc, wjob>>

\* Close: close(stopCh), then wg.Wait.
Close ==
    /\ cpc = "open"
    /\ stop' = TRUE
    /\ cpc' = "wait"
    /\ UNCHANGED <<jobVars, handlers, cancelled, wpc, wjob>>

CloseReturns ==
    /\ cpc = "wait"
    /\ \A w \in Workers : wpc[w] \in {"none", "gone"}
    /\ cpc' = "closed"
    /\ UNCHANGED <<jobVars, handlers, stop, cancelled, wpc, wjob>>

-----------------------------------------------------------------------------
(* A worker *)

\* A worker that returns only when there is nothing left to do.
WorkerStopsEmpty(w) ==
    /\ wpc[w] = "loop"
    /\ stop \/ cancelled
    /\ jobs = <<>>
    /\ wpc' = [wpc EXCEPT ![w] = "gone"]
    /\ UNCHANGED <<jobVars, handlers, lifeVars, wjob>>

\* select: stopCh or ctx.Done is ready, so default is not taken.
WorkerStops(w) ==
    /\ wpc[w] = "loop"
    /\ stop \/ cancelled
    /\ wpc' = [wpc EXCEPT ![w] = "gone"]
    /\ UNCHANGED <<jobVars, handlers, lifeVars, wjob>>

\* select: default.
WorkerPolls(w) ==
    /\ wpc[w] = "loop"
    /\ ~stop /\ ~cancelled
    /\ wpc' = [wpc EXCEPT ![w] = "dequeue"]
    /\ UNCHANGED <<jobVars, handlers, lifeVars, wjob>>

Due == {i \in 1..Len(jobs) : jobs[i] \notin early}

\* Dequeue: the first job that is due leaves the slice.
Dequeue(w) ==
    /\ wpc[w] = "dequeue"
    /\ \E i \in Due :
          /\ \A k \in Due : i <= k
          /\ wjob' = [wjob EXCEPT ![w] = jobs[i]]
          /\ jobs' = RemoveAt(jobs, i)
    /\ wpc' = [wpc EXCEPT ![w] = "lookup"]
    /\ UNCHANGED <<early, attempts, runs, fate, handlers, lifeVars>>

\* ErrQueueEmpty: sleep and try again.
DequeueEmpty(w) ==
    /\ wpc[w] = "dequeue"
    /\ Due = {}
    /\ wpc' = [wpc EXCEPT ![w] = "loop"]
    /\ UNCHANGED <<jobVars, handlers, lifeVars, wjob>>

\* The worker goes round its loop again; the job it held had that fate.
Continue(w, end) ==
    /\ wpc' = [wpc EXCEPT ![w] = "loop"]
    /\ wjob' = [wjob EXCEPT ![w] = NoJob]
    /\ fate' = [fate EXCEPT ![wjob[w]] = end]

\* No handler of that name: continue, the job is dropped.
Unhandled(w) ==
    /\ wpc[w] = "lookup"
    /\ wjob[w] \notin handlers
    /\ Continue(w, "unhandled")
    /\ UNCHANGED <<jobs, early, attempts, runs, handlers, lifeVars>>

Handle(w) ==
    /\ wpc[w] = "lookup"
    /\ wjob[w] \in handlers
    /\ wpc' = [wpc EXCEPT ![w] = "run"]
    /\ runs' = [runs EXCEPT ![wjob[w]] = @ + 1]
    /\ UNCHANGED <<jobs, early, attempts, fate, handlers, lifeVars, wjob>>

HandlerSucceeds(w) ==
    /\ wpc[w] = "run"
    /\ Continue(w, "done")
    /\ UNCHANGED <<jobs, early, attempts, runs, handlers, lifeVars>>

\* The test with the comparison off by one.
HandlerFailsRetriesMore(w) ==
    /\ wpc[w] = "run"
    /\ attempts[wjob[w]] <= MaxAttempts
    /\ attempts' = [attempts EXCEPT ![wjob[w]] = @ + 1]
    /\ jobs' = Append(jobs, wjob[w])
    /\ Continue(w, "live")
    /\ UNCHANGED <<early, runs, handlers, lifeVars>>

\* job.Attempts++ and Enqueue.
HandlerFailsRetry(w) ==
    /\ wpc[w] = "run"
    /\ attempts[wjob[w]] < MaxAttempts
    /\ attempts' = [attempts EXCEPT ![wjob[w]] = @ + 1]
    /\ jobs' = Append(jobs, wjob[w])
    /\ Continue(w, "live")
    /\ UNCHANGED <<early, runs, handlers, lifeVars>>

HandlerFailsForGood(w) ==
    /\ wpc[w] = "run"
    /\ attempts[wjob[w]] >= MaxAttempts
    /\ Continue(w, "exhausted")
    /\ UNCHANGED <<jobs, early, attempts, runs, handlers, lifeVars>>

-----------------------------------------------------------------------------
WorkerStep(w) ==
    \/ WorkerStops(w) \/ WorkerPolls(w) \/ Dequeue(w) \/ DequeueEmpty(w)
    \/ Unhandled(w) \/ Handle(w)
    \/ HandlerSucceeds(w) \/ HandlerFailsRetry(w) \/ HandlerFailsForGood(w)

Next == \/ \E j \in Jobs : RegisterHandler(j) \/ Enqueue(j) \/ RunAtComes(j)
        \/ Process \/ Cancel \/ Close \/ CloseReturns
        \/ \E w \in Workers : WorkerStep(w)

Spec == Init /\ [][Next]_vars

\* Goroutines that can run are scheduled, handlers return, time passes.
FairSpec ==
    /\ Spec
    /\ WF_vars(CloseReturns)
    /\ \A j \in Jobs : WF_vars(RunAtComes(j))
    /\ \A w \in Workers : WF_vars(WorkerStep(w))

-----------------------------------------------------------------------------
(* Properties *)

Ended == {"done", "exhausted", "unhandled"}

TypeOK ==
    /\ jobs \in Seq(Jobs)
    /\ handlers \subseteq Jobs /\ early \subseteq Jobs
    /\ attempts \in [Jobs -> 0..MaxAttempts]
    /\ runs \in [Jobs -> Nat]
    /\ fate \in [Jobs -> {"new", "live"} \cup Ended]
    /\ stop \in BOOLEAN /\ cancelled \in BOOLEAN
    /\ wpc \in [Workers -> {"none", "loop", "dequeue", "lookup", "run", "gone"}]
    /\ wjob \in [Workers -> Jobs \cup {NoJob}]
    /\ cpc \in {"open", "wait", "closed"}

\* The handler is called once and then once for each of the MaxAttempts retries,
\* never more, whichever workers pick the retries up.
ExecBounded == \A j \in Jobs : runs[j] <= MaxAttempts + 1

\* A job that has been accepted and has not ended is in exactly one place: once in
\* the slice, or with one worker.  Workers that stop, a context that is cancelled
\* and retries put back during Close neither lose nor duplicate it.
Conserved ==
    /\ \A i, k \in 1..Len(jobs) : jobs[i] = jobs[k] => i = k
    /\ \A v, w \in Workers : wjob[v] = wjob[w] /\ wjob[v] # NoJob => v = w
    /\ \A i \in 1..Len(jobs), w \in Workers : jobs[i] # wjob[w]
    /\ \A j \in Jobs : fate[j] = "live" <=>
          (\E i \in 1..Len(jobs) : jobs[i] = j) \/ (\E w \in Workers : wjob[w] = j)

\* Once Close has returned no worker holds a job or takes another, not even one that
\* a late Process starts.
ClosedIsQuiet ==
    cpc = "closed" => \A w \in Workers : wpc[w] \in {"none", "loop", "gone"}

\* Close returns: workers stop although jobs are left and retries are put back.
CloseEnds == cpc = "wait" ~> cpc = "closed"

Serving == ~stop /\ ~cancelled /\ \E w \in Workers : wpc[w] # "none"

\* While the queue is served every job comes to its end, behind jobs that are not
\* due, that fail and are retried, or that nobody handles.
JobEnds ==
    \A j \in Jobs : fate[j] = "live" /\ Serving ~> fate[j] \in Ended \/ ~Serving

\* A job is never lost, duplicated or run too often, and a closed queue runs nothing.
QueueSound == TypeOK /\ ExecBounded /\ Conserved /\ ClosedIsQuiet

\* The queue makes progress: Close returns, and while it is served jobs end.
QueueServed == CloseEnds /\ JobEnds

-----------------------------------------------------------------------------
(* The inductive invariant (proved in MemoryQueueProofs). *)

\* Conserved, one job at a time.
OwnInv ==
    /\ IsInjective(jobs)
    /\ \A v, w \in Workers : wjob[v] = wjob[w] /\ wjob[v] # NoJob => v = w
    /\ \A j \in Jobs : Contains(jobs, j) => \A w \in Workers : wjob[w] # j
    /\ \A j \in Jobs : fate[j] = "live" <=> Contains(jobs, j) \/ \E w \in Workers : wjob[w] = j

\* The handler has been called once for every failed attempt, and once more for the
\* attempt under way; a worker holds a job exactly while it looks up and runs.
CountInv ==
    /\ \A j \in Jobs : runs[j] <= MaxAttempts + 1
    /\ \A j \in Jobs : fate[j] = "new" \/ Contains(jobs, j) => runs[j] = attempts[j]
    /\ \A w \in Workers : wjob[w] # NoJob <=> wpc[w] \in {"lookup", "run"}
    /\ \A w \in Workers : wpc[w] = "lookup" => runs[wjob[w]] = attempts[wjob[w]]
    /\ \A w \in Workers : wpc[w] = "run" => runs[wjob[w]] = attempts[wjob[w]] + 1

\* A closed queue is stopped, so that no worker polls it again.
CloseInv ==
    /\ cpc # "open" => stop
    /\ ClosedIsQuiet

IInv == TypeOK /\ OwnInv /\ CountInv /\ CloseInv
=============================================================================
