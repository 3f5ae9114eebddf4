------------------------------- MODULE PyJobs -------------------------------
(***************************************************************************)
(* core/runtime/jobs.py with a Redis client: JobQueue.enqueue, dequeue,    *)
(* process_next, complete, fail and requeue.  Every Redis command is one   *)
(* step, so producers and worker processes interleave between any two of   *)
(* them; a worker may die between any two; a job key may expire (ex=86400) *)
(* at any time.  Redis itself is external: a key-value map, two lists and  *)
(* a sorted set, with atomic commands.                                     *)
(***************************************************************************)
EXTENDS Naturals, Sequences, SequencesExt

CONSTANTS
    Jobs,           \* job ids
    NoJob,          \* a worker holds no job
    Workers,        \* processes in run_worker
    MaxRetries,     \* Job.max_retries
    MaxCrashes      \* bound: worker deaths

ASSUME PyJobsAssumption ==
    /\ NoJob \notin Jobs
    /\ MaxRetries \in Nat
    /\ MaxCrashes \in Nat

Status == {"pending", "processing", "completed", "retry", "dead"}
NoKey  == [status |-> "none", retries |-> 0]

VARIABLES
    key,        \* key[j]: jobs:job:<id>, NoKey when absent
    queue,      \* jobs:queue:<name>; lpush adds at the end, rpop takes the head
    delayed,    \* jobs:delayed
    dlq,        \* jobs:dlq, as the sequence of its jobs
    epc,        \* epc[j]: where enqueue of j is
    wpc,        \* wpc[w]: where process_next of w is
    wid,        \* wid[w]: the job id it took
    wrec,       \* wrec[w]: its in-memory Job
    runs,       \* runs[j]: calls of the worker function for j
    early,      \* jobs whose retry delay has not elapsed yet
    crashes     \* worker deaths so far

vars == <<key, queue, delayed, dlq, epc, wpc, wid, wrec, runs, early, crashes>>
redisVars == <<key, queue, delayed, dlq>>
workerVars == <<wpc, wid, wrec>>

Init ==
    /\ key = [j \in Jobs |-> NoKey]
    /\ queue = <<>> /\ delayed = {} /\ dlq = <<>>
    /\ epc = [j \in Jobs |-> "new"]
    /\ wpc = [w \in Workers |-> "idle"]
    /\ wid = [w \in Workers |-> NoJob]
    /\ wrec = [w \in Workers |-> NoKey]
    /\ runs = [j \in Jobs |-> 0]
    /\ early = {}
    /\ crashes = 0

Goto(w, where) == wpc' = [wpc EXCEPT ![w] = where]

\* process_next is over, or its worker is.
Release(w) ==
    /\ Goto(w, "idle")
    /\ wid' = [wid EXCEPT ![w] = NoJob]
    /\ wrec' = [wrec EXCEPT ![w] = NoKey]

-----------------------------------------------------------------------------
(* enqueue *)

EnqueueSet(j) ==
    /\ epc[j] = "new"
    /\ key' = [key EXCEPT ![j] = [status |-> "pending", retries |-> 0]]
    /\ epc' = [epc EXCEPT ![j] = "push"]
    /\ UNCHANGED <<queue, delayed, dlq, workerVars, runs, early, crashes>>

\* No scheduled_at, or one that has passed.
EnqueuePush(j) ==
    /\ epc[j] = "push"
    /\ queue' = Append(queue, j)
    /\ epc' = [epc EXCEPT ![j] = "queued"]
    /\ UNCHANGED <<key, delayed, dlq, workerVars, runs, early, crashes>>

\* scheduled_at in the future.
EnqueueDelayed(j) ==
    /\ epc[j] = "push"
    /\ delayed' = delayed \cup {j}
    /\ epc' = [epc EXCEPT ![j] = "delayed"]
    /\ UNCHANGED <<key, queue, dlq, workerVars, runs, early, crashes>>

-----------------------------------------------------------------------------
(* process_next *)

\* dequeue: rpop.
Pop(w) ==
    /\ wpc[w] = "idle"
    /\ queue # <<>>
    /\ wid' = [wid EXCEPT ![w] = Head(queue)]
    /\ queue' = Tail(queue)
    /\ Goto(w, "get")
    /\ UNCHANGED <<key, delayed, dlq, epc, wrec, runs, early, crashes>>

\* dequeue: get; an expired key means no job.
Get(w) ==
    /\ wpc[w] = "get"
    /\ LET j == wid[w] IN
       IF key[j] = NoKey
         THEN Release(w)
         ELSE /\ wrec' = [wrec EXCEPT ![w] = key[j]]
              /\ Goto(w, "mark")
              /\ UNCHANGED wid
    /\ UNCHANGED <<redisVars, epc, runs, early, crashes>>

\* _update_job_redis: processing.
Mark(w) ==
    /\ wpc[w] = "mark"
    /\ wrec' = [wrec EXCEPT ![w].status = "processing"]
    /\ key' = [key EXCEPT ![wid[w]] = [wrec[w] EXCEPT !.status = "processing"]]
    /\ Goto(w, "run")
    /\ UNCHANGED <<queue, delayed, dlq, epc, wid, runs, early, crashes>>

\* worker(job) returns or raises (or there is no worker function).
Run(w) ==
    /\ wpc[w] = "run"
    /\ runs' = [runs EXCEPT ![wid[w]] = @ + 1]
    /\ \E where \in {"complete", "fail"} : Goto(w, where)
    /\ UNCHANGED <<redisVars, epc, wid, wrec, early, crashes>>

Complete(w) ==
    /\ wpc[w] = "complete"
    /\ key' = [key EXCEPT ![wid[w]] = [wrec[w] EXCEPT !.status = "completed"]]
    /\ Release(w)
    /\ UNCHANGED <<queue, delayed, dlq, epc, runs, early, crashes>>

\* complete raises (the connection broke before or after Redis applied the set):
\* the except clause treats the job as failed although its function succeeded.
CompleteRaises(w) ==
    /\ wpc[w] = "complete"
    /\ key' \in {key, [key EXCEPT ![wid[w]] = [wrec[w] EXCEPT !.status = "completed"]]}
    /\ Goto(w, "fail")
    /\ UNCHANGED <<queue, delayed, dlq, epc, wid, wrec, runs, early, crashes>>

\* fail that forgets to count.
FailUncounted(w) ==
    /\ wpc[w] = "fail"
    /\ wrec' = [wrec EXCEPT ![w].status = "retry"]
    /\ Goto(w, "requeue")
    /\ UNCHANGED <<redisVars, epc, wid, runs, early, crashes>>

\* fail: count the retry and decide.
Fail(w) ==
    /\ wpc[w] = "fail"
    /\ LET n == wrec[w].retries + 1 IN
       IF n <= MaxRetries
         THEN /\ wrec' = [wrec EXCEPT ![w] = [status |-> "retry", retries |-> n]]
              /\ Goto(w, "requeue")
         ELSE /\ wrec' = [wrec EXCEPT ![w] = [status |-> "dead", retries |-> n]]
              /\ Goto(w, "bury")
    /\ UNCHANGED <<redisVars, epc, wid, runs, early, crashes>>

\* requeue in the other order: the id first, the record by the same command's
\* successor.
RequeuePushFirst(w) ==
    /\ wpc[w] = "requeue"
    /\ queue' = Append(queue, wid[w])
    /\ early' = early \cup {wid[w]}
    /\ Goto(w, "push")
    /\ UNCHANGED <<key, delayed, dlq, epc, wid, wrec, runs, crashes>>

\* requeue: the record with its new count and scheduled_at ...
RequeueSet(w) ==
    /\ wpc[w] = "requeue"
    /\ key' = [key EXCEPT ![wid[w]] = wrec[w]]
    /\ early' = early \cup {wid[w]}
    /\ Goto(w, "push")
    /\ UNCHANGED <<queue, delayed, dlq, epc, wid, wrec, runs, crashes>>

\* ... then lpush.
RequeuePush(w) ==
    /\ wpc[w] = "push"
    /\ queue' = Append(queue, wid[w])
    /\ Release(w)
    /\ UNCHANGED <<key, delayed, dlq, epc, runs, early, crashes>>

\* fail that buries the job and loops on to requeue it.
BuryAndRequeue(w) ==
    /\ wpc[w] = "bury"
    /\ dlq' = Append(dlq, wid[w])
    /\ queue' = Append(queue, wid[w])
    /\ Release(w)
    /\ UNCHANGED <<key, delayed, epc, runs, early, crashes>>

\* fail that only drops a job without retries left.
BuryNowhere(w) ==
    /\ wpc[w] = "bury"
    /\ Release(w)
    /\ UNCHANGED <<redisVars, epc, runs, early, crashes>>

\* fail: lpush on the dead letter queue, nothing else.
Bury(w) ==
    /\ wpc[w] = "bury"
    /\ dlq' = Append(dlq, wid[w])
    /\ Release(w)
    /\ UNCHANGED <<key, queue, delayed, epc, runs, early, crashes>>

-----------------------------------------------------------------------------
(* The environment *)

\* The worker process dies, or a Redis error escapes process_next and run_worker;
\* it is started again with nothing in memory.
Crash(w) ==
    /\ wpc[w] # "idle"
    /\ crashes < MaxCrashes
    /\ crashes' = crashes + 1
    /\ Release(w)
    /\ UNCHANGED <<redisVars, epc, runs, early>>

\* The key's 24 hours are over.
Expire(j) ==
    /\ key[j] # NoKey
    /\ key' = [key EXCEPT ![j] = NoKey]
    /\ UNCHANGED <<queue, delayed, dlq, epc, workerVars, runs, early, crashes>>

\* The retry delay of j elapses.
DelayElapses(j) ==
    /\ j \in early
    /\ early' = early \ {j}
    /\ UNCHANGED <<redisVars, epc, workerVars, runs, crashes>>

-----------------------------------------------------------------------------
EnqueueStep(j) == EnqueueSet(j) \/ EnqueuePush(j) \/ EnqueueDelayed(j)

WorkerStep(w) == \/ Pop(w) \/ Get(w) \/ Mark(w) \/ Run(w) \/ Complete(w) \/ CompleteRaises(w)
                 \/ Fail(w) \/ RequeueSet(w) \/ RequeuePush(w) \/ Bury(w)

Next == \/ \E j \in Jobs : EnqueueStep(j) \/ DelayElapses(j) \/ Expire(j)
        \/ \E w \in Workers : WorkerStep(w) \/ Crash(w)

Spec == Init /\ [][Next]_vars

\* Workers keep polling, the worker function returns, enqueue completes.
FairSpec ==
    /\ Spec
    /\ \A w \in Workers : WF_vars(WorkerStep(w))
    /\ \A j \in Jobs : WF_vars(EnqueuePush(j) \/ EnqueueDelayed(j))

-----------------------------------------------------------------------------
Record == [status : Status \cup {"none"}, retries : Nat]

TypeOK ==
    /\ key \in [Jobs -> Record]
    /\ queue \in Seq(Jobs) /\ dlq \in Seq(Jobs) /\ delayed \subseteq Jobs
    /\ epc \in [Jobs -> {"new", "push", "queued", "delayed"}]
    /\ wpc \in [Workers -> {"idle", "get", "mark", "run", "complete", "fail",
                            "requeue", "push", "bury"}]
    /\ wid \in [Workers -> Jobs \cup {NoJob}]
    /\ wrec \in [Workers -> Record]
    /\ runs \in [Jobs -> Nat]
    /\ early \subseteq Jobs
    /\ crashes \in Nat

\* The worker function is called at most max_retries + 1 times for a job, whatever
\* workers die, keys expire and Redis errors hit complete.
AttemptsBounded == \A j \in Jobs : runs[j] <= MaxRetries + 1

\* A job has one owner: it is once in the queue, or once in the dead letter queue,
\* or with one worker, so no two workers ever execute it at the same time.
OneOwner ==
    /\ \A i, k \in 1..Len(queue) : queue[i] = queue[k] => i = k
    /\ \A i, k \in 1..Len(dlq) : dlq[i] = dlq[k] => i = k
    /\ \A v, w \in Workers : wid[v] = wid[w] /\ wid[v] # NoJob => v = w
    /\ \A i \in 1..Len(queue), w \in Workers : queue[i] # wid[w]
    /\ \A i \in 1..Len(dlq), w \in Workers : dlq[i] # wid[w]
    /\ \A i \in 1..Len(queue), k \in 1..Len(dlq) : queue[i] # dlq[k]

\* Only a job whose attempts are used up is in the dead letter queue.
DlqMeansExhausted == \A i \in 1..Len(dlq) : runs[dlq[i]] = MaxRetries + 1

\* A job in the queue carries the number of its executions, so that no attempt is
\* forgotten between two workers.
CountIsCurrent ==
    \A i \in 1..Len(queue) : key[queue[i]] # NoKey => key[queue[i]].retries = runs[queue[i]]

Expired(j) == epc[j] # "new" /\ key[j] = NoKey

\* Where no worker dies and no key expires every queued job ends: completed, or in
\* the dead letter queue.
QueuedJobEnds ==
    [](crashes = 0 /\ \A j \in Jobs : ~Expired(j)) =>
       \A j \in Jobs : epc[j] = "queued" ~>
          key[j].status = "completed" \/ \E i \in 1..Len(dlq) : dlq[i] = j

\* The attempts of a job are counted over workers, deaths, expiries and errors of
\* complete: never too many, none forgotten, and dead only when they are used up.
AttemptsSound == TypeOK /\ AttemptsBounded /\ DlqMeansExhausted /\ CountIsCurrent

\* "Retries with exponential backoff": a retry does not start before its delay.
RetryBacksOff == \A w \in Workers : wpc[w] = "run" => wid[w] \notin early

-----------------------------------------------------------------------------
(* The inductive invariant (proved in PyJobsProofs). *)

\* OneOwner, one job at a time: the two lists hold a job once, and the queue, the dead
\* letter queue and the workers hold different jobs.
OwnInv ==
    /\ IsInjective(queue) /\ IsInjective(dlq)
    /\ \A v, w \in Workers : wid[v] = wid[w] /\ wid[v] # NoJob => v = w
    /\ \A j \in Jobs : Contains(queue, j) => ~Contains(dlq, j) /\ \A w \in Workers : wid[w] # j
    /\ \A j \in Jobs : Contains(dlq, j) => \A w \in Workers : wid[w] # j

KeyCounts(j) == key[j] # NoKey => key[j].retries = runs[j]

\* A queued job has an attempt left and its key, if it still exists, the count of its
\* executions; a dead one has no attempt left.
CountInv ==
    /\ \A j \in Jobs : runs[j] <= MaxRetries + 1
    /\ \A j \in Jobs : Contains(queue, j) => runs[j] <= MaxRetries /\ KeyCounts(j)
    /\ \A j \in Jobs : Contains(dlq, j) => runs[j] = MaxRetries + 1

\* A job not yet queued is nowhere and has not run.
EnqInv ==
    \A j \in Jobs : epc[j] # "queued" =>
        /\ ~Contains(queue, j) /\ ~Contains(dlq, j) /\ \A w \in Workers : wid[w] # j
        /\ runs[j] = 0 /\ KeyCounts(j)

\* What a worker knows of the count of the job it holds, by where it is.
WorkerCounts(w) ==
    /\ wid[w] = NoJob <=> wpc[w] = "idle"
    /\ wpc[w] \in {"get", "push"} => KeyCounts(wid[w])
    /\ wpc[w] \in {"mark", "run", "requeue", "bury"} => wrec[w].retries = runs[wid[w]]
    /\ wpc[w] \in {"complete", "fail"} => runs[wid[w]] = wrec[w].retries + 1
    /\ wpc[w] \in {"get", "mark", "run", "requeue", "push"} => runs[wid[w]] <= MaxRetries
    /\ wpc[w] = "bury" => runs[wid[w]] = MaxRetries + 1

WorkInv == \A w \in Workers : WorkerCounts(w)

IInv == TypeOK /\ OwnInv /\ CountInv /\ EnqInv /\ WorkInv
=============================================================================
