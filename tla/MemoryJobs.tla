----------------------------- MODULE MemoryJobs -----------------------------
(***************************************************************************)
(* core/runtime/jobs.py without Redis: the dictionary _jobs and the list   *)
(* _queue["default"] of one JobQueue, shared by threads that enqueue and   *)
(* threads that loop over process_next, and a JobScheduler that enqueues   *)
(* into it.  A job is one mutable object.  Dictionary and list operations  *)
(* are atomic, sequences of them are not: the list is looked up and then   *)
(* used, and two enqueues that both find none each store a new one, the    *)
(* second in place of the first.  Lists are numbered as they are stored.   *)
(***************************************************************************)
EXTENDS Naturals, Sequences, FiniteSets

CONSTANTS
    MemIds,         \* job identifiers
    MemWorkers,     \* threads that call process_next
    Crons,          \* jobs of the scheduler
    MaxRetries,     \* max_retries
    MaxLists        \* bound: lists stored (each job's enqueue stores one at most)

NoId == "no job"

ASSUME MemoryJobsAssumption ==
    MaxRetries \in Nat /\ MaxLists \in Nat /\ NoId \notin MemIds

ListNos == 1..MaxLists

VARIABLES
    object,     \* object[j] = [status, retries]; status "none" before enqueue
    recorded,   \* the identifiers in _jobs
    lists,      \* lists[n]: the n-th list stored in _queue["default"]
    listNo,     \* the list that is there now, 0 for none
    pusher,     \* pusher[j] = [at, list]: enqueue of j from its record to its append
    worker,     \* worker[w] = [at, job, list]: list the one it looked up
    due,        \* jobs of the scheduler whose scheduled_at has passed
    executions, \* history: executions[j], calls of the worker function
    safe        \* history: jobs whose enqueue began when the list was settled

memVars == <<object, recorded, lists, listNo, pusher, worker, due, executions, safe>>

MemInit ==
    /\ object = [j \in MemIds |-> [status |-> "none", retries |-> 0]]
    /\ recorded = {} /\ listNo = 0 /\ lists = [n \in ListNos |-> <<>>]
    /\ pusher = [j \in MemIds |-> [at |-> "no", list |-> 0]]
    /\ worker = [w \in MemWorkers |-> [at |-> "idle", job |-> NoId, list |-> 0]]
    /\ due = {} /\ safe = {}
    /\ executions = [j \in MemIds |-> 0]

Go(w, where, j) == worker' = [worker EXCEPT ![w] = [at |-> where, job |-> j, list |-> 0]]

\* The worker looks the list up, for what it does next.
LookUp(w, where) == worker' = [worker EXCEPT ![w].at = where, ![w].list = listNo]

PushAt(j, where, n) == pusher' = [pusher EXCEPT ![j] = [at |-> where, list |-> n]]

\* The list is stored and no enqueue is about to store another.
ListSettled == listNo # 0 /\ \A j \in MemIds : pusher[j].at # "create"

\* enqueue: the record first ...
MemEnqueue(j) ==
    /\ object[j].status = "none"
    /\ object' = [object EXCEPT ![j].status = "pending"]
    /\ recorded' = recorded \cup {j}
    /\ PushAt(j, "test", 0)
    /\ safe' = IF ListSettled THEN safe \cup {j} ELSE safe
    /\ UNCHANGED <<lists, listNo, worker, due, executions>>

\* ... then the test for the list ...
MemTest(j) ==
    /\ pusher[j].at = "test"
    /\ PushAt(j, IF listNo = 0 THEN "create" ELSE "look", 0)
    /\ UNCHANGED <<object, recorded, lists, listNo, worker, due, executions, safe>>

\* ... a new one where there was none, in place of what may have come since ...
MemCreate(j) ==
    /\ pusher[j].at = "create"
    /\ listNo < MaxLists
    /\ listNo' = listNo + 1
    /\ PushAt(j, "look", 0)
    /\ UNCHANGED <<object, recorded, lists, worker, due, executions, safe>>

\* ... and the append, to the list that was looked up before.
MemLook(j) ==
    /\ pusher[j].at = "look"
    /\ PushAt(j, "append", listNo)
    /\ UNCHANGED <<object, recorded, lists, listNo, worker, due, executions, safe>>

MemPush(j) ==
    /\ pusher[j].at = "append"
    /\ lists' = [lists EXCEPT ![pusher[j].list] = Append(@, j)]
    /\ PushAt(j, "no", 0)
    /\ UNCHANGED <<object, recorded, listNo, worker, due, executions, safe>>

\* scheduled_at passes.
BecomeDue(c) ==
    /\ c \in Crons \ due
    /\ due' = due \cup {c}
    /\ UNCHANGED <<object, recorded, lists, listNo, pusher, worker, executions, safe>>

\* run_ready_jobs: the job stays pending with its old time, so that every
\* call enqueues it again, under a new identifier.
RunReadyJob(c, j) == c \in due /\ MemEnqueue(j)

\* dequeue: the test of the list ...
MemCheck(w) ==
    /\ worker[w].at = "idle" /\ listNo # 0 /\ lists[listNo] # <<>>
    /\ Go(w, "pop", NoId)
    /\ UNCHANGED <<object, recorded, lists, listNo, pusher, due, executions, safe>>

\* ... which is looked up once more ...
MemPopLook(w) ==
    /\ worker[w].at = "pop"
    /\ LookUp(w, "popping")
    /\ UNCHANGED <<object, recorded, lists, listNo, pusher, due, executions, safe>>

\* ... and pop(0); when another thread was faster IndexError ends the loop.
MemPop(w) ==
    LET n == worker[w].list IN
    /\ worker[w].at = "popping"
    /\ IF lists[n] = <<>>
       THEN Go(w, "dead", NoId) /\ UNCHANGED lists
       ELSE /\ Go(w, "take", Head(lists[n]))
            /\ lists' = [lists EXCEPT ![n] = Tail(@)]
    /\ UNCHANGED <<object, recorded, listNo, pusher, due, executions, safe>>

\* _jobs.pop(job_id, None); a job without a record is passed over.
MemTake(w) ==
    LET j == worker[w].job IN
    /\ worker[w].at = "take"
    /\ IF j \in recorded THEN Go(w, "mark", j) ELSE Go(w, "idle", NoId)
    /\ recorded' = recorded \ {j}
    /\ UNCHANGED <<object, lists, listNo, pusher, due, executions, safe>>

\* process_next puts the record back and calls the worker function.
MemRun(w) ==
    LET j == worker[w].job IN
    /\ worker[w].at = "mark"
    /\ object' = [object EXCEPT ![j].status = "processing"]
    /\ recorded' = recorded \cup {j}
    /\ executions' = [executions EXCEPT ![j] = @ + 1]
    /\ Go(w, "run", j)
    /\ UNCHANGED <<lists, listNo, pusher, due, safe>>

MemComplete(w) ==
    LET j == worker[w].job IN
    /\ worker[w].at = "run"
    /\ object' = [object EXCEPT ![j].status = "completed"]
    /\ recorded' = recorded \cup {j}
    /\ Go(w, "idle", NoId)
    /\ UNCHANGED <<lists, listNo, pusher, due, executions, safe>>

\* The worker function raised: fail, which counts and decides by again.
FailWith(w, again) ==
    LET j == worker[w].job IN
    /\ worker[w].at = "run"
    /\ object' = [object EXCEPT ![j] = [status |-> IF again THEN "retry" ELSE "dead",
                                        retries |-> @.retries + 1]]
    /\ IF again
       THEN /\ recorded' = recorded \cup {j}
            /\ Go(w, "requeue", j)
       ELSE Go(w, "idle", NoId) /\ UNCHANGED recorded
    /\ UNCHANGED <<lists, listNo, pusher, due, executions, safe>>

MemFailUncounted(w) ==
    FailWith(w, object[worker[w].job].retries <= MaxRetries)

MemFail(w) ==
    FailWith(w, worker[w].at = "run" /\ object[worker[w].job].retries + 1 <= MaxRetries)

\* requeue looks the list up, which is there ...
MemRequeueLook(w) ==
    /\ worker[w].at = "requeue"
    /\ LookUp(w, "append")
    /\ UNCHANGED <<object, recorded, lists, listNo, pusher, due, executions, safe>>

\* A requeue that forgets the list.
MemRequeueNever(w) ==
    /\ worker[w].at = "append"
    /\ Go(w, "idle", NoId)
    /\ UNCHANGED <<object, recorded, lists, listNo, pusher, due, executions, safe>>

\* ... and appends the identifier at once, whatever the delay.
MemRequeue(w) ==
    /\ worker[w].at = "append"
    /\ lists' = [lists EXCEPT ![worker[w].list] = Append(@, worker[w].job)]
    /\ Go(w, "idle", NoId)
    /\ UNCHANGED <<object, recorded, listNo, pusher, due, executions, safe>>

PusherStep(j) == MemTest(j) \/ MemCreate(j) \/ MemLook(j) \/ MemPush(j)

WorkerStep(w) ==
    \/ MemCheck(w) \/ MemPopLook(w) \/ MemPop(w) \/ MemTake(w) \/ MemRun(w)
    \/ MemComplete(w) \/ MemFail(w) \/ MemRequeueLook(w) \/ MemRequeue(w)

MemNext ==
    \/ \E j \in MemIds :
          MemEnqueue(j) \/ PusherStep(j) \/ \E c \in Crons : RunReadyJob(c, j)
    \/ \E c \in Crons : BecomeDue(c)
    \/ \E w \in MemWorkers : WorkerStep(w)

\* Threads are scheduled: each goes on when it can.
MemFairness ==
    /\ \A j \in MemIds : WF_memVars(PusherStep(j))
    /\ \A w \in MemWorkers : WF_memVars(WorkerStep(w))

-----------------------------------------------------------------------------
(* Properties *)

pushing == {j \in MemIds : pusher[j].at # "no"}

\* The places of a job in the lists, the replaced ones included.
ListPlaces(j) == UNION {{n} \X {i \in DOMAIN lists[n] : lists[n][i] = j} : n \in ListNos}

InQueue(j) == \E n \in ListNos : \E i \in DOMAIN lists[n] : lists[n][i] = j

\* A list that was replaced holds the job: nobody will look there.
Stranded(j) == \E n \in ListNos \ {listNo} : \E i \in DOMAIN lists[n] : lists[n][i] = j

\* Jobs are run by one thread at a time, at most max_retries + 1 times; and every job that
\* was enqueued and has not ended has one owner: its enqueue, a list, once, or a worker,
\* although looking the list up and using it are separate steps.  That list is the one the
\* workers read for every job whose enqueue began when the list was settled; of first
\* enqueues that race, one may leave its job in a list that is replaced.
MemJobsSafe ==
    \A j \in MemIds :
        /\ \A v, w \in MemWorkers : worker[v].job = j /\ worker[w].job = j => v = w
        /\ executions[j] <= MaxRetries + 1
        /\ (IF j \in pushing THEN 1 ELSE 0)
           + Cardinality(ListPlaces(j))
           + (IF \E w \in MemWorkers : worker[w].job = j THEN 1 ELSE 0)
             = IF object[j].status \in {"none", "completed", "dead"} THEN 0 ELSE 1
        /\ j \in safe => ~Stranded(j)

\* Every job that was enqueued is completed or dead in the end, unless it was left in a
\* replaced list, and as long as a worker's loop survives: a worker that loses the race for
\* the last entry of the list ends with IndexError.
MemJobEnds ==
    \A j \in MemIds :
        object[j].status = "pending" ~>
            \/ object[j].status \in {"completed", "dead"}
            \/ Stranded(j)
            \/ \A w \in MemWorkers : worker[w].at = "dead"

\* The inductive invariant: where a job is decides its status, whether it has
\* a record, and by how much its executions exceed its retries.
MemTypeOK ==
    /\ object \in [MemIds -> [status : {"none", "pending", "processing", "retry",
                                        "completed", "dead"}, retries : Nat]]
    /\ recorded \subseteq MemIds /\ safe \subseteq MemIds
    /\ lists \in [ListNos -> Seq(MemIds)] /\ listNo \in 0..MaxLists
    /\ pusher \in [MemIds -> [at : {"no", "test", "create", "look", "append"}, list : 0..MaxLists]]
    /\ worker \in [MemWorkers -> [at : {"idle", "pop", "popping", "take", "mark", "run", "requeue",
                                        "append", "dead"}, job : MemIds \cup {NoId}, list : 0..MaxLists]]
    /\ executions \in [MemIds -> Nat]

\* Who has looked the list up found one, and there is one as soon as somebody may.
LookInv ==
    /\ \A j \in MemIds : /\ pusher[j].at = "look" => listNo # 0
                         /\ pusher[j].at = "append" => pusher[j].list # 0 /\ listNo # 0
    /\ \A w \in MemWorkers : /\ worker[w].at # "idle" => listNo # 0
                             /\ worker[w].at \in {"popping", "append"} => worker[w].list # 0

\* Once the list is settled it is final, and a job enqueued since then is in no other.
SafeInv ==
    \A j \in safe :
        /\ ListSettled /\ ~Stranded(j) /\ object[j].status # "none"
        /\ pusher[j].at = "append" => pusher[j].list = listNo
        /\ \A w \in MemWorkers :
              worker[w].job = j /\ worker[w].at = "append" => worker[w].list = listNo

\* The job waits for its n-th execution, n = retries + 1.
Ready(j) ==
    /\ object[j].status \in {"pending", "retry"}
    /\ executions[j] = object[j].retries /\ object[j].retries <= MaxRetries

OnItsWayInv ==
    /\ \A j \in MemIds : j \in pushing \/ InQueue(j) => Ready(j) /\ j \in recorded
    /\ \A w \in MemWorkers :
          LET j == worker[w].job IN
          /\ j = NoId <=> worker[w].at \in {"idle", "pop", "popping", "dead"}
          /\ worker[w].at \in {"take", "mark", "requeue", "append"} => Ready(j)
          /\ worker[w].at \in {"take", "requeue", "append"} => j \in recorded
          /\ worker[w].at = "run" =>
                /\ object[j].status = "processing"
                /\ executions[j] = object[j].retries + 1 /\ object[j].retries <= MaxRetries

OnePlaceInv ==
    /\ \A m, n \in ListNos : \A i \in DOMAIN lists[m], k \in DOMAIN lists[n] :
          lists[m][i] = lists[n][k] => m = n /\ i = k
    /\ \A j \in pushing : ~InQueue(j)
    /\ \A w \in MemWorkers :
          /\ worker[w].job \notin pushing /\ ~InQueue(worker[w].job)
          /\ \A v \in MemWorkers :
                worker[v].job = worker[w].job /\ worker[w].job # NoId => v = w

EndInv ==
    \A j \in MemIds :
        /\ object[j].status = "none" => executions[j] = 0 /\ object[j].retries = 0
        /\ executions[j] <= MaxRetries + 1
        /\ object[j].status \notin {"none", "completed", "dead"} =>
              \/ j \in pushing \/ InQueue(j)
              \/ \E w \in MemWorkers : worker[w].job = j

MemPlaceInv == MemTypeOK /\ OnItsWayInv /\ OnePlaceInv /\ EndInv

MemIInv == MemPlaceInv /\ LookInv /\ SafeInv
=============================================================================
