---------------------------- MODULE PyJobsProofs ----------------------------
(***************************************************************************)
(* Proofs about PyJobs, for any jobs, any worker processes, any number of  *)
(* retries, deaths and expiries.  A job is followed from the queue to one  *)
(* worker and back or into the dead letter queue (OwnInv), and with it the *)
(* count of its executions: in its key while it is queued, in the worker's *)
(* memory while one holds it (CountInv, WorkInv).                          *)
(***************************************************************************)
EXTENDS PyJobs, TLAPS

USE PyJobsAssumption

\* Appending to a list adds one element to it.
LEMMA AppendFacts ==
    ASSUME NEW S, NEW s \in Seq(S), NEW e \in S
    PROVE  /\ Append(s, e) \in Seq(S)
           /\ \A x : Contains(Append(s, e), x) <=> Contains(s, x) \/ x = e
           /\ IsInjective(s) /\ ~Contains(s, e) => IsInjective(Append(s, e))
<1>1. /\ Append(s, e) \in Seq(S)
      /\ Len(Append(s, e)) = Len(s) + 1
      /\ Append(s, e)[Len(s) + 1] = e
      /\ \A i \in 1..Len(s) : Append(s, e)[i] = s[i]
  OBVIOUS
<1>2. DOMAIN s = 1..Len(s) /\ DOMAIN Append(s, e) = 1..(Len(s) + 1) /\ Len(s) \in Nat
  BY <1>1
<1>3. \A x : Contains(Append(s, e), x) <=> Contains(s, x) \/ x = e
  BY <1>1, <1>2 DEF Contains
<1>4. IsInjective(s) /\ ~Contains(s, e) => IsInjective(Append(s, e))
  BY <1>1, <1>2 DEF Contains, IsInjective
<1>5. QED
  BY <1>1, <1>3, <1>4

\* Taking the head of a list without repetitions removes one element.
LEMMA TailFacts ==
    ASSUME NEW S, NEW s \in Seq(S), s # <<>>
    PROVE  /\ Head(s) \in S /\ Tail(s) \in Seq(S) /\ Contains(s, Head(s))
           /\ IsInjective(s) => /\ IsInjective(Tail(s))
                                /\ \A x : Contains(Tail(s), x) <=> Contains(s, x) /\ x # Head(s)
<1>1. /\ Len(s) \in Nat \ {0} /\ Head(s) = s[1] /\ Head(s) \in S
      /\ Tail(s) \in Seq(S) /\ Len(Tail(s)) = Len(s) - 1
      /\ \A i \in 1..(Len(s) - 1) : Tail(s)[i] = s[i + 1]
      /\ DOMAIN s = 1..Len(s) /\ DOMAIN Tail(s) = 1..(Len(s) - 1)
  OBVIOUS
<1>2. Contains(s, Head(s))
  BY <1>1 DEF Contains
<1>3. ASSUME IsInjective(s) PROVE IsInjective(Tail(s))
  <2>1. \A i, k \in 1..Len(s) : s[i] = s[k] => i = k
    BY <1>1, <1>3 DEF IsInjective
  <2>2. \A i \in 1..(Len(s) - 1) : i + 1 \in 1..Len(s)
    BY <1>1
  <2>3. QED
    BY <1>1, <2>1, <2>2 DEF IsInjective
<1>4. ASSUME IsInjective(s), NEW x
      PROVE  Contains(Tail(s), x) <=> Contains(s, x) /\ x # Head(s)
  <2>1. \A i, k \in 1..Len(s) : s[i] = s[k] => i = k
    BY <1>1, <1>4 DEF IsInjective
  <2>2. ASSUME NEW i \in 1..(Len(s) - 1), Tail(s)[i] = x
        PROVE  i + 1 \in 1..Len(s) /\ s[i + 1] = x /\ x # Head(s)
    BY <1>1, <2>1, <2>2
  <2>3. ASSUME NEW i \in 1..Len(s), s[i] = x, x # Head(s)
        PROVE  i - 1 \in 1..(Len(s) - 1) /\ Tail(s)[i - 1] = x
    BY <1>1, <2>3
  <2>4. QED
    BY <1>1, <2>2, <2>3 DEF Contains
<1>5. QED
  BY <1>1, <1>2, <1>3, <1>4

\* The job a busy worker holds is a job that is nowhere else.
LEMMA HeldJob ==
    ASSUME IInv, NEW w \in Workers, wpc[w] # "idle"
    PROVE  /\ wid[w] \in Jobs /\ wid[w] # NoJob
           /\ ~Contains(queue, wid[w]) /\ ~Contains(dlq, wid[w])
           /\ \A v \in Workers : wid[v] = wid[w] => v = w
           /\ epc[wid[w]] = "queued"
  BY DEF IInv, TypeOK, WorkInv, WorkerCounts, OwnInv, EnqInv

-----------------------------------------------------------------------------
(* enqueue *)

\* The key of a job that is nowhere yet.
LEMMA EnqueueSetKeeps == ASSUME IInv, NEW j \in Jobs, EnqueueSet(j) PROVE IInv'
<1> USE DEF IInv
<1>1. /\ epc[j] = "new" /\ epc' = [epc EXCEPT ![j] = "push"]
      /\ key' = [key EXCEPT ![j] = [status |-> "pending", retries |-> 0]]
      /\ UNCHANGED <<queue, delayed, dlq, wpc, wid, wrec, runs, early, crashes>>
  BY DEF EnqueueSet, workerVars
<1>2. TypeOK'
  BY <1>1 DEF TypeOK, Record, Status
<1>3. /\ ~Contains(queue, j) /\ ~Contains(dlq, j) /\ \A w \in Workers : wid[w] # j
      /\ runs[j] = 0
  BY <1>1 DEF EnqInv
<1>4. KeyCounts(j)' /\ \A x \in Jobs : x # j => (KeyCounts(x) <=> KeyCounts(x)')
  BY <1>1, <1>3 DEF KeyCounts, TypeOK
<1>5. OwnInv'
  BY <1>1 DEF OwnInv
<1>6. CountInv' /\ EnqInv'
  BY <1>1, <1>3, <1>4 DEF CountInv, EnqInv, TypeOK
<1>7. WorkInv'
  <2>1. \A w \in Workers : wpc[w] # "idle" => wid[w] \in Jobs /\ wid[w] # j
    BY <1>3, HeldJob
  <2>2. QED
    BY <1>1, <1>4, <2>1 DEF WorkInv, WorkerCounts
<1>8. QED
  BY <1>2, <1>5, <1>6, <1>7

\* The id enters the queue.
LEMMA EnqueuePushKeeps == ASSUME IInv, NEW j \in Jobs, EnqueuePush(j) PROVE IInv'
<1> USE DEF IInv
<1>1. /\ epc[j] = "push" /\ epc' = [epc EXCEPT ![j] = "queued"]
      /\ queue' = Append(queue, j)
      /\ UNCHANGED <<key, delayed, dlq, wpc, wid, wrec, runs, early, crashes>>
  BY DEF EnqueuePush, workerVars
<1>2. /\ ~Contains(queue, j) /\ ~Contains(dlq, j) /\ \A w \in Workers : wid[w] # j
      /\ runs[j] = 0 /\ KeyCounts(j)
  BY <1>1 DEF EnqInv
<1>3. /\ queue' \in Seq(Jobs) /\ IsInjective(queue')
      /\ \A x : Contains(queue', x) <=> Contains(queue, x) \/ x = j
  BY <1>1, <1>2, AppendFacts DEF TypeOK, OwnInv
<1>4. \A x : KeyCounts(x)' <=> KeyCounts(x)
  BY <1>1 DEF KeyCounts
<1>5. TypeOK'
  BY <1>1, <1>3 DEF TypeOK
<1>6. OwnInv'
  BY <1>1, <1>2, <1>3 DEF OwnInv
<1>7. CountInv'
  BY <1>1, <1>2, <1>3, <1>4 DEF CountInv
<1>8. EnqInv'
  BY <1>1, <1>3, <1>4 DEF EnqInv, TypeOK
<1>9. WorkInv'
  BY <1>1, <1>4 DEF WorkInv, WorkerCounts
<1>10. QED
  BY <1>5, <1>6, <1>7, <1>8, <1>9

\* Steps that touch neither the lists nor the counts.
LEMMA EnvironmentKeeps ==
    ASSUME IInv, NEW j \in Jobs, EnqueueDelayed(j) \/ DelayElapses(j) \/ Expire(j)
    PROVE  IInv'
<1> USE DEF IInv
<1>1. UNCHANGED <<queue, dlq, wpc, wid, wrec, runs, crashes>>
  BY DEF EnqueueDelayed, DelayElapses, Expire, redisVars, workerVars
<1>2. /\ epc' \in [Jobs -> {"new", "push", "queued", "delayed"}]
      /\ \A x \in Jobs : epc'[x] # "queued" => epc[x] # "queued"
      /\ delayed' \subseteq Jobs /\ early' \subseteq Jobs
  BY DEF EnqueueDelayed, DelayElapses, Expire, redisVars, TypeOK
<1>3. /\ key' \in [Jobs -> Record]
      /\ \A x \in Jobs : key'[x] = key[x] \/ key'[x] = NoKey
  <2>1. CASE EnqueueDelayed(j) \/ DelayElapses(j)
    BY <2>1 DEF EnqueueDelayed, DelayElapses, redisVars, TypeOK
  <2>2. CASE Expire(j)
    <3>1. NoKey \in Record
      BY DEF NoKey, Record
    <3>2. QED
      BY <2>2, <3>1 DEF Expire, TypeOK
  <2>3. QED
    BY <2>1, <2>2
<1>4. \A x \in Jobs : KeyCounts(x) => KeyCounts(x)'
  BY <1>1, <1>3 DEF KeyCounts
<1>5. TypeOK'
  BY <1>1, <1>2, <1>3 DEF TypeOK
<1>6. OwnInv' /\ CountInv'
  BY <1>1, <1>4 DEF OwnInv, CountInv
<1>7. EnqInv'
  BY <1>1, <1>2, <1>4 DEF EnqInv
<1>8. WorkInv'
  <2>1. \A w \in Workers : wpc[w] # "idle" => wid[w] \in Jobs
    BY HeldJob
  <2>2. QED
    BY <1>1, <1>4, <2>1 DEF WorkInv, WorkerCounts
<1>9. QED
  BY <1>5, <1>6, <1>7, <1>8

-----------------------------------------------------------------------------
(* A worker *)

\* A step of one worker does not touch what another knows of its own job.
LEMMA OtherWorkers ==
    ASSUME IInv, NEW w \in Workers, NEW v \in Workers, v # w,
           wpc'[v] = wpc[v], wid'[v] = wid[v], wrec'[v] = wrec[v],
           \A x \in Jobs : x # wid[w] => runs'[x] = runs[x] /\ key'[x] = key[x]
    PROVE  WorkerCounts(v)'
<1>1. CASE wpc[v] = "idle"
  BY <1>1 DEF IInv, WorkInv, WorkerCounts
<1>2. CASE wpc[v] # "idle"
  <2>1. wid[v] \in Jobs /\ wid[v] # wid[w]
    BY <1>2, HeldJob
  <2>2. QED
    BY <2>1 DEF IInv, WorkInv, WorkerCounts, KeyCounts
<1>3. QED
  BY <1>1, <1>2

\* rpop hands the first id of the queue to the worker.
LEMMA PopKeeps == ASSUME IInv, NEW w \in Workers, Pop(w) PROVE IInv'
<1> USE DEF IInv
<1> DEFINE j == Head(queue)
<1>1. /\ wpc[w] = "idle" /\ queue # <<>>
      /\ wpc' = [wpc EXCEPT ![w] = "get"] /\ wid' = [wid EXCEPT ![w] = j]
      /\ queue' = Tail(queue)
      /\ UNCHANGED <<key, delayed, dlq, epc, wrec, runs, early, crashes>>
  BY DEF Pop, Goto
<1>2. /\ j \in Jobs /\ queue' \in Seq(Jobs) /\ IsInjective(queue')
      /\ Contains(queue, j)
      /\ \A x : Contains(queue', x) <=> Contains(queue, x) /\ x # j
  BY <1>1, TailFacts DEF TypeOK, OwnInv
<1> HIDE DEF j
<1>3. \A x : KeyCounts(x)' <=> KeyCounts(x)
  BY <1>1 DEF KeyCounts
<1>4. runs[j] <= MaxRetries /\ KeyCounts(j) /\ epc[j] = "queued"
  BY <1>2 DEF CountInv, EnqInv
<1>5. ~Contains(dlq, j) /\ \A v \in Workers : wid[v] # j
  BY <1>2 DEF OwnInv
<1>6. TypeOK'
  BY <1>1, <1>2 DEF TypeOK
<1>7. \A v \in Workers : wid'[v] = IF v = w THEN j ELSE wid[v]
  BY <1>1 DEF TypeOK
<1>8. OwnInv'
  BY <1>1, <1>2, <1>5, <1>7 DEF OwnInv
<1>9. CountInv'
  BY <1>1, <1>2, <1>3 DEF CountInv
<1>10. EnqInv'
  BY <1>1, <1>2, <1>3, <1>4, <1>7 DEF EnqInv
<1>11. WorkerCounts(w)'
  BY <1>1, <1>2, <1>3, <1>4, <1>7 DEF WorkerCounts, TypeOK
<1>12. \A v \in Workers : v # w => WorkerCounts(v)'
  BY <1>1, OtherWorkers DEF TypeOK
<1>13. QED
  BY <1>6, <1>8, <1>9, <1>10, <1>11, <1>12 DEF WorkInv

\* A worker is done with its job, which nobody holds from then on: process_next is
\* over or the process dies.
LEMMA ReleaseKeeps ==
    ASSUME IInv, NEW w \in Workers, wpc[w] # "idle", Release(w),
           UNCHANGED <<queue, delayed, dlq, epc, runs, early>>,
           key' \in [Jobs -> Record], crashes' \in Nat,
           \A x \in Jobs : x # wid[w] => key'[x] = key[x]
    PROVE  IInv'
<1> USE DEF IInv
<1>1. /\ wpc' = [wpc EXCEPT ![w] = "idle"]
      /\ wid' = [wid EXCEPT ![w] = NoJob]
      /\ wrec' = [wrec EXCEPT ![w] = NoKey]
  BY DEF Release, Goto
<1>2. NoKey \in Record
  BY DEF NoKey, Record
<1>3. TypeOK'
  BY <1>1, <1>2 DEF TypeOK
<1>4. \A v \in Workers : wid'[v] = IF v = w THEN NoJob ELSE wid[v]
  BY <1>1 DEF TypeOK
<1>5. wid[w] \in Jobs /\ ~Contains(queue, wid[w]) /\ epc[wid[w]] = "queued"
  BY HeldJob
<1>6. \A x \in Jobs : x # wid[w] => (KeyCounts(x)' <=> KeyCounts(x))
  BY DEF KeyCounts
<1>7. OwnInv'
  BY <1>4 DEF OwnInv
<1>8. CountInv'
  BY <1>5, <1>6 DEF CountInv
<1>9. EnqInv'
  BY <1>4, <1>5, <1>6 DEF EnqInv
<1>10. WorkerCounts(w)'
  BY <1>1 DEF WorkerCounts, TypeOK
<1>11. \A v \in Workers : v # w => WorkerCounts(v)'
  BY <1>1, OtherWorkers DEF TypeOK
<1>12. QED
  BY <1>3, <1>7, <1>8, <1>9, <1>10, <1>11 DEF WorkInv

\* A worker goes on with the job it holds: only its own knowledge and the key of that
\* job change.
LEMMA ProceedKeeps ==
    ASSUME IInv, NEW w \in Workers, wpc[w] # "idle",
           UNCHANGED <<queue, delayed, dlq, epc, wid, crashes>>,
           NEW p \in {"mark", "run", "complete", "fail", "requeue", "push", "bury"},
           NEW r \in Record,
           wpc' = [wpc EXCEPT ![w] = p], wrec' = [wrec EXCEPT ![w] = r],
           key' \in [Jobs -> Record], early' \subseteq Jobs,
           \A x \in Jobs : x # wid[w] => key'[x] = key[x] /\ runs'[x] = runs[x],
           runs' \in [Jobs -> Nat], runs'[wid[w]] <= MaxRetries + 1,
           WorkerCounts(w)'
    PROVE  IInv'
<1> USE DEF IInv
<1>1. wid[w] \in Jobs /\ ~Contains(queue, wid[w]) /\ ~Contains(dlq, wid[w])
      /\ epc[wid[w]] = "queued"
  BY HeldJob
<1>2. TypeOK'
  BY DEF TypeOK
<1>3. \A x \in Jobs : x # wid[w] => (KeyCounts(x)' <=> KeyCounts(x))
  BY DEF KeyCounts
<1>4. OwnInv'
  BY DEF OwnInv
<1>5. CountInv'
  BY <1>1, <1>3 DEF CountInv
<1>6. EnqInv'
  BY <1>1, <1>3 DEF EnqInv
<1>7. \A v \in Workers : v # w => WorkerCounts(v)'
  BY OtherWorkers DEF TypeOK
<1>8. QED
  BY <1>2, <1>4, <1>5, <1>6, <1>7 DEF WorkInv

\* get: no key, no job; else the record carries the count of the executions.
LEMMA GetKeeps == ASSUME IInv, NEW w \in Workers, Get(w) PROVE IInv'
<1> DEFINE j == wid[w]
<1>1. wpc[w] = "get" /\ wpc[w] # "idle" /\ j \in Jobs
  BY HeldJob DEF Get
<1>2. UNCHANGED <<key, queue, delayed, dlq, epc, runs, early, crashes>>
  BY DEF Get, redisVars
<1>3. CASE key[j] = NoKey /\ Release(w)
  BY <1>1, <1>2, <1>3, ReleaseKeeps DEF IInv, TypeOK
<1>4. CASE /\ key[j] # NoKey /\ UNCHANGED wid
           /\ wpc' = [wpc EXCEPT ![w] = "mark"] /\ wrec' = [wrec EXCEPT ![w] = key[j]]
  <2>1. key[j].retries = runs[j] /\ runs[j] <= MaxRetries
    BY <1>1, <1>4 DEF IInv, WorkInv, WorkerCounts, KeyCounts
  <2>2. key[j] \in Record /\ runs[j] <= MaxRetries + 1
    BY <1>1 DEF IInv, TypeOK, CountInv
  <2>3. WorkerCounts(w)'
    BY <1>1, <1>2, <1>4, <2>1 DEF WorkerCounts, IInv, TypeOK
  <2>4. QED
    BY <1>1, <1>2, <1>4, <2>2, <2>3, ProceedKeeps DEF IInv, TypeOK
<1>5. QED
  BY <1>3, <1>4 DEF Get, Goto

\* The record with another status.
LEMMA RecordStatus ==
    ASSUME NEW r \in Record, NEW s \in Status
    PROVE  [r EXCEPT !.status = s] \in Record /\ [r EXCEPT !.status = s].retries = r.retries
  BY DEF Record

\* Marking does not count.
LEMMA MarkKeeps == ASSUME IInv, NEW w \in Workers, Mark(w) PROVE IInv'
<1> DEFINE j == wid[w]
           r == [wrec[w] EXCEPT !.status = "processing"]
<1>1. wpc[w] = "mark" /\ wpc[w] # "idle" /\ j \in Jobs
  BY HeldJob DEF Mark
<1>2. /\ wpc' = [wpc EXCEPT ![w] = "run"]
      /\ key' = [key EXCEPT ![j] = r]
      /\ UNCHANGED <<queue, delayed, dlq, epc, wid, runs, early, crashes>>
  BY DEF Mark, Goto
<1>3. wrec' = [wrec EXCEPT ![w] = r]
  BY DEF Mark
<1>4. r \in Record /\ r.retries = wrec[w].retries
  BY RecordStatus DEF IInv, TypeOK, Status
<1>5. wrec[w].retries = runs[j] /\ runs[j] <= MaxRetries /\ runs[j] <= MaxRetries + 1
  BY <1>1 DEF IInv, WorkInv, WorkerCounts, CountInv
<1> HIDE DEF r
<1>6. WorkerCounts(w)'
  BY <1>1, <1>2, <1>3, <1>4, <1>5 DEF WorkerCounts, IInv, TypeOK
<1>7. QED
  BY <1>1, <1>2, <1>3, <1>4, <1>5, <1>6, ProceedKeeps DEF IInv, TypeOK

\* The worker function is called: an attempt that was left.
LEMMA RunKeeps == ASSUME IInv, NEW w \in Workers, Run(w) PROVE IInv'
<1> DEFINE j == wid[w]
<1>1. wpc[w] = "run" /\ wpc[w] # "idle" /\ j \in Jobs
  BY HeldJob DEF Run
<1>2. PICK p \in {"complete", "fail"} : wpc' = [wpc EXCEPT ![w] = p]
  BY DEF Run, Goto
<1>3. /\ runs' = [runs EXCEPT ![j] = runs[j] + 1]
      /\ UNCHANGED <<key, queue, delayed, dlq, epc, wid, wrec, early, crashes>>
  BY DEF Run, redisVars
<1>4. wrec[w] \in Record /\ wrec' = [wrec EXCEPT ![w] = wrec[w]]
  BY <1>3 DEF IInv, TypeOK
<1>5. wrec[w].retries = runs[j] /\ runs[j] <= MaxRetries /\ runs[j] \in Nat
  BY <1>1 DEF IInv, TypeOK, WorkInv, WorkerCounts
<1>6. runs' \in [Jobs -> Nat] /\ runs'[j] <= MaxRetries + 1
  BY <1>1, <1>3, <1>5 DEF IInv, TypeOK
<1>7. WorkerCounts(w)'
  BY <1>1, <1>2, <1>3, <1>5 DEF WorkerCounts, IInv, TypeOK
<1>8. QED
  BY <1>1, <1>2, <1>3, <1>4, <1>6, <1>7, ProceedKeeps DEF IInv, TypeOK

\* The record a worker stores for its job is a record.
LEMMA StoreTyped ==
    ASSUME IInv, NEW w \in Workers, NEW s \in Status, wpc[w] # "idle"
    PROVE  [key EXCEPT ![wid[w]] = [wrec[w] EXCEPT !.status = s]] \in [Jobs -> Record]
<1>1. [wrec[w] EXCEPT !.status = s] \in Record
  BY RecordStatus DEF IInv, TypeOK
<1>2. QED
  BY <1>1 DEF IInv, TypeOK

\* complete ends the job, or raises and lets fail count it.
LEMMA CompleteKeeps ==
    ASSUME IInv, NEW w \in Workers, Complete(w) \/ CompleteRaises(w) PROVE IInv'
<1> DEFINE j == wid[w]
           stored == [key EXCEPT ![j] = [wrec[w] EXCEPT !.status = "completed"]]
<1>1. wpc[w] = "complete" /\ wpc[w] # "idle" /\ j \in Jobs
  BY HeldJob DEF Complete, CompleteRaises
<1>2. stored \in [Jobs -> Record] /\ \A x \in Jobs : x # j => stored[x] = key[x]
  BY <1>1, StoreTyped DEF IInv, TypeOK, Status
<1>3. key' \in {key, stored} /\ UNCHANGED <<queue, delayed, dlq, epc, runs, early, crashes>>
  BY DEF Complete, CompleteRaises
<1> HIDE DEF stored
<1>4. key' \in [Jobs -> Record] /\ \A x \in Jobs : x # j => key'[x] = key[x]
  BY <1>2, <1>3 DEF IInv, TypeOK
<1>5. CASE Complete(w)
  <2>1. Release(w)
    BY <1>5 DEF Complete
  <2>2. QED
    BY <1>1, <1>3, <1>4, <2>1, ReleaseKeeps DEF IInv, TypeOK
<1>6. CASE CompleteRaises(w)
  <2>1. wpc' = [wpc EXCEPT ![w] = "fail"] /\ UNCHANGED <<wid, wrec>>
    BY <1>6 DEF CompleteRaises, Goto
  <2>2. wrec[w] \in Record /\ wrec' = [wrec EXCEPT ![w] = wrec[w]] /\ runs[j] <= MaxRetries + 1
    BY <1>1, <2>1 DEF IInv, TypeOK, CountInv
  <2>3. runs[j] = wrec[w].retries + 1
    BY <1>1 DEF IInv, WorkInv, WorkerCounts
  <2>4. WorkerCounts(w)'
    BY <1>1, <1>3, <2>1, <2>3 DEF WorkerCounts, IInv, TypeOK
  <2>5. QED
    BY <1>1, <1>3, <1>4, <2>1, <2>2, <2>4, ProceedKeeps DEF IInv, TypeOK
<1>7. QED
  BY <1>5, <1>6

\* fail counts the execution and decides whether an attempt is left.
LEMMA FailKeeps == ASSUME IInv, NEW w \in Workers, Fail(w) PROVE IInv'
<1> DEFINE j == wid[w]
           n == wrec[w].retries + 1
<1>1. wpc[w] = "fail" /\ wpc[w] # "idle" /\ j \in Jobs
  BY HeldJob DEF Fail
<1>2. UNCHANGED <<key, queue, delayed, dlq, epc, wid, runs, early, crashes>>
  BY DEF Fail, redisVars
<1>3. n = runs[j] /\ n \in Nat /\ n <= MaxRetries + 1
  BY <1>1 DEF IInv, WorkInv, WorkerCounts, CountInv, TypeOK
<1>4. PICK p \in {"requeue", "bury"}, st \in {"retry", "dead"} :
         /\ wpc' = [wpc EXCEPT ![w] = p]
         /\ wrec' = [wrec EXCEPT ![w] = [status |-> st, retries |-> n]]
         /\ p = "requeue" => n <= MaxRetries
         /\ p = "bury" => ~(n <= MaxRetries)
  BY DEF Fail, Goto
<1> DEFINE r == [status |-> st, retries |-> n]
<1>5. r \in Record /\ r.retries = n
  BY <1>3 DEF Record, Status
<1>6. wrec' = [wrec EXCEPT ![w] = r] /\ wrec'[w].retries = n /\ wpc'[w] = p
  BY <1>4, <1>5 DEF IInv, TypeOK
<1> HIDE DEF n, r
<1>7. WorkerCounts(w)'
  BY <1>1, <1>2, <1>3, <1>4, <1>6 DEF WorkerCounts, IInv, TypeOK
<1>8. QED
  BY <1>1, <1>2, <1>3, <1>4, <1>5, <1>6, <1>7, ProceedKeeps DEF IInv, TypeOK

\* requeue stores the record with the new count ...
LEMMA RequeueSetKeeps == ASSUME IInv, NEW w \in Workers, RequeueSet(w) PROVE IInv'
<1> DEFINE j == wid[w]
<1>1. wpc[w] = "requeue" /\ wpc[w] # "idle" /\ j \in Jobs
  BY HeldJob DEF RequeueSet
<1>2. /\ key' = [key EXCEPT ![j] = wrec[w]] /\ early' = early \cup {j}
      /\ wpc' = [wpc EXCEPT ![w] = "push"]
      /\ UNCHANGED <<queue, delayed, dlq, epc, wid, wrec, runs, crashes>>
  BY DEF RequeueSet, Goto
<1>3. wrec[w] \in Record /\ wrec' = [wrec EXCEPT ![w] = wrec[w]]
  BY <1>2 DEF IInv, TypeOK
<1>4. wrec[w].retries = runs[j] /\ runs[j] <= MaxRetries /\ runs[j] <= MaxRetries + 1
  BY <1>1 DEF IInv, WorkInv, WorkerCounts, CountInv
<1>5. WorkerCounts(w)'
  BY <1>1, <1>2, <1>4 DEF WorkerCounts, KeyCounts, IInv, TypeOK
<1>6. QED
  BY <1>1, <1>2, <1>3, <1>4, <1>5, ProceedKeeps DEF IInv, TypeOK

\* ... and then puts the id back at the end of the queue.
LEMMA RequeuePushKeeps == ASSUME IInv, NEW w \in Workers, RequeuePush(w) PROVE IInv'
<1> USE DEF IInv
<1> DEFINE j == wid[w]
<1>1. wpc[w] = "push" /\ wpc[w] # "idle"
  BY DEF RequeuePush
<1>2. /\ j \in Jobs /\ j # NoJob /\ ~Contains(queue, j) /\ ~Contains(dlq, j)
      /\ epc[j] = "queued" /\ \A v \in Workers : wid[v] = j => v = w
  BY <1>1, HeldJob
<1>3. /\ wpc' = [wpc EXCEPT ![w] = "idle"]
      /\ wid' = [wid EXCEPT ![w] = NoJob]
      /\ wrec' = [wrec EXCEPT ![w] = NoKey]
      /\ queue' = Append(queue, j)
      /\ UNCHANGED <<key, delayed, dlq, epc, runs, early, crashes>>
  BY DEF RequeuePush, Release, Goto
<1>4. /\ queue' \in Seq(Jobs) /\ IsInjective(queue')
      /\ \A x : Contains(queue', x) <=> Contains(queue, x) \/ x = j
  BY <1>2, <1>3, AppendFacts DEF TypeOK, OwnInv
<1>5. KeyCounts(j) /\ runs[j] <= MaxRetries
  BY <1>1 DEF WorkInv, WorkerCounts
<1>6. \A x : KeyCounts(x)' <=> KeyCounts(x)
  BY <1>3 DEF KeyCounts
<1>7. \A v \in Workers : wid'[v] # j /\ wid'[v] = IF v = w THEN NoJob ELSE wid[v]
  BY <1>2, <1>3 DEF TypeOK
<1>8. NoKey \in Record
  BY DEF NoKey, Record
<1> HIDE DEF j
<1>9. TypeOK'
  BY <1>3, <1>4, <1>8 DEF TypeOK
<1>10. OwnInv'
  BY <1>2, <1>3, <1>4, <1>7 DEF OwnInv
<1>11. CountInv'
  BY <1>3, <1>4, <1>5, <1>6 DEF CountInv
<1>12. EnqInv'
  BY <1>2, <1>3, <1>4, <1>6, <1>7 DEF EnqInv
<1>13. WorkerCounts(w)'
  BY <1>3 DEF WorkerCounts, TypeOK
<1>14. \A v \in Workers : v # w => WorkerCounts(v)'
  BY <1>3, OtherWorkers DEF TypeOK
<1>15. QED
  BY <1>9, <1>10, <1>11, <1>12, <1>13, <1>14 DEF WorkInv

\* A job whose attempts are used up enters the dead letter queue.
LEMMA BuryKeeps == ASSUME IInv, NEW w \in Workers, Bury(w) PROVE IInv'
<1> USE DEF IInv
<1> DEFINE j == wid[w]
<1>1. wpc[w] = "bury" /\ wpc[w] # "idle"
  BY DEF Bury
<1>2. /\ j \in Jobs /\ j # NoJob /\ ~Contains(queue, j) /\ ~Contains(dlq, j)
      /\ epc[j] = "queued" /\ \A v \in Workers : wid[v] = j => v = w
  BY <1>1, HeldJob
<1>3. /\ wpc' = [wpc EXCEPT ![w] = "idle"]
      /\ wid' = [wid EXCEPT ![w] = NoJob]
      /\ wrec' = [wrec EXCEPT ![w] = NoKey]
      /\ dlq' = Append(dlq, j)
      /\ UNCHANGED <<key, queue, delayed, epc, runs, early, crashes>>
  BY DEF Bury, Release, Goto
<1>4. /\ dlq' \in Seq(Jobs) /\ IsInjective(dlq')
      /\ \A x : Contains(dlq', x) <=> Contains(dlq, x) \/ x = j
  BY <1>2, <1>3, AppendFacts DEF TypeOK, OwnInv
<1>5. runs[j] = MaxRetries + 1
  BY <1>1 DEF WorkInv, WorkerCounts
<1>6. \A x : KeyCounts(x)' <=> KeyCounts(x)
  BY <1>3 DEF KeyCounts
<1>7. \A v \in Workers : wid'[v] # j /\ wid'[v] = IF v = w THEN NoJob ELSE wid[v]
  BY <1>2, <1>3 DEF TypeOK
<1>8. NoKey \in Record
  BY DEF NoKey, Record
<1> HIDE DEF j
<1>9. TypeOK'
  BY <1>3, <1>4, <1>8 DEF TypeOK
<1>10. OwnInv'
  BY <1>2, <1>3, <1>4, <1>7 DEF OwnInv
<1>11. CountInv'
  BY <1>3, <1>4, <1>5, <1>6 DEF CountInv
<1>12. EnqInv'
  BY <1>2, <1>3, <1>4, <1>6, <1>7 DEF EnqInv
<1>13. WorkerCounts(w)'
  BY <1>3 DEF WorkerCounts, TypeOK
<1>14. \A v \in Workers : v # w => WorkerCounts(v)'
  BY <1>3, OtherWorkers DEF TypeOK
<1>15. QED
  BY <1>9, <1>10, <1>11, <1>12, <1>13, <1>14 DEF WorkInv

\* A dead worker's job is lost, never duplicated.
LEMMA CrashKeeps == ASSUME IInv, NEW w \in Workers, Crash(w) PROVE IInv'
<1>1. /\ wpc[w] # "idle" /\ Release(w) /\ crashes' = crashes + 1
      /\ UNCHANGED <<key, queue, delayed, dlq, epc, runs, early>>
  BY DEF Crash, redisVars
<1>2. QED
  BY <1>1, ReleaseKeeps DEF IInv, TypeOK

-----------------------------------------------------------------------------
LEMMA InitIInv == Init => IInv
<1> SUFFICES ASSUME Init PROVE IInv
  OBVIOUS
<1>1. TypeOK
  BY DEF Init, TypeOK, NoKey, Record
<1>2. \A x : ~Contains(<<>>, x)
  BY DEF Contains
<1>3. IsInjective(<<>>)
  BY DEF IsInjective
<1>4. OwnInv
  BY <1>2, <1>3 DEF Init, OwnInv
<1>5. CountInv /\ EnqInv
  BY <1>2 DEF Init, CountInv, EnqInv, KeyCounts
<1>6. WorkInv
  BY DEF Init, WorkInv, WorkerCounts
<1>7. QED
  BY <1>1, <1>4, <1>5, <1>6 DEF IInv

LEMMA NextIInv == IInv /\ [Next]_vars => IInv'
<1> SUFFICES ASSUME IInv, [Next]_vars PROVE IInv'
  OBVIOUS
<1>1. CASE UNCHANGED vars
  BY <1>1 DEF vars, IInv, TypeOK, OwnInv, CountInv, EnqInv, WorkInv, WorkerCounts, KeyCounts
<1>2. CASE Next
  BY <1>2, EnqueueSetKeeps, EnqueuePushKeeps, EnvironmentKeeps, PopKeeps, GetKeeps, MarkKeeps,
     RunKeeps, CompleteKeeps, FailKeeps, RequeueSetKeeps, RequeuePushKeeps, BuryKeeps,
     CrashKeeps DEF Next, EnqueueStep, WorkerStep
<1>3. QED
  BY <1>1, <1>2

\* IInv is inductive.
THEOREM InductiveInvariant == Spec => []IInv
  BY InitIInv, NextIInv, PTL DEF Spec

\* A job is once in the queue, or once in the dead letter queue, or with one worker.
THEOREM EachJobHasOneOwner == Spec => []OneOwner
<1>1. IInv => OneOwner
  <2> SUFFICES ASSUME IInv PROVE OneOwner
    OBVIOUS
  <2>1. /\ \A i \in 1..Len(queue) : queue[i] \in Jobs /\ Contains(queue, queue[i])
        /\ \A i \in 1..Len(dlq) : dlq[i] \in Jobs /\ Contains(dlq, dlq[i])
    BY DEF IInv, TypeOK, Contains
  <2>2. DOMAIN queue = 1..Len(queue) /\ DOMAIN dlq = 1..Len(dlq)
    BY DEF IInv, TypeOK
  <2>3. QED
    BY <2>1, <2>2 DEF IInv, OwnInv, OneOwner, IsInjective
<1>2. QED
  BY <1>1, InductiveInvariant, PTL

\* The attempts of a job are bounded, none is forgotten between two workers, and only a
\* job without attempts left is dead.
THEOREM AttemptsAreCounted == Spec => []AttemptsSound
<1>1. IInv => AttemptsSound
  <2> SUFFICES ASSUME IInv PROVE AttemptsSound
    OBVIOUS
  <2>1. /\ \A i \in 1..Len(queue) : queue[i] \in Jobs /\ Contains(queue, queue[i])
        /\ \A i \in 1..Len(dlq) : dlq[i] \in Jobs /\ Contains(dlq, dlq[i])
    BY DEF IInv, TypeOK, Contains
  <2>2. QED
    BY <2>1 DEF IInv, CountInv, KeyCounts, AttemptsSound, AttemptsBounded, DlqMeansExhausted,
                CountIsCurrent
<1>2. QED
  BY <1>1, InductiveInvariant, PTL
=============================================================================
