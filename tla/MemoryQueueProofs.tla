------------------------- MODULE MemoryQueueProofs -------------------------
(***************************************************************************)
(* Proofs about MemoryQueue, for any jobs, any number of workers and any   *)
(* number of attempts.  A job that is live is followed from the slice into *)
(* one worker's hands and back (OwnInv), with the number of calls of its   *)
(* handler (CountInv).                                                     *)
(***************************************************************************)
EXTENDS MemoryQueue, SequenceTheorems, TLAPS

USE QueueAssumption

\* Appending to a list adds one element to it.
LEMMA AppendFacts ==
    ASSUME NEW S, NEW s \in Seq(S), NEW e \in S
    PROVE  /\ Append(s, e) \in Seq(S)
           /\ \A x : Contains(Append(s, e), x) <=> Contains(s, x) \/ x = e
           /\ IsInjective(s) /\ ~Contains(s, e) => IsInjective(Append(s, e))
<1>1. /\ Append(s, e) \in Seq(S)
      /\ Len(Append(s, e)) = Len(s) + 1
      /\ Append(s, e)[Len(s) + 1] = e
      /\ \A i \in 1..Len(s) : Append(s, e)[i] = s[i]
  OBVIOUS
<1>2. DOMAIN s = 1..Len(s) /\ DOMAIN Append(s, e) = 1..(Len(s) + 1) /\ Len(s) \in Nat
  BY <1>1
<1>3. \A x : Contains(Append(s, e), x) <=> Contains(s, x) \/ x = e
  BY <1>1, <1>2 DEF Contains
<1>4. IsInjective(s) /\ ~Contains(s, e) => IsInjective(Append(s, e))
  BY <1>1, <1>2 DEF Contains, IsInjective
<1>5. QED
  BY <1>1, <1>3, <1>4

\* RemoveAt closes the gap: what stood behind place i moves up by one.
LEMMA RemoveAtElements ==
    ASSUME NEW S, NEW s \in Seq(S), NEW i \in 1..Len(s)
    PROVE  /\ RemoveAt(s, i) \in Seq(S)
           /\ Len(RemoveAt(s, i)) = Len(s) - 1
           /\ \A k \in 1..(Len(s) - 1) :
                 RemoveAt(s, i)[k] = IF k < i THEN s[k] ELSE s[k + 1]
<1> DEFINE a == SubSeq(s, 1, i - 1)
           b == SubSeq(s, i + 1, Len(s))
<1>1. /\ Len(s) \in Nat /\ i \in Nat /\ i - 1 \in Int /\ i + 1 \in Int
      /\ \A k \in 1..Len(s) : s[k] \in S
  OBVIOUS
<1>2. /\ a \in Seq(S) /\ Len(a) = i - 1
      /\ \A k \in 1..(i - 1) : a[k] = s[k]
  <2>1. \A k \in 1..(i - 1) : s[k] \in S
    BY <1>1
  <2>2. /\ a \in Seq(S) /\ Len(a) = IF 1 <= i - 1 THEN (i - 1) - 1 + 1 ELSE 0
        /\ \A k \in 1..((i - 1) - 1 + 1) : a[k] = s[1 + k - 1]
    BY <1>1, <2>1, SubSeqProperties
  <2>3. QED
    BY <1>1, <2>2
<1>3. /\ b \in Seq(S) /\ Len(b) = Len(s) - i
      /\ \A k \in 1..(Len(s) - i) : b[k] = s[i + k]
  <2>1. \A k \in (i + 1)..Len(s) : s[k] \in S
    BY <1>1
  <2>2. /\ b \in Seq(S) /\ Len(b) = IF i + 1 <= Len(s) THEN Len(s) - (i + 1) + 1 ELSE 0
        /\ \A k \in 1..(Len(s) - (i + 1) + 1) : b[k] = s[(i + 1) + k - 1]
    BY <1>1, <2>1, SubSeqProperties
  <2>3. QED
    BY <1>1, <2>2
<1> HIDE DEF a, b
<1>4. /\ a \o b \in Seq(S)
      /\ Len(a \o b) = Len(a) + Len(b)
      /\ \A k \in 1..(Len(a) + Len(b)) :
            (a \o b)[k] = IF k <= Len(a) THEN a[k] ELSE b[k - Len(a)]
  BY <1>2, <1>3, ConcatProperties
<1>5. RemoveAt(s, i) = a \o b
  BY DEF RemoveAt, a, b
<1>6. Len(a \o b) = Len(s) - 1
  BY <1>1, <1>2, <1>3, <1>4
<1>7. ASSUME NEW k \in 1..(Len(s) - 1)
      PROVE  (a \o b)[k] = IF k < i THEN s[k] ELSE s[k + 1]
  <2>1. CASE k < i
    BY <1>1, <1>2, <1>3, <1>4, <2>1
  <2>2. CASE ~(k < i)
    <3>1. (a \o b)[k] = b[k - (i - 1)]
      BY <1>1, <1>2, <1>3, <1>4, <2>2
    <3>2. k - (i - 1) \in 1..(Len(s) - i) /\ i + (k - (i - 1)) = k + 1
      BY <1>1, <2>2
    <3>3. QED
      BY <1>3, <2>2, <3>1, <3>2
  <2>3. QED
    BY <2>1, <2>2
<1>8. QED
  BY <1>4, <1>5, <1>6, <1>7

\* From a list without repetitions RemoveAt takes one element and keeps all others.
LEMMA RemoveAtFacts ==
    ASSUME NEW S, NEW s \in Seq(S), NEW i \in 1..Len(s), IsInjective(s)
    PROVE  /\ RemoveAt(s, i) \in Seq(S) /\ IsInjective(RemoveAt(s, i))
           /\ s[i] \in S /\ Contains(s, s[i])
           /\ \A x : Contains(RemoveAt(s, i), x) <=> Contains(s, x) /\ x # s[i]
<1> DEFINE r == RemoveAt(s, i)
<1>1. /\ r \in Seq(S) /\ Len(r) = Len(s) - 1 /\ Len(s) \in Nat /\ i \in Nat
      /\ \A k \in 1..(Len(s) - 1) : r[k] = IF k < i THEN s[k] ELSE s[k + 1]
  BY RemoveAtElements
<1> HIDE DEF r
<1>2. DOMAIN s = 1..Len(s) /\ DOMAIN r = 1..(Len(s) - 1)
  BY <1>1
<1>3. \A k, l \in 1..Len(s) : s[k] = s[l] => k = l
  BY <1>2 DEF IsInjective
<1>4. \A k \in 1..(Len(s) - 1) : \E l \in 1..Len(s) :
         l = (IF k < i THEN k ELSE k + 1) /\ r[k] = s[l] /\ l # i
  BY <1>1
<1>5. \A l \in 1..Len(s) : l # i => \E k \in 1..(Len(s) - 1) : r[k] = s[l]
  <2>1. ASSUME NEW l \in 1..Len(s), l < i PROVE l \in 1..(Len(s) - 1) /\ r[l] = s[l]
    BY <1>1, <2>1
  <2>2. ASSUME NEW l \in 1..Len(s), l > i PROVE l - 1 \in 1..(Len(s) - 1) /\ r[l - 1] = s[l]
    <3>1. l - 1 \in 1..(Len(s) - 1) /\ ~(l - 1 < i) /\ (l - 1) + 1 = l
      BY <1>1, <2>2
    <3>2. QED
      BY <1>1, <3>1
  <2>3. QED
    BY <1>1, <2>1, <2>2
<1>6. IsInjective(r)
  <2>1. ASSUME NEW k \in 1..(Len(s) - 1), NEW l \in 1..(Len(s) - 1), r[k] = r[l] PROVE k = l
    <3>1. (IF k < i THEN k ELSE k + 1) = (IF l < i THEN l ELSE l + 1)
      BY <1>3, <1>4, <2>1
    <3>2. QED
      BY <1>1, <3>1
  <2>2. QED
    BY <1>2, <2>1 DEF IsInjective
<1>7. \A x : Contains(r, x) <=> Contains(s, x) /\ x # s[i]
  <2>1. ASSUME NEW x, NEW k \in 1..(Len(s) - 1), r[k] = x
        PROVE  \E l \in 1..Len(s) : s[l] = x /\ x # s[i]
    BY <1>3, <1>4, <2>1
  <2>2. ASSUME NEW x, NEW l \in 1..Len(s), s[l] = x, x # s[i]
        PROVE  \E k \in 1..(Len(s) - 1) : r[k] = x
    BY <1>5, <2>2
  <2>3. QED
    BY <1>1, <2>1, <2>2 DEF Contains
<1>8. s[i] \in S /\ Contains(s, s[i])
  BY DEF Contains
<1>9. QED
  BY <1>1, <1>6, <1>7, <1>8 DEF r

-----------------------------------------------------------------------------
(* Steps that move no job *)

\* The job a worker holds is live, with no other worker and not in the slice.
LEMMA HeldJob ==
    ASSUME IInv, NEW w \in Workers, wpc[w] \in {"lookup", "run"}
    PROVE  /\ wjob[w] \in Jobs /\ wjob[w] # NoJob
           /\ ~Contains(jobs, wjob[w]) /\ fate[wjob[w]] = "live"
           /\ \A v \in Workers : wjob[v] = wjob[w] => v = w
  BY DEF IInv, TypeOK, OwnInv, CountInv

\* Only clients, the clock and the workers' own positions between two jobs move.
LEMMA QuietKeeps ==
    ASSUME IInv, UNCHANGED <<jobs, attempts, runs, fate, wjob>>,
           handlers' \subseteq Jobs, early' \subseteq Jobs,
           stop' \in BOOLEAN, cancelled' \in BOOLEAN, cpc' \in {"open", "wait", "closed"},
           wpc' \in [Workers -> {"none", "loop", "dequeue", "lookup", "run", "gone"}],
           \A w \in Workers :
              \/ wpc'[w] = wpc[w]
              \/ wpc[w] \notin {"lookup", "run"} /\ wpc'[w] \notin {"lookup", "run"},
           CloseInv'
    PROVE  IInv'
<1> USE DEF IInv
<1>1. TypeOK'
  BY DEF TypeOK
<1>2. OwnInv'
  BY DEF OwnInv
<1>3. CountInv'
  BY DEF CountInv
<1>4. QED
  BY <1>1, <1>2, <1>3

LEMMA ClientsKeep ==
    ASSUME IInv,
           \/ \E j \in Jobs : RegisterHandler(j) \/ RunAtComes(j)
           \/ Process \/ Cancel \/ Close \/ CloseReturns
    PROVE  IInv'
<1>1. ASSUME NEW j \in Jobs, RegisterHandler(j) \/ RunAtComes(j) PROVE IInv'
  <2>1. UNCHANGED <<jobs, attempts, runs, fate, wjob, wpc, stop, cancelled, cpc>>
    BY <1>1 DEF RegisterHandler, RunAtComes, jobVars, lifeVars
  <2>2. handlers' \subseteq Jobs /\ early' \subseteq Jobs
    BY <1>1 DEF RegisterHandler, RunAtComes, jobVars, IInv, TypeOK
  <2>3. CloseInv'
    BY <2>1 DEF IInv, CloseInv, ClosedIsQuiet
  <2>4. QED
    BY <2>1, <2>2, <2>3, QuietKeeps DEF IInv, TypeOK
<1>2. CASE Process
  <2>1. /\ \A w \in Workers : wpc[w] = "none"
        /\ wpc' = [w \in Workers |-> "loop"]
        /\ UNCHANGED <<jobs, early, attempts, runs, fate, handlers, stop, cancelled, cpc, wjob>>
    BY <1>2 DEF Process, jobVars, lifeVars
  <2>2. CloseInv'
    BY <2>1 DEF IInv, CloseInv, ClosedIsQuiet
  <2>3. QED
    BY <2>1, <2>2, QuietKeeps DEF IInv, TypeOK
<1>3. CASE Cancel \/ Close
  <2>1. UNCHANGED <<jobs, early, attempts, runs, fate, handlers, wjob, wpc>>
    BY <1>3 DEF Cancel, Close, jobVars
  <2>2. stop' \in BOOLEAN /\ cancelled' \in BOOLEAN /\ cpc' \in {"open", "wait", "closed"}
    BY <1>3 DEF Cancel, Close, IInv, TypeOK
  <2>3. CloseInv'
    BY <1>3, <2>1 DEF Cancel, Close, IInv, CloseInv, ClosedIsQuiet
  <2>4. QED
    BY <2>1, <2>2, <2>3, QuietKeeps DEF IInv, TypeOK
<1>4. CASE CloseReturns
  <2>1. /\ cpc = "wait" /\ cpc' = "closed" /\ \A w \in Workers : wpc[w] \in {"none", "gone"}
        /\ UNCHANGED <<jobs, early, attempts, runs, fate, handlers, stop, cancelled, wpc, wjob>>
    BY <1>4 DEF CloseReturns, jobVars
  <2>2. CloseInv'
    BY <2>1 DEF IInv, CloseInv, ClosedIsQuiet
  <2>3. QED
    BY <2>1, <2>2, QuietKeeps DEF IInv, TypeOK
<1>5. QED
  BY <1>1, <1>2, <1>3, <1>4

\* A worker that finds the queue stopped, polls it or finds no job that is due.
LEMMA PollsKeep ==
    ASSUME IInv, NEW w \in Workers, WorkerStops(w) \/ WorkerPolls(w) \/ DequeueEmpty(w)
    PROVE  IInv'
<1>1. UNCHANGED <<jobs, early, attempts, runs, fate, handlers, stop, cancelled, cpc, wjob>>
  BY DEF WorkerStops, WorkerPolls, DequeueEmpty, jobVars, lifeVars
<1>2. PICK p \in {"gone", "dequeue", "loop"} :
         /\ wpc' = [wpc EXCEPT ![w] = p]
         /\ wpc[w] \in {"loop", "dequeue"}
         /\ p = "dequeue" => ~stop
  BY DEF WorkerStops, WorkerPolls, DequeueEmpty
<1>3. CloseInv'
  BY <1>1, <1>2 DEF IInv, CloseInv, ClosedIsQuiet, TypeOK
<1>4. QED
  BY <1>1, <1>2, <1>3, QuietKeeps DEF IInv, TypeOK

-----------------------------------------------------------------------------
(* Steps that move a job *)

\* A new job enters the slice with no attempt made.
LEMMA EnqueueKeeps == ASSUME IInv, NEW j \in Jobs, Enqueue(j) PROVE IInv'
<1> USE DEF IInv
<1>1. /\ fate[j] = "new" /\ fate' = [fate EXCEPT ![j] = "live"]
      /\ jobs' = Append(jobs, j) /\ early' \in {early, early \cup {j}}
      /\ UNCHANGED <<attempts, runs, handlers, stop, cancelled, cpc, wpc, wjob>>
  BY DEF Enqueue, lifeVars
<1>2. ~Contains(jobs, j) /\ (\A w \in Workers : wjob[w] # j) /\ runs[j] = attempts[j]
  BY <1>1 DEF OwnInv, CountInv
<1>3. /\ jobs' \in Seq(Jobs) /\ IsInjective(jobs')
      /\ \A x : Contains(jobs', x) <=> Contains(jobs, x) \/ x = j
  BY <1>1, <1>2, AppendFacts DEF TypeOK, OwnInv
<1>4. TypeOK'
  BY <1>1, <1>3 DEF TypeOK
<1>5. \A x \in Jobs : fate'[x] = IF x = j THEN "live" ELSE fate[x]
  BY <1>1 DEF TypeOK
<1>6. OwnInv'
  BY <1>1, <1>2, <1>3, <1>5 DEF OwnInv
<1>7. CountInv'
  BY <1>1, <1>2, <1>3, <1>5 DEF CountInv
<1>8. CloseInv'
  BY <1>1 DEF CloseInv, ClosedIsQuiet
<1>9. QED
  BY <1>4, <1>6, <1>7, <1>8

\* The worker takes the job out of the slice.
LEMMA DequeueKeeps == ASSUME IInv, NEW w \in Workers, Dequeue(w) PROVE IInv'
<1> USE DEF IInv
<1>1. PICK i \in Due : wjob' = [wjob EXCEPT ![w] = jobs[i]] /\ jobs' = RemoveAt(jobs, i)
  BY DEF Dequeue
<1> DEFINE j == jobs[i]
<1>2. /\ wpc[w] = "dequeue" /\ wpc' = [wpc EXCEPT ![w] = "lookup"]
      /\ UNCHANGED <<early, attempts, runs, fate, handlers, stop, cancelled, cpc>>
  BY DEF Dequeue, lifeVars
<1>3. /\ jobs' \in Seq(Jobs) /\ IsInjective(jobs')
      /\ j \in Jobs /\ Contains(jobs, j)
      /\ \A x : Contains(jobs', x) <=> Contains(jobs, x) /\ x # j
  <2>1. i \in 1..Len(jobs) /\ jobs \in Seq(Jobs) /\ IsInjective(jobs)
    BY DEF Due, TypeOK, OwnInv
  <2>2. QED
    BY <1>1, <2>1, RemoveAtFacts
<1>4. wjob' = [wjob EXCEPT ![w] = j]
  BY <1>1
<1> HIDE DEF j
<1>5. /\ fate[j] = "live" /\ runs[j] = attempts[j] /\ (\A v \in Workers : wjob[v] # j)
      /\ wjob[w] = NoJob
  BY <1>2, <1>3 DEF OwnInv, CountInv, TypeOK
<1>6. \A v \in Workers : wjob'[v] = IF v = w THEN j ELSE wjob[v]
  BY <1>4 DEF TypeOK
<1>7. TypeOK'
  BY <1>2, <1>3, <1>4 DEF TypeOK
<1>8. OwnInv'
  <2>1. \A x \in Jobs : fate'[x] = "live" <=> Contains(jobs', x) \/ \E v \in Workers : wjob'[v] = x
    <3>1. \A x \in Jobs : x # j =>
             ((\E v \in Workers : wjob'[v] = x) <=> (\E v \in Workers : wjob[v] = x))
      BY <1>5, <1>6
    <3>2. QED
      BY <1>2, <1>3, <1>5, <1>6, <3>1 DEF OwnInv
  <2>2. QED
    BY <1>3, <1>5, <1>6, <2>1 DEF OwnInv
<1>9. CountInv'
  <2>1. \A v \in Workers : v # w => wpc'[v] = wpc[v]
    BY <1>2 DEF TypeOK
  <2>2. wpc'[w] = "lookup" /\ j # NoJob
    BY <1>2, <1>3 DEF TypeOK
  <2>3. QED
    BY <1>2, <1>3, <1>5, <1>6, <2>1, <2>2 DEF CountInv
<1>10. CloseInv'
  BY <1>2 DEF CloseInv, ClosedIsQuiet, TypeOK
<1>11. QED
  BY <1>7, <1>8, <1>9, <1>10

\* The handler is called.
LEMMA HandleKeeps == ASSUME IInv, NEW w \in Workers, Handle(w) PROVE IInv'
<1> USE DEF IInv
<1> DEFINE j == wjob[w]
<1>1. /\ wpc[w] = "lookup" /\ wpc' = [wpc EXCEPT ![w] = "run"]
      /\ runs' = [runs EXCEPT ![j] = runs[j] + 1]
      /\ UNCHANGED <<jobs, early, attempts, fate, handlers, stop, cancelled, cpc, wjob>>
  BY DEF Handle, lifeVars
<1>2. /\ j \in Jobs /\ ~Contains(jobs, j) /\ fate[j] = "live"
      /\ \A v \in Workers : wjob[v] = j => v = w
  BY <1>1, HeldJob
<1>3. runs[j] = attempts[j] /\ attempts[j] \in 0..MaxAttempts
  BY <1>1, <1>2 DEF CountInv, TypeOK
<1>4. TypeOK'
  BY <1>1, <1>2, <1>3 DEF TypeOK
<1>5. OwnInv'
  BY <1>1 DEF OwnInv
<1>6. CountInv'
  <2>1. runs'[j] <= MaxAttempts + 1 /\ \A x \in Jobs : x # j => runs'[x] = runs[x]
    BY <1>1, <1>2, <1>3 DEF TypeOK
  <2>2. \A v \in Workers : wpc'[v] = IF v = w THEN "run" ELSE wpc[v]
    BY <1>1 DEF TypeOK
  <2>3. \A v \in Workers : v # w /\ wpc[v] \in {"lookup", "run"} => wjob[v] \in Jobs /\ wjob[v] # j
    BY <1>2, HeldJob
  <2>4. \A x \in Jobs : runs'[x] <= MaxAttempts + 1
    BY <2>1 DEF CountInv
  <2>5. \A x \in Jobs : fate'[x] = "new" \/ Contains(jobs', x) => runs'[x] = attempts'[x]
    BY <1>1, <1>2, <2>1 DEF CountInv
  <2>6. runs'[j] = attempts[j] + 1
    BY <1>1, <1>2, <1>3 DEF TypeOK
  <2>7. \A v \in Workers :
           /\ wpc'[v] = "lookup" => runs'[wjob'[v]] = attempts'[wjob'[v]]
           /\ wpc'[v] = "run" => runs'[wjob'[v]] = attempts'[wjob'[v]] + 1
    BY <1>1, <2>1, <2>2, <2>3, <2>6 DEF CountInv
  <2>8. \A v \in Workers : wjob'[v] # NoJob <=> wpc'[v] \in {"lookup", "run"}
    BY <1>1, <2>2 DEF CountInv
  <2>9. QED
    BY <2>4, <2>5, <2>7, <2>8 DEF CountInv
<1>7. CloseInv'
  BY <1>1 DEF CloseInv, ClosedIsQuiet, TypeOK
<1>8. QED
  BY <1>4, <1>5, <1>6, <1>7

\* The job ends: nobody handles it, its handler succeeds or its attempts are used up.
LEMMA EndsKeep ==
    ASSUME IInv, NEW w \in Workers,
           Unhandled(w) \/ HandlerSucceeds(w) \/ HandlerFailsForGood(w)
    PROVE  IInv'
<1> USE DEF IInv
<1> DEFINE j == wjob[w]
<1>1. PICK end \in Ended : Continue(w, end)
  BY DEF Unhandled, HandlerSucceeds, HandlerFailsForGood, Ended
<1>2. /\ wpc[w] \in {"lookup", "run"} /\ wpc' = [wpc EXCEPT ![w] = "loop"]
      /\ wjob' = [wjob EXCEPT ![w] = NoJob] /\ fate' = [fate EXCEPT ![j] = end]
      /\ UNCHANGED <<jobs, early, attempts, runs, handlers, stop, cancelled, cpc>>
  BY <1>1 DEF Unhandled, HandlerSucceeds, HandlerFailsForGood, Continue, lifeVars
<1>3. /\ j \in Jobs /\ ~Contains(jobs, j) /\ \A v \in Workers : wjob[v] = j => v = w
  BY <1>2, HeldJob
<1>4. end # "live" /\ end # "new"
  BY DEF Ended
<1> HIDE DEF j
<1>5. TypeOK'
  BY <1>2, <1>3 DEF TypeOK
<1>6. /\ \A v \in Workers : wjob'[v] = IF v = w THEN NoJob ELSE wjob[v]
      /\ \A v \in Workers : wpc'[v] = IF v = w THEN "loop" ELSE wpc[v]
      /\ \A x \in Jobs : fate'[x] = IF x = j THEN end ELSE fate[x]
      /\ wjob[w] = j
  BY <1>2, <1>3 DEF TypeOK, j
<1>7. OwnInv'
  <2>1. \A x \in Jobs : x # j =>
           ((\E v \in Workers : wjob'[v] = x) <=> (\E v \in Workers : wjob[v] = x))
    BY <1>6
  <2>2. \A v \in Workers : wjob'[v] # j
    BY <1>3, <1>6
  <2>3. \A x \in Jobs : fate'[x] = "live" <=> Contains(jobs', x) \/ \E v \in Workers : wjob'[v] = x
    BY <1>2, <1>3, <1>4, <1>6, <2>1, <2>2 DEF OwnInv
  <2>4. QED
    BY <1>2, <1>6, <2>3 DEF OwnInv
<1>8. CountInv'
  BY <1>2, <1>3, <1>4, <1>6 DEF CountInv
<1>9. CloseInv'
  BY <1>2 DEF CloseInv, ClosedIsQuiet, TypeOK
<1>10. QED
  BY <1>5, <1>7, <1>8, <1>9

\* A failed attempt is counted and the job put back at the end of the slice.
LEMMA RetryKeeps == ASSUME IInv, NEW w \in Workers, HandlerFailsRetry(w) PROVE IInv'
<1> USE DEF IInv
<1> DEFINE j == wjob[w]
<1>1. /\ wpc[w] = "run" /\ attempts[j] < MaxAttempts
      /\ attempts' = [attempts EXCEPT ![j] = attempts[j] + 1]
      /\ jobs' = Append(jobs, j)
      /\ wpc' = [wpc EXCEPT ![w] = "loop"] /\ wjob' = [wjob EXCEPT ![w] = NoJob]
      /\ fate' = [fate EXCEPT ![j] = "live"]
      /\ UNCHANGED <<early, runs, handlers, stop, cancelled, cpc>>
  BY DEF HandlerFailsRetry, Continue, lifeVars
<1>2. /\ j \in Jobs /\ ~Contains(jobs, j) /\ fate[j] = "live"
      /\ \A v \in Workers : wjob[v] = j => v = w
  BY <1>1, HeldJob
<1>3. /\ jobs' \in Seq(Jobs) /\ IsInjective(jobs')
      /\ \A x : Contains(jobs', x) <=> Contains(jobs, x) \/ x = j
  BY <1>1, <1>2, AppendFacts DEF TypeOK, OwnInv
<1>4. attempts[j] \in 0..MaxAttempts /\ attempts[j] + 1 \in 0..MaxAttempts
  BY <1>1, <1>2 DEF TypeOK
<1>5. runs[j] = attempts[j] + 1
  BY <1>1 DEF CountInv
<1> HIDE DEF j
<1>6. TypeOK'
  BY <1>1, <1>2, <1>3, <1>4 DEF TypeOK
<1>7. /\ \A v \in Workers : wjob'[v] = IF v = w THEN NoJob ELSE wjob[v]
      /\ \A v \in Workers : wpc'[v] = IF v = w THEN "loop" ELSE wpc[v]
      /\ fate' = fate
      /\ \A x \in Jobs : attempts'[x] = IF x = j THEN attempts[j] + 1 ELSE attempts[x]
      /\ wjob[w] = j
  BY <1>1, <1>2 DEF TypeOK, j
<1>8. ASSUME NEW v \in Workers PROVE wjob'[v] # j
  <2>1. j # NoJob
    BY <1>2, QueueAssumption
  <2>2. CASE v = w
    <3>1. wjob'[v] = NoJob
      BY <1>7, <2>2
    <3>2. QED
      BY <2>1, <3>1
  <2>3. CASE v # w
    <3>1. wjob'[v] = wjob[v]
      BY <1>7, <2>3
    <3>2. wjob[v] # j
      BY <1>2, <2>3
    <3>3. QED
      BY <3>1, <3>2
  <2>4. QED
    BY <2>2, <2>3
<1>9. OwnInv'
  <2>1. \A x \in Jobs : x # j =>
           ((\E v \in Workers : wjob'[v] = x) <=> (\E v \in Workers : wjob[v] = x))
    BY <1>7
  <2>2. \A x \in Jobs : fate'[x] = "live" <=> Contains(jobs', x) \/ \E v \in Workers : wjob'[v] = x
    BY <1>2, <1>3, <1>7, <1>8, <2>1 DEF OwnInv
  <2>3. QED
    BY <1>3, <1>7, <1>8, <2>2 DEF OwnInv
<1>10. CountInv'
  <2>1. \A v \in Workers : wpc'[v] \in {"lookup", "run"} => wjob'[v] \in Jobs /\ wjob'[v] # j
    BY <1>7, <1>8, HeldJob
  <2>2. \A x \in Jobs : x # j => attempts'[x] = attempts[x]
    BY <1>7
  <2>3. QED
    BY <1>1, <1>2, <1>3, <1>5, <1>7, <2>1, <2>2 DEF CountInv
<1>11. CloseInv'
  BY <1>1 DEF CloseInv, ClosedIsQuiet, TypeOK
<1>12. QED
  BY <1>6, <1>9, <1>10, <1>11

-----------------------------------------------------------------------------
LEMMA InitIInv == Init => IInv
<1> SUFFICES ASSUME Init PROVE IInv
  OBVIOUS
<1>1. TypeOK
  <2>1. jobs \in Seq(Jobs) /\ attempts \in [Jobs -> 0..MaxAttempts] /\ runs \in [Jobs -> Nat]
    BY DEF Init
  <2>2. fate \in [Jobs -> {"new", "live"} \cup Ended]
    BY DEF Init
  <2>3. QED
    BY <2>1, <2>2 DEF Init, TypeOK
<1>2. IsInjective(<<>>) /\ \A x : ~Contains(<<>>, x)
  BY DEF IsInjective, Contains
<1>3. OwnInv /\ CountInv /\ CloseInv
  BY <1>2 DEF Init, OwnInv, CountInv, CloseInv, ClosedIsQuiet
<1>4. QED
  BY <1>1, <1>3 DEF IInv

LEMMA NextIInv == IInv /\ [Next]_vars => IInv'
<1> SUFFICES ASSUME IInv, [Next]_vars PROVE IInv'
  OBVIOUS
<1>1. CASE UNCHANGED vars
  BY <1>1 DEF vars, IInv, TypeOK, OwnInv, CountInv, CloseInv, ClosedIsQuiet
<1>2. CASE Next
  BY <1>2, ClientsKeep, PollsKeep, EnqueueKeeps, DequeueKeeps, HandleKeeps, EndsKeep, RetryKeeps
     DEF Next, WorkerStep
<1>3. QED
  BY <1>1, <1>2

\* IInv is inductive.
THEOREM InductiveInvariant == Spec => []IInv
  BY InitIInv, NextIInv, PTL DEF Spec

\* A job is never lost, never duplicated and never run more often than it may, and a
\* closed queue runs nothing.
THEOREM QueueIsSound == Spec => []QueueSound
<1>1. IInv => QueueSound
  <2> SUFFICES ASSUME IInv PROVE QueueSound
    OBVIOUS
  <2>1. \A i \in 1..Len(jobs) : jobs[i] \in Jobs /\ Contains(jobs, jobs[i])
    BY DEF IInv, TypeOK, Contains
  <2>2. DOMAIN jobs = 1..Len(jobs)
    BY DEF IInv, TypeOK
  <2>3. Conserved
    BY <2>1, <2>2 DEF IInv, OwnInv, Conserved, IsInjective, Contains
  <2>4. QED
    BY <2>3 DEF IInv, CountInv, CloseInv, ExecBounded, QueueSound
<1>2. QED
  BY <1>1, InductiveInvariant, PTL
=============================================================================
