---------------------------- MODULE GoJobsProofs ----------------------------
(***************************************************************************)
(* Proofs about GoJobs, for any number of jobs, polls and queues and any   *)
(* channel capacity.  A job is traced from Enqueue through one channel to  *)
(* one worker: ChanInv says a channel holds it once and unexecuted,        *)
(* WorkInv that one worker holds it and how far its execution is, EnqInv   *)
(* that before its send it is nowhere.  Locks and the default queue do not *)
(* occur in them: what the double reads break does not reach a job.        *)
(***************************************************************************)
EXTENDS GoJobs, TLAPS

USE JobsAssumption

\* A lock keeps its type.
LEMMA LockTypes ==
    ASSUME mu \in [Queues -> Int], NEW q \in Queues, Lock(q) \/ RLock(q)
    PROVE  mu' \in [Queues -> Int]
  BY DEF Lock, RLock

LEMMA UnlockTypes ==
    ASSUME mu \in [Queues -> Int], dead \in BOOLEAN, NEW q \in Queues, Unlock(q) \/ RUnlock(q)
    PROVE  mu' \in [Queues -> Int] /\ dead' \in BOOLEAN
<1>1. mu' \in [Queues -> Int]
  BY DEF Unlock, RUnlock
<1>2. dead' \in BOOLEAN
  BY Zenon DEF Unlock, RUnlock
<1>3. QED
  BY <1>1, <1>2

\* Steps that move no job and no worker: the locks, the polls, Shutdown.
LEMMA FrameKeeps ==
    ASSUME IInv, UNCHANGED <<in, workerVars, enqueueVars, status, runs>>,
           UNCHANGED <<made, mpc, dq>>
    PROVE  ChanInv' /\ WorkInv' /\ EnqInv' /\ RunAtMostOnce'
<1>1. ChanInv' /\ EnqInv' /\ RunAtMostOnce'
  BY DEF IInv, ChanInv, EnqInv, RunAtMostOnce, enqueueVars
<1>2. WorkInv'
  BY DEF IInv, WorkInv, WorkPhase, workerVars, enqueueVars
<1>3. QED
  BY <1>1, <1>2

LEMMA PollKeeps == ASSUME IInv, NEW g \in Polls, GetStep(g) PROVE IInv'
<1> USE DEF IInv
<1>1. UNCHANGED <<managerVars, table, in, workerVars, enqueueVars, status, runs, overtaken>>
  BY DEF GetStep, GetCheck, GetRLock, GetDefer, GetReturn
<1>2. ChanInv' /\ WorkInv' /\ EnqInv' /\ RunAtMostOnce'
  BY <1>1, FrameKeeps DEF managerVars
<1>3. gpc' \in [Polls -> {"new", "rlocking", "defer", "read", "done"}]
  <2>1. \E p \in {"new", "rlocking", "defer", "read", "done"} : gpc' = [gpc EXCEPT ![g] = p]
    BY DEF GetStep, GetCheck, GetRLock, GetDefer, GetReturn
  <2>2. QED
    BY <2>1 DEF TypeOK
<1>4. gq' \in [Polls -> 0..MaxQueues]
  BY DEF TypeOK, GetStep, GetCheck, GetRLock, GetDefer, GetReturn
<1>5. mu' \in [Queues -> Int] /\ dead' \in BOOLEAN
  <2>1. CASE GetCheck(g) \/ GetDefer(g)
    BY <2>1 DEF GetCheck, GetDefer, TypeOK
  <2>2. CASE GetRLock(g)
    BY <2>2, LockTypes DEF GetRLock, TypeOK, PollInv
  <2>3. CASE GetReturn(g)
    BY <2>3, UnlockTypes DEF GetReturn, TypeOK, PollInv
  <2>4. QED
    BY <2>1, <2>2, <2>3 DEF GetStep
<1>6. TypeOK'
  BY <1>1, <1>3, <1>4, <1>5 DEF TypeOK, managerVars, workerVars, enqueueVars
<1>7. PollInv'
  <2>1. dq # 0 => dq \in Queues
    BY DEF TypeOK, Queues
  <2>2. gpc \in [Polls -> {"new", "rlocking", "defer", "read", "done"}] /\ gq \in [Polls -> 0..MaxQueues]
    BY DEF TypeOK
  <2>3. CASE GetCheck(g)
    BY <2>1, <2>2, <2>3 DEF GetCheck, PollInv
  <2>4. CASE GetRLock(g)
    BY <2>1, <2>2, <2>4 DEF GetRLock, PollInv
  <2>5. CASE GetDefer(g)
    BY <2>1, <2>2, <2>5 DEF GetDefer, PollInv
  <2>6. CASE GetReturn(g)
    BY <2>1, <2>2, <2>6 DEF GetReturn, PollInv
  <2>7. QED
    BY <2>3, <2>4, <2>5, <2>6 DEF GetStep
<1>8. QED
  BY <1>2, <1>6, <1>7

\* Init of a new queue, the start of its worker, and the two halves of Shutdown.
LEMMA ManagerKeeps == ASSUME IInv, ManagerStep PROVE IInv'
<1> USE DEF IInv
<1>1. UNCHANGED <<table, mu, in, wjob, enqueueVars, getVars, status, runs, dead>>
  BY DEF ManagerStep, QueueInit, StartLoop, Shutdown, ShutdownDrops, workerVars
<1>2. ChanInv' /\ EnqInv' /\ PollInv' /\ RunAtMostOnce'
  BY <1>1 DEF ChanInv, EnqInv, PollInv, RunAtMostOnce, enqueueVars, getVars
<1>3. CASE QueueInit
  <2>1. made' = made + 1 /\ dq' = made + 1 /\ mpc' = "loop" /\ made + 1 \in Queues
    BY <1>3 DEF QueueInit, TypeOK, Queues
  <2>2. UNCHANGED <<quit, wpc, overtaken>>
    BY <1>3 DEF QueueInit, workerVars
  <2>3. TypeOK'
    BY <1>1, <2>1, <2>2 DEF TypeOK, Queues, enqueueVars, getVars
  <2>4. WorkInv'
    BY <1>1, <2>1, <2>2 DEF WorkInv, WorkPhase, TypeOK, Queues, enqueueVars
  <2>5. QED
    BY <1>2, <2>3, <2>4
<1>4. CASE StartLoop
  <2>1. dq \in Queues /\ wpc[dq] = "none" /\ mpc' = "idle" /\ wpc' = [wpc EXCEPT ![dq] = "select"]
    BY <1>4 DEF StartLoop, WorkInv
  <2>2. UNCHANGED <<dq, made, quit, overtaken>>
    BY <1>4 DEF StartLoop
  <2>3. TypeOK'
    BY <1>1, <2>1, <2>2 DEF TypeOK, enqueueVars, getVars
  <2>4. \A q \in Queues : q > made => wpc'[q] = "none"
    BY <2>1 DEF WorkInv, TypeOK, Queues
  <2>5. \A q \in Queues : wpc'[q] \in {"none", "select", "gone"} <=> wjob[q] = NoJob
    BY <2>1 DEF WorkInv, TypeOK
  <2>6. \A q \in Queues : wjob[q] # NoJob => WorkPhase(q)'
    <3>1. SUFFICES ASSUME NEW q \in Queues, wjob[q] # NoJob PROVE WorkPhase(q)'
      OBVIOUS
    <3>2. WorkPhase(q) /\ wpc'[q] = wpc[q]
      BY <2>1, <3>1 DEF WorkInv, TypeOK
    <3>3. QED
      BY <1>1, <3>2 DEF WorkPhase
  <2>7. WorkInv'
    BY <1>1, <2>1, <2>2, <2>4, <2>5, <2>6 DEF WorkInv, enqueueVars
  <2>8. QED
    BY <1>2, <2>3, <2>7
<1>5. CASE Shutdown \/ ShutdownDrops
  <2>1. UNCHANGED <<made, workerVars>> /\ mpc' \in {"idle", "drop"} /\ dq' \in {0, dq}
    BY <1>5 DEF Shutdown, ShutdownDrops
  <2>2. quit' \subseteq Queues /\ overtaken' \subseteq Jobs \cup Polls
    <3>1. BetweenReads \subseteq Jobs \cup Polls
      BY Zenon DEF BetweenReads
    <3>2. dq # 0 => dq \in Queues
      BY DEF TypeOK, Queues
    <3>3. CASE Shutdown
      BY <3>2, <3>3 DEF Shutdown, TypeOK
    <3>4. CASE ShutdownDrops
      BY <3>1, <3>4 DEF ShutdownDrops, TypeOK
    <3>5. QED
      BY <1>5, <3>3, <3>4
  <2>3. TypeOK'
    BY <1>1, <2>1, <2>2 DEF TypeOK, workerVars, enqueueVars, getVars
  <2>4. WorkInv'
    BY <1>1, <2>1 DEF WorkInv, WorkPhase, TypeOK, workerVars, enqueueVars
  <2>5. QED
    BY <1>2, <2>3, <2>4
<1>6. QED
  BY <1>3, <1>4, <1>5 DEF ManagerStep

\* The steps of Enqueue before the send touch no channel and no worker.
LEMMA EnqueuePrepareKeeps ==
    ASSUME IInv, NEW j \in Jobs,
           EnqueueCheck(j) \/ EnqueueLock(j) \/ EnqueueStore(j) \/ EnqueueUnlock(j) \/ EnqueueChan(j)
    PROVE  IInv'
<1> USE DEF IInv
<1>1. UNCHANGED <<managerVars, in, workerVars, getVars, runs, overtaken>>
  BY DEF EnqueueCheck, EnqueueLock, EnqueueStore, EnqueueUnlock, EnqueueChan
<1>2. dq # 0 => dq \in Queues
  BY DEF TypeOK, Queues
<1>3. PICK p \in {"locking", "store", "unlock", "chan", "send", "panic"} : epc' = [epc EXCEPT ![j] = p]
  BY DEF EnqueueCheck, EnqueueLock, EnqueueStore, EnqueueUnlock, EnqueueChan
<1>4. epc' \in [Jobs -> {"new", "locking", "store", "unlock", "chan", "send", "sent", "returned", "panic"}]
  BY <1>3 DEF TypeOK
<1>5. eq' \in [Jobs -> 0..MaxQueues]
  BY DEF TypeOK, EnqueueCheck, EnqueueLock, EnqueueStore, EnqueueUnlock, EnqueueChan
<1>6. status' \in [Jobs -> {"none", "queued", "running"} \cup Finished]
  BY DEF TypeOK, EnqueueCheck, EnqueueLock, EnqueueStore, EnqueueUnlock, EnqueueChan
<1>7. table' \in [Queues -> SUBSET Jobs]
  <2>1. CASE EnqueueStore(j) /\ dq # 0
    <3>1. table[dq] \cup {j} \in SUBSET Jobs /\ table' = [table EXCEPT ![dq] = table[dq] \cup {j}]
      BY <1>2, <2>1 DEF TypeOK, EnqueueStore
    <3>2. QED
      BY <3>1, ZenonT(60) DEF TypeOK
  <2>2. CASE ~(EnqueueStore(j) /\ dq # 0)
    BY <2>2 DEF TypeOK, EnqueueCheck, EnqueueLock, EnqueueStore, EnqueueUnlock, EnqueueChan
  <2>3. QED
    BY <2>1, <2>2
<1>8. mu' \in [Queues -> Int] /\ dead' \in BOOLEAN
  <2> mu \in [Queues -> Int] /\ dead \in BOOLEAN
    BY DEF TypeOK
  <2>1. CASE EnqueueLock(j)
    <3>1. Lock(eq[j]) /\ dead' = dead /\ eq[j] \in Queues
      BY <2>1 DEF EnqueueLock, EnqInv
    <3>2. QED
      BY <3>1, LockTypes
  <2>2. CASE EnqueueUnlock(j)
    <3>1. CASE dq = 0
      BY <2>2, <3>1 DEF EnqueueUnlock
    <3>2. CASE dq # 0
      <4>1. PICK q \in Queues : q = dq
        BY <1>2, <3>2
      <4>2. Unlock(q)
        BY <2>2, <3>2, <4>1 DEF EnqueueUnlock, Unlock
      <4>3. QED
        BY <4>2, UnlockTypes
    <3>3. QED
      BY <3>1, <3>2
  <2>3. CASE EnqueueCheck(j) \/ EnqueueStore(j) \/ EnqueueChan(j)
    BY <2>3 DEF TypeOK, EnqueueCheck, EnqueueStore, EnqueueChan
  <2>4. QED
    BY <2>1, <2>2, <2>3
<1>9. TypeOK'
  BY <1>1, <1>4, <1>5, <1>6, <1>7, <1>8 DEF TypeOK, managerVars, workerVars, getVars
<1>10. epc[j] \in {"new", "locking", "store", "unlock", "chan"}
  BY DEF EnqueueCheck, EnqueueLock, EnqueueStore, EnqueueUnlock, EnqueueChan
<1>11. \A x \in Jobs : x # j => epc'[x] = epc[x] /\ status'[x] = status[x]
  <2>1. \A x \in Jobs : x # j => epc'[x] = epc[x]
    BY <1>3 DEF TypeOK
  <2>2. \A x \in Jobs : x # j => status'[x] = status[x]
    BY DEF TypeOK, EnqueueCheck, EnqueueLock, EnqueueStore, EnqueueUnlock, EnqueueChan
  <2>3. QED
    BY <2>1, <2>2
<1>12. ChanInv'
  <2>1. \A q \in Queues : \A i \in 1..Len(in[q]) : in[q][i] # j
    BY <1>10 DEF ChanInv
  <2>2. \A q \in Queues : \A i \in 1..Len(in[q]) : in[q][i] \in Jobs
    BY DEF TypeOK
  <2>3. QED
    BY <1>1, <1>11, <2>1, <2>2 DEF ChanInv
<1>13. WorkInv'
  <2>1. ASSUME NEW q \in Queues, wjob[q] # NoJob PROVE wjob[q] # j /\ wjob[q] \in Jobs
    <3>1. epc[wjob[q]] \in {"sent", "returned"}
      BY <2>1 DEF WorkInv
    <3>2. QED
      BY <1>10, <2>1, <3>1 DEF TypeOK
  <2>2. \A q \in Queues : wjob[q] # NoJob => WorkPhase(q)' /\ epc'[wjob[q]] \in {"sent", "returned"}
    BY <1>1, <1>11, <2>1 DEF WorkInv, WorkPhase, workerVars
  <2>3. QED
    BY <1>1, <2>2 DEF WorkInv, workerVars, managerVars
<1>14. EnqInv'
  <2>1. \A x \in Jobs : x # j => epc'[x] = epc[x] /\ status'[x] = status[x] /\ eq'[x] = eq[x]
    BY <1>11 DEF TypeOK, EnqueueCheck, EnqueueLock, EnqueueStore, EnqueueUnlock, EnqueueChan
  <2>2. epc'[j] = p /\ runs[j] = 0
    BY <1>3, <1>10 DEF TypeOK, EnqInv
  <2>3. p # "panic" => status'[j] = "queued"
    BY <1>3, <1>10 DEF TypeOK, EnqInv, EnqueueCheck, EnqueueLock, EnqueueStore, EnqueueUnlock, EnqueueChan
  <2>4. p \in {"locking", "send"} => eq'[j] \in Queues
    BY <1>2, <1>3 DEF TypeOK, EnqueueCheck, EnqueueLock, EnqueueStore, EnqueueUnlock, EnqueueChan
  <2>5. QED
    BY <1>1, <2>1, <2>2, <2>3, <2>4 DEF EnqInv
<1>15. PollInv' /\ RunAtMostOnce'
  BY <1>1 DEF PollInv, RunAtMostOnce, getVars
<1>16. QED
  BY <1>9, <1>12, <1>13, <1>14, <1>15

\* The send puts a job into one channel that was in none and with no worker.
LEMMA EnqueueSendKeeps == ASSUME IInv, NEW j \in Jobs, EnqueueSend(j) PROVE IInv'
<1> USE DEF IInv
<1> DEFINE c == eq[j]
<1>1. c \in Queues /\ in' = [in EXCEPT ![c] = Append(in[c], j)] /\ epc' = [epc EXCEPT ![j] = "sent"]
  BY DEF EnqInv, EnqueueSend
<1>2. UNCHANGED <<managerVars, table, mu, workerVars, eq, getVars, status, runs, dead, overtaken>>
  BY DEF EnqueueSend
<1>3. runs[j] = 0 /\ status[j] = "queued" /\ epc[j] = "send"
  BY DEF EnqInv, EnqueueSend
<1>4. \A q \in Queues : \A i \in 1..Len(in[q]) : in[q][i] # j
  BY <1>3 DEF ChanInv
<1>5. TypeOK'
  BY <1>1, <1>2 DEF TypeOK, managerVars, workerVars, getVars
<1>6. \A q \in Queues : in[q] \in Seq(Jobs) /\ Len(in[q]) \in Nat
  BY DEF TypeOK
<1>7. \A q \in Queues : q # c => in'[q] = in[q]
  BY <1>1 DEF TypeOK
<1>8. /\ Len(in'[c]) = Len(in[c]) + 1
      /\ in'[c][Len(in[c]) + 1] = j
      /\ \A i \in 1..Len(in[c]) : in'[c][i] = in[c][i]
  BY <1>1, <1>6 DEF TypeOK
<1> HIDE DEF c
<1>9. ChanInv'
  <2>1. ASSUME NEW q \in Queues, NEW i \in 1..Len(in'[q])
        PROVE  \/ i \in 1..Len(in[q]) /\ in'[q][i] = in[q][i]
               \/ q = c /\ i = Len(in[c]) + 1 /\ in'[q][i] = j
    BY <1>1, <1>6, <1>7, <1>8
  <2>2. ASSUME NEW q \in Queues, NEW i \in 1..Len(in'[q])
        PROVE  /\ runs'[in'[q][i]] = 0
               /\ status'[in'[q][i]] = "queued"
               /\ epc'[in'[q][i]] \in {"sent", "returned"}
    <3> HIDE DEF IInv
    <3> DEFINE x == in'[q][i]
    <3>0. runs' = runs /\ status' = status /\ j \in DOMAIN epc /\ DOMAIN epc = Jobs
      BY <1>2 DEF IInv, TypeOK
    <3>1. CASE i \in 1..Len(in[q]) /\ in'[q][i] = in[q][i]
      <4>1. x # j /\ x \in Jobs
        BY <1>4, <1>6, <3>1
      <4>2. runs[x] = 0 /\ status[x] = "queued" /\ epc[x] \in {"sent", "returned"}
        BY <3>1 DEF IInv, ChanInv
      <4> HIDE DEF x
      <4>3. epc'[x] = epc[x]
        BY <1>1, <3>0, <4>1
      <4>4. runs'[x] = 0 /\ status'[x] = "queued" /\ epc'[x] \in {"sent", "returned"}
        BY <3>0, <4>2, <4>3
      <4>5. QED
        BY <4>4 DEF x
    <3>2. CASE in'[q][i] = j
      <4>1. epc'[j] = "sent"
        BY <1>1, <3>0
      <4>2. QED
        BY <1>3, <3>0, <3>2, <4>1
    <3>3. QED
      BY <2>1, <3>1, <3>2
  <2>3. ASSUME NEW q \in Queues, NEW r \in Queues,
               NEW i \in 1..Len(in'[q]), NEW k \in 1..Len(in'[r]), in'[q][i] = in'[r][k]
        PROVE  q = r /\ i = k
    <3> HIDE DEF IInv
    <3>1. CASE in'[q][i] = j
      <4>1. q = c /\ i = Len(in[c]) + 1
        BY <2>1, <1>4, <3>1
      <4>2. r = c /\ k = Len(in[c]) + 1
        BY <2>1, <2>3, <1>4, <3>1
      <4>3. QED
        BY <4>1, <4>2
    <3>2. CASE in'[q][i] # j
      <4>1. i \in 1..Len(in[q]) /\ in'[q][i] = in[q][i]
        BY <2>1, <3>2
      <4>2. k \in 1..Len(in[r]) /\ in'[r][k] = in[r][k]
        BY <2>1, <2>3, <3>2
      <4>3. in[q][i] = in[r][k]
        BY <2>3, <4>1, <4>2
      <4>4. QED
        BY <4>1, <4>2, <4>3 DEF IInv, ChanInv
    <3>3. QED
      BY <3>1, <3>2
  <2>4. QED
    BY <2>2, <2>3 DEF ChanInv
<1>10. WorkInv'
  <2>1. \A q \in Queues : wjob[q] # j
    BY <1>3 DEF WorkInv, TypeOK
  <2>2. \A q \in Queues : wjob[q] # NoJob => WorkPhase(q)' /\ epc'[wjob[q]] \in {"sent", "returned"}
    BY <1>1, <1>2 DEF WorkInv, WorkPhase, TypeOK, workerVars
  <2>3. \A q, r \in Queues : \A i \in 1..Len(in'[q]) : in'[q][i] # wjob[r]
    <3>1. SUFFICES ASSUME NEW q \in Queues, NEW r \in Queues, NEW i \in 1..Len(in'[q])
                   PROVE  in'[q][i] # wjob[r]
      OBVIOUS
    <3>2. CASE q = c /\ i = Len(in[c]) + 1
      BY <1>8, <2>1, <3>2
    <3>3. CASE ~(q = c /\ i = Len(in[c]) + 1)
      <4>1. i \in 1..Len(in[q]) /\ in'[q][i] = in[q][i]
        BY <1>1, <1>6, <1>7, <1>8, <3>3
      <4>2. QED
        BY <4>1 DEF WorkInv
    <3>4. QED
      BY <3>2, <3>3
  <2>4. QED
    BY <1>2, <2>2, <2>3 DEF WorkInv, workerVars, managerVars
<1>11. EnqInv' /\ PollInv' /\ RunAtMostOnce'
  BY <1>1, <1>2 DEF TypeOK, EnqInv, PollInv, RunAtMostOnce, getVars
<1>12. QED
  BY <1>5, <1>9, <1>10, <1>11

LEMMA EnqueueReplyKeeps == ASSUME IInv, NEW j \in Jobs, EnqueueReply(j) PROVE IInv'
<1> USE DEF IInv
<1>1. UNCHANGED <<managerVars, table, mu, in, workerVars, eq, getVars, status, runs, dead, overtaken>>
  BY DEF EnqueueReply
<1>2. epc[j] = "sent" /\ epc' = [epc EXCEPT ![j] = "returned"]
  BY DEF EnqueueReply
<1>3. TypeOK'
  BY <1>1, <1>2 DEF TypeOK, managerVars, workerVars, getVars
<1>4. ChanInv' /\ EnqInv' /\ PollInv' /\ RunAtMostOnce'
  BY <1>1, <1>2 DEF TypeOK, ChanInv, EnqInv, PollInv, RunAtMostOnce, getVars
<1>5. \A q \in Queues : wjob[q] # NoJob => WorkPhase(q)' /\ epc'[wjob[q]] \in {"sent", "returned"}
  BY <1>1, <1>2 DEF WorkInv, WorkPhase, TypeOK, workerVars
<1>6. WorkInv'
  BY <1>1, <1>5 DEF WorkInv, workerVars, managerVars
<1>7. QED
  BY <1>3, <1>4, <1>6

\* Taking a job moves it from its only place in a channel into the worker's hands.
LEMMA WorkerTakeKeeps == ASSUME IInv, NEW w \in Queues, WorkerTake(w) PROVE IInv'
<1> USE DEF IInv
<1> DEFINE j == Head(in[w])
<1>1. in[w] \in Seq(Jobs) /\ in[w] # <<>> /\ j \in Jobs /\ j = in[w][1] /\ 1 \in 1..Len(in[w])
  BY DEF TypeOK, WorkerTake
<1>2. /\ wjob' = [wjob EXCEPT ![w] = j]
      /\ in' = [in EXCEPT ![w] = Tail(in[w])]
      /\ wpc' = [wpc EXCEPT ![w] = "mark"]
      /\ UNCHANGED <<managerVars, table, mu, enqueueVars, getVars, status, runs, dead, overtaken>>
  BY DEF WorkerTake
<1>3. runs[j] = 0 /\ status[j] = "queued" /\ epc[j] \in {"sent", "returned"}
  BY <1>1 DEF ChanInv
<1>4. \A q \in Queues : \A i \in 1..Len(in[q]) : in[q][i] = j => q = w /\ i = 1
  BY <1>1 DEF ChanInv
<1>5. \A q \in Queues : \A i \in 1..Len(in'[q]) :
         \/ q # w /\ i \in 1..Len(in[q]) /\ in'[q][i] = in[q][i]
         \/ q = w /\ i + 1 \in 1..Len(in[q]) /\ in'[q][i] = in[q][i + 1]
  <2>1. in'[w] = Tail(in[w]) /\ \A q \in Queues : q # w => in'[q] = in[q]
    BY <1>2 DEF TypeOK
  <2>2. \A i \in 1..Len(Tail(in[w])) : i + 1 \in 1..Len(in[w]) /\ Tail(in[w])[i] = in[w][i + 1]
    BY <1>1
  <2>3. QED
    BY <2>1, <2>2
<1>6. j \in Jobs /\ Tail(in[w]) \in Seq(Jobs)
  BY <1>1
<1>7. \A q \in Queues : wjob[q] # j
  BY <1>1 DEF WorkInv
<1> HIDE DEF j
<1>8. TypeOK'
  BY <1>2, <1>6 DEF TypeOK, managerVars, enqueueVars, getVars
<1>9. \A q \in Queues : \A i \in 1..Len(in'[q]) :
         in'[q][i] # j /\ \E k \in 1..Len(in[q]) : in'[q][i] = in[q][k]
  <2>1. SUFFICES ASSUME NEW q \in Queues, NEW i \in 1..Len(in'[q])
                 PROVE  in'[q][i] # j /\ \E k \in 1..Len(in[q]) : in'[q][i] = in[q][k]
    OBVIOUS
  <2>2. CASE q # w /\ i \in 1..Len(in[q]) /\ in'[q][i] = in[q][i]
    BY <2>2, <1>4
  <2>3. CASE q = w /\ i + 1 \in 1..Len(in[q]) /\ in'[q][i] = in[q][i + 1]
    BY <2>3, <1>4
  <2>4. QED
    BY <1>5, <2>2, <2>3
<1>10. ChanInv'
  <2>1. ASSUME NEW q \in Queues, NEW i \in 1..Len(in'[q])
        PROVE  /\ runs'[in'[q][i]] = 0
               /\ status'[in'[q][i]] = "queued"
               /\ epc'[in'[q][i]] \in {"sent", "returned"}
    BY <1>2, <1>9 DEF ChanInv, enqueueVars
  <2>2. ASSUME NEW q \in Queues, NEW r \in Queues,
               NEW i \in 1..Len(in'[q]), NEW k \in 1..Len(in'[r]), in'[q][i] = in'[r][k]
        PROVE  q = r /\ i = k
    BY <1>5, <2>2 DEF ChanInv
  <2>3. QED
    BY <2>1, <2>2 DEF ChanInv
<1>11. WorkInv'
  <2>1. \A q \in Queues : q # w => wpc'[q] = wpc[q] /\ wjob'[q] = wjob[q]
    BY <1>2 DEF TypeOK
  <2>2. wpc'[w] = "mark" /\ wjob'[w] = j /\ j # NoJob /\ wpc[w] = "select"
    BY <1>2, <1>6 DEF TypeOK, WorkerTake
  <2>3. \A q \in Queues : wjob'[q] # NoJob => WorkPhase(q)' /\ epc'[wjob'[q]] \in {"sent", "returned"}
    BY <1>2, <1>3, <2>1, <2>2 DEF WorkInv, WorkPhase, enqueueVars
  <2>4. \A q, r \in Queues : wjob'[q] # NoJob /\ wjob'[q] = wjob'[r] => q = r
    BY <1>7, <2>1, <2>2 DEF WorkInv
  <2>5. \A q, r \in Queues : \A i \in 1..Len(in'[q]) : in'[q][i] # wjob'[r]
    BY <1>9, <2>1, <2>2 DEF WorkInv
  <2>6. QED
    <3>1. /\ \A q \in Queues : q > made => wpc'[q] = "none"
          /\ mpc = "loop" => dq \in Queues /\ wpc'[dq] = "none"
      BY <2>1, <2>2 DEF WorkInv
    <3>2. \A q \in Queues : wpc'[q] \in {"none", "select", "gone"} <=> wjob'[q] = NoJob
      BY <2>1, <2>2 DEF WorkInv
    <3>3. QED
      BY <1>2, <2>3, <2>4, <2>5, <3>1, <3>2 DEF WorkInv, managerVars
<1>12. EnqInv' /\ PollInv' /\ RunAtMostOnce'
  BY <1>2 DEF EnqInv, PollInv, RunAtMostOnce, enqueueVars, getVars
<1>13. QED
  BY <1>8, <1>10, <1>11, <1>12

\* The stages of an execution, of a job that is in this worker's hands only.
LEMMA WorkerExecuteKeeps ==
    ASSUME IInv, NEW w \in Queues,
           WorkerMark(w) \/ WorkerRun(w) \/ WorkerFinish(w) \/ WorkerUnlock(w) \/ WorkerQuit(w)
    PROVE  IInv'
<1> USE DEF IInv
<1> DEFINE j == wjob[w]
<1>1. UNCHANGED <<managerVars, table, in, enqueueVars, getVars, overtaken>>
  BY DEF WorkerMark, WorkerRun, WorkerFinish, WorkerUnlock, WorkerQuit
<1>2. mu' \in [Queues -> Int] /\ dead' \in BOOLEAN
  <2> mu \in [Queues -> Int] /\ dead \in BOOLEAN
    BY DEF TypeOK
  <2>1. CASE WorkerMark(w) \/ WorkerFinish(w)
    <3>1. Lock(w) /\ dead' = dead
      BY <2>1 DEF WorkerMark, WorkerFinish
    <3>2. QED
      BY <3>1, LockTypes
  <2>2. CASE WorkerRun(w) \/ WorkerUnlock(w)
    <3>1. Unlock(w)
      BY <2>2 DEF WorkerRun, WorkerUnlock
    <3>2. QED
      BY <3>1, UnlockTypes
  <2>3. CASE WorkerQuit(w)
    <3>1. mu' = mu /\ dead' = dead
      BY <2>3 DEF WorkerQuit
    <3>2. QED
      BY <3>1
  <2>4. QED
    BY <2>1, <2>2, <2>3
<1>3. \A q \in Queues : q # w => wpc'[q] = wpc[q] /\ wjob'[q] = wjob[q]
  BY DEF TypeOK, WorkerMark, WorkerRun, WorkerFinish, WorkerUnlock, WorkerQuit
<1>4. wpc[w] \in {"none", "select", "gone"} <=> j = NoJob
  BY DEF WorkInv
<1>5. j # NoJob => j \in Jobs /\ WorkPhase(w) /\ epc[j] \in {"sent", "returned"}
  BY DEF WorkInv, TypeOK
<1>6. \A x \in Jobs : x # j => status'[x] = status[x] /\ runs'[x] = runs[x]
  BY DEF TypeOK, WorkerMark, WorkerRun, WorkerFinish, WorkerUnlock, WorkerQuit
<1>7. \A q \in Queues : \A i \in 1..Len(in[q]) : in[q][i] \in Jobs /\ in[q][i] # j
  BY DEF TypeOK, WorkInv
<1>8. /\ wpc' \in [Queues -> {"none", "select", "mark", "marked", "run", "finished", "gone"}]
      /\ wjob' \in [Queues -> Jobs \cup {NoJob}]
  BY DEF TypeOK, WorkerMark, WorkerRun, WorkerFinish, WorkerUnlock, WorkerQuit
<1>9. status' \in [Jobs -> {"none", "queued", "running"} \cup Finished] /\ runs' \in [Jobs -> Nat]
  <2>1. status' \in [Jobs -> {"none", "queued", "running"} \cup Finished]
    BY DEF TypeOK, WorkerMark, WorkerRun, WorkerFinish, WorkerUnlock, WorkerQuit
  <2>2. runs' \in [Jobs -> Nat]
    BY <1>4, <1>5 DEF TypeOK, WorkerMark, WorkerRun, WorkerFinish, WorkerUnlock, WorkerQuit
  <2>3. QED
    BY <2>1, <2>2
<1>10. TypeOK'
  BY <1>1, <1>2, <1>8, <1>9 DEF TypeOK, managerVars, enqueueVars, getVars
<1>11. ChanInv'
  BY <1>1, <1>6, <1>7 DEF ChanInv, enqueueVars
<1>12. /\ wpc'[w] \in {"none", "select", "gone"} <=> wjob'[w] = NoJob
       /\ wpc[w] # "none" /\ wpc'[w] # "none"
       /\ wjob'[w] \in {j, NoJob}
       /\ wjob'[w] # NoJob => WorkPhase(w)'
       /\ j # NoJob => runs'[j] <= 1
  <2>1. CASE WorkerMark(w)
    BY <1>4, <1>5, <2>1 DEF WorkerMark, WorkPhase, TypeOK
  <2>2. CASE WorkerRun(w)
    BY <1>4, <1>5, <2>2 DEF WorkerRun, WorkPhase, TypeOK
  <2>3. CASE WorkerFinish(w)
    BY <1>4, <1>5, <2>3 DEF WorkerFinish, WorkPhase, TypeOK
  <2>4. CASE WorkerUnlock(w)
    BY <1>4, <1>5, <2>4 DEF WorkerUnlock, WorkPhase, TypeOK
  <2>5. CASE WorkerQuit(w)
    BY <1>4, <1>5, <2>5 DEF WorkerQuit, WorkPhase, TypeOK
  <2>6. QED
    BY <2>1, <2>2, <2>3, <2>4, <2>5
<1>13. WorkInv'
  <2>1. \A q \in Queues : q # w /\ wjob[q] # NoJob => wjob[q] # j /\ wjob[q] \in Jobs
    BY DEF WorkInv, TypeOK
  <2>2. \A q \in Queues : wjob'[q] # NoJob => WorkPhase(q)' /\ epc'[wjob'[q]] \in {"sent", "returned"}
    <3>1. SUFFICES ASSUME NEW q \in Queues, wjob'[q] # NoJob
                   PROVE  WorkPhase(q)' /\ epc'[wjob'[q]] \in {"sent", "returned"}
      OBVIOUS
    <3>2. CASE q = w
      BY <1>1, <1>5, <1>12, <3>1, <3>2 DEF enqueueVars
    <3>3. CASE q # w
      BY <1>1, <1>3, <1>6, <2>1, <3>1, <3>3 DEF WorkInv, WorkPhase, enqueueVars
    <3>4. QED
      BY <3>2, <3>3
  <2>3. \A q, r \in Queues : wjob'[q] # NoJob /\ wjob'[q] = wjob'[r] => q = r
    BY <1>3, <1>12 DEF WorkInv
  <2>4. \A q, r \in Queues : \A i \in 1..Len(in'[q]) : in'[q][i] # wjob'[r]
    BY <1>1, <1>3, <1>7, <1>12 DEF WorkInv
  <2>5. \A q \in Queues : wpc'[q] \in {"none", "select", "gone"} <=> wjob'[q] = NoJob
    BY <1>3, <1>12 DEF WorkInv
  <2>6. /\ \A q \in Queues : q > made' => wpc'[q] = "none"
        /\ mpc' = "loop" => dq' \in Queues /\ wpc'[dq'] = "none"
    BY <1>1, <1>3, <1>12 DEF WorkInv, managerVars
  <2>7. dq' <= made'
    BY <1>1 DEF WorkInv, managerVars
  <2>8. QED
    BY <2>2, <2>3, <2>4, <2>5, <2>6, <2>7 DEF WorkInv
<1>14. EnqInv'
  BY <1>1, <1>5, <1>6 DEF EnqInv, enqueueVars
<1>15. RunAtMostOnce'
  BY <1>6, <1>12 DEF RunAtMostOnce, TypeOK
<1>16. PollInv'
  BY <1>1 DEF PollInv, getVars
<1>17. QED
  BY <1>10, <1>11, <1>13, <1>14, <1>15, <1>16

LEMMA InitIInv == Init => IInv
<1> SUFFICES ASSUME Init PROVE IInv
  OBVIOUS
<1>1. TypeOK
  <2>1. in \in [Queues -> Seq(Jobs)] /\ table \in [Queues -> SUBSET Jobs]
    <3>1. <<>> \in Seq(Jobs)
      OBVIOUS
    <3>2. QED
      BY <3>1 DEF Init
  <2>2. dq \in 0..MaxQueues /\ made \in 0..MaxQueues /\ mu \in [Queues -> Int]
    BY DEF Init
  <2>3. dead \in BOOLEAN /\ overtaken \subseteq Jobs \cup Polls
    BY DEF Init
  <2>4. /\ quit \subseteq Queues /\ mpc \in {"idle", "loop", "drop"}
        /\ wpc \in [Queues -> {"none", "select", "mark", "marked", "run", "finished", "gone"}]
        /\ wjob \in [Queues -> Jobs \cup {NoJob}]
    BY DEF Init
  <2>5. /\ epc \in [Jobs -> {"new", "locking", "store", "unlock", "chan", "send", "sent", "returned", "panic"}]
        /\ eq \in [Jobs -> 0..MaxQueues]
    BY DEF Init
  <2>6. /\ gpc \in [Polls -> {"new", "rlocking", "defer", "read", "done"}]
        /\ gq \in [Polls -> 0..MaxQueues]
    BY DEF Init
  <2>7. /\ status \in [Jobs -> {"none", "queued", "running"} \cup Finished]
        /\ runs \in [Jobs -> Nat]
    BY DEF Init
  <2>8. QED
    BY <2>1, <2>2, <2>3, <2>4, <2>5, <2>6, <2>7, Zenon DEF TypeOK
<1>2. ChanInv /\ EnqInv /\ PollInv /\ RunAtMostOnce
  BY DEF Init, ChanInv, EnqInv, PollInv, RunAtMostOnce
<1>3. WorkInv
  BY DEF Init, WorkInv
<1>4. QED
  BY <1>1, <1>2, <1>3 DEF IInv

LEMMA NextIInv == IInv /\ [Next]_vars => IInv'
<1> SUFFICES ASSUME IInv, [Next]_vars PROVE IInv'
  OBVIOUS
<1>1. CASE MapRace
  <2>1. ChanInv' /\ WorkInv' /\ EnqInv' /\ RunAtMostOnce'
    BY <1>1, FrameKeeps DEF MapRace, managerVars
  <2>2. TypeOK' /\ PollInv'
    BY <1>1 DEF IInv, MapRace, TypeOK, PollInv, managerVars, workerVars, enqueueVars, getVars
  <2>3. QED
    BY <2>1, <2>2 DEF IInv
<1>2. CASE UNCHANGED vars
  <2>1. ChanInv' /\ WorkInv' /\ EnqInv' /\ RunAtMostOnce'
    BY <1>2, FrameKeeps DEF vars, managerVars
  <2>2. TypeOK' /\ PollInv'
    BY <1>2 DEF IInv, vars, TypeOK, PollInv, managerVars, workerVars, enqueueVars, getVars
  <2>3. QED
    BY <2>1, <2>2 DEF IInv
<1>3. QED
  BY <1>1, <1>2, ManagerKeeps, EnqueuePrepareKeeps, EnqueueSendKeeps, EnqueueReplyKeeps, PollKeeps,
     WorkerTakeKeeps, WorkerExecuteKeeps DEF Next, EnqueueStep, WorkerStep

\* IInv is inductive.
THEOREM InductiveInvariant == Spec => []IInv
  BY InitIInv, NextIInv, PTL DEF Spec

\* Every variable keeps its type.
THEOREM TypeCorrect == Spec => []TypeOK
<1>1. IInv => TypeOK
  BY DEF IInv
<1>2. QED
  BY <1>1, InductiveInvariant, PTL

\* No job is ever executed twice.
THEOREM JobsRunAtMostOnce == Spec => []RunAtMostOnce
<1>1. IInv => RunAtMostOnce
  BY DEF IInv
<1>2. QED
  BY <1>1, InductiveInvariant, PTL

\* The status of a job only moves along queued, running, done or failed.
THEOREM StatusAdvances == Spec => StatusOnlyAdvances
<1> DEFINE Advances ==
      \A j \in Jobs : status'[j] = status[j] \/ <<status[j], status'[j]>> \in Lifecycle
<1>1. ASSUME IInv, Next PROVE Advances
  <2> USE <1>1 DEF Lifecycle
  <2>1. CASE ManagerStep \/ MapRace \/ \E g \in Polls : GetStep(g)
    <3>1. status' = status
      BY <2>1 DEF ManagerStep, QueueInit, StartLoop, Shutdown, ShutdownDrops, MapRace,
                  GetStep, GetCheck, GetRLock, GetDefer, GetReturn
    <3>2. QED
      BY <3>1
  <2>2. ASSUME NEW j \in Jobs, EnqueueStep(j) PROVE Advances
    <3>1. CASE EnqueueCheck(j)
      BY <3>1 DEF EnqueueCheck, IInv, EnqInv, TypeOK
    <3>2. CASE ~EnqueueCheck(j)
      <4>1. status' = status
        BY <2>2, <3>2 DEF EnqueueStep, EnqueueLock, EnqueueStore, EnqueueUnlock, EnqueueChan, EnqueueSend, EnqueueReply
      <4>2. QED
        BY <4>1
    <3>3. QED
      BY <3>1, <3>2
  <2>3. ASSUME NEW w \in Queues, WorkerStep(w) PROVE Advances
    <3>1. wjob[w] # NoJob => wjob[w] \in Jobs /\ WorkPhase(w)
      BY DEF IInv, WorkInv, TypeOK
    <3>2. wpc[w] \in {"none", "select", "gone"} <=> wjob[w] = NoJob
      BY DEF IInv, WorkInv
    <3>3. CASE WorkerMark(w)
      BY <3>1, <3>2, <3>3 DEF WorkerMark, WorkPhase, IInv, TypeOK
    <3>4. CASE WorkerFinish(w)
      BY <3>1, <3>2, <3>4 DEF WorkerFinish, WorkPhase, Finished, IInv, TypeOK
    <3>5. CASE ~WorkerMark(w) /\ ~WorkerFinish(w)
      <4>1. status' = status
        BY <2>3, <3>5 DEF WorkerStep, WorkerTake, WorkerRun, WorkerUnlock, WorkerQuit
      <4>2. QED
        BY <4>1
    <3>6. QED
      BY <3>3, <3>4, <3>5
  <2>4. QED
    BY <2>1, <2>2, <2>3 DEF Next
<1>2. IInv /\ [Next]_vars => [Advances]_vars
  BY <1>1
<1>3. QED
  BY <1>2, InductiveInvariant, PTL DEF Spec, StatusOnlyAdvances
=============================================================================
