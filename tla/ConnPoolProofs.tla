--------------------------- MODULE ConnPoolProofs ---------------------------
(***************************************************************************)
(* Proofs about ConnPool, for any set of threads, any pool sizes and any   *)
(* number of pools and connections.  A socket is followed from the set     *)
(* idle[g] of one pool into the hands tc[t] of one thread and back; LockInv *)
(* and UseInv say which threads may touch which pool.                      *)
(***************************************************************************)
EXTENDS ConnPool, FiniteSetTheorems, TLAPS

USE PoolAssumption

\* A pool's connections are a finite set.
LEMMA IdleFinite ==
    ASSUME NEW S \in SUBSET Conns
    PROVE  IsFiniteSet(S) /\ Cardinality(S) \in Nat
<1>1. IsFiniteSet(Conns)
  BY FS_Interval DEF Conns
<1>2. QED
  BY <1>1, FS_Subset, FS_CardinalityType

\* initialize's new connections all count.
LEMMA IntervalAdded ==
    ASSUME NEW S \in SUBSET Conns, NEW a \in Nat, NEW n \in Nat,
           NEW T, T = (a + 1)..(a + n), S \cap T = {}
    PROVE  Cardinality(S \cup T) = Cardinality(S) + n
<1>1. a + 1 \in Int /\ a + n \in Int
  OBVIOUS
<1>2. IsFiniteSet(T) /\ Cardinality(T) = IF a + 1 > a + n THEN 0 ELSE (a + n) - (a + 1) + 1
  BY <1>1, FS_Interval
<1>3. Cardinality(T) = n
  BY <1>2
<1>4. Cardinality(S \cup T) = Cardinality(S) + Cardinality(T) - Cardinality(S \cap T)
  BY <1>2, IdleFinite, FS_Union
<1>5. Cardinality(S \cap T) = 0
  BY FS_EmptySet
<1>6. QED
  BY <1>3, <1>4, <1>5, IdleFinite

\* NoLeak, one connection at a time.
LEMMA NoLeakPointwise ==
    NoLeak <=> \A c : c \in opened <=>
                  \/ \E g \in Pools : c \in idle[g]
                  \/ c # 0 /\ \E t \in Threads : tc[t] = c
  BY DEF NoLeak, Held

\* The same of the next state.
LEMMA NoLeakPointwisePrime ==
    NoLeak' <=> \A c : c \in opened' <=>
                  \/ \E g \in Pools : c \in idle'[g]
                  \/ c # 0 /\ \E t \in Threads : tc'[t] = c
  BY DEF NoLeak, Held

\* Steps that move a thread, or give it the global pool, and touch no connection.
LEMMA MovesKeep ==
    ASSUME IInv, NEW t \in Threads,
           \/ GetPool(t) \/ GetPoolReturn(t) \/ GotNone(t) \/ GetEmpty(t)
           \/ GetCheck(t) \/ GetCreateFails(t) \/ GetTimeout(t)
    PROVE  IInv'
<1> USE DEF IInv, PoolSound
<1>1. UNCHANGED <<gpool, glock, npools, inited, shut, idle, nconns, opened, tc>>
  BY DEF GetPool, GetPoolReturn, GotNone, GetEmpty, GetCheck, GetCreateFails, GetTimeout,
         globalVars
<1>2. PICK w \in {"glock", "ret", "none", "get", "idle", "check", "create", "wait"} :
         pc' = [pc EXCEPT ![t] = w]
  BY DEF GetPool, GetPoolReturn, GotNone, GetEmpty, GetCheck, GetCreateFails, GetTimeout, Goto
<1>3. pc[t] \notin {"init", "closing", "hold"}
  BY DEF GetPool, GetPoolReturn, GotNone, GetEmpty, GetCheck, GetCreateFails, GetTimeout
<1>4. /\ tp' \in [Threads -> 0..MaxPools]
      /\ \A u \in Threads : u # t => tp'[u] = tp[u]
      /\ w \in {"get", "check", "create", "wait"} => tp'[t] \in Pools
  <2>1. CASE GetPoolReturn(t)
    BY <2>1, <1>2 DEF GetPoolReturn, Goto, TypeOK, Pools
  <2>2. CASE ~GetPoolReturn(t)
    <3>1. tp' = tp
      BY <2>2 DEF GetPool, GotNone, GetEmpty, GetCheck, GetCreateFails, GetTimeout
    <3>2. w \in {"get", "check", "create", "wait"} => pc[t] \in {"get", "check", "create"}
      BY <2>2, <1>2 DEF GetPool, GotNone, GetEmpty, GetCheck, GetCreateFails, GetTimeout, Goto,
                        TypeOK
    <3>3. QED
      BY <3>1, <3>2 DEF UseInv, TypeOK
  <2>3. QED
    BY <2>1, <2>2
<1>5. TypeOK'
  BY <1>1, <1>2, <1>4 DEF TypeOK
<1>6. Exclusive' /\ NoLeak' /\ ClosedStaysEmpty' /\ IdleBounded'
  BY <1>1 DEF Exclusive, NoLeak, Held, ClosedStaysEmpty, IdleBounded
<1>7. LockInv'
  BY <1>1, <1>2, <1>3 DEF TypeOK, LockInv
<1>8. UseInv'
  BY <1>1, <1>2, <1>3, <1>4 DEF TypeOK, UseInv
<1>9. QED
  BY <1>5, <1>6, <1>7, <1>8

\* A new pool is neither initialized nor shut.
LEMMA GetPoolLockedKeeps == ASSUME IInv, NEW t \in Threads, GetPoolLocked(t) PROVE IInv'
<1> USE DEF IInv, PoolSound
<1>1. UNCHANGED <<inited, shut, idle, nconns, opened, tp, tc>> /\ pc[t] = "glock" /\ glock = Free
  BY DEF GetPoolLocked
<1>2. CASE /\ gpool = 0 /\ npools < MaxPools /\ npools' = npools + 1 /\ gpool' = npools + 1
           /\ glock' = t /\ pc' = [pc EXCEPT ![t] = "init"]
  <2>1. TypeOK'
    BY <1>1, <1>2 DEF TypeOK
  <2>2. \A g \in inited \cup shut : g # npools + 1
    BY <1>1 DEF LockInv, TypeOK, Pools
  <2>3. Exclusive' /\ NoLeak' /\ IdleBounded'
    BY <1>1 DEF Exclusive, NoLeak, Held, IdleBounded
  <2>4. ClosedStaysEmpty'
    BY <1>1, <1>2 DEF ClosedStaysEmpty, TypeOK, Pools
  <2>5. LockInv'
    BY <1>1, <1>2, <2>2 DEF LockInv, TypeOK, Pools
  <2>6. UseInv'
    BY <1>1, <1>2 DEF UseInv, TypeOK
  <2>7. QED
    BY <2>1, <2>3, <2>4, <2>5, <2>6
<1>3. CASE gpool # 0 /\ pc' = [pc EXCEPT ![t] = "ret"] /\ UNCHANGED <<gpool, glock, npools>>
  <2>1. TypeOK'
    BY <1>1, <1>3 DEF TypeOK
  <2>2. Exclusive' /\ NoLeak' /\ ClosedStaysEmpty' /\ IdleBounded'
    BY <1>1, <1>3 DEF Exclusive, NoLeak, Held, ClosedStaysEmpty, IdleBounded
  <2>3. LockInv' /\ UseInv'
    BY <1>1, <1>3 DEF LockInv, UseInv, TypeOK
  <2>4. QED
    BY <2>1, <2>2, <2>3
<1>4. QED
  BY <1>2, <1>3 DEF GetPoolLocked, Goto

\* The global lock has one holder.
LEMMA OneLockHolder ==
    ASSUME IInv, NEW t \in Threads, pc[t] \in {"init", "closing"}
    PROVE  /\ glock = t /\ gpool \in Pools
           /\ \A u \in Threads : pc[u] \in {"init", "closing"} => u = t
  BY DEF IInv, PoolSound, LockInv, TypeOK, Pools

\* initialize adds connections that did not exist to a pool that is not shut.
LEMMA PoolInitializeKeeps == ASSUME IInv, NEW t \in Threads, PoolInitialize(t) PROVE IInv'
<1> USE DEF IInv, PoolSound
<1>1. PICK n \in 0..MinSize :
         /\ nconns + n <= MaxConns
         /\ nconns' = nconns + n
         /\ opened' = opened \cup ((nconns + 1)..(nconns + n))
         /\ idle' = [idle EXCEPT ![gpool] = @ \cup ((nconns + 1)..(nconns + n))]
  BY DEF PoolInitialize
<1> DEFINE new == (nconns + 1)..(nconns + n)
<1>2. /\ pc[t] = "init" /\ pc' = [pc EXCEPT ![t] = "ret"]
      /\ inited' = inited \cup {gpool} /\ glock' = Free
      /\ UNCHANGED <<gpool, npools, shut, tp, tc>>
  BY DEF PoolInitialize, Goto
<1>3. glock = t /\ gpool \in Pools /\ \A u \in Threads : pc[u] \in {"init", "closing"} => u = t
  BY <1>2, OneLockHolder
<1>4. gpool \notin inited /\ gpool \notin shut
  BY <1>2 DEF LockInv
<1>5. new \subseteq Conns /\ \A c \in new : c > nconns /\ c <= nconns' /\ c # 0
  BY <1>1 DEF TypeOK, Conns
<1>6. \A g \in Pools : idle'[g] = IF g = gpool THEN idle[g] \cup new ELSE idle[g]
  BY <1>1, <1>3 DEF TypeOK
<1>7. \A c \in opened : c \notin new
  BY <1>5 DEF UseInv, TypeOK, Conns
<1>8. /\ \A g \in Pools : idle[g] \cap new = {}
      /\ \A u \in Threads : tc[u] \notin new
  <2>1. \A g \in Pools : idle[g] \subseteq opened
    BY NoLeakPointwise
  <2>2. \A u \in Threads : tc[u] # 0 => tc[u] \in opened
    BY NoLeakPointwise
  <2>3. QED
    BY <1>5, <1>7, <2>1, <2>2
<1>9. TypeOK'
  <2>1. idle' \in [Pools -> SUBSET Conns]
    BY <1>1, <1>3, <1>5 DEF TypeOK
  <2>2. nconns' \in 0..MaxConns
    BY <1>1 DEF TypeOK
  <2>3. QED
    BY <1>1, <1>2, <1>3, <1>5, <2>1, <2>2 DEF TypeOK
<1> HIDE DEF new
<1>10. Exclusive'
  <2>1. \A u, v \in Threads : tc'[u] = tc'[v] /\ tc'[u] # 0 => u = v
    BY <1>2 DEF Exclusive
  <2>2. \A g \in Pools, u \in Threads : tc'[u] # 0 => tc'[u] \notin idle'[g]
    BY <1>2, <1>6, <1>8 DEF Exclusive, Held
  <2>3. \A g, h \in Pools : idle'[g] \cap idle'[h] # {} => g = h
    <3>1. \A g, h \in Pools : g # h => idle[g] \cap idle[h] = {}
      BY DEF Exclusive
    <3>2. QED
      BY <1>6, <1>8, <3>1
  <2>4. QED
    BY <2>1, <2>2, <2>3 DEF Exclusive, Held
<1>11. NoLeak'
  <2>1. \A c : c \in opened' <=> \/ \E g \in Pools : c \in idle'[g]
                                 \/ c # 0 /\ \E u \in Threads : tc'[u] = c
    BY <1>1, <1>2, <1>3, <1>6, NoLeakPointwise DEF new
  <2>2. QED
    BY <2>1, NoLeakPointwisePrime
<1>12. ClosedStaysEmpty'
  BY <1>2, <1>4, <1>6 DEF ClosedStaysEmpty, TypeOK
<1>13. IdleBounded'
  <2>1. nconns \in Nat /\ n \in Nat
    BY DEF TypeOK
  <2>2. idle[gpool] \in SUBSET Conns /\ idle[gpool] \cap new = {}
    BY <1>3, <1>8 DEF TypeOK
  <2>3. Cardinality(idle[gpool]) <= MaxSize /\ Cardinality(idle[gpool]) \in Nat
    BY <1>3, <1>4, <2>2, IdleFinite DEF IdleBounded
  <2>4. Cardinality(idle[gpool] \cup new) <= MaxSize + MinSize
    <3>1. Cardinality(idle[gpool] \cup new) = Cardinality(idle[gpool]) + n
      BY <2>1, <2>2, IntervalAdded DEF new
    <3>2. QED
      BY <2>3, <3>1
  <2>5. QED
    BY <1>2, <1>6, <2>4 DEF IdleBounded
<1>14. LockInv'
  <2>1. \A u \in Threads : pc'[u] \notin {"init", "closing"}
    BY <1>2, <1>3 DEF TypeOK
  <2>2. QED
    BY <1>2, <1>3, <1>4, <2>1 DEF LockInv, TypeOK, Pools
<1>15. UseInv'
  <2>1. \A c \in opened' : c <= nconns'
    BY <1>1, <1>5 DEF UseInv, TypeOK, Conns, new
  <2>2. QED
    BY <1>2, <2>1 DEF UseInv, TypeOK
<1>16. QED
  BY <1>9, <1>10, <1>11, <1>12, <1>13, <1>14, <1>15

\* A connection moves from a pool into the hands of a thread that held none.
LEMMA TakeKeeps ==
    ASSUME IInv, NEW t \in Threads, GetPop(t) \/ GetWaitPop(t) PROVE IInv'
<1> USE DEF IInv, PoolSound
<1>1. tp[t] \in Pools /\ tc[t] = 0 /\ pc[t] \in {"get", "wait"}
  BY DEF UseInv, GetPop, GetWaitPop, TypeOK
<1> DEFINE p == tp[t]
<1>2. PICK c \in idle[p] : /\ idle' = [idle EXCEPT ![p] = @ \ {c}]
                           /\ tc' = [tc EXCEPT ![t] = c]
  BY DEF GetPop, GetWaitPop, Take
<1>3. /\ pc' = [pc EXCEPT ![t] = "hold"]
      /\ UNCHANGED <<gpool, glock, npools, inited, shut, nconns, opened, tp>>
  BY DEF GetPop, GetWaitPop, Take, Goto, globalVars
<1>4. c \in Conns /\ c # 0 /\ c \in 0..MaxConns
  BY <1>1 DEF TypeOK, Conns
<1>5. \A g \in Pools : idle'[g] = IF g = p THEN idle[g] \ {c} ELSE idle[g]
  BY <1>1, <1>2 DEF TypeOK
<1>6. \A u \in Threads : tc'[u] = IF u = t THEN c ELSE tc[u]
  BY <1>2 DEF TypeOK
<1>7. \A u \in Threads : tc[u] # c
  BY <1>1, <1>4 DEF Exclusive, Held
<1>8. \A g \in Pools : c \in idle[g] => g = p
  BY <1>1, <1>2 DEF Exclusive
<1>9. p \in Pools
  BY <1>1
<1> HIDE DEF p
<1>10. TypeOK'
  <2>1. idle' \in [Pools -> SUBSET Conns]
    BY <1>2, <1>9 DEF TypeOK
  <2>2. QED
    BY <1>2, <1>3, <1>4, <2>1 DEF TypeOK
<1>11. Exclusive'
  <2>1. \A u, v \in Threads : tc'[u] = tc'[v] /\ tc'[u] # 0 => u = v
    BY <1>6, <1>7 DEF Exclusive
  <2>2. \A g \in Pools, u \in Threads : tc'[u] # 0 => tc'[u] \notin idle'[g]
    BY <1>5, <1>6, <1>8, ZenonT(60) DEF Exclusive, Held
  <2>3. \A g, h \in Pools : idle'[g] \cap idle'[h] # {} => g = h
    BY <1>5 DEF Exclusive
  <2>4. QED
    BY <2>1, <2>2, <2>3 DEF Exclusive, Held
<1>12. NoLeak'
  <2>1. \A x : x \in opened <=> \/ \E g \in Pools : x \in idle[g]
                                \/ x # 0 /\ \E u \in Threads : tc[u] = x
    BY NoLeakPointwise
  <2>2. \A x : (\E g \in Pools : x \in idle[g]) <=> x = c \/ \E g \in Pools : x \in idle'[g]
    BY <1>2, <1>5, <1>9
  <2>3. \A x : x # 0 => ((\E u \in Threads : tc'[u] = x)
                            <=> x = c \/ \E u \in Threads : tc[u] = x)
    BY <1>1, <1>6
  <2>4. \A x : x \in opened <=> \/ \E g \in Pools : x \in idle'[g]
                                \/ x # 0 /\ \E u \in Threads : tc'[u] = x
    BY <1>4, <2>1, <2>2, <2>3
  <2>5. QED
    BY <1>3, <2>4, NoLeakPointwisePrime
<1>13. ClosedStaysEmpty'
  BY <1>3, <1>5 DEF ClosedStaysEmpty, TypeOK
<1>14. IdleBounded'
  <2>1. idle[p] \in SUBSET Conns
    BY <1>9 DEF TypeOK
  <2>2. Cardinality(idle[p] \ {c}) <= Cardinality(idle[p])
    BY <2>1, IdleFinite, FS_RemoveElement
  <2>3. Cardinality(idle[p]) \in Nat /\ Cardinality(idle[p] \ {c}) \in Nat
    BY <2>1, IdleFinite
  <2>4. \A g \in Pools : Cardinality(idle[g]) \in Nat
    BY IdleFinite DEF TypeOK
  <2>5. \A g \in Pools : Cardinality(idle'[g]) \in Nat /\ Cardinality(idle'[g]) <= Cardinality(idle[g])
    <3>1. \A g \in Pools : g # p => idle'[g] = idle[g]
      BY <1>5
    <3>2. idle'[p] = idle[p] \ {c}
      BY <1>5, <1>9
    <3>3. QED
      BY <2>2, <2>3, <2>4, <3>1, <3>2
  <2>6. QED
    BY <1>3, <2>4, <2>5 DEF IdleBounded
<1>15. LockInv' /\ UseInv'
  BY <1>1, <1>3, <1>4, <1>6 DEF LockInv, UseInv, TypeOK
<1>16. QED
  BY <1>10, <1>11, <1>12, <1>13, <1>14, <1>15

\* A new connection goes straight into the hands of the thread that made it.
LEMMA GetCreateKeeps == ASSUME IInv, NEW t \in Threads, GetCreate(t) PROVE IInv'
<1> USE DEF IInv, PoolSound
<1> DEFINE c == nconns + 1
<1>1. /\ pc[t] = "create" /\ nconns' = c /\ nconns < MaxConns
      /\ opened' = opened \cup {c}
      /\ tc' = [tc EXCEPT ![t] = c] /\ pc' = [pc EXCEPT ![t] = "hold"]
      /\ UNCHANGED <<gpool, glock, npools, inited, shut, idle, tp>>
  BY DEF GetCreate, Goto, globalVars
<1>2. c \in Conns /\ c # 0 /\ c \in 0..MaxConns /\ nconns \in Nat
  BY <1>1 DEF TypeOK, Conns
<1>3. c \notin opened
  BY <1>2 DEF UseInv, TypeOK, Conns
<1>4. (\A g \in Pools : c \notin idle[g]) /\ (\A u \in Threads : tc[u] # c)
  BY <1>2, <1>3, NoLeakPointwise
<1>5. \A u \in Threads : tc'[u] = IF u = t THEN c ELSE tc[u]
  BY <1>1 DEF TypeOK
<1>6. tc[t] = 0 /\ tp[t] \in Pools
  BY <1>1 DEF UseInv
<1>7. c >= nconns
  BY <1>2
<1> HIDE DEF c
<1>8. TypeOK'
  BY <1>1, <1>2 DEF TypeOK
<1>9. Exclusive'
  <2>1. \A u, v \in Threads : tc'[u] = tc'[v] /\ tc'[u] # 0 => u = v
    BY <1>4, <1>5 DEF Exclusive
  <2>2. \A g \in Pools, u \in Threads : tc'[u] # 0 => tc'[u] \notin idle'[g]
    BY <1>1, <1>4, <1>5 DEF Exclusive, Held
  <2>3. QED
    BY <1>1, <2>1, <2>2 DEF Exclusive, Held
<1>10. NoLeak'
  <2>1. \A x : x \in opened <=> \/ \E g \in Pools : x \in idle[g]
                                \/ x # 0 /\ \E u \in Threads : tc[u] = x
    BY NoLeakPointwise
  <2>2. \A x : x # 0 => ((\E u \in Threads : tc'[u] = x)
                            <=> x = c \/ \E u \in Threads : tc[u] = x)
    BY <1>5, <1>6
  <2>3. QED
    BY <1>1, <1>2, <2>1, <2>2, NoLeakPointwisePrime
<1>11. ClosedStaysEmpty' /\ IdleBounded'
  BY <1>1 DEF ClosedStaysEmpty, IdleBounded
<1>12. LockInv'
  BY <1>1 DEF LockInv, TypeOK
<1>13. UseInv'
  <2>1. \A x \in opened' : x <= nconns'
    BY <1>1, <1>2, <1>7 DEF UseInv, TypeOK, Conns
  <2>2. QED
    BY <1>1, <1>2, <1>6, <2>1 DEF UseInv, TypeOK
<1>14. QED
  BY <1>8, <1>9, <1>10, <1>11, <1>12, <1>13

\* A connection goes back into a pool that has room and is not shut, or is closed.
LEMMA ReturnKeeps == ASSUME IInv, NEW t \in Threads, Return(t) PROVE IInv'
<1> USE DEF IInv, PoolSound
<1> DEFINE c == tc[t]
           p == tp[t]
<1>1. /\ pc[t] = "hold"
      /\ tc' = [tc EXCEPT ![t] = 0] /\ pc' = [pc EXCEPT ![t] = "idle"]
      /\ UNCHANGED <<gpool, glock, npools, inited, shut, nconns, tp>>
  BY DEF Return, Goto, globalVars
<1>2. c \in Conns /\ c # 0 /\ p \in Pools /\ c \in opened
  <2>1. c # 0 /\ p \in Pools
    BY <1>1 DEF UseInv
  <2>2. QED
    BY <2>1, NoLeakPointwise DEF TypeOK, Conns
<1>3. /\ \A u \in Threads : tc[u] = c => u = t
      /\ \A g \in Pools : c \notin idle[g]
  BY <1>2 DEF Exclusive, Held
<1>4. \A u \in Threads : tc'[u] = IF u = t THEN 0 ELSE tc[u]
  BY <1>1 DEF TypeOK
<1>5. LockInv'
  BY <1>1 DEF LockInv, TypeOK
<1>6. \A x : x # 0 => ((\E u \in Threads : tc[u] = x)
                          <=> x = c \/ \E u \in Threads : tc'[u] = x)
  BY <1>4
<1>7. \A x : x \in opened <=> \/ \E g \in Pools : x \in idle[g]
                              \/ x # 0 /\ \E u \in Threads : tc[u] = x
  BY NoLeakPointwise
<1>8. \A u, v \in Threads : tc'[u] = tc'[v] /\ tc'[u] # 0 => u = v
  BY <1>4 DEF Exclusive
<1>9. \A u \in Threads : tc'[u] # c
  BY <1>2, <1>3, <1>4
<1>10. CASE opened' = opened \ {c} /\ UNCHANGED idle
  <2>1. TypeOK'
    BY <1>1, <1>10 DEF TypeOK
  <2>2. \A g \in Pools, u \in Threads : tc'[u] # 0 => tc'[u] \notin idle'[g]
    BY <1>4, <1>10 DEF Exclusive, Held
  <2>3. Exclusive'
    BY <1>8, <1>10, <2>2 DEF Exclusive, Held
  <2>4. \A x : x \in opened' <=> \/ \E g \in Pools : x \in idle'[g]
                                 \/ x # 0 /\ \E u \in Threads : tc'[u] = x
    BY <1>2, <1>3, <1>6, <1>7, <1>9, <1>10
  <2>5. NoLeak'
    BY <2>4, NoLeakPointwisePrime
  <2>6. ClosedStaysEmpty' /\ IdleBounded'
    BY <1>1, <1>10 DEF ClosedStaysEmpty, IdleBounded
  <2>7. UseInv'
    BY <1>1, <1>4, <1>10 DEF UseInv, TypeOK
  <2>8. QED
    BY <1>5, <2>1, <2>3, <2>5, <2>6, <2>7
<1>11. CASE /\ p \notin shut /\ Cardinality(idle[p]) < MaxSize
            /\ idle' = [idle EXCEPT ![p] = @ \cup {c}] /\ UNCHANGED opened
  <2>1. /\ \A g \in Pools : g # p => idle'[g] = idle[g]
        /\ idle'[p] = idle[p] \cup {c}
    BY <1>2, <1>11 DEF TypeOK
  <2>2. TypeOK'
    <3>1. idle' \in [Pools -> SUBSET Conns]
      BY <1>2, <1>11 DEF TypeOK
    <3>2. QED
      BY <1>1, <1>11, <3>1 DEF TypeOK
  <2>3. \A g \in Pools, u \in Threads : tc'[u] # 0 => tc'[u] \notin idle'[g]
    <3>1. \A g \in Pools, u \in Threads : tc'[u] # 0 => tc'[u] \notin idle[g]
      BY <1>4 DEF Exclusive, Held
    <3>2. QED
      BY <1>9, <2>1, <3>1
  <2>4. \A g, h \in Pools : idle'[g] \cap idle'[h] # {} => g = h
    <3>1. \A g, h \in Pools : g # h => idle[g] \cap idle[h] = {}
      BY DEF Exclusive
    <3>2. \A g, h \in Pools : g # h => idle'[g] \cap idle'[h] = {}
      BY <1>3, <2>1, <3>1
    <3>3. QED
      BY <3>2
  <2>5. Exclusive'
    BY <1>8, <2>3, <2>4 DEF Exclusive, Held
  <2>6. \A x : (\E g \in Pools : x \in idle'[g]) <=> x = c \/ \E g \in Pools : x \in idle[g]
    BY <1>2, <2>1
  <2>7. \A x : x \in opened' <=> \/ \E g \in Pools : x \in idle'[g]
                                 \/ x # 0 /\ \E u \in Threads : tc'[u] = x
    BY <1>2, <1>6, <1>7, <1>11, <2>6
  <2>8. NoLeak'
    BY <2>7, NoLeakPointwisePrime
  <2>9. ClosedStaysEmpty'
    BY <1>1, <1>11, <2>1 DEF ClosedStaysEmpty, TypeOK
  <2>10. IdleBounded'
    <3>1. idle[p] \in SUBSET Conns /\ Cardinality(idle[p]) \in Nat
      BY <1>2, IdleFinite DEF TypeOK
    <3>2. Cardinality(idle[p] \cup {c}) <= Cardinality(idle[p]) + 1
      BY <3>1, IdleFinite, FS_AddElement
    <3>3. Cardinality(idle[p] \cup {c}) \in Nat
      BY <1>2, <3>1, IdleFinite
    <3>4. Cardinality(idle'[p]) <= MaxSize /\ Cardinality(idle'[p]) \in Nat
      <4>1. Cardinality(idle[p] \cup {c}) <= MaxSize
        BY <1>11, <3>1, <3>2, <3>3, SMTT(30)
      <4>2. QED
        BY <2>1, <3>3, <4>1
    <3>5. \A g \in Pools : g # p => Cardinality(idle'[g]) = Cardinality(idle[g])
      BY <2>1
    <3>6. QED
      BY <1>1, <3>4, <3>5 DEF IdleBounded
  <2>11. UseInv'
    BY <1>1, <1>4, <1>11 DEF UseInv, TypeOK
  <2>12. QED
    BY <1>5, <2>2, <2>5, <2>8, <2>9, <2>10, <2>11
<1>12. QED
  <2>1. Cardinality(idle[p]) \in Nat
    BY <1>2, IdleFinite DEF TypeOK
  <2>2. ~(Cardinality(idle[p]) >= MaxSize) => Cardinality(idle[p]) < MaxSize
    BY <2>1
  <2>3. QED
    BY <1>10, <1>11, <2>2 DEF Return

\* _shutdown is set; nothing else moves.
LEMMA ClosePoolKeeps == ASSUME IInv, NEW t \in Threads, ClosePool(t) PROVE IInv'
<1> USE DEF IInv, PoolSound
<1>1. /\ pc[t] = "idle" /\ glock = Free /\ gpool # 0 /\ glock' = t
      /\ shut' = shut \cup {gpool} /\ pc' = [pc EXCEPT ![t] = "closing"]
      /\ UNCHANGED <<gpool, npools, inited, idle, nconns, opened, tp, tc>>
  BY DEF ClosePool, Goto
<1>2. TypeOK'
  BY <1>1 DEF TypeOK, Pools
<1>3. Exclusive' /\ NoLeak' /\ IdleBounded'
  BY <1>1 DEF Exclusive, NoLeak, Held, IdleBounded
<1>4. ClosedStaysEmpty'
  BY <1>1 DEF ClosedStaysEmpty
<1>5. LockInv' /\ UseInv'
  BY <1>1 DEF LockInv, UseInv, TypeOK
<1>6. QED
  BY <1>2, <1>3, <1>4, <1>5

\* The global pool is emptied, its idle connections closed, and the global reset.
LEMMA CloseAllKeeps == ASSUME IInv, NEW t \in Threads, CloseAll(t) PROVE IInv'
<1> USE DEF IInv, PoolSound
<1>1. /\ pc[t] = "closing" /\ opened' = opened \ idle[gpool]
      /\ idle' = [idle EXCEPT ![gpool] = {}]
      /\ gpool' = 0 /\ glock' = Free /\ pc' = [pc EXCEPT ![t] = "idle"]
      /\ UNCHANGED <<npools, inited, shut, nconns, tp, tc>>
  BY DEF CloseAll, Goto
<1>2. glock = t /\ gpool \in Pools /\ \A u \in Threads : pc[u] \in {"init", "closing"} => u = t
  BY <1>1, OneLockHolder
<1>3. \A g \in Pools : idle'[g] = IF g = gpool THEN {} ELSE idle[g]
  BY <1>1, <1>2 DEF TypeOK
<1>4. TypeOK'
  BY <1>1, <1>2 DEF TypeOK
<1>5. Exclusive'
  BY <1>1, <1>3 DEF Exclusive, Held
<1>6. NoLeak'
  <2>1. \A x : x \in opened <=> \/ \E g \in Pools : x \in idle[g]
                                \/ x # 0 /\ \E u \in Threads : tc[u] = x
    BY NoLeakPointwise
  <2>2. \A x \in idle[gpool] : \A g \in Pools : x \in idle[g] => g = gpool
    BY <1>2 DEF Exclusive
  <2>3. \A x \in idle[gpool] : x # 0 => \A u \in Threads : tc[u] # x
    BY <1>2 DEF Exclusive, Held
  <2>4. \A x : x \in opened' <=> \/ \E g \in Pools : x \in idle'[g]
                                 \/ x # 0 /\ \E u \in Threads : tc'[u] = x
    BY <1>1, <1>2, <1>3, <2>1, <2>2, <2>3
  <2>5. QED
    BY <2>4, NoLeakPointwisePrime
<1>7. ClosedStaysEmpty'
  BY <1>1, <1>3 DEF ClosedStaysEmpty, TypeOK
<1>8. IdleBounded'
  <2>1. Cardinality({}) = 0
    BY FS_EmptySet
  <2>2. idle'[gpool] = {} /\ \A g \in Pools : g # gpool => idle'[g] = idle[g]
    BY <1>2, <1>3
  <2>3. QED
    BY <1>1, <2>1, <2>2 DEF IdleBounded
<1>9. LockInv'
  <2>1. \A u \in Threads : pc'[u] \notin {"init", "closing"}
    BY <1>1, <1>2 DEF TypeOK
  <2>2. QED
    BY <1>1, <2>1 DEF LockInv, TypeOK, Pools
<1>10. UseInv'
  BY <1>1 DEF UseInv, TypeOK
<1>11. QED
  BY <1>4, <1>5, <1>6, <1>7, <1>8, <1>9, <1>10

LEMMA InitIInv == Init => IInv
<1> SUFFICES ASSUME Init PROVE IInv
  OBVIOUS
<1>1. TypeOK /\ LockInv /\ UseInv
  BY DEF Init, TypeOK, LockInv, UseInv, Pools, Conns
<1>2. Exclusive /\ NoLeak /\ ClosedStaysEmpty
  BY DEF Init, Exclusive, NoLeak, ClosedStaysEmpty, Held
<1>3. IdleBounded
  BY FS_EmptySet DEF Init, IdleBounded
<1>4. QED
  BY <1>1, <1>2, <1>3 DEF IInv, PoolSound

LEMMA NextIInv == IInv /\ [Next]_vars => IInv'
<1> SUFFICES ASSUME IInv, [Next]_vars PROVE IInv'
  OBVIOUS
<1>1. CASE UNCHANGED vars
  BY <1>1 DEF vars, IInv, PoolSound, TypeOK, Exclusive, NoLeak, Held, ClosedStaysEmpty,
              IdleBounded, LockInv, UseInv
<1>2. CASE Next
  BY <1>2, MovesKeep, GetPoolLockedKeeps, PoolInitializeKeeps, TakeKeeps, GetCreateKeeps,
     ReturnKeeps, ClosePoolKeeps, CloseAllKeeps DEF Next, PoolStep, GetStep
<1>3. QED
  BY <1>1, <1>2

\* IInv is inductive.
THEOREM InductiveInvariant == Spec => []IInv
  BY InitIInv, NextIInv, PTL DEF Spec

\* Every socket is used by one thread at a time and accounted for, a closed pool stays
\* empty, and no pool keeps more connections than it may.
THEOREM PoolIsSound == Spec => []PoolSound
<1>1. IInv => PoolSound
  BY DEF IInv
<1>2. QED
  BY <1>1, InductiveInvariant, PTL
=============================================================================
