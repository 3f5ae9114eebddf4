------------------------------ MODULE ConnPool ------------------------------
(***************************************************************************)
(* core/runtime/connection_pool.py: ConnectionPool and the global pool     *)
(* behind get_pool and close_pool.  Pools and connections are numbered in  *)
(* the order of their creation.  A with-block of the pool's own lock is    *)
(* one step; the global lock is kept across several (glock).               *)
(***************************************************************************)
EXTENDS Naturals, FiniteSets

CONSTANTS
    Threads,        \* threads that use the pool
    Free,           \* the global _pool_lock is not held
    MinSize,        \* min_size
    MaxSize,        \* max_size
    MaxPools,       \* bound: pools created by get_pool
    MaxConns        \* bound: connections created

ASSUME PoolAssumption ==
    /\ Free \notin Threads
    /\ MinSize \in Nat /\ MaxSize \in Nat \ {0} /\ MinSize <= MaxSize
    /\ MaxPools \in Nat /\ MaxConns \in Nat

Pools == 1..MaxPools
Conns == 1..MaxConns

VARIABLES
    gpool,      \* the global _pool: a pool number, 0 for None
    glock,      \* owner of the global _pool_lock
    npools,     \* pools created so far
    inited,     \* pools whose initialize has run
    shut,       \* pools whose _shutdown is set
    idle,       \* idle[g]: the connections in g._pool
    nconns,     \* connections created so far
    opened,     \* connections that are open
    pc,         \* pc[t]: where thread t is
    tp,         \* tp[t]: the pool t works with
    tc          \* tc[t]: the connection t holds, 0 for none

vars == <<gpool, glock, npools, inited, shut, idle, nconns, opened, pc, tp, tc>>
globalVars == <<gpool, glock, npools, inited, shut>>

Init ==
    /\ gpool = 0 /\ glock = Free /\ npools = 0 /\ inited = {} /\ shut = {}
    /\ idle = [g \in Pools |-> {}]
    /\ nconns = 0 /\ opened = {}
    /\ pc = [t \in Threads |-> "idle"]
    /\ tp = [t \in Threads |-> 0]
    /\ tc = [t \in Threads |-> 0]

Goto(t, where) == pc' = [pc EXCEPT ![t] = where]

-----------------------------------------------------------------------------
(* get_pool *)

\* The first, unlocked test of _pool.
GetPool(t) ==
    /\ pc[t] = "idle"
    /\ Goto(t, IF gpool = 0 THEN "glock" ELSE "ret")
    /\ UNCHANGED <<globalVars, idle, nconns, opened, tp, tc>>

\* The second test, under the lock; _pool is published before initialize.
GetPoolLocked(t) ==
    /\ pc[t] = "glock"
    /\ glock = Free
    /\ \/ /\ gpool = 0
          /\ npools < MaxPools
          /\ npools' = npools + 1
          /\ gpool' = npools + 1
          /\ glock' = t
          /\ Goto(t, "init")
       \/ /\ gpool # 0
          /\ Goto(t, "ret")
          /\ UNCHANGED <<gpool, glock, npools>>
    /\ UNCHANGED <<inited, shut, idle, nconns, opened, tp, tc>>

\* initialize: min_size connections, less those that fail to connect.
PoolInitialize(t) ==
    /\ pc[t] = "init"
    /\ \E n \in 0..MinSize :
          LET new == (nconns + 1)..(nconns + n) IN
          /\ nconns + n <= MaxConns
          /\ nconns' = nconns + n
          /\ opened' = opened \cup new
          /\ idle' = [idle EXCEPT ![gpool] = @ \cup new]
    /\ inited' = inited \cup {gpool}
    /\ glock' = Free
    /\ Goto(t, "ret")
    /\ UNCHANGED <<gpool, npools, shut, tp, tc>>

\* return _pool reads the global once more, outside the lock.
GetPoolReturn(t) ==
    /\ pc[t] = "ret"
    /\ tp' = [tp EXCEPT ![t] = gpool]
    /\ Goto(t, IF gpool = 0 THEN "none" ELSE "get")
    /\ UNCHANGED <<globalVars, idle, nconns, opened, tc>>

\* The caller fails on the None it was given.
GotNone(t) ==
    /\ pc[t] = "none"
    /\ Goto(t, "idle")
    /\ UNCHANGED <<globalVars, idle, nconns, opened, tp, tc>>

-----------------------------------------------------------------------------
(* get_connection *)

\* Picks a connection without taking it out of the pool.
TakePeek(t) ==
    /\ \E c \in idle[tp[t]] : tc' = [tc EXCEPT ![t] = c]
    /\ Goto(t, "hold")
    /\ UNCHANGED <<globalVars, idle, nconns, opened, tp>>

\* self._pool.pop()
Take(t) ==
    /\ \E c \in idle[tp[t]] :
          /\ idle' = [idle EXCEPT ![tp[t]] = @ \ {c}]
          /\ tc' = [tc EXCEPT ![t] = c]
    /\ Goto(t, "hold")
    /\ UNCHANGED <<globalVars, nconns, opened, tp>>

GetPop(t) == pc[t] = "get" /\ Take(t)

\* Pool empty.
GetEmpty(t) ==
    /\ pc[t] = "get"
    /\ idle[tp[t]] = {}
    /\ Goto(t, "check")
    /\ UNCHANGED <<globalVars, idle, nconns, opened, tp, tc>>

\* The unlocked size test: it counts the connections in the pool.
GetCheck(t) ==
    /\ pc[t] = "check"
    /\ Goto(t, IF Cardinality(idle[tp[t]]) < MaxSize THEN "create" ELSE "wait")
    /\ UNCHANGED <<globalVars, idle, nconns, opened, tp, tc>>

GetCreate(t) ==
    /\ pc[t] = "create"
    /\ nconns < MaxConns
    /\ nconns' = nconns + 1
    /\ opened' = opened \cup {nconns + 1}
    /\ tc' = [tc EXCEPT ![t] = nconns + 1]
    /\ Goto(t, "hold")
    /\ UNCHANGED <<globalVars, idle, tp>>

\* connect raised; fall through to the waiting loop.
GetCreateFails(t) ==
    /\ pc[t] = "create"
    /\ Goto(t, "wait")
    /\ UNCHANGED <<globalVars, idle, nconns, opened, tp, tc>>

GetWaitPop(t) == pc[t] = "wait" /\ Take(t)

\* A waiting loop that only ends with a connection.
GetTimeoutNever(t) ==
    /\ pc[t] = "wait"
    /\ idle[tp[t]] # {}
    /\ Goto(t, "wait")
    /\ UNCHANGED <<globalVars, idle, nconns, opened, tp, tc>>

\* The waiting loop gives up: ConnectionError.
GetTimeout(t) ==
    /\ pc[t] = "wait"
    /\ Goto(t, "idle")
    /\ UNCHANGED <<globalVars, idle, nconns, opened, tp, tc>>

-----------------------------------------------------------------------------
(* return_connection and close_pool *)

Return(t) ==
    /\ pc[t] = "hold"
    /\ IF tp[t] \in shut \/ Cardinality(idle[tp[t]]) >= MaxSize
         THEN opened' = opened \ {tc[t]} /\ UNCHANGED idle
         ELSE idle' = [idle EXCEPT ![tp[t]] = @ \cup {tc[t]}] /\ UNCHANGED opened
    /\ tc' = [tc EXCEPT ![t] = 0]
    /\ Goto(t, "idle")
    /\ UNCHANGED <<globalVars, nconns, tp>>

\* close_pool and the first line of close_all: _shutdown is set before the lock.
\* The last pool the bound allows is not closed.
ClosePool(t) ==
    /\ pc[t] = "idle"
    /\ npools < MaxPools
    /\ glock = Free
    /\ gpool # 0
    /\ glock' = t
    /\ shut' = shut \cup {gpool}
    /\ Goto(t, "closing")
    /\ UNCHANGED <<gpool, npools, inited, idle, nconns, opened, tp, tc>>

\* The rest of close_all and close_pool.
CloseAll(t) ==
    /\ pc[t] = "closing"
    /\ opened' = opened \ idle[gpool]
    /\ idle' = [idle EXCEPT ![gpool] = {}]
    /\ gpool' = 0
    /\ glock' = Free
    /\ Goto(t, "idle")
    /\ UNCHANGED <<npools, inited, shut, nconns, tp, tc>>

-----------------------------------------------------------------------------
PoolStep(t) == \/ GetPool(t) \/ GetPoolLocked(t) \/ PoolInitialize(t)
               \/ GetPoolReturn(t) \/ GotNone(t)

GetStep(t) == \/ GetPop(t) \/ GetEmpty(t) \/ GetCheck(t) \/ GetCreate(t)
              \/ GetCreateFails(t) \/ GetWaitPop(t) \/ GetTimeout(t)

Next == \E t \in Threads :
           PoolStep(t) \/ GetStep(t) \/ Return(t) \/ ClosePool(t) \/ CloseAll(t)

Spec == Init /\ [][Next]_vars

\* A thread inside get_connection keeps running: connect and the polling loop both
\* end by themselves (settimeout, time.time() - start < timeout).
FairSpec == Spec /\ \A t \in Threads : WF_vars(GetStep(t))

-----------------------------------------------------------------------------
Held == {tc[t] : t \in Threads} \ {0}

TypeOK ==
    /\ gpool \in 0..MaxPools /\ npools \in 0..MaxPools
    /\ glock \in Threads \cup {Free}
    /\ inited \subseteq Pools /\ shut \subseteq Pools
    /\ idle \in [Pools -> SUBSET Conns]
    /\ nconns \in 0..MaxConns
    /\ opened \subseteq Conns
    /\ pc \in [Threads -> {"idle", "glock", "init", "ret", "none", "get", "check",
                           "create", "wait", "hold", "closing"}]
    /\ tp \in [Threads -> 0..MaxPools]
    /\ tc \in [Threads -> 0..MaxConns]

\* A socket is used by one thread at a time: never handed to two threads, never in
\* the pool while a thread uses it, never in two pools.
Exclusive ==
    /\ \A t, u \in Threads : tc[t] = tc[u] /\ tc[t] # 0 => t = u
    /\ \A g \in Pools : idle[g] \cap Held = {}
    /\ \A g, h \in Pools : idle[g] \cap idle[h] # {} => g = h

\* No socket is leaked or used after close: the open connections are exactly those
\* in a pool or in a thread's hands.
NoLeak == opened = (UNION {idle[g] : g \in Pools}) \cup Held

\* Once close_pool has returned its pool stays empty, whatever connections are still
\* out or are being taken out and returned later.
ClosedStaysEmpty == \A g \in shut : g # gpool => idle[g] = {}

\* A pool never keeps more than max_size connections, plus those initialize adds
\* when threads used the pool before it ran (it is published before).
IdleBounded ==
    \A g \in Pools : Cardinality(idle[g]) <= IF g \in inited THEN MaxSize + MinSize ELSE MaxSize

\* get_connection always returns or raises.
GetEnds ==
    \A t \in Threads : pc[t] = "get" ~> pc[t] \in {"hold", "idle"}

\* The pool accounts for its sockets: each is used by one thread at a time, every open
\* one is in a pool or in use, a closed pool stays empty, and no pool keeps more than
\* it may.
PoolSound == TypeOK /\ Exclusive /\ NoLeak /\ ClosedStaysEmpty /\ IdleBounded

-----------------------------------------------------------------------------
(* The inductive invariant (proved in ConnPoolProofs). *)

\* The global lock is held exactly inside get_pool's initialize and close_pool, and
\* then on a pool that stays the global one; only a pool being closed is both global
\* and shut.
LockInv ==
    /\ \A t \in Threads : pc[t] \in {"init", "closing"} <=> glock = t
    /\ glock # Free => gpool # 0
    /\ \A t \in Threads : pc[t] = "init" => gpool \notin inited \cup shut
    /\ gpool \in shut => \E t \in Threads : pc[t] = "closing"
    /\ gpool <= npools
    /\ \A g \in inited \cup shut : g <= npools

\* A thread inside get_connection works with a pool, holds a connection exactly until
\* it returns it, and connections are numbered below the next one to be created.
UseInv ==
    /\ \A t \in Threads : pc[t] \in {"get", "check", "create", "wait", "hold"} => tp[t] \in Pools
    /\ \A t \in Threads : tc[t] # 0 <=> pc[t] = "hold"
    /\ \A c \in opened : c <= nconns

IInv == PoolSound /\ LockInv /\ UseInv
=============================================================================
