----------------------------- MODULE CacheStore -----------------------------
(***************************************************************************)
(* core/runtime/cache.py: the default cache with either backend.  The      *)
(* worker runs one handler at a time, but the callback of remember may     *)
(* itself use the cache, so calls of remember nest.  A cached value is the *)
(* version of the data it was computed from; the data belongs to the       *)
(* application, which changes it and deletes the key.                      *)
(***************************************************************************)
EXTENDS Clock, Dicts, Sequences

CONSTANTS
    CacheKeys,      \* keys
    Ttls,           \* values of ttl; 0 stands for None and 0, never expires
    MaxVersion,     \* bound: versions of the data
    MaxNesting      \* bound: calls of remember in progress

VARIABLES
    backend,    \* "memory" or "redis"
    store,      \* key -> [val, expires (0: never), raced]
    data,       \* data[k]: the version of the application's data behind k
    purged,     \* history: the version when k was last deleted or cleared
    calls       \* remember calls in progress, innermost last:
                \*   [key, ttl, val (0: not read yet), raced]

cacheVars == <<backend, store, data, purged, calls>>

CacheInit ==
    /\ backend \in {"memory", "redis"}
    /\ store = EmptyDict
    /\ data = [k \in CacheKeys |-> 1]
    /\ purged = [k \in CacheKeys |-> 1]
    /\ calls = <<>>

\* MemoryCache keeps an entry until now > expires_at, Redis until now >= it.
Live(k) ==
    /\ k \in DOMAIN store
    /\ LET e == store[k].expires IN
       e = 0 \/ now < e \/ (backend = "memory" /\ now = e)

\* MemoryCache deletes an expired entry that is looked up.  Redis drops it
\* by itself; nobody can see when.
Looked(k) == IF k \in DOMAIN store /\ ~Live(k) THEN Drop(store, {k}) ELSE store

Entry(v, ttl, raced) ==
    [val |-> v, expires |-> IF ttl = 0 THEN 0 ELSE now + ttl, raced |-> raced]

Get(k) ==
    /\ store' = Looked(k)
    /\ UNCHANGED <<backend, data, purged, calls>>

Set(k, ttl) ==
    /\ store' = Put(store, k, Entry(data[k], ttl, FALSE))
    /\ UNCHANGED <<backend, data, purged, calls>>

\* A delete or clear that comes while a callback has read the data already
\* cannot reach the value that remember is going to store.
Overtaken(ks) ==
    [i \in DOMAIN calls |->
        IF calls[i].key \in ks /\ calls[i].val # 0
        THEN [calls[i] EXCEPT !.raced = TRUE] ELSE calls[i]]

Purge(ks, table) ==
    /\ store' = table
    /\ purged' = [k \in CacheKeys |-> IF k \in ks THEN data[k] ELSE purged[k]]
    /\ calls' = Overtaken(ks)
    /\ UNCHANGED <<backend, data>>

\* Lets the entry expire instead of removing it.
DeleteByExpiry(k) ==
    Purge({k}, IF k \in DOMAIN store
               THEN [store EXCEPT ![k].expires = now] ELSE store)

Delete(k) == Purge({k}, Drop(store, {k}))

Clear == Purge(CacheKeys, EmptyDict)

\* The application changes its data.
Change(k) ==
    /\ data[k] < MaxVersion
    /\ data' = [data EXCEPT ![k] = @ + 1]
    /\ UNCHANGED <<backend, store, purged, calls>>

RememberHit(k) ==
    /\ Live(k)
    /\ UNCHANGED cacheVars

\* A miss: the callback begins.
RememberMiss(k, ttl) ==
    /\ ~Live(k)
    /\ Len(calls) < MaxNesting
    /\ store' = Looked(k)
    /\ calls' = Append(calls, [key |-> k, ttl |-> ttl, val |-> 0, raced |-> FALSE])
    /\ UNCHANGED <<backend, data, purged>>

top == calls[Len(calls)]
Pop == SubSeq(calls, 1, Len(calls) - 1)

\* The callback reads the data.
CallbackReads ==
    /\ calls # <<>> /\ top.val = 0
    /\ calls' = [calls EXCEPT ![Len(calls)].val = data[top.key]]
    /\ UNCHANGED <<backend, store, data, purged>>

\* The callback returns: set, and remember returns.
CallbackReturns ==
    /\ calls # <<>> /\ top.val # 0
    /\ store' = Put(store, top.key, Entry(top.val, top.ttl, top.raced))
    /\ calls' = Pop
    /\ UNCHANGED <<backend, data, purged>>

\* A stored None is a miss for get and remember alike: as if nothing were stored.
CallbackReturnsNone ==
    /\ calls # <<>> /\ top.val # 0
    /\ store' = Drop(store, {top.key})
    /\ calls' = Pop
    /\ UNCHANGED <<backend, data, purged>>

\* The exception passes through remember; nothing is stored.
CallbackRaises ==
    /\ calls # <<>>
    /\ calls' = Pop
    /\ UNCHANGED <<backend, store, data, purged>>

CacheNext ==
    \/ Tick /\ UNCHANGED cacheVars
    \/ /\ UNCHANGED now
       /\ \/ \E k \in CacheKeys :
                \/ Get(k) \/ Delete(k) \/ Change(k) \/ RememberHit(k)
                \/ \E ttl \in Ttls : Set(k, ttl) \/ RememberMiss(k, ttl)
          \/ Clear \/ CallbackReads
          \/ CallbackReturns \/ CallbackReturnsNone \/ CallbackRaises

-----------------------------------------------------------------------------
(* Properties *)

\* After delete or clear the cache serves no value that was computed from
\* older data, with one exception that remember has: a callback that had
\* read the data before the delete stores its value after it.
StaleOnlyByRace ==
    \A k \in CacheKeys :
        Live(k) /\ store[k].val < purged[k] => store[k].raced

\* The inductive invariant: a value that was read before the last delete of
\* its key is marked, in the table and in the calls that will store it.
CacheIInv ==
    /\ data \in [CacheKeys -> Nat \ {0}] /\ purged \in [CacheKeys -> Nat]
    /\ \A k \in CacheKeys : purged[k] <= data[k]
    /\ calls \in Seq([key : CacheKeys, ttl : Ttls, val : Nat, raced : BOOLEAN])
    /\ \A i \in DOMAIN calls :
          calls[i].val # 0 /\ calls[i].val < purged[calls[i].key] => calls[i].raced
    /\ \A k \in DOMAIN store :
          k \in CacheKeys /\ (store[k].val < purged[k] => store[k].raced)
=============================================================================
