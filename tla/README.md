# PyGo framework: TLA+ verification project

PyGo runs a Go web server that delegates its handlers to a supervised Python
process over a Unix-domain socket, with background jobs, connection pools,
WebSocket hubs, caches and a set of generators around that core.  This project
models the parts of it where the order of steps matters, checks them with TLC on
small instances and proves the central invariants with TLAPS for every instance.

`PROJECT.json` lists the components, runs, mutants, theorems, findings and
hazards, and maps every definition to the lines it models.

## 1. Inventory

| component | state | operations | interacts with | what is hard | what makes it correct |
|---|---|---|---|---|---|
| Supervisor (`core/runtime/runtime.go`, `socket/`) | mu, started, conn, ln, cmd | Start, Restart, Stop, Ready, CallPython | pyclient over the socket; router, job worker and hot reload as callers | concurrent calls, crashes, restarts during calls, accept timeout | an answer belongs to its call; one Python; nothing left running; every call returns |
| pyclient (`core/runtime/pyclient`) | connection, global current tenant | serve, dispatch | supervisor, handlers, `db.py` | tenant is a process-wide global | a call runs in its own tenant's database |
| Job queue in Go (`core/runtime/jobs/queue.go`) | table, channel, quit, default queue | Init, Enqueue, Get, worker loop, Shutdown | supervisor (executor), router | global read repeatedly, unlocked read, full channel, shutdown | a job runs at most once; its status only advances; stored jobs finish; the worker stops, and no lock is lost, unless a Shutdown overtakes a call |
| Redis job queue (`core/runtime/jobs.py`) | Redis keys, list, sorted set, dead letter list | enqueue, dequeue, process_next, complete, fail, requeue | Redis, worker processes | crash between commands, expiry, partial failure | bounded, counted attempts; one owner; everything queued ends |
| Connection pool (`core/runtime/connection_pool.py`) | idle list, global pool | get_pool, get_connection, return_connection, close_pool | threads, Go listener | unlocked tests, publication before initialisation, shutdown races | no sharing, no leak, closed stays empty |
| Circuit breaker (same file) | open, failures, last failure | circuit_breaker_call | any protected function | overlapping calls, late outcomes | fields agree, bounded failures, reopens |
| Queue package (`queue/queue.go`) | slice or Redis list, handlers, stop channel | Enqueue, Dequeue, Process, worker, Close | clients, handlers | retries against Close and cancellation | no loss or duplication, bounded executions, Close drains |
| WebSocket hub (`websocket/hub.go`) | client map, three channels, per-client channel | Run, HandleWS, Broadcast, pumps | peers | close of a channel by one goroutine while others use it, slow clients | no panic, no gap, nobody blocks the hub, full clean-up |
| Sessions, JWTs, CSRF tokens (`auth.py`, `security_middleware.py`) | tables with expiry, the secret of the process | create, get, refresh, destroy; encode, decode; generate, validate, sweep | the handlers; a restart empties the tables | expiry met late or never, refresh after it, restart with or without a fixed secret | no answer vouches for what is over; sweeps agree with validations |
| Rate limiters (both files) | times of admitted requests per key | is_allowed, check, get_remaining, reset | the handlers | window edges, types that share a key | never more than the limit in a window |
| Cache (`cache.py`) | entries with expiry, memory or Redis | get, set, delete, clear, remember | callbacks of remember, which may use the cache | delete during a callback, nested remember | stale only by that race |
| Workflow engine (`workflows.py`) | one current state shared by all instances, histories | start, trigger, cancel | guards, handlers, entry and exit callbacks | re-entrant triggers, callbacks that raise | histories end in the state, moves are declared |
| Python WebSockets (`websockets.py`) | subscriber lists, channel registries | subscribe, publish, broadcast, on, emit | callbacks | lists changed while they are walked | at most once per subscription, missed only by removals |
| Hot reload (`hot_reload.py`) | observer thread, `_running` | start, stop | watchdog, the callback | stop from the callback, stop during one, a callback that raises | `_running` tells the truth up to those |
| Module manager (`modules.py`, `pygo module`) | directory on disk, table per process | install, enable, disable, uninstall, load | other processes over the same directory | check then copy file by file, kills and errors half way, stale tables, two directories with one name | tables agree with the manifests on disk, what they list is complete or known to be cut short, installs never mix |
| Database layer (`db.py`) | pools by key, schema of a migration run | get, return; run_migrations | external drivers | pool keys that differ, connections of several databases under one key, a statement that fails half way | no connection to another database, with one exception; applied migrations stay |
| Seeding (`pygo db seed`) | users and posts in SQLite | insert, select, commit | another seeder | locks that are swallowed, kills | posts have authors, a finished seed is complete |
| Framed connections (`connection_pool.py`, `core/main.py`) | bytes in both directions of a pooled socket | send, recv; serve | the pool, the Go bridge | short reads, timeouts, reuse after a failure | answers are one's own |
| Email (`email.py`) | providers, the message object | send, add_provider, preview | the SMTP server | failure at any step of the dialogue, sending again | success is reported for deliveries, and only for them |
| Audit (`audit.py`) | the lazily made manager, its log | audit, find, export | threads | racing first calls | entries are found, once and in order |
| Locale (`i18n.py`) | current locale of a shared object | plural rules, Accept-Language, set_locale | requests | teens and round numbers, unknown languages | plurals per CLDR but for a known set of numbers, the language asked for if there is one |
| Source tools (`pygo_fmt.py`, `source_map.py`) | indentation level, source maps | format, inject, generate, translate | files of a project | state left by the file before, ties between comments | indentation is depth, errors point at a neighbour |
| Router and server (`core/runtime/router.go`), tenancy store, Go caches, Go auth and middleware, Go hot reload, backup, storage, bridge, second Go hub | routes, maps, timers | - | supervisor, files | - | not modelled, see section 6 |
| Generators, validators, most of the CLI | none across steps | text in, text out | files | - | out of scope |

## 2. Modules

| module | models | state and actions |
|---|---|---|
| `CallTypes` | payloads and results of a round trip | a payload is its caller, the number of the call and its tenant |
| `CallService` | abstract: what `CallPython` promises | Invoke, Execute, Answer, Lose, Refuse |
| `Supervisor` | `runtime.go`, `socket.go`, `pyclient` | callers (`CallPython` .. `CallEOF`), admins (`Start`, `Restart`, `Stop`, `Launch`, `Accept` and their failures), processes (`PyDial`, `PyRecv`, `PyReply`, `PyCrash`) |
| `GoJobs` | `jobs/queue.go` | Init and Shutdown in two steps each, every read of `defaultQueue` in `Enqueue` and `Get`, the worker, `mu` and what misusing it does |
| `PyJobs` | `jobs.py` on Redis | one action per Redis command, worker death, expiry |
| `ConnPool` | the pool and its global instance | one action per critical section or unlocked read |
| `CircuitBreaker` | `circuit_breaker_call` | entry, outcome and fallback of a call, the clock |
| `MemoryQueue` | `queue/queue.go` in memory | clients, workers, Close |
| `WsHub` | `websocket/hub.go` | hub loop client by client, HandleWS, pumps |

| `Dicts`, `Clock` | Python dictionaries; `time.time()` | Put, Drop; Tick |
| `Credentials` | sessions and JWTs of `auth.py`, CSRF tokens of `security_middleware.py` | one action per method, restarts of the process, the clock |
| `RateLimits` | the two limiters of those files | Request, IsAllowed, ResetKey, the clock |
| `CacheStore` | `cache.py` | backend operations, remember as a stack of calls, the application's changes |
| `Locale` | plural rules and choice of locale of `i18n.py` | SetFromHeader, SetFromCookie; the numbers are counted through |
| `Workflow` | `workflows.py` | a stack of frames: trigger, guard, handler, exit, entry, each free to call again |
| `PubSub` | `websockets.py` | a stack of deliveries over lists that change |
| `HotReload` | `hot_reload.py` | start, stop up to and after join, observer thread, callback that returns, stops or raises |
| `Modules` | `modules.py`, `pygo module` | processes that begin and are killed; install and uninstall file by file, each of which may raise; enable, disable |
| `Database` | external connections and migrations of `db.py`, `cmd_db_seed` of the CLI | three state machines in one module: pools, one migration run after another statement by statement, seeders |
| `DslTools` | `pygo_fmt.py`, `source_map.py` | a project read line by line; Compile, Inject, GenerateForFile |
| `MemoryJobs` | `jobs.py` without Redis, `JobScheduler`, `run_worker` | lookup, test, creation and append of each enqueue; lookup, test, pop and record of each worker |
| `Framing` | `FramedConnection`, `UDSHandler` of `core/main.py` | headers and bodies on each direction, short reads, timeouts |
| `Mail` | `email.py` | one message sent repeatedly, the SMTP dialogue step by step |
| `Audit` | `audit.py` | test, create, read again, log |

`MC*` modules give the constants values; `*Proofs` modules hold theorems: one for
each component that has a run of its own, and `ComponentProofs` for the components
that the shared runs exercise.  `MCServices` (what the process keeps for its handlers)
and `MCApplication` (what calls back into an application, and what outlives a process)
put them side by side.  These components share no variable (some in `MCServices` the
clock, and nothing else), so a behaviour of their composition is an interleaving of independent ones, and a property of one component depends on its own
steps only: a variable `part`, chosen initially, says which component a behaviour
exercises, and the others stay in their initial states.

Definitions that differ from their neighbour by one plausible mistake
(`StopLockedNoKill`, `TakePeek`, ...) belong to no specification: they are the
mutants that show each property can fail.

Abstractions used throughout:

* A critical section under one lock is one action; whatever the code does
  outside a lock is an action of its own.  Where the code reads a global several
  times the model reads it as often.  The exception to the first rule is `GoJobs`,
  whose `mu` is a variable, because its critical section reads the global again and
  may end with the lock of another queue.
* One file is copied or removed in one step, and a directory is loaded in one step
  (`Modules`); copying and removing a directory is as many steps as it has files.
* Lists that replace one another in a dictionary are numbered (`MemoryJobs`), so that
  a thread may hold on to one that has been replaced.
* Payloads, results and messages are identities.  The socket carries whole
  frames; a frame that cannot be decoded is consumed and reported, as `Recv`
  does.  Processes, pools and queues are numbered in the order of creation.
* Go's unbuffered channel hand-over is one step; a blocking send on a buffered
  channel is an action that is enabled while there is room.
* Tables with expiry carry, beside the code's fields, history variables that say
  what has happened to an entry (destroyed, turned away, purged, admitted when);
  the properties compare the table with that history.
* Threads of the Python process are modelled only where the code starts them or
  takes a lock (pool, breaker, jobs, audit, connections, hot reload); the worker
  runs one handler at a time, so the stores and the workflow engine are
  sequential up to callbacks.
* The list of a rate limiter is the set of its requests, told apart by their
  place in the order of admission, because the code asks how many are recent and
  never which came first.  A file with source-map comments is given by the set of
  its tracked lines (`Injected`): line and comment stand where the loop of
  `inject_source_map_comment` puts them.
* Numbers of i18n are counted from 0 to `MaxCount`; locale tags are a language
  as a tuple of letters, because the code compares prefixes, and a country.
* `MaxLaunches`, `MaxCalls`, `MaxQueues`, `MaxPools`, `MaxConns`, `MaxCrashes`,
  `MaxMsgs`, `MaxTime`, `MaxTokens`, `MaxManagers`, `MaxAdmitted`, `MaxVersion`,
  `MaxOps`, `MaxLists`, `MaxNesting`, `MaxDepth`, `MaxChannels`, `MaxList`,
  `MaxSends`, `MaxSendDepth`, `MaxChanges`, `MaxDbConns`, `MaxRequests`, `MaxMails`,
  `MaxEntries`, `MaxFileLines` and `MaxCount` bound counters that the code leaves
  unbounded.

How `Supervisor` corresponds to the code: `mu` is `Supervisor.mu`, held by a
caller from `CallBegin` to `Return` as the deferred unlock does, and by an admin
from `Start` or `Restart` until `Accept`, `AcceptFails` or `LaunchFails`.  The
code of Start and of Restart after the stop is the same and is modelled once.
`toPy`, `cur` and `toGo` are the two directions of the connection and the request
being executed.  `PyCrash` covers every way `serve` ends by itself.  `Ready` is
also the test `CallPython` makes.

## 3. Runs

Each concurrent component has one run that checks its safety and its liveness under
its fair specification, the smaller ones share the two runs described above; each
run that ends in a violation shows a disagreement between the code and a line of its
own documentation. Named properties are conjunctions where their parts belong
together: `PoolSound`, `AttemptsSound`, `QueueSound`, `HubSound`, `BreakerSound` and
`ProcessLifecycle` contain the type invariant or several invariants, `JobsServed`,
`QueueServed` and `HubServed` the liveness properties of a component.

| run | result | question |
|---|---|---|
| `Supervisor` | pass | answers, tenants, process life cycle, refinement of `CallService`, every CallPython returns |
| `GoJobs` | pass | at most one execution, status only advances; stored jobs finish, the worker stops and no lock is lost, but for what a Shutdown that overtakes a call breaks |
| `GoJobs_shutdown` | violation | does Shutdown stop the worker, whatever requests are doing? No: an Enqueue between its Lock and its store loses the lock |
| `CircuitBreaker` | pass | consistent state, bounded failures, the circuit closes again |
| `ConnPool` | pass | exclusive use, no leak, closed stays empty, get_connection ends |
| `PyJobs` | pass | attempts, ownership, dead letters, every queued job ends |
| `PyJobs_backoff` | violation | do retries wait for their delay? No: the ready list is used |
| `MemoryQueue` | pass | conservation, bounded executions, Close |
| `WsHub` | pass | no panic, no gap, hub never blocked, clean-up |
| `Services` | pass | answers of the stores against what has expired, ended or been purged; windows; for which numbers the plural rules deviate; jobs in memory, framed answers, mail and audit entries |
| `Services_plurals` | violation | are the plural rules those of CLDR? No: Polish has no form for 0 |
| `Application` | pass | histories, deliveries and flags under callbacks that call again; modules directory, pools, migrations, seeds and source tools over kills and failures |

### Bounds

* `Supervisor`: two callers with two calls each, so that a frame left behind by
  a first call could be read by a second one of the same or of another caller;
  two admins and two launches, so that an old process and a new one could
  coexist.  One tenant beside NoTenant is enough for calls of different tenants to
  follow each other in both orders.
* `GoJobs`: channel capacity 1 with two jobs makes a sender block; two queues
  let Shutdown and Init come between any two reads of Enqueue and of the one Get.
  `GoJobs_shutdown` needs one queue, two jobs and no Get.
* `CircuitBreaker`: threshold 2 with three threads, so that late failures arrive
  after the circuit opens; timeout of two ticks.
* `ConnPool`: `max_size` 1 with three threads forces surplus connections; two
  global pools let threads hold connections of a closed one.
* `PyJobs`: two workers, two jobs, two retries, one death.
* `MemoryQueue`: three jobs, two workers, two retries.
* `WsHub`: send capacity 1 against three messages overflows every client.
* `Services`, stores: lifetimes of one tick, a CSRF expiry of two and a window
  of three, over four ticks, so that every entry can be met before, at and after
  its expiry and a window can pass completely; limits 1 and 2 for types that
  share a key; three managers of JWTs, of before and after restarts; two nested
  calls of remember; numbers up to 230, beyond two periods of the moduli.
* `Services`, deliveries: two workers and two jobs, one of them scheduled, two
  retries, two lists (each enqueue stores one at most); two connections, two
  callers, three requests; three calls of send; three auditing threads.
* `Application`, callbacks: two instances, an arrow to an unknown state and one
  that was not added, two triggers in each other; lists of three subscriptions
  of two callbacks, two deliveries in progress, two changes each.
* `Application`, what outlives a process: two processes, two directory names,
  two modules of which one brings `.enabled`, four installs and uninstalls begun
  (install, remove and install again beside an operation of the other process);
  three migrations of two statements, which may or may not be undone; two
  seeders and two addresses; files of five lines, generated files of four lines
  with every set of tracked lines.

Symmetry is used in `Application` only, which has no temporal property beyond an
action property: processes and directory names are interchangeable.
Deadlock checking is off where the system may stop: all requests answered, all
jobs ended, all messages sent.

### Fairness

* Goroutines and threads that can take a step are scheduled (weak fairness of
  their steps); nothing is assumed of clients, peers, crashes or administrators.
* `Supervisor`: strong fairness of taking `mu`, since `sync.Mutex` hands the lock
  to a waiter it has starved for a millisecond.  Handlers return; without that
  assumption CallPython has no bound, because `Recv` has no deadline.
* `GoJobs`: a call that has begun goes on, a worker too, and a lock that comes free is
  taken by one that waits for it (each contender takes it a bounded number of times);
  the executor returns.  Nothing is assumed once a fatal error has ended the process.
* `CircuitBreaker`: time passes, a fallback returns, some waiting thread gets the
  lock.  `CircuitReopens` is conditional on calls that keep coming.
* `PyJobs`: `QueuedJobEnds` is stated for behaviours without deaths and expiries,
  because `rpop` removes a job for good.
* `WsHub`: `select` chooses at random among ready cases, hence strong fairness of
  Register and Unregister.  Reads and writes on an open connection may hang for
  ever; on a closed one they fail.

* `MemoryJobs`: the workers' loops and an enqueue that has begun go on (`MemFairness`);
  `MemJobEnds` ends where both workers have died of a lost race, and excepts a job that
  was left in a replaced list.
* The other components of the shared runs have no liveness property: nothing in
  them waits, or (hot reload, SMTP) what they wait for is not theirs.

## 4. Proofs

All proofs hold for every value of the constants under the named assumptions of
the modules (counts are natural numbers, marker values such as `Free` and
`NoJob` are not members of the sets they are added to, `Threads` of the circuit
breaker is finite).

* **Supervisor.** `OwnResponse` is not inductive: it needs to know that a caller
  waiting in Recv is the holder of `mu` (`MutexInv`), that the connection it reads
  belongs to the only live process (`ProcInv`), and that exactly its own request is
  in flight there, in one of three places, or the process is dead and the wire empty
  (`WireInv`); `RanInv` adds that a request not yet sent has not run. `IInv` is
  their conjunction with the type invariant. Each action has a lemma. `OwnResponse`,
  `TenantIsolation`, `OnePython`, `StoppedMeansDead` and `NoOrphanRun` follow, the
  last three together as `LifecycleSafe`, and `SupervisorImplementsService` shows
  that every step is a step of `CallService` or leaves its variables alone.
* **GoJobs.** `RunAtMostOnce` needs that a job in a channel is there once and has
  not run (`ChanInv`), that a job a worker holds is held by it alone (`WorkInv`),
  and that a job not yet sent has not run (`EnqInv`).  None of this relies on `mu`,
  so it holds although the lock may be lost: one goroutine takes jobs off a channel and
  one sends each.  `StatusAdvances` is an action property that follows from the same
  invariant.  `QueueIntact`, which is about the lock, is part of `JobsServed` and stays
  with TLC.
* **CircuitBreaker.** `FailuresBounded` needs room for the calls under way:
  failures plus calls in `func` stay within the bound (`RoomInv`), a counting
  argument over the cardinality of `Calling`.  `BreakerIsSound` joins it with
  `StateConsistent`.

* **ConnPool.** `PoolSound` needs two more facts.  `LockInv`: the global lock is
  held exactly inside `initialize` and `close_pool`, on a pool that stays the
  global one, and only a pool being closed is both global and shut; that is why a
  closed pool stays empty.  `UseInv`: a thread has a connection exactly from
  `get_connection` to its return, and the next connection made is new.  Sockets are
  then partitioned into idle, held and closed, and each action moves one of them
  (`close_pool` a whole pool) from one part to another.
* **PyJobs.** `OwnInv` says that a job is in one place (the queue, the dead
  letters, or one worker), once; `EnqInv` that it is in none before it is queued.
  `CountInv` and `WorkInv` say what a worker's copy of the record and the key in
  Redis know of the number of executions, by where the worker is; a worker may
  die at any point and the key may expire.  `OneOwner` follows from the first
  two, `AttemptsSound` from the last two.
* **MemoryQueue.** `OwnInv` is conservation one job at a time: a live job is in the
  slice or with one worker; `CountInv` relates executions to attempts, by where
  the job is; `CloseInv` says that a closed queue is stopped, so that nobody polls
  it again.
* **WsHub.** `NoGap` needs to know where the stream of a client stands while the hub
  is half-way through its clients.  `LoopInv`: those still to be served are in the
  map, their channels are open, and the broadcast channel holds the messages after
  the one in hand.  `StreamInv`: what was written and what waits are unbroken runs,
  the second after the first, and both reach to the last message offered to this
  client (`LastFor`).  `RegisterInv`: a client not yet registered has neither.

`ComponentProofs` gives each component of the shared runs a specification of its own
(`CredSpec`, `RateSpec`, `WfSpec`, ...): what the run does while `part` names the
component.  `CredSpec` goes further than the run and puts the three tables of
credentials under one clock in one process.

* **Credentials.** `TableInv`: an entry of the session table was issued, is not over,
  and expires a lifetime after its last renewal; `AnswerInv` and `JwtInv` carry
  the soundness of the last answer.  `NoSessionResurrects` and the action
  property `CsrfTokensEndByAge` follow, over restarts and sweeps.
* **RateLimits.** `RateWindow` is a statement about now; `OnlyOldForgotten` says that
  what a list has lost has left the window, which time cannot undo.
* **CacheStore.** Values older than the last delete are marked, in the table and in the
  calls of remember that have yet to store them (`CacheIInv`).
* **Workflow.** `CallInv` says what a call that nobody overtook still relies on;
  `HistoryInv` that an instance that nobody disturbed ends where the workflow is,
  unless the outermost call is about to record it.
* **PubSub.** Calls made and calls still owed to a callback are at most its
  subscriptions at the beginning and since; the length of the list and the removals
  balance those at the beginning and the additions (`WalkInv`).  A removal before
  the index moves a subscriber into a visited place: that case is the reason for
  counting both together.
* **Modules.** `CopyInv`: a process that copies is the only one in its directory, and
  what it has copied is there, unless somebody removes it.  `CompleteInv`: a
  directory is complete, or an operation on it is in progress or was cut short.
  `TwiceInv` finds names that two directories share, `AgreeInv` compares each table
  that nobody has overtaken with the disk, file by file, also while its own process
  copies or removes.  `InstallsNeverClobber` is the action property: a file is written
  by the one who copies, and what is there already has the same source.
* **Database.** Three invariants: connections by their key, those of drivers without
  `info` under the default key (`DbPoolIInv`), the run in
  progress by its statement (`MigIInv`), and the first seeder to write, who keeps
  the lock until all users are committed (`SeedIInv`).
* **MemoryJobs.** As for Redis: on its way, in one place, and at its end
  (`MemPlaceInv`), where a place is a place in any list, replaced or not.  `LookInv`:
  whoever looked the list up found one.  `SafeInv`: once the list is settled, no enqueue
  will replace it, and a job enqueued since then is appended to it alone.
* **Framing.** A connection is idle and empty, or belongs to one thread and carries one
  of five states of its exchange (`OnItsWay`), or something failed on it.
* **Audit.** Each log is ordered; from the moment a thread begins with all settled
  there is one manager for good, and it has that thread's entries.
* **HotReload, Mail, Locale.** Short invariants over one object.  The plural rules are
  compared with CLDR for every number, by arithmetic modulo 10 and 100: they differ for
  the numbers of `Deviates` and for no other.
* **DslTools.** `FmtIInv`: while a file's braces match, the level is the number of
  open blocks, or less once a line with both braces was met. `SmapIInv`: the
  generated file is `Injected(tracked)` for some set of tracked lines, in which
  positions are spread by `Moved`, at least two apart after a tracked line;
  `Translate` then chooses the nearer of two neighbours. That a least such neighbour
  exists is shown with `WFMin` of the library.

The assumptions are the named `ASSUME`s of the modules: bounds are natural numbers,
marker values are outside the sets they extend, and the few that say more are those
the code justifies: the clock starts later than a window or an expiry
(`RateAssumption`, `CredentialsAssumption`), there is a default request type besides
that of `auth.py`, the name of a database leads to that database
(`DatabaseAssumption`), `MaxSize` is not zero (`PoolAssumption`).

Every safety invariant and action property of the passing runs is stated by a
theorem.  The inductive invariants were checked by TLC before they were proved.
What stays with TLC: liveness, because fairness and ENABLED are outside the provers
available (`CallReturns`, `JobsServed`, `CircuitReopens`, `GetEnds`, `QueuedJobEnds`,
`QueueServed`, `HubServed`, `MemJobEnds`), and the three violations.
Induction theorems with an operator as a parameter cannot be used; where a proof
needs induction over lines it argues by a least counterexample in a set.

## 5. Findings and divergences

Three runs end in a violation of what the code says of itself.

* `PyJobs_backoff`: retries start with no delay although the docstring of `jobs.py`
  (line 4) promises exponential backoff.
* `GoJobs_shutdown`: `Enqueue` reads `defaultQueue` for Lock, store, Unlock and send
  (`jobs/queue.go:78-81`).  A Shutdown after the Lock makes the store dereference nil;
  `net/http` recovers, `mu` of the old queue stays locked, and the worker waits for it
  for ever, though Shutdown "stops the worker goroutine (graceful)" (line 164).
  `WorkerStops` in `GoJobs` shows that this, or a fatal error, is the only way.
* `Services_plurals`: the rules are not those "per CLDR" (`i18n.py:24`).  Polish has no form
  for many (0, 5, 12, 21), Russian answers "other" for 21 to 24, 30, 31 and the like,
  Arabic for 103 and what follows in each hundred.  `LocaleSound` in `Services` says for which
  numbers, and that they agree everywhere else.

The following were met while modelling; the models contain the code's behaviour and
the properties are stated so that they hold for it.

Processes, pools and queues:

* `Ready` stays true after the Python process has died by itself
  (`runtime.go:209`; line 205 says "connected and serving").
* `EnqueueJob` reads the status after the hand-over and may answer running or
  done (`jobs/queue.go:107`; lines 65-66 say `status=queued`).
* An Init between the reads of `Enqueue` makes it store in the map of another queue
  without its lock and unlock a mutex that is not locked, which ends the process; the
  deferred RUnlock of `Get` (`jobs/queue.go:95`) may do the same.  A job may be stored in
  one queue and sent to another.  `router.go` calls Init only, so a Shutdown beside
  requests takes an embedding program.
* Two first enqueues that race in memory each find no list, and the second to store one
  replaces the first (`jobs.py:100-102`): a job appended to the replaced list keeps its
  record and is never run.  `MemJobsSafe` shows that it happens to no job enqueued later.
* `max_size` is compared with the idle connections, so it does not bound the open
  ones (`connection_pool.py:69`).
* `get_pool` returns None when `close_pool` comes between its test and its return
  (`connection_pool.py:168`); `ConnPool` reaches that step, `GotNone`.
* A success of a call that was under way closes an open circuit before its timeout
  (`connection_pool.py:216`, against the comment of line 185).
* A job that dies is never written as dead, `get_job` answers processing
  (`jobs.py:145`); a job enqueued for later goes to `jobs:delayed`, which nothing
  reads (`jobs.py:95`); `run_ready_jobs` enqueues a ready job again on every call
  (`jobs.py:228`); with the memory backend a worker that loses the race for the
  last entry ends with IndexError (`jobs.py:116`).
* `enqueue_job`, `run_worker`, `create_session`, `create_jwt`, `send_async` and
  the functions of `i18n.py` make an object of their own each time, whose tables
  nobody else sees.

Stores and credentials:

* `refresh_session` renews a session that has expired and that nobody has looked
  up since (`auth.py:134`).
* `detect_locale` answers what a session or a cookie says, unchecked
  (`i18n.py:216`); all locales use the English plural rule, because none sets
  another, which is wrong for 0 in fr-FR (`PluralsExact`); `format`
  looks for `{key, plural}` while `_extract_plural` expects `{key, plural, one{`, so
  a plural message is left as it is.

Callbacks:

* The current state belongs to the workflow and not to its instances
  (`workflows.py:51`): one instance's move disturbs the others.
* A reloader cannot be started again after it was stopped, since its observer
  thread cannot; stop from the callback raises and leaves `_running` set.
* The handlers call the callback without a try (`hot_reload.py:30`, `38`): one that raises
  ends the observer thread, nothing is watched any more and `_running` stays set.
* Replacing a channel (`create_channel`) drops its subscribers silently.

Files and databases:

* `copytree` and `rmtree` (`modules.py:139`, `189`) may be killed or raise half way, and
  nothing is undone.  A directory that has its manifest is loaded as a module whatever
  else is missing (`modules.py:104`); `ManagerAgrees` allows that for such directories only.
* An uninstall in another process may remove the directory of an install under way; a
  third process may then install there, and the two copies mix.
* `on_install` is looked up before a fresh module is in the table, so that its
  hook never runs (`modules.py:141`).
* `run_migrations` keeps no record of what was applied: a second run executes
  everything again and may undo what the first one made.
* Connections are looked up by path and returned by database name, and drivers
  whose `info` is no dictionary raise on return (`db.py:84`).  Drivers without `info`
  return every connection under `default`, so that somebody who asks for the path
  `default` may be handed one to any of their databases; `DbPoolSafe` shows that no other
  request is.
* `_parse_mysql_url` asks for a group its pattern does not have.
* A seeder passes over what it cannot write while another one holds the lock
  (`pygo.py:167`).
* A line with both braces takes one indentation from what follows
  (`pygo_fmt.py:59-60`); an error on a tracked line just after another tracked
  line is reported as that one (`source_map.py:64`).

Mail and audit:

* A message is marked sent although SMTP failed (`email.py:284`), and sending it
  again renders the rendered body once more; without a template file the body is
  replaced by the literal text `{{body}}` (`email.py:90`, the placeholder that is
  replaced has spaces).
* `retention_days` is never used (`audit.py:66`), and entries that racing first
  calls log to a replaced manager are not found.

## 6. Not modelled, and the plan

The order from here:

1. Proofs: an abstract queue (accepted, running, ended, attempts used) that `PyJobs`,
   `MemoryJobs` and `MemoryQueue` implement, as `Supervisor` implements `CallService`;
   the sockets of `ConnPool` as a pool of tokens; the messages of `WsHub` as one log
   with a position per client.  Their inductive invariants are in place, so that what
   remains is one case per action.
2. If time allows, the Go side: the signal goroutine and `ListenAndServe` around
   the supervisor, the debounce of the Go watchers, `cache.go` with its janitor,
   the second hub (whose register channels have no reader), the tenancy store.

Left out for good: generators of REST handlers, admin panels, reports and OpenAPI
documents, validators, the syntax validator and the formatting of dates and
numbers (text in, text out, no state across steps); cryptography (a signature is
the secret that made it); password hashing and OAuth; the query helpers of `db.py`
(one SQL statement each); the commands that copy templates or run a tool; and
external services (Redis, SMTP, watchdog, drivers), which appear only through the
outcomes their callers distinguish.
