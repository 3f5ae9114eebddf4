------------------------------ MODULE HotReload ------------------------------
(***************************************************************************)
(* core/runtime/hot_reload.py: HotReloader and its watchdog observer       *)
(* (external: a thread that can be started once and cannot join itself).   *)
(* DevServer and watch start and stop it; the observer calls back for      *)
(* .pgo files, and the callback may stop and start the reloader itself.    *)
(***************************************************************************)
EXTENDS Naturals

CONSTANTS
    Dirs            \* watch_dirs

VARIABLES
    exists,     \* directories that exist
    observer,   \* the observer thread: "new", "alive", "stopping" or "dead"
    watched,    \* directories scheduled with the observer
    running,    \* HotReloader._running
    joining,    \* a stop is waiting in observer.join()
    changed,    \* watched directories with a change to report
    calling,    \* the observer thread is in the callback
    selfStop,   \* history: stop was called by the callback
    raised      \* history: the callback has raised

hrVars == <<exists, observer, watched, running, joining, changed, calling, selfStop, raised>>

HrInit ==
    /\ exists \in SUBSET Dirs
    /\ observer = "new" /\ watched = {} /\ running = FALSE /\ joining = FALSE
    /\ changed = {} /\ calling = FALSE /\ selfStop = FALSE /\ raised = FALSE

MakeDir(d) ==
    /\ d \notin exists
    /\ exists' = exists \cup {d}
    /\ UNCHANGED <<observer, watched, running, joining, changed, calling, selfStop, raised>>

\* start: a directory that does not exist yet is never watched.  A thread
\* cannot be started again: RuntimeError, after scheduling.
ReloaderStart ==
    /\ ~running
    /\ watched' = watched \cup exists
    /\ IF observer = "new"
       THEN observer' = "alive" /\ running' = TRUE
       ELSE UNCHANGED <<observer, running>>
    /\ UNCHANGED <<exists, joining, changed, calling, selfStop, raised>>

Ending == IF observer = "alive" THEN "stopping" ELSE observer

\* stop, up to observer.join()
ReloaderStop ==
    /\ running /\ ~joining
    /\ observer' = Ending
    /\ joining' = TRUE
    /\ UNCHANGED <<exists, watched, running, changed, calling, selfStop, raised>>

\* join returns once the thread has ended; only then is the flag cleared.
Joined(over) ==
    /\ joining /\ over
    /\ joining' = FALSE
    /\ running' = FALSE
    /\ UNCHANGED <<exists, observer, watched, changed, calling, selfStop, raised>>

JoinedAtOnce == Joined(TRUE)

JoinReturns == Joined(observer = "dead")

\* stop from the callback: the thread is told to end, joining itself raises
\* and the flag stays set.
CallbackStops ==
    /\ calling /\ running
    /\ observer' = Ending
    /\ selfStop' = TRUE
    /\ UNCHANGED <<exists, watched, running, joining, changed, calling, raised>>

\* A .pgo file is created or modified in a watched directory.
FileChanges(d) ==
    /\ d \in watched /\ observer = "alive"
    /\ changed' = changed \cup {d}
    /\ UNCHANGED <<exists, observer, watched, running, joining, calling, selfStop, raised>>

CallbackBegins(d) ==
    /\ d \in changed /\ ~calling /\ observer = "alive"
    /\ changed' = changed \ {d}
    /\ calling' = TRUE
    /\ UNCHANGED <<exists, observer, watched, running, joining, selfStop, raised>>

CallbackEnds ==
    /\ calling
    /\ calling' = FALSE
    /\ UNCHANGED <<exists, observer, watched, running, joining, changed, selfStop, raised>>

\* The handlers call the callback without a try and the observer's loop lets
\* what it raises through: the thread ends and the flag stays set.
WatchRaises ==
    /\ calling
    /\ calling' = FALSE
    /\ observer' = "dead"
    /\ raised' = TRUE
    /\ UNCHANGED <<exists, watched, running, joining, changed, selfStop>>

ObserverEnds ==
    /\ observer = "stopping" /\ ~calling
    /\ observer' = "dead"
    /\ UNCHANGED <<exists, watched, running, joining, changed, calling, selfStop, raised>>

HrNext ==
    \/ \E d \in Dirs : MakeDir(d) \/ FileChanges(d) \/ CallbackBegins(d)
    \/ ReloaderStart \/ ReloaderStop \/ JoinReturns
    \/ CallbackStops \/ CallbackEnds \/ WatchRaises \/ ObserverEnds

-----------------------------------------------------------------------------
(* Properties *)

\* _running tells the truth: while it is set, and no stop is on its way, the
\* observer is alive, unless the callback itself has called stop or has raised;
\* once it is cleared no callback is in progress and none will begin.
RunningIsTrue ==
    /\ running /\ ~joining /\ ~selfStop /\ ~raised => observer = "alive"
    /\ ~running => ~calling /\ observer \in {"new", "dead"}

\* The inductive invariant: who waits for the observer, and when a callback
\* can be in progress.
HrIInv ==
    /\ observer \in {"new", "alive", "stopping", "dead"}
    /\ running \in BOOLEAN /\ joining \in BOOLEAN /\ calling \in BOOLEAN
    /\ calling => observer \in {"alive", "stopping"}
    /\ running => observer # "new"
    /\ joining => running /\ observer \in {"stopping", "dead"}
    /\ RunningIsTrue
=============================================================================
