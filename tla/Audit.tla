-------------------------------- MODULE Audit --------------------------------
(***************************************************************************)
(* core/runtime/audit.py: threads that call audit.  The global manager is  *)
(* made by the first call; get_audit_manager tests, creates and reads the  *)
(* global in separate steps and without a lock.  The log of a manager has  *)
(* one, so that appending, finding and copying for an export are atomic.   *)
(***************************************************************************)
EXTENDS Naturals, Sequences, FiniteSets

CONSTANTS
    Auditors,       \* threads
    MaxEntries      \* bound: entries written by a thread

VARIABLES
    auditManager,   \* _audit_manager: a number, 0 for None
    auditLogs,      \* auditLogs[m]: the entries of manager m
    auditor,        \* auditor[t] = [at, manager, written, safe]: where the call
                    \*   is, the manager it has read, its entries so far and,
                    \*   as history, whether it began when all was settled
    trail           \* history: the entries whose audit has returned

auditVars == <<auditManager, auditLogs, auditor, trail>>

AuditInit ==
    /\ auditManager = 0
    /\ auditLogs = <<>>
    /\ auditor = [t \in Auditors |->
                     [at |-> "idle", manager |-> 0, written |-> 0, safe |-> FALSE]]
    /\ trail = {}

\* A manager is there and nobody is about to make another one.
Settled == auditManager # 0 /\ \A t \in Auditors : auditor[t].at # "create"

\* audit: get_audit_manager tests the global.
TestManager(t, missing) ==
    /\ auditor[t].at = "idle" /\ auditor[t].written < MaxEntries
    /\ auditor' = [auditor EXCEPT ![t].at = IF missing THEN "create" ELSE "read",
                                  ![t].safe = Settled]
    /\ UNCHANGED <<auditManager, auditLogs, trail>>

GetManagerAlways(t) == TestManager(t, TRUE)

GetManager(t) == TestManager(t, auditManager = 0)

CreateManager(t) ==
    /\ auditor[t].at = "create"
    /\ auditLogs' = Append(auditLogs, <<>>)
    /\ auditManager' = Len(auditLogs) + 1
    /\ auditor' = [auditor EXCEPT ![t].at = "read"]
    /\ UNCHANGED trail

\* return _audit_manager reads the global once more.
ReadManager(t) ==
    /\ auditor[t].at = "read"
    /\ auditor' = [auditor EXCEPT ![t].at = "log", ![t].manager = auditManager]
    /\ UNCHANGED <<auditManager, auditLogs, trail>>

\* log_action and AuditLog.log; audit returns.
LogAction(t) ==
    LET me == auditor[t]
        entry == [by |-> t, nr |-> me.written + 1, safe |-> me.safe]
    IN  /\ me.at = "log"
        /\ auditLogs' = [auditLogs EXCEPT ![me.manager] = Append(@, entry)]
        /\ auditor' = [auditor EXCEPT ![t].at = "idle", ![t].written = @ + 1]
        /\ trail' = trail \cup {entry}
        /\ UNCHANGED auditManager

AuditNext ==
    \E t \in Auditors :
        GetManager(t) \/ CreateManager(t) \/ ReadManager(t) \/ LogAction(t)

\* What audit_log() answers.
AuditLog == IF auditManager = 0 THEN <<>> ELSE auditLogs[auditManager]

\* find with the criterion user_id = t, and export, on audit_log(): the places
\* of the entries, which are answered in their order.
Find(t) == {i \in DOMAIN AuditLog : AuditLog[i].by = t}

-----------------------------------------------------------------------------
(* Properties *)

\* The audit trail is complete: an entry whose audit has begun once a manager
\* was there and no thread was making one is found, once and in the order
\* written, in the log that audit_log answers; entries of the first moments
\* are at least in some log.  What racing threads log to a manager that is
\* replaced right afterwards is found no more.
AuditComplete ==
    /\ \A e \in trail :
          /\ \E m \in DOMAIN auditLogs : \E i \in DOMAIN auditLogs[m] : auditLogs[m][i] = e
          /\ e.safe => Cardinality({i \in Find(e.by) : AuditLog[i] = e}) = 1
    /\ \A t \in Auditors : \A i, k \in Find(t) : i < k => AuditLog[i].nr < AuditLog[k].nr

\* The inductive invariant: every log has the entries of a thread in the order
\* written; and from the moment a thread has begun with all settled, there is
\* one manager for good, which that thread has read and which has its entries.
Entries == [by : Auditors, nr : Nat, safe : BOOLEAN]

Ordered(log) ==
    \A i, k \in DOMAIN log : log[i].by = log[k].by /\ i < k => log[i].nr < log[k].nr

AuditTypeOK ==
    /\ auditLogs \in Seq(Seq(Entries)) /\ auditManager \in 0..Len(auditLogs)
    /\ auditor \in [Auditors -> [at : {"idle", "create", "read", "log"}, manager : Nat,
                                 written : Nat, safe : BOOLEAN]]

AuditIInv ==
    /\ AuditTypeOK
    /\ \A m \in DOMAIN auditLogs :
          /\ Ordered(auditLogs[m])
          /\ \A i \in DOMAIN auditLogs[m] :
                auditLogs[m][i].nr <= auditor[auditLogs[m][i].by].written
    /\ \A t \in Auditors :
          /\ auditor[t].at = "read" => auditManager # 0
          /\ auditor[t].at = "log" => auditor[t].manager \in DOMAIN auditLogs
          /\ auditor[t].safe => Settled
          /\ auditor[t].safe /\ auditor[t].at = "log" => auditor[t].manager = auditManager
    /\ \A e \in trail :
          /\ e \in Entries
          /\ \E m \in DOMAIN auditLogs : \E i \in DOMAIN auditLogs[m] : auditLogs[m][i] = e
          /\ e.safe => Settled /\ \E i \in DOMAIN AuditLog : AuditLog[i] = e
=============================================================================
