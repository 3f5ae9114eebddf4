--------------------------- MODULE CircuitBreaker ---------------------------
(***************************************************************************)
(* core/runtime/connection_pool.py: circuit_breaker_call and the shared    *)
(* _circuit_state.  The lock is held to decide whether a call may go       *)
(* through and to record its outcome, not while func runs; a fallback used *)
(* because the circuit is open runs with the lock still held.              *)
(***************************************************************************)
EXTENDS Naturals, FiniteSets

CONSTANTS
    Threads,        \* threads that make protected calls
    Free,           \* _circuit_lock is not held
    Threshold,      \* failure_threshold (5 in the code)
    Timeout         \* timeout, in clock ticks (60 s in the code)

ASSUME BreakerAssumption ==
    /\ IsFiniteSet(Threads)
    /\ Free \notin Threads
    /\ Threshold \in Nat \ {0}
    /\ Timeout \in Nat

VARIABLES
    lock,       \* owner of _circuit_lock
    open,       \* _circuit_state["open"]
    failures,   \* _circuit_state["failures"]
    age,        \* ticks since last_failure, not counted past Timeout + 1
    pc,         \* pc[t]: where thread t is
    fb          \* fb[t]: its call was given a fallback

vars == <<lock, open, failures, age, pc, fb>>

Init ==
    /\ lock = Free
    /\ open = FALSE
    /\ failures = 0
    /\ age = Timeout + 1        \* last_failure = 0, the epoch
    /\ pc = [t \in Threads |-> "idle"]
    /\ fb = [t \in Threads |-> FALSE]

Call(t) ==
    /\ pc[t] = "idle"
    /\ pc' = [pc EXCEPT ![t] = "enter"]
    /\ \E b \in BOOLEAN : fb' = [fb EXCEPT ![t] = b]
    /\ UNCHANGED <<lock, open, failures, age>>

Expired == age > Timeout

\* An expired circuit that is closed but keeps its count.
EnterThroughKeepsCount(t) ==
    /\ pc[t] = "enter"
    /\ lock = Free
    /\ ~open \/ Expired
    /\ open' = FALSE
    /\ pc' = [pc EXCEPT ![t] = "func"]
    /\ UNCHANGED <<lock, failures, age, fb>>

\* The circuit lets the call through: closed, or open for longer than Timeout,
\* which closes it.
EnterThrough(t) ==
    /\ pc[t] = "enter"
    /\ lock = Free
    /\ ~open \/ Expired
    /\ open' = FALSE
    /\ failures' = IF open THEN 0 ELSE failures
    /\ pc' = [pc EXCEPT ![t] = "func"]
    /\ UNCHANGED <<lock, age, fb>>

\* A rejection counted as one more failure.
EnterRejectedRefreshes(t) ==
    /\ pc[t] = "enter"
    /\ lock = Free
    /\ open /\ ~Expired
    /\ age' = 0
    /\ pc' = [pc EXCEPT ![t] = IF fb[t] THEN "fallbackLocked" ELSE "idle"]
    /\ lock' = IF fb[t] THEN t ELSE Free
    /\ UNCHANGED <<open, failures, fb>>

\* The circuit is open: the fallback, under the lock, or TimeoutError.
EnterRejected(t) ==
    /\ pc[t] = "enter"
    /\ lock = Free
    /\ open /\ ~Expired
    /\ pc' = [pc EXCEPT ![t] = IF fb[t] THEN "fallbackLocked" ELSE "idle"]
    /\ lock' = IF fb[t] THEN t ELSE Free
    /\ UNCHANGED <<open, failures, age, fb>>

FallbackLocked(t) ==
    /\ pc[t] = "fallbackLocked"
    /\ pc' = [pc EXCEPT ![t] = "idle"]
    /\ lock' = Free
    /\ UNCHANGED <<open, failures, age, fb>>

\* func returned; its success is recorded under the lock.
Succeed(t) ==
    /\ pc[t] = "func"
    /\ lock = Free
    /\ open' = FALSE
    /\ failures' = 0
    /\ pc' = [pc EXCEPT ![t] = "idle"]
    /\ UNCHANGED <<lock, age, fb>>

\* func raised; the failure is recorded under the lock, then the fallback runs
\* without it, or the exception is raised again.
Fail(t) ==
    /\ pc[t] = "func"
    /\ lock = Free
    /\ failures' = failures + 1
    /\ age' = 0
    /\ open' = (open \/ failures' >= Threshold)
    /\ pc' = [pc EXCEPT ![t] = IF fb[t] THEN "fallback" ELSE "idle"]
    /\ UNCHANGED <<lock, fb>>

Fallback(t) ==
    /\ pc[t] = "fallback"
    /\ pc' = [pc EXCEPT ![t] = "idle"]
    /\ UNCHANGED <<lock, open, failures, age, fb>>

\* time.time() advances.
Tick ==
    /\ age <= Timeout
    /\ age' = age + 1
    /\ UNCHANGED <<lock, open, failures, pc, fb>>

Enter(t) == EnterThrough(t) \/ EnterRejected(t)

Step(t) == \/ Call(t) \/ Enter(t) \/ FallbackLocked(t)
           \/ Succeed(t) \/ Fail(t) \/ Fallback(t)

Next == Tick \/ \E t \in Threads : Step(t)

Spec == Init /\ [][Next]_vars

\* Time passes; while threads wait for the free lock one of them gets it; a
\* fallback returns.  Nothing is assumed of func or of new calls.
FairSpec ==
    /\ Spec
    /\ WF_vars(Tick)
    /\ WF_vars(\E t \in Threads : Enter(t))
    /\ WF_vars(\E t \in Threads : FallbackLocked(t))

-----------------------------------------------------------------------------
Calling == {t \in Threads : pc[t] = "func"}

TypeOK ==
    /\ lock \in Threads \cup {Free}
    /\ open \in BOOLEAN
    /\ failures \in Nat
    /\ age \in 0..(Timeout + 1)
    /\ pc \in [Threads -> {"idle", "enter", "func", "fallback", "fallbackLocked"}]
    /\ fb \in [Threads -> BOOLEAN]

\* The two fields of _circuit_state agree however the outcomes of overlapping calls
\* are recorded: the circuit is open exactly when the threshold is reached.
OpenIffThreshold == open <=> failures >= Threshold

\* A failing service is called at most Threshold - 1 + |Threads| times in a row: only
\* the calls already under way when the circuit opens can add to the count.
FailuresBounded == failures <= Threshold - 1 + Cardinality(Threads)

\* The shared state is sound whatever order overlapping calls end in: its two fields
\* agree, and the count is bounded by the threshold and the calls under way.
BreakerSound == OpenIffThreshold /\ FailuresBounded

\* What FailuresBounded rests on: every call under way may still fail.
RoomInv == failures + Cardinality(Calling) <= Threshold - 1 + Cardinality(Threads)

IInv == TypeOK /\ OpenIffThreshold /\ RoomInv

\* As long as calls keep coming the circuit does not stay open for ever, however
\* many of them are rejected and whenever late failures arrive.
CircuitReopens ==
    ([]<>(\E t \in Threads : pc[t] = "enter")) => (open ~> ~open)
=============================================================================
