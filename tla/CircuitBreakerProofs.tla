------------------------ MODULE CircuitBreakerProofs ------------------------
(***************************************************************************)
(* Proofs about CircuitBreaker, for any finite set of threads and any      *)
(* threshold.  The bound on the failure count needs RoomInv: a call that   *)
(* is under way still holds room for one more failure.                     *)
(***************************************************************************)
EXTENDS CircuitBreaker, FiniteSetTheorems, TLAPS

USE BreakerAssumption

\* The threads inside func are finitely many, at most all of them.
LEMMA CallingFinite ==
    ASSUME NEW S, S \subseteq Threads
    PROVE  /\ IsFiniteSet(S)
           /\ Cardinality(S) \in Nat
           /\ Cardinality(Threads) \in Nat
           /\ Cardinality(S) <= Cardinality(Threads)
  BY FS_Subset, FS_CardinalityType

\* A call leaves func: the number of calls under way drops by one.
LEMMA CallLeaves ==
    ASSUME TypeOK, NEW t \in Threads, pc[t] = "func",
           NEW where \in {"idle", "fallback"}, pc' = [pc EXCEPT ![t] = where]
    PROVE  Cardinality(Calling') = Cardinality(Calling) - 1 /\ Cardinality(Calling) \in Nat
<1>1. Calling' = Calling \ {t} /\ t \in Calling /\ Calling \subseteq Threads
  BY DEF TypeOK, Calling
<1>2. IsFiniteSet(Calling) /\ Cardinality(Calling) \in Nat
  BY <1>1, CallingFinite
<1>3. QED
  BY <1>1, <1>2, FS_RemoveElement

\* A step that starts no call and ends none.
LEMMA CallingUnchanged ==
    ASSUME TypeOK, NEW t \in Threads, pc[t] # "func",
           NEW where \in {"idle", "enter", "fallbackLocked"}, pc' = [pc EXCEPT ![t] = where]
    PROVE  Calling' = Calling
  BY DEF TypeOK, Calling

LEMMA NextIInv == IInv /\ [Next]_vars => IInv'
<1> SUFFICES ASSUME IInv, [Next]_vars PROVE IInv'
  OBVIOUS
<1>0. /\ TypeOK /\ OpenIffThreshold /\ RoomInv
      /\ Cardinality(Calling) \in Nat /\ Cardinality(Threads) \in Nat
  BY CallingFinite DEF IInv, Calling
<1>1. ASSUME NEW t \in Threads, Call(t) PROVE IInv'
  <2>1. Calling' = Calling
    BY <1>0, <1>1, CallingUnchanged DEF Call
  <2>2. QED
    BY <1>0, <1>1, <2>1 DEF Call, IInv, TypeOK, OpenIffThreshold, RoomInv
<1>2. ASSUME NEW t \in Threads, EnterThrough(t) PROVE IInv'
  <2>1. TypeOK'
    BY <1>0, <1>2 DEF EnterThrough, TypeOK
  <2>2. failures' < Threshold /\ failures' \in Nat /\ open' = FALSE
    BY <1>0, <1>2 DEF EnterThrough, TypeOK, OpenIffThreshold
  <2>3. Cardinality(Calling') \in Nat /\ Cardinality(Calling') <= Cardinality(Threads)
    BY CallingFinite DEF Calling
  <2>4. RoomInv'
    BY <1>0, <2>2, <2>3 DEF RoomInv
  <2>5. QED
    BY <2>1, <2>2, <2>4 DEF IInv, OpenIffThreshold
<1>3. ASSUME NEW t \in Threads, EnterRejected(t) PROVE IInv'
  <2>1. Calling' = Calling
    <3>1. PICK where \in {"idle", "enter", "fallbackLocked"} : pc' = [pc EXCEPT ![t] = where]
      BY <1>3 DEF EnterRejected
    <3>2. QED
      BY <1>0, <1>3, <3>1, CallingUnchanged DEF EnterRejected
  <2>2. QED
    BY <1>0, <1>3, <2>1 DEF EnterRejected, IInv, TypeOK, OpenIffThreshold, RoomInv
<1>4. ASSUME NEW t \in Threads, FallbackLocked(t) PROVE IInv'
  <2>1. Calling' = Calling
    BY <1>0, <1>4, CallingUnchanged DEF FallbackLocked
  <2>2. QED
    BY <1>0, <1>4, <2>1 DEF FallbackLocked, IInv, TypeOK, OpenIffThreshold, RoomInv
<1>5. ASSUME NEW t \in Threads, Succeed(t) PROVE IInv'
  <2>1. Cardinality(Calling') \in Nat /\ Cardinality(Calling') <= Cardinality(Threads)
    BY CallingFinite DEF Calling
  <2>2. TypeOK'
    BY <1>0, <1>5 DEF Succeed, TypeOK
  <2>3. failures' = 0 /\ ~open'
    BY <1>5 DEF Succeed
  <2>4. OpenIffThreshold' /\ RoomInv'
    BY <1>0, <2>1, <2>3 DEF OpenIffThreshold, RoomInv
  <2>5. QED
    BY <2>2, <2>4 DEF IInv
<1>6. ASSUME NEW t \in Threads, Fail(t) PROVE IInv'
  <2>1. Cardinality(Calling') = Cardinality(Calling) - 1
    <3>1. PICK where \in {"idle", "fallback"} : pc' = [pc EXCEPT ![t] = where]
      BY <1>6 DEF Fail
    <3>2. QED
      BY <1>0, <1>6, <3>1, CallLeaves DEF Fail
  <2>2. TypeOK'
    BY <1>0, <1>6 DEF Fail, TypeOK
  <2>3. OpenIffThreshold'
    <3>1. failures \in Nat /\ failures' = failures + 1
      BY <1>0, <1>6 DEF Fail, TypeOK
    <3>2. failures >= Threshold => failures' >= Threshold
      BY <3>1
    <3>3. open' <=> open \/ failures' >= Threshold
      BY <1>6 DEF Fail
    <3>4. QED
      BY <1>0, <3>2, <3>3, Zenon DEF OpenIffThreshold
  <2>4. RoomInv'
    BY <1>0, <1>6, <2>1 DEF Fail, TypeOK, RoomInv
  <2>5. QED
    BY <2>2, <2>3, <2>4 DEF IInv
<1>7. ASSUME NEW t \in Threads, Fallback(t) PROVE IInv'
  <2>1. Calling' = Calling
    BY <1>0, <1>7, CallingUnchanged DEF Fallback
  <2>2. QED
    BY <1>0, <1>7, <2>1 DEF Fallback, IInv, TypeOK, OpenIffThreshold, RoomInv
<1>8. CASE Tick
  BY <1>0, <1>8 DEF Tick, IInv, TypeOK, OpenIffThreshold, RoomInv, Calling
<1>9. CASE UNCHANGED vars
  BY <1>0, <1>9 DEF vars, IInv, TypeOK, OpenIffThreshold, RoomInv, Calling
<1>10. QED
  BY <1>1, <1>2, <1>3, <1>4, <1>5, <1>6, <1>7, <1>8, <1>9 DEF Next, Step, Enter

LEMMA InitIInv == Init => IInv
<1> SUFFICES ASSUME Init PROVE IInv
  OBVIOUS
<1>1. Calling = {} /\ Cardinality(Calling) = 0 /\ Cardinality(Threads) \in Nat
  BY FS_EmptySet, CallingFinite DEF Init, Calling
<1>2. TypeOK
  <2>1. age \in 0..(Timeout + 1) /\ failures \in Nat
    BY DEF Init
  <2>2. fb \in [Threads -> BOOLEAN] /\ open \in BOOLEAN
    BY Zenon DEF Init
  <2>3. QED
    BY <2>1, <2>2 DEF Init, TypeOK
<1>3. failures = 0 /\ ~open
  BY DEF Init
<1>4. OpenIffThreshold /\ RoomInv
  BY <1>1, <1>3 DEF OpenIffThreshold, RoomInv
<1>5. QED
  BY <1>2, <1>4 DEF IInv

\* IInv is inductive.
THEOREM InductiveInvariant == Spec => []IInv
  BY InitIInv, NextIInv, PTL DEF Spec

\* open and failures always agree.
THEOREM StateConsistent == Spec => []OpenIffThreshold
<1>1. IInv => OpenIffThreshold
  BY DEF IInv
<1>2. QED
  BY <1>1, InductiveInvariant, PTL

\* The count of consecutive failures is bounded by the threshold and the threads.
THEOREM CountBounded == Spec => []FailuresBounded
<1>1. IInv => FailuresBounded
  <2> SUFFICES ASSUME IInv PROVE FailuresBounded
    OBVIOUS
  <2>1. Cardinality(Calling) \in Nat /\ Cardinality(Threads) \in Nat
    BY CallingFinite DEF Calling
  <2>2. QED
    BY <2>1 DEF IInv, TypeOK, RoomInv, FailuresBounded
<1>2. QED
  BY <1>1, InductiveInvariant, PTL

\* The shared state of the breaker is sound, for any threads, threshold and timeout.
THEOREM BreakerIsSound == Spec => []BreakerSound
<1>1. OpenIffThreshold /\ FailuresBounded => BreakerSound
  BY DEF BreakerSound
<1>2. QED
  BY <1>1, StateConsistent, CountBounded, PTL
=============================================================================
