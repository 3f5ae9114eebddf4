----------------------------- MODULE RateLimits -----------------------------
(***************************************************************************)
(* The two rate limiters: RateLimiter of core/runtime/auth.py ("auth") and *)
(* of core/runtime/security_middleware.py ("mw").  Both keep the times of  *)
(* the admitted requests per key, forget those outside the window at every *)
(* request and admit while fewer than the limit remain.  In the middleware *)
(* requests of every type share the list of their key.  A list is the set  *)
(* of its requests: the code asks how many are recent, never their order.  *)
(***************************************************************************)
EXTENDS Clock, FiniteSets

CONSTANTS
    Clients,        \* keys
    Window,         \* window_seconds
    Limits,         \* Limits[type]: requests per window; "auth" for auth.py
    MaxAdmitted     \* bound: requests admitted per client and limiter

ASSUME RateAssumption ==
    /\ Window \in Nat /\ Epoch \in Nat /\ Epoch >= Window
    /\ "auth" \in DOMAIN Limits /\ Limits \in [DOMAIN Limits -> Nat]
    /\ \E type \in DOMAIN Limits : type # "auth"
    /\ MaxAdmitted \in Nat

VARIABLES
    requests,   \* requests[l][c]: the limiter's list, its times told apart
                \*   by the place in the order of admission
    admitted    \* history: requests admitted since the last reset

rateVars == <<requests, admitted>>

Limiter(type) == IF type = "auth" THEN "auth" ELSE "mw"
Limiters == {"auth", "mw"}

RateInit ==
    /\ requests = [l \in Limiters |-> [c \in Clients |-> {}]]
    /\ admitted = [l \in Limiters |-> [c \in Clients |-> {}]]

\* now - t < window, and in the middleware t > now - window
Recent(list, window) == {r \in list : now - r.at < window}

\* is_allowed (auth) and check (mw): forget, count, admit.
Request(type, c, window) ==
    LET l == Limiter(type)
        kept == Recent(requests[l][c], window)
        ok == Cardinality(kept) < Limits[type]
        this == [at |-> now, nr |-> Cardinality(admitted[l][c]) + 1]
    IN  /\ Cardinality(admitted[l][c]) < MaxAdmitted
        /\ requests' = [requests EXCEPT ![l][c] =
                           IF ok THEN kept \cup {this} ELSE kept]
        /\ admitted' = [admitted EXCEPT ![l][c] =
                           IF ok THEN @ \cup {this} ELSE @]

IsAllowedShort(type, c) == Request(type, c, Window - 1)

IsAllowed(type, c) == Request(type, c, Window)

\* get_remaining
Remaining(c) ==
    LET count == Cardinality(Recent(requests["auth"][c], Window)) IN
    IF count > Limits["auth"] THEN 0 ELSE Limits["auth"] - count

\* reset, of the middleware only
ResetKey(c) ==
    /\ requests' = [requests EXCEPT !["mw"][c] = {}]
    /\ admitted' = [admitted EXCEPT !["mw"][c] = {}]

RateNext ==
    \/ Tick /\ UNCHANGED rateVars
    \/ /\ UNCHANGED now
       /\ \/ \E type \in DOMAIN Limits, c \in Clients : IsAllowed(type, c)
          \/ \E c \in Clients : ResetKey(c)

-----------------------------------------------------------------------------
(* Properties *)

\* What a limiter has forgotten never matters: however requests, rejections
\* and pauses alternate, the list of a key counts exactly the requests that
\* were admitted in the window that ends now, so that the answer to the next
\* request is right; a window never admits more than the largest limit of
\* the types that share it; and get_remaining tells how many more would be.
RateWindow ==
    \A l \in Limiters, c \in Clients :
        LET inWindow == Cardinality(Recent(admitted[l][c], Window)) IN
        /\ Cardinality(Recent(requests[l][c], Window)) = inWindow
        /\ \E type \in DOMAIN Limits : Limiter(type) = l /\ inWindow <= Limits[type]
        /\ l = "auth" => Remaining(c) = Limits["auth"] - inWindow

\* RateWindow is not inductive: nothing in it says that what a list has lost
\* is old, and stays so as the clock runs.
Admissions == [at : Epoch..MaxTime, nr : Nat]

RateTypeOK ==
    /\ now \in Epoch..MaxTime
    /\ requests \in [Limiters -> [Clients -> SUBSET Admissions]]
    /\ admitted \in [Limiters -> [Clients -> SUBSET Admissions]]
    /\ \A l \in Limiters, c \in Clients : IsFiniteSet(admitted[l][c])

\* A list forgets nothing but what has left the window.
OnlyOldForgotten ==
    \A l \in Limiters, c \in Clients :
        /\ requests[l][c] \subseteq admitted[l][c]
        /\ \A r \in admitted[l][c] \ requests[l][c] : now - r.at >= Window

RateIInv == RateTypeOK /\ OnlyOldForgotten /\ RateWindow
=============================================================================
