----------------------------- MODULE Credentials -----------------------------
(***************************************************************************)
(* Sessions and JWTs of core/runtime/auth.py and the CSRF tokens of        *)
(* core/runtime/security_middleware.py.  The three tables are independent; *)
(* each has its own next-state relation and its own restart of the         *)
(* process.  Random identifiers are taken from sets of fresh names;        *)
(* hashes, signatures and encodings are injective, so a token stands for   *)
(* what was hashed or signed.                                              *)
(***************************************************************************)
EXTENDS Clock, Dicts, FiniteSets

CONSTANTS
    Users,          \* user_id
    SessionIds,     \* session identifiers
    Lifetime,       \* session_lifetime
    TokenLife,      \* expires_in of a JWT
    MaxManagers,    \* bound: JWT managers made
    MaxTokens,      \* bound: JWTs issued
    CsrfNames,      \* raw CSRF tokens
    CsrfExpiry,     \* TOKEN_EXPIRY
    Nothing         \* no answer, no owner

\* A missing CSRF token counts as created at time 0, long before the epoch;
\* None is no user, no session identifier and no dictionary.
ASSUME CredentialsAssumption ==
    /\ CsrfExpiry \in Nat /\ Epoch > CsrfExpiry
    /\ Lifetime \in Nat /\ TokenLife \in Nat
    /\ Nothing \notin Users /\ Nothing \notin SessionIds
    /\ \A id \in SessionIds, u \in Users : Nothing # [id |-> id, user |-> u]
    /\ Nothing \notin [user : Users, exp : Nat, by : Nat]

VARIABLES
    sessions,   \* SessionManager._sessions
    life,       \* history: owner and last renewal of every session issued,
                \*   and whether it was rejected, destroyed or lost
    got,        \* what the call just made answered
    envKey,     \* PYGO_JWT_SECRET is set
    manager,    \* the number of the JWT manager in use
    managers,   \* JWT managers made so far
    tokens,     \* the JWTs issued
    decoded,    \* the token just decoded, or Nothing
    csrf,       \* _csrf_tokens
    csrfOwner,  \* the session a raw CSRF token was generated for, or Nothing
    csrfEra     \* history: changes with every restart

sessionVars == <<sessions, life, got>>
jwtVars == <<envKey, manager, managers, tokens, decoded>>
csrfVars == <<csrf, csrfOwner, csrfEra>>

CredInit ==
    /\ sessions = EmptyDict /\ life = EmptyDict /\ got = Nothing
    /\ envKey \in BOOLEAN
    /\ manager = 1 /\ managers = 1
    /\ tokens = {} /\ decoded = Nothing
    /\ csrf = EmptyDict
    /\ csrfOwner = [c \in CsrfNames |-> Nothing]
    /\ csrfEra = TRUE

-----------------------------------------------------------------------------
(* SessionManager *)

CreateSession(id, u) ==
    /\ id \notin DOMAIN life
    /\ sessions' = Put(sessions, id, [user |-> u, expires |-> now + Lifetime])
    /\ life' = Put(life, id, [user |-> u, renewed |-> now, over |-> FALSE])
    /\ got' = Nothing

\* The module's create_session makes a manager of its own for one session,
\* which nobody can find any more.
CreateSessionAside(id, u) ==
    /\ id \notin DOMAIN life
    /\ life' = Put(life, id, [user |-> u, renewed |-> now, over |-> TRUE])
    /\ got' = Nothing
    /\ UNCHANGED sessions

\* get_session, which takes expired sessions out of the table by drop.
Lookup(id, drop) ==
    LET found == id \in DOMAIN sessions
        expired == found /\ now > sessions[id].expires
    IN  /\ sessions' = IF expired THEN Drop(sessions, drop) ELSE sessions
        /\ got' = IF found /\ ~expired
                  THEN [id |-> id, user |-> sessions[id].user] ELSE Nothing
        /\ life' = IF got' = Nothing
                   THEN [life EXCEPT ![id].over = TRUE] ELSE life

GetSessionKeeps(id) == id \in DOMAIN life /\ Lookup(id, {})

GetSession(id) == id \in DOMAIN life /\ Lookup(id, {id})

DestroySession(id) ==
    /\ id \in DOMAIN life
    /\ sessions' = Drop(sessions, {id})
    /\ life' = [life EXCEPT ![id].over = TRUE]
    /\ got' = Nothing

\* refresh_session for a session whose table entry satisfies the test;
\* the code has no test of the time: a session that has expired unseen lives on.
RenewIf(id, found) ==
    /\ id \in DOMAIN life
    /\ IF found
       THEN /\ sessions' = Put(sessions, id,
                   [user |-> life[id].user, expires |-> now + Lifetime])
            /\ life' = [life EXCEPT ![id].renewed = now]
       ELSE UNCHANGED <<sessions, life>>
    /\ got' = Nothing

RefreshSessionCreates(id) == RenewIf(id, TRUE)

RefreshSession(id) == RenewIf(id, id \in DOMAIN sessions)

SessionRestart ==
    /\ sessions # EmptyDict
    /\ sessions' = EmptyDict
    /\ life' = [id \in DOMAIN life |-> [life[id] EXCEPT !.over = TRUE]]
    /\ got' = Nothing

SessionTick == Tick /\ got' = Nothing /\ UNCHANGED <<sessions, life>>

SessionNext ==
    \/ SessionTick
    \/ /\ UNCHANGED now
       /\ \/ \E id \in SessionIds :
                \/ \E u \in Users : CreateSession(id, u) \/ CreateSessionAside(id, u)
                \/ GetSession(id) \/ DestroySession(id) \/ RefreshSession(id)
          \/ SessionRestart

-----------------------------------------------------------------------------
(* JWTManager *)

\* The secret of manager m: PYGO_JWT_SECRET or one drawn for this manager.
Secret(m) == IF envKey THEN 0 ELSE m

Token(u, m) == [user |-> u, exp |-> now + TokenLife, by |-> m]

Encode(u) ==
    /\ Cardinality(tokens) < MaxTokens
    /\ tokens' = tokens \cup {Token(u, manager)}
    /\ decoded' = Nothing
    /\ UNCHANGED <<envKey, manager, managers>>

\* The module's create_jwt signs with a manager of its own.
CreateJwt(u) ==
    /\ Cardinality(tokens) < MaxTokens
    /\ managers < MaxManagers
    /\ managers' = managers + 1
    /\ tokens' = tokens \cup {Token(u, managers + 1)}
    /\ decoded' = Nothing
    /\ UNCHANGED <<envKey, manager>>

\* decode: exp < time.time() and a signature with another secret are rejected.
Accept(t, verified) ==
    /\ decoded' = IF verified /\ now <= t.exp THEN t ELSE Nothing
    /\ UNCHANGED <<envKey, manager, managers, tokens>>

DecodeUnverified(t) == Accept(t, TRUE)

Decode(t) == Accept(t, Secret(t.by) = Secret(manager))

JwtRestart ==
    /\ managers < MaxManagers
    /\ managers' = managers + 1
    /\ manager' = managers + 1
    /\ decoded' = Nothing
    /\ UNCHANGED <<envKey, tokens>>

JwtTick ==
    Tick /\ decoded' = Nothing /\ UNCHANGED <<envKey, manager, managers, tokens>>

JwtNext ==
    \/ JwtTick
    \/ /\ UNCHANGED now
       /\ \/ \E u \in Users : Encode(u) \/ CreateJwt(u)
          \/ \E t \in tokens : Decode(t)
          \/ JwtRestart

-----------------------------------------------------------------------------
(* CSRFProtection of the security middleware *)

GenerateToken(c, s) ==
    /\ csrfOwner[c] = Nothing
    /\ csrf' = Put(csrf, c, now)
    /\ csrfOwner' = [csrfOwner EXCEPT ![c] = s]
    /\ UNCHANGED csrfEra

Created(c) == IF c \in DOMAIN csrf THEN csrf[c] ELSE 0

\* What validate_token(c, s) answers; the hash binds the token to its session.
CsrfValid(c, s) ==
    /\ csrfOwner[c] = s
    /\ now - Created(c) <= CsrfExpiry

\* An expired token is deleted; the KeyError for an unknown one is swallowed.
ValidateToken(c, s) ==
    /\ csrfOwner[c] # Nothing
    /\ csrf' = IF csrfOwner[c] = s /\ ~CsrfValid(c, s) THEN Drop(csrf, {c}) ELSE csrf
    /\ UNCHANGED <<csrfOwner, csrfEra>>

Aged(age) == {c \in DOMAIN csrf : now - csrf[c] >= age}

CleanupExpiredEarly ==
    csrf' = Drop(csrf, Aged(CsrfExpiry)) /\ UNCHANGED <<csrfOwner, csrfEra>>

CleanupExpired ==
    csrf' = Drop(csrf, Aged(CsrfExpiry + 1)) /\ UNCHANGED <<csrfOwner, csrfEra>>

CsrfRestart == csrf' = EmptyDict /\ csrfEra' = ~csrfEra /\ UNCHANGED csrfOwner

CsrfTick == Tick /\ UNCHANGED csrfVars

CsrfNext ==
    \/ CsrfTick
    \/ /\ UNCHANGED now
       /\ \/ \E c \in CsrfNames, s \in SessionIds :
                GenerateToken(c, s) \/ ValidateToken(c, s)
          \/ CleanupExpired
          \/ CsrfRestart

-----------------------------------------------------------------------------
(* Properties *)

Session == [user : Users, expires : Nat]

CredTypeOK ==
    /\ now \in Epoch..MaxTime
    /\ DOMAIN sessions \subseteq SessionIds
    /\ \A id \in DOMAIN sessions : sessions[id] \in Session
    /\ \A t \in tokens : t \in [user : Users, exp : Nat, by : 1..managers]
    /\ DOMAIN csrf \subseteq CsrfNames

\* Whatever get_session answers belongs to a session that this process
\* created for that user, that has not been destroyed or turned away since,
\* and that was created or refreshed within its lifetime.
SessionAnswerSound ==
    got # Nothing =>
        /\ got.user = life[got.id].user
        /\ ~life[got.id].over
        /\ now <= life[got.id].renewed + Lifetime

\* A session that get_session has turned away, that was destroyed or that a
\* restart has lost is never in the table again: refresh_session, which does
\* not look at the time, cannot bring it back.
NoResurrection ==
    \A id \in DOMAIN sessions : ~life[id].over

\* A JWT is accepted only within its lifetime; tokens of before a restart,
\* and those of create_jwt, only when PYGO_JWT_SECRET is set.
JwtAnswerSound ==
    decoded # Nothing =>
        /\ now <= decoded.exp
        /\ decoded.by = manager \/ envKey

\* No answer of get_session or decode vouches for a user whose session or
\* token is over, was made for another user or with another secret.
CredentialsSound == CredTypeOK /\ SessionAnswerSound /\ JwtAnswerSound

\* Only the passage of time and a restart end the validity of a CSRF token:
\* neither a validation nor cleanup_expired, whose tests of the age must agree.
CsrfEndsByAge ==
    [][now' = now /\ csrfEra' = csrfEra =>
          \A c \in CsrfNames, s \in SessionIds :
              CsrfValid(c, s) => CsrfValid(c, s)']_csrfVars

-----------------------------------------------------------------------------
(* The inductive invariant *)

\* Every entry of the table is a session that was issued and is not over, with
\* the user and the deadline of its last renewal.
TableInv ==
    /\ DOMAIN life \subseteq SessionIds
    /\ life \in [DOMAIN life -> [user : Users, renewed : Nat, over : BOOLEAN]]
    /\ DOMAIN sessions \subseteq DOMAIN life
    /\ \A id \in DOMAIN sessions :
          /\ ~life[id].over
          /\ sessions[id] = [user |-> life[id].user, expires |-> life[id].renewed + Lifetime]

AnswerInv ==
    /\ got # Nothing => got.id \in DOMAIN life
    /\ SessionAnswerSound

JwtInv ==
    /\ managers \in Nat /\ manager \in 1..managers /\ envKey \in BOOLEAN
    /\ decoded \in tokens \cup {Nothing}
    /\ JwtAnswerSound

\* A token in the table was generated for a session.
CsrfInv ==
    /\ csrfOwner \in [CsrfNames -> SessionIds \cup {Nothing}]
    /\ csrfEra \in BOOLEAN
    /\ csrf \in [DOMAIN csrf -> Nat]
    /\ \A c \in DOMAIN csrf : csrfOwner[c] # Nothing

CredIInv == CredTypeOK /\ TableInv /\ AnswerInv /\ JwtInv /\ CsrfInv
=============================================================================
