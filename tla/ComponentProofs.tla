-------------------------- MODULE ComponentProofs --------------------------
(***************************************************************************)
(* Proofs about the components that the runs Services and Application      *)
(* check side by side, for any values of their constants.  Each has a      *)
(* specification of its own here: what a run does while part names the     *)
(* component, without what the others hold.                                *)
(***************************************************************************)
EXTENDS Credentials, RateLimits, Workflow, HotReload, Mail, Modules, Database, CacheStore, Locale,
        Framing, MemoryJobs, Audit, PubSub, DslTools, SequenceTheorems, FiniteSetTheorems, TLAPS

USE ClockAssumption

-----------------------------------------------------------------------------
(* Dictionaries *)

LEMMA EmptyFacts == DOMAIN EmptyDict = {}
BY DEF EmptyDict

-----------------------------------------------------------------------------
(* Credentials: sessions, JWTs and CSRF tokens under one clock *)

CredNext ==
    \/ SessionTick /\ JwtTick /\ CsrfTick
    \/ SessionNext /\ UNCHANGED <<now, jwtVars, csrfVars>>
    \/ JwtNext /\ UNCHANGED <<now, sessionVars, csrfVars>>
    \/ CsrfNext /\ UNCHANGED <<now, sessionVars, jwtVars>>

credVars == <<now, sessionVars, jwtVars, csrfVars>>

CredSpec == now = Epoch /\ CredInit /\ [][CredNext]_credVars

SessionInv == TableInv /\ AnswerInv

LEMMA CredInitIInv == now = Epoch /\ CredInit => CredIInv
<1> SUFFICES ASSUME now = Epoch, CredInit PROVE CredIInv
  OBVIOUS
<1>1. CredTypeOK
  BY EmptyFacts, CredentialsAssumption DEF CredInit, CredTypeOK
<1>2. TableInv /\ AnswerInv
  BY EmptyFacts DEF CredInit, TableInv, AnswerInv, SessionAnswerSound
<1>3. JwtInv
  BY DEF CredInit, JwtInv, JwtAnswerSound
<1>4. CsrfInv
  BY EmptyFacts DEF CredInit, CsrfInv
<1>5. QED
  BY <1>1, <1>2, <1>3, <1>4 DEF CredIInv

\* A session that is issued under a fresh identifier, kept or not.
LEMMA CreateKeeps ==
    ASSUME TableInv, now \in Nat, NEW id \in SessionIds, NEW u \in Users,
           CreateSession(id, u) \/ CreateSessionAside(id, u)
    PROVE  TableInv' /\ AnswerInv'
<1> USE CredentialsAssumption
<1>1. PICK gone \in BOOLEAN :
          /\ id \notin DOMAIN life /\ got' = Nothing
          /\ life' = Put(life, id, [user |-> u, renewed |-> now, over |-> gone])
          /\ sessions' = IF gone THEN sessions
                ELSE Put(sessions, id, [user |-> u, expires |-> now + Lifetime])
  BY DEF CreateSession, CreateSessionAside
<1>2. DOMAIN life' = DOMAIN life \cup {id}
  BY <1>1 DEF Put
<1>3. life' \in [DOMAIN life' -> [user : Users, renewed : Nat, over : BOOLEAN]]
  BY <1>1 DEF TableInv, Put
<1>4. /\ \A i \in DOMAIN sessions : i # id /\ life'[i] = life[i] /\ sessions'[i] = sessions[i]
      /\ life'[id] = [user |-> u, renewed |-> now, over |-> gone]
      /\ DOMAIN sessions' = IF gone THEN DOMAIN sessions ELSE DOMAIN sessions \cup {id}
      /\ ~gone => sessions'[id] = [user |-> u, expires |-> now + Lifetime]
  BY <1>1 DEF TableInv, Put
<1>5. TableInv'
  BY <1>2, <1>3, <1>4 DEF TableInv
<1>6. QED
  BY <1>1, <1>5 DEF AnswerInv, SessionAnswerSound

LEMMA GetKeeps ==
    ASSUME TableInv, now \in Nat, UNCHANGED now, NEW id \in SessionIds, GetSession(id)
    PROVE  TableInv' /\ AnswerInv'
<1> USE CredentialsAssumption
<1> DEFINE found == id \in DOMAIN sessions
           expired == found /\ now > sessions[id].expires
<1>1. /\ id \in DOMAIN life
      /\ sessions' = IF expired THEN Drop(sessions, {id}) ELSE sessions
      /\ got' = IF found /\ ~expired THEN [id |-> id, user |-> sessions[id].user] ELSE Nothing
      /\ life' = IF got' = Nothing THEN [life EXCEPT ![id].over = TRUE] ELSE life
  BY DEF GetSession, Lookup
<1>2. CASE found /\ ~expired
  <2>1. /\ sessions[id] = [user |-> life[id].user, expires |-> life[id].renewed + Lifetime]
        /\ life[id] \in [user : Users, renewed : Nat, over : BOOLEAN] /\ ~life[id].over
    BY <1>2 DEF TableInv
  <2>2. got' = [id |-> id, user |-> sessions[id].user] /\ got' # Nothing
    BY <1>1, <1>2, <2>1
  <2>3. UNCHANGED <<sessions, life>>
    BY <1>1, <1>2, <2>2
  <2>4. QED
    BY <1>1, <1>2, <2>1, <2>2, <2>3 DEF TableInv, AnswerInv, SessionAnswerSound
<1>3. CASE ~(found /\ ~expired)
  <2>1. got' = Nothing /\ life' = [life EXCEPT ![id].over = TRUE]
    BY <1>1, <1>3
  <2>2. /\ DOMAIN sessions' = DOMAIN sessions \ {id}
        /\ \A i \in DOMAIN sessions' : sessions'[i] = sessions[i]
    BY <1>1, <1>3 DEF Drop
  <2>3. /\ DOMAIN life' = DOMAIN life
        /\ life' \in [DOMAIN life' -> [user : Users, renewed : Nat, over : BOOLEAN]]
        /\ \A i \in DOMAIN life : i # id => life'[i] = life[i]
    BY <1>1, <2>1 DEF TableInv
  <2>4. TableInv'
    BY <2>2, <2>3, SMTT(30) DEF TableInv
  <2>5. QED
    BY <2>1, <2>4 DEF AnswerInv, SessionAnswerSound
<1>4. QED
  BY <1>2, <1>3

LEMMA DestroyKeeps ==
    ASSUME TableInv, NEW id \in SessionIds, DestroySession(id)
    PROVE  TableInv' /\ AnswerInv'
<1>1. /\ id \in DOMAIN life /\ got' = Nothing
      /\ sessions' = Drop(sessions, {id}) /\ life' = [life EXCEPT ![id].over = TRUE]
  BY DEF DestroySession
<1>2. /\ DOMAIN sessions' = DOMAIN sessions \ {id}
      /\ \A i \in DOMAIN sessions' : sessions'[i] = sessions[i]
  BY <1>1 DEF Drop
<1>3. /\ DOMAIN life' = DOMAIN life
      /\ life' \in [DOMAIN life' -> [user : Users, renewed : Nat, over : BOOLEAN]]
      /\ \A i \in DOMAIN life : i # id => life'[i] = life[i]
  BY <1>1 DEF TableInv
<1>4. TableInv'
  BY <1>2, <1>3 DEF TableInv
<1>5. QED
  BY <1>1, <1>4 DEF AnswerInv, SessionAnswerSound

LEMMA RefreshKeeps ==
    ASSUME TableInv, now \in Nat, NEW id \in SessionIds, RefreshSession(id)
    PROVE  TableInv' /\ AnswerInv'
<1> USE CredentialsAssumption
<1>1. got' = Nothing
  BY DEF RefreshSession, RenewIf
<1>2. TableInv'
  <2>1. CASE id \notin DOMAIN sessions
    BY <2>1 DEF RefreshSession, RenewIf, TableInv
  <2>2. CASE id \in DOMAIN sessions
    <3>1. /\ id \in DOMAIN life
          /\ sessions' = Put(sessions, id, [user |-> life[id].user, expires |-> now + Lifetime])
          /\ life' = [life EXCEPT ![id].renewed = now]
      BY <2>2 DEF RefreshSession, RenewIf
    <3>2. /\ DOMAIN sessions' = DOMAIN sessions
          /\ sessions'[id] = [user |-> life[id].user, expires |-> now + Lifetime]
          /\ \A i \in DOMAIN sessions : i # id => sessions'[i] = sessions[i]
      BY <2>2, <3>1 DEF Put
    <3>3. /\ DOMAIN life' = DOMAIN life
          /\ life' \in [DOMAIN life' -> [user : Users, renewed : Nat, over : BOOLEAN]]
          /\ \A i \in DOMAIN life : i # id => life'[i] = life[i]
          /\ life'[id] = [user |-> life[id].user, renewed |-> now, over |-> life[id].over]
      BY <3>1 DEF TableInv
    <3>4. QED
      BY <2>2, <3>2, <3>3 DEF TableInv
  <2>3. QED
    BY <2>1, <2>2
<1>3. QED
  BY <1>1, <1>2 DEF AnswerInv, SessionAnswerSound

LEMMA SessionStepKeeps ==
    ASSUME CredIInv, SessionNext, UNCHANGED now
    PROVE  TableInv' /\ AnswerInv'
<1>1. TableInv /\ now \in Nat
  BY DEF CredIInv, CredTypeOK
<1>2. ASSUME NEW id \in SessionIds, NEW u \in Users,
             CreateSession(id, u) \/ CreateSessionAside(id, u)
      PROVE  TableInv' /\ AnswerInv'
  BY <1>1, <1>2, CreateKeeps
<1>3. ASSUME NEW id \in SessionIds, GetSession(id) \/ DestroySession(id) \/ RefreshSession(id)
      PROVE  TableInv' /\ AnswerInv'
  BY <1>1, <1>3, GetKeeps, DestroyKeeps, RefreshKeeps
<1>4. ASSUME SessionRestart PROVE TableInv' /\ AnswerInv'
  <2>1. /\ sessions' = EmptyDict /\ got' = Nothing
        /\ DOMAIN life' = DOMAIN life
        /\ life' \in [DOMAIN life' -> [user : Users, renewed : Nat, over : BOOLEAN]]
    BY <1>1, <1>4 DEF SessionRestart, TableInv
  <2>2. QED
    BY <1>1, <2>1, EmptyFacts DEF TableInv, AnswerInv, SessionAnswerSound
<1>5. ~SessionTick
  BY <1>1 DEF SessionTick, Tick
<1>6. QED
  BY <1>2, <1>3, <1>4, <1>5 DEF SessionNext

\* The step of a table changes its own part of CredTypeOK only.
LEMMA SessionTypeKept ==
    ASSUME CredIInv, UNCHANGED <<now, jwtVars, csrfVars>>, TableInv'
    PROVE  CredTypeOK'
<1> USE CredentialsAssumption
<1>1. ASSUME NEW id \in DOMAIN sessions' PROVE sessions'[id] \in Session
  <2>1. /\ id \in DOMAIN life'
        /\ life'[id] \in [user : Users, renewed : Nat, over : BOOLEAN]
        /\ sessions'[id] = [user |-> life'[id].user, expires |-> life'[id].renewed + Lifetime]
    BY DEF TableInv
  <2>2. QED
    BY <2>1 DEF Session
<1>2. QED
  BY <1>1 DEF CredIInv, CredTypeOK, TableInv, jwtVars, csrfVars

LEMMA JwtStepKeeps ==
    ASSUME CredIInv, JwtNext, UNCHANGED <<now, sessionVars, csrfVars>>
    PROVE  JwtInv' /\ CredTypeOK'
<1> USE CredentialsAssumption
<1> DEFINE Jwt(n) == [user : Users, exp : Nat, by : 1..n]
<1>1. /\ now \in Nat /\ JwtInv /\ tokens \subseteq Jwt(managers)
      /\ managers \in Nat /\ manager \in 1..managers /\ envKey \in BOOLEAN
  BY DEF CredIInv, CredTypeOK, JwtInv
<1> DEFINE Stays ==
        /\ managers' \in Nat /\ managers <= managers' /\ manager' \in 1..managers'
        /\ envKey' = envKey /\ tokens' \subseteq Jwt(managers')
        /\ tokens \subseteq tokens'
        /\ decoded' # Nothing => /\ decoded' \in tokens /\ now <= decoded'.exp
                                 /\ decoded'.by = manager' \/ envKey
<1>2. Stays
  <2>1. ASSUME NEW u \in Users, Encode(u) PROVE Stays
    BY <1>1, <2>1 DEF Encode, Token
  <2>2. ASSUME NEW u \in Users, CreateJwt(u) PROVE Stays
    BY <1>1, <2>2 DEF CreateJwt, Token
  <2>3. ASSUME NEW t \in tokens, Decode(t) PROVE Stays
    <3>1. decoded' = IF Secret(t.by) = Secret(manager) /\ now <= t.exp THEN t ELSE Nothing
      BY <2>3 DEF Decode, Accept
    <3>2. Secret(t.by) = Secret(manager) => t.by = manager \/ envKey
      BY DEF Secret
    <3>3. UNCHANGED <<envKey, manager, managers, tokens>>
      BY <2>3 DEF Decode, Accept
    <3>4. decoded' # Nothing => decoded' = t /\ now <= t.exp /\ (t.by = manager \/ envKey)
      BY <3>1, <3>2
    <3>5. QED
      BY <1>1, <3>3, <3>4
  <2>4. ASSUME JwtRestart PROVE Stays
    <3>1. /\ managers' = managers + 1 /\ manager' = managers + 1 /\ decoded' = Nothing
          /\ UNCHANGED <<envKey, tokens>>
      BY <2>4 DEF JwtRestart
    <3>2. Jwt(managers) \subseteq Jwt(managers')
      BY <1>1, <3>1
    <3>3. tokens' \subseteq Jwt(managers')
      BY <1>1, <3>1, <3>2
    <3>4. managers' \in Nat /\ managers <= managers' /\ manager' \in 1..managers'
      BY <1>1, <3>1
    <3>5. QED
      BY <3>1, <3>3, <3>4
  <2>5. ~JwtTick
    BY <1>1 DEF JwtTick, Tick
  <2>6. QED
    BY <2>1, <2>2, <2>3, <2>4, <2>5 DEF JwtNext
<1>3. JwtInv'
  BY <1>1, <1>2 DEF JwtInv, JwtAnswerSound
<1>4. CredTypeOK'
  BY <1>1, <1>2 DEF CredIInv, CredTypeOK, sessionVars, csrfVars
<1>5. QED
  BY <1>3, <1>4

\* What becomes of the table of CSRF tokens in one step.
LEMMA CsrfStep ==
    ASSUME CredIInv, CsrfNext, UNCHANGED now
    PROVE  \/ \E c \in CsrfNames, s \in SessionIds :
                 /\ csrfOwner[c] = Nothing
                 /\ csrf' = Put(csrf, c, now)
                 /\ csrfOwner' = [csrfOwner EXCEPT ![c] = s]
                 /\ csrfEra' = csrfEra
           \/ \E old \in SUBSET DOMAIN csrf :
                 /\ csrf' = Drop(csrf, old)
                 /\ csrfOwner' = csrfOwner /\ csrfEra' = csrfEra
                 /\ \A c \in old : now - csrf[c] > CsrfExpiry
           \/ csrf' = EmptyDict /\ csrfOwner' = csrfOwner /\ csrfEra' = ~csrfEra
<1> USE CredentialsAssumption
<1>1. /\ now \in Nat /\ now > CsrfExpiry /\ DOMAIN csrf \subseteq CsrfNames
      /\ \A c \in DOMAIN csrf : csrf[c] \in Nat
      /\ csrf = [c \in DOMAIN csrf |-> csrf[c]]
  BY DEF CredIInv, CredTypeOK, CsrfInv
<1>2. ASSUME NEW c \in CsrfNames, NEW s \in SessionIds, ValidateToken(c, s)
      PROVE  \E old \in SUBSET DOMAIN csrf :
                 /\ csrf' = Drop(csrf, old)
                 /\ csrfOwner' = csrfOwner /\ csrfEra' = csrfEra
                 /\ \A b \in old : now - csrf[b] > CsrfExpiry
  <2>1. UNCHANGED <<csrfOwner, csrfEra>>
    BY <1>2 DEF ValidateToken
  <2>2. CASE csrfOwner[c] = s /\ ~CsrfValid(c, s) /\ c \in DOMAIN csrf
    <3>1. csrf' = Drop(csrf, {c})
      BY <1>2, <2>2 DEF ValidateToken
    <3>2. now - csrf[c] > CsrfExpiry
      BY <1>1, <2>2 DEF CsrfValid, Created
    <3>3. QED
      BY <2>1, <2>2, <3>1, <3>2
  <2>3. CASE ~(csrfOwner[c] = s /\ ~CsrfValid(c, s) /\ c \in DOMAIN csrf)
    <3>1. csrf' = Drop(csrf, {})
      BY <1>1, <1>2, <2>3 DEF ValidateToken, Drop
    <3>2. QED
      BY <2>1, <3>1
  <2>4. QED
    BY <2>2, <2>3
<1>3. ASSUME CleanupExpired
      PROVE  /\ csrf' = Drop(csrf, Aged(CsrfExpiry + 1))
             /\ csrfOwner' = csrfOwner /\ csrfEra' = csrfEra
             /\ Aged(CsrfExpiry + 1) \in SUBSET DOMAIN csrf
             /\ \A c \in Aged(CsrfExpiry + 1) : now - csrf[c] > CsrfExpiry
  BY <1>1, <1>3 DEF CleanupExpired, Aged
<1>4. ~CsrfTick
  BY <1>1 DEF CsrfTick, Tick
<1>5. ASSUME NEW c \in CsrfNames, NEW s \in SessionIds, GenerateToken(c, s)
      PROVE  /\ csrfOwner[c] = Nothing /\ csrf' = Put(csrf, c, now)
             /\ csrfOwner' = [csrfOwner EXCEPT ![c] = s] /\ csrfEra' = csrfEra
  BY <1>5 DEF GenerateToken
<1>6. ASSUME CsrfRestart
      PROVE  csrf' = EmptyDict /\ csrfOwner' = csrfOwner /\ csrfEra' = ~csrfEra
  BY <1>6 DEF CsrfRestart
<1>7. QED
  BY <1>2, <1>3, <1>4, <1>5, <1>6 DEF CsrfNext

LEMMA CsrfStepKeeps ==
    ASSUME CredIInv, CsrfNext, UNCHANGED <<now, sessionVars, jwtVars>>
    PROVE  CsrfInv' /\ CredTypeOK'
<1> USE CredentialsAssumption
<1>1. now \in Nat /\ DOMAIN csrf \subseteq CsrfNames /\ CsrfInv
  BY DEF CredIInv, CredTypeOK
<1> DEFINE Stays == CsrfInv' /\ DOMAIN csrf' \subseteq CsrfNames
<1>2. Stays
  <2>1. ASSUME NEW c \in CsrfNames, NEW s \in SessionIds,
               csrf' = Put(csrf, c, now), csrfOwner' = [csrfOwner EXCEPT ![c] = s],
               csrfEra' = csrfEra
        PROVE  Stays
    <3>1. /\ DOMAIN csrf' = DOMAIN csrf \cup {c} /\ csrf'[c] = now
          /\ \A b \in DOMAIN csrf : b # c => csrf'[b] = csrf[b]
      BY <2>1 DEF Put
    <3>2. csrfOwner'[c] = s /\ \A b \in CsrfNames : b # c => csrfOwner'[b] = csrfOwner[b]
      BY <1>1, <2>1 DEF CsrfInv
    <3>3. csrfOwner' \in [CsrfNames -> SessionIds \cup {Nothing}]
      BY <1>1, <2>1 DEF CsrfInv
    <3>4. csrf' \in [DOMAIN csrf' -> Nat]
      BY <1>1, <2>1 DEF CsrfInv, Put
    <3>5. QED
      BY <1>1, <2>1, <3>1, <3>2, <3>3, <3>4 DEF CsrfInv
  <2>2. ASSUME NEW old \in SUBSET DOMAIN csrf, csrf' = Drop(csrf, old),
               csrfOwner' = csrfOwner, csrfEra' = csrfEra
        PROVE  Stays
    BY <1>1, <2>2 DEF CsrfInv, Drop
  <2>3. ASSUME csrf' = EmptyDict, csrfOwner' = csrfOwner, csrfEra' = ~csrfEra
        PROVE  Stays
    BY <1>1, <2>3, EmptyFacts DEF CsrfInv
  <2>4. QED
    BY <2>1, <2>2, <2>3, CsrfStep
<1>3. QED
  BY <1>2 DEF CredIInv, CredTypeOK, sessionVars, jwtVars

LEMMA CredNextIInv == CredIInv /\ [CredNext]_credVars => CredIInv'
<1> SUFFICES ASSUME CredIInv, [CredNext]_credVars PROVE CredIInv'
  OBVIOUS
<1> USE CredentialsAssumption
<1>1. CASE SessionTick /\ JwtTick /\ CsrfTick
  <2>1. /\ now \in Nat /\ now < MaxTime /\ now' = now + 1
        /\ got' = Nothing /\ decoded' = Nothing
        /\ UNCHANGED <<sessions, life, envKey, manager, managers, tokens>>
        /\ UNCHANGED <<csrf, csrfOwner, csrfEra>>
    BY <1>1 DEF CredIInv, CredTypeOK, SessionTick, JwtTick, CsrfTick, Tick, csrfVars
  <2>2. CredTypeOK'
    BY <2>1 DEF CredIInv, CredTypeOK
  <2>3. TableInv'
    BY <2>1 DEF CredIInv, TableInv
  <2>4. AnswerInv' /\ JwtInv'
    BY <2>1 DEF CredIInv, AnswerInv, SessionAnswerSound, JwtInv, JwtAnswerSound
  <2>5. CsrfInv'
    BY <2>1 DEF CredIInv, CsrfInv
  <2>6. QED
    BY <2>2, <2>3, <2>4, <2>5 DEF CredIInv
<1>2. CASE SessionNext /\ UNCHANGED <<now, jwtVars, csrfVars>>
  <2>1. TableInv' /\ AnswerInv'
    BY <1>2, SessionStepKeeps
  <2>2. CredTypeOK'
    BY <1>2, <2>1, SessionTypeKept
  <2>3. JwtInv' /\ CsrfInv'
    BY <1>2 DEF CredIInv, JwtInv, JwtAnswerSound, CsrfInv, jwtVars, csrfVars
  <2>4. QED
    BY <2>1, <2>2, <2>3 DEF CredIInv
<1>3. CASE JwtNext /\ UNCHANGED <<now, sessionVars, csrfVars>>
  <2>1. JwtInv' /\ CredTypeOK'
    BY <1>3, JwtStepKeeps
  <2>2. TableInv' /\ AnswerInv' /\ CsrfInv'
    BY <1>3 DEF CredIInv, TableInv, AnswerInv, SessionAnswerSound, CsrfInv, sessionVars, csrfVars
  <2>3. QED
    BY <2>1, <2>2 DEF CredIInv
<1>4. CASE CsrfNext /\ UNCHANGED <<now, sessionVars, jwtVars>>
  <2>1. CsrfInv' /\ CredTypeOK'
    BY <1>4, CsrfStepKeeps
  <2>2. TableInv' /\ AnswerInv' /\ JwtInv'
    BY <1>4 DEF CredIInv, TableInv, AnswerInv, SessionAnswerSound, JwtInv, JwtAnswerSound,
               sessionVars, jwtVars
  <2>3. QED
    BY <2>1, <2>2 DEF CredIInv
<1>5. CASE UNCHANGED credVars
  BY <1>5 DEF CredIInv, CredTypeOK, TableInv, AnswerInv, SessionAnswerSound, JwtInv,
              JwtAnswerSound, CsrfInv, credVars, sessionVars, jwtVars, csrfVars
<1>6. QED
  BY <1>1, <1>2, <1>3, <1>4, <1>5 DEF CredNext

\* The strengthened invariant holds in every reachable state.
THEOREM CredentialsInvariant == CredSpec => []CredIInv
BY CredInitIInv, CredNextIInv, PTL DEF CredSpec

\* No answer of get_session or decode vouches for a user whose session or
\* token is over, was made for another user or with another secret.
THEOREM CredentialsAreSound == CredSpec => []CredentialsSound
<1>1. CredIInv => CredentialsSound
  BY DEF CredIInv, AnswerInv, JwtInv, CredentialsSound
<1>2. QED
  BY <1>1, CredentialsInvariant, PTL

\* refresh_session never brings back a session that was destroyed, turned
\* away or lost in a restart.
THEOREM NoSessionResurrects == CredSpec => []NoResurrection
<1>1. CredIInv => NoResurrection
  BY DEF CredIInv, TableInv, NoResurrection
<1>2. QED
  BY <1>1, CredentialsInvariant, PTL

\* Only time and a restart end the validity of a CSRF token.
THEOREM CsrfTokensEndByAge == CredSpec => CsrfEndsByAge
<1> USE CredentialsAssumption
<1> DEFINE Stays == now' = now /\ csrfEra' = csrfEra =>
                      \A c \in CsrfNames, s \in SessionIds :
                          CsrfValid(c, s) => CsrfValid(c, s)'
<1>1. ASSUME CredIInv, [CredNext]_credVars PROVE [Stays]_csrfVars
  <2> SUFFICES ASSUME csrfVars' # csrfVars, now' = now, csrfEra' = csrfEra,
                      NEW c \in CsrfNames, NEW s \in SessionIds, CsrfValid(c, s)
               PROVE  CsrfValid(c, s)'
    OBVIOUS
  <2>1. CsrfNext
    <3>1. ~CsrfTick
      BY DEF CsrfTick
    <3>2. QED
      BY <1>1, <3>1 DEF CredNext, credVars
  <2>2. /\ now \in Nat /\ now > CsrfExpiry /\ csrfOwner[c] = s /\ s # Nothing
        /\ csrfEra \in BOOLEAN /\ csrfOwner \in [CsrfNames -> SessionIds \cup {Nothing}]
        /\ c \in DOMAIN csrf /\ csrf[c] \in Nat /\ now - csrf[c] <= CsrfExpiry
    BY <1>1 DEF CredIInv, CredTypeOK, CsrfInv, CsrfValid, Created
  <2> DEFINE Same == csrfOwner'[c] = s /\ c \in DOMAIN csrf' /\ csrf'[c] = csrf[c]
  <2>3. Same
    <3>1. ASSUME NEW b \in CsrfNames, NEW r \in SessionIds, csrfOwner[b] = Nothing,
                 csrf' = Put(csrf, b, now), csrfOwner' = [csrfOwner EXCEPT ![b] = r]
          PROVE  Same
      BY <2>2, <3>1 DEF Put
    <3>2. ASSUME NEW old \in SUBSET DOMAIN csrf, csrf' = Drop(csrf, old),
                 csrfOwner' = csrfOwner, \A b \in old : now - csrf[b] > CsrfExpiry
          PROVE  Same
      <4>1. c \notin old
        BY <2>2, <3>2
      <4>2. QED
        BY <2>2, <3>2, <4>1 DEF Drop
    <3>3. csrfEra' # ~csrfEra
      BY <2>2
    <3>4. QED
      BY <1>1, <2>1, <3>1, <3>2, <3>3, CsrfStep
  <2>4. QED
    BY <2>2, <2>3 DEF CsrfValid, Created
<1>2. QED
  BY <1>1, CredentialsInvariant, PTL DEF CredSpec, CsrfEndsByAge

-----------------------------------------------------------------------------
(* Hot reload *)

HrSpec == HrInit /\ [][HrNext]_hrVars

LEMMA HrStepIInv == HrIInv /\ [HrNext]_hrVars => HrIInv'
<1> USE DEF HrIInv, RunningIsTrue, hrVars
<1> SUFFICES ASSUME HrIInv, [HrNext]_hrVars PROVE HrIInv'
  OBVIOUS
<1>1. ASSUME NEW d \in Dirs, MakeDir(d) \/ FileChanges(d) PROVE HrIInv'
  BY <1>1 DEF MakeDir, FileChanges
<1>10. ASSUME NEW d \in Dirs, CallbackBegins(d) PROVE HrIInv'
  <2>1. /\ calling' = TRUE /\ UNCHANGED <<observer, running, joining, selfStop, raised>>
        /\ observer = "alive"
    BY <1>10 DEF CallbackBegins
  <2>2. QED
    BY <2>1
<1>2. CASE ReloaderStart
  <2>1. /\ ~running /\ UNCHANGED <<joining, calling, selfStop, raised>>
        /\ IF observer = "new" THEN observer' = "alive" /\ running' = TRUE
                               ELSE observer' = observer /\ running' = running
    BY <1>2 DEF ReloaderStart
  <2>2. CASE observer = "new"
    BY <2>1, <2>2
  <2>3. CASE observer # "new"
    <3>1. ~running' /\ ~calling' /\ ~joining' /\ observer' \in {"dead"}
      BY <2>1, <2>3
    <3>2. QED
      BY <2>1, <3>1
  <2>4. QED
    BY <2>2, <2>3
<1>3. CASE ReloaderStop
  BY <1>3 DEF ReloaderStop, Ending
<1>4. CASE JoinReturns
  BY <1>4 DEF JoinReturns, Joined
<1>5. CASE CallbackStops
  BY <1>5 DEF CallbackStops, Ending
<1>6. CASE CallbackEnds
  BY <1>6 DEF CallbackEnds
<1>7. CASE ObserverEnds
  BY <1>7 DEF ObserverEnds
<1>8. CASE UNCHANGED hrVars
  BY <1>8
<1>11. CASE WatchRaises
  BY <1>11 DEF WatchRaises
<1>9. QED
  BY <1>1, <1>2, <1>3, <1>4, <1>5, <1>6, <1>7, <1>8, <1>10, <1>11 DEF HrNext

\* _running tells the truth about the observer thread, until the callback raises or stops it.
THEOREM RunningFlagIsTrue == HrSpec => []RunningIsTrue
<1>1. HrInit => HrIInv
  BY DEF HrInit, HrIInv, RunningIsTrue
<1>2. HrIInv => RunningIsTrue
  BY DEF HrIInv
<1>3. QED
  BY <1>1, <1>2, HrStepIInv, PTL DEF HrSpec

-----------------------------------------------------------------------------
(* Mail *)

MailSpec == MailInit /\ [][MailNext]_mailVars

LEMMA MailStepIInv == MailIInv /\ [MailNext]_mailVars => MailIInv'
<1> USE DEF MailIInv, mailVars
<1> SUFFICES ASSUME MailIInv, [MailNext]_mailVars PROVE MailIInv'
  OBVIOUS
<1>1. ASSUME NEW p \in Others \cup {"smtp"}, AddProvider(p) PROVE MailIInv'
  BY <1>1 DEF AddProvider
<1>2. ASSUME NEW p \in Others \cup {"smtp"}, SendElsewhere(p) PROVE MailIInv'
  BY <1>2 DEF SendElsewhere, Render, Rendered, Lost
<1>3. ASSUME NEW on \in BOOLEAN, EnablePreview(on) PROVE MailIInv'
  BY <1>3 DEF EnablePreview
<1>4. CASE SendSmtp
  BY <1>4 DEF SendSmtp, Render, Rendered, Lost
<1>5. CASE AttachmentFails \/ SmtpConnects
  BY <1>5 DEF AttachmentFails, SmtpConnects
<1>6. CASE SmtpAccepts
  BY <1>6 DEF SmtpAccepts
<1>7. CASE SmtpQuits
  BY <1>7 DEF SmtpQuits
<1>8. CASE SmtpFails
  BY <1>8 DEF SmtpFails, Failure
<1>9. CASE UNCHANGED mailVars
  BY <1>9
<1>10. QED
  BY <1>1, <1>2, <1>3, <1>4, <1>5, <1>6, <1>7, <1>8, <1>9 DEF MailNext

\* Between calls every delivery is reported or doubtful, a delivered message
\* is marked sent, and none is rendered more often than it was sent.
THEOREM MailIsAccounted == MailSpec => []MailAccounted
<1>1. MailInit => MailIInv
  <2>1. MailInit => sentMark \in BOOLEAN
    BY DEF MailInit, NewMessage
  <2>2. MailInit => /\ layers = 0 /\ mails = 0 /\ delivered = 0 /\ reported = 0 /\ doubtful = 0
                    /\ dialogue = "none"
    BY DEF MailInit, NewMessage
  <2>3. QED
    BY <2>1, <2>2 DEF MailIInv
<1>2. MailIInv => MailAccounted
  BY DEF MailIInv, MailAccounted
<1>3. QED
  BY <1>1, <1>2, MailStepIInv, PTL DEF MailSpec

-----------------------------------------------------------------------------
(* Workflow *)

WfSpec == WfInit /\ [][WfNext]_wfVars

\* The stack of calls without the innermost one.
LEMMA StackFacts ==
    ASSUME WfTypeOK, frames # <<>>
    PROVE  /\ Len(frames) \in Nat \ {0} /\ DOMAIN frames = 1..Len(frames)
           /\ callee = frames[Len(frames)] /\ callee \in FrameSet
           /\ Return \in Seq(FrameSet) /\ Len(Return) = Len(frames) - 1
           /\ DOMAIN Return = 1..(Len(frames) - 1)
           /\ \A k \in 1..(Len(frames) - 1) : Return[k] = frames[k]
           /\ Return # <<>> <=> Len(frames) > 1
<1>1. /\ Len(frames) \in Nat \ {0} /\ DOMAIN frames = 1..Len(frames)
      /\ frames \in Seq(FrameSet)
  BY DEF WfTypeOK
<1>2. callee = frames[Len(frames)] /\ callee \in FrameSet
  BY <1>1 DEF callee
<1>3. /\ Return \in Seq(FrameSet) /\ Len(Return) = Len(frames) - 1
      /\ \A k \in 1..(Len(frames) - 1) : Return[k] = frames[k]
  BY <1>1 DEF Return
<1>4. QED
  BY <1>1, <1>2, <1>3

\* A call is added to the stack, and with it an assignment or none.
LEMMA StackedFacts ==
    ASSUME WfTypeOK, NEW f \in FrameSet
    PROVE  /\ Append(frames, f) \in Seq(FrameSet)
           /\ Len(frames) \in Nat /\ Len(Append(frames, f)) = Len(frames) + 1
           /\ DOMAIN Append(frames, f) = 1..(Len(frames) + 1)
           /\ Append(frames, f)[Len(frames) + 1] = f
           /\ \A k \in 1..Len(frames) : Append(frames, f)[k] = frames[k]
           /\ frames = <<>> <=> Len(frames) = 0
BY DEF WfTypeOK

\* The innermost call goes on.
LEMMA ContinueFacts ==
    ASSUME WfTypeOK, frames # <<>>, NEW where \in {"guard", "handler", "exit", "entry"}
    PROVE  LET new == [frames EXCEPT ![Len(frames)].pc = where] IN
           /\ new \in Seq(FrameSet) /\ Len(new) = Len(frames) /\ DOMAIN new = 1..Len(frames)
           /\ new[Len(frames)] = [callee EXCEPT !.pc = where]
           /\ \A k \in 1..(Len(frames) - 1) : new[k] = frames[k]
<1> DEFINE new == [frames EXCEPT ![Len(frames)].pc = where]
<1>1. /\ Len(frames) \in Nat \ {0} /\ callee = frames[Len(frames)] /\ callee \in FrameSet
      /\ frames \in Seq(FrameSet) /\ DOMAIN frames = 1..Len(frames)
  BY StackFacts DEF WfTypeOK
<1>2. [callee EXCEPT !.pc = where] \in FrameSet
  BY <1>1 DEF FrameSet
<1>3. new = [frames EXCEPT ![Len(frames)] = [callee EXCEPT !.pc = where]]
  BY <1>1
<1>4. new \in Seq(FrameSet) /\ Len(new) = Len(frames) /\ DOMAIN new = 1..Len(frames)
  BY <1>1, <1>2, <1>3, ExceptSeq
<1>5. QED
  BY <1>1, <1>3, <1>4

\* An assignment by call number self marks the calls it overtakes.
LEMMA AssignFacts ==
    ASSUME NEW s, NEW self \in Nat, NEW stack \in Seq(FrameSet), NEW move,
           Assign(s, self, stack, move)
    PROVE  /\ current' = s /\ lastMove' = move
           /\ frames' \in Seq(FrameSet) /\ Len(frames') = Len(stack)
           /\ DOMAIN frames' = 1..Len(stack)
           /\ \A k \in 1..Len(stack) :
                 frames'[k] = [stack[k] EXCEPT !.overtaken = @ \/ k < self]
<1>1. /\ current' = s /\ lastMove' = move
      /\ frames' = [k \in DOMAIN stack |-> [stack[k] EXCEPT !.overtaken = @ \/ k < self]]
  BY DEF Assign
<1>2. DOMAIN stack = 1..Len(stack) /\ Len(stack) \in Nat
  OBVIOUS
<1>3. ASSUME NEW k \in 1..Len(stack)
      PROVE  [stack[k] EXCEPT !.overtaken = @ \/ k < self] \in FrameSet
  <2>1. stack[k] \in FrameSet
    BY <1>2
  <2>2. PICK b \in BOOLEAN : b = (stack[k].overtaken \/ k < self)
    OBVIOUS
  <2>3. [stack[k] EXCEPT !.overtaken = b] \in FrameSet
    BY <2>1 DEF FrameSet
  <2>4. QED
    BY <2>2, <2>3
<1>4. frames' \in Seq(FrameSet)
  BY <1>1, <1>2, <1>3, IsASeq
<1>5. QED
  BY <1>1, <1>2, <1>4

LEMMA StartKeeps ==
    ASSUME WfIInv, NEW i \in Instances, NEW s \in States, Start(i, s)
    PROVE  WfIInv'
<1> DEFINE f == Frame("start", i, s, "entry")
           n == Len(frames)
<1>1. f \in FrameSet /\ f.kind = "start" /\ f.inst = i /\ f.target = s /\ f.pc = "entry"
  BY DEF Frame, FrameSet
<1>2. /\ WfTypeOK /\ n \in Nat /\ Append(frames, f) \in Seq(FrameSet)
      /\ Len(Append(frames, f)) = n + 1 /\ Append(frames, f)[n + 1] = f
      /\ \A k \in 1..n : Append(frames, f)[k] = frames[k]
      /\ frames = <<>> <=> n = 0
      /\ DOMAIN frames = 1..n /\ \A k \in 1..n : frames[k] \in FrameSet
      /\ n + 1 \in Nat
  BY <1>1, StackedFacts DEF WfIInv, WfTypeOK
<1>3. /\ Assign(s, n + 1, Append(frames, f), NoMove) /\ UNCHANGED lastTo
      /\ disturbed' = [j \in Instances |-> disturbed[j] \/ j # i \/ frames # <<>>]
  BY DEF Start, Disturb
<1> HIDE DEF f
<1>4. /\ current' = s /\ lastMove' = NoMove
      /\ frames' \in Seq(FrameSet) /\ Len(frames') = n + 1 /\ DOMAIN frames' = 1..(n + 1)
      /\ \A k \in 1..(n + 1) : frames'[k] =
            [Append(frames, f)[k] EXCEPT !.overtaken = @ \/ k < n + 1]
  <2> DEFINE stack == Append(frames, f)
  <2>1. stack \in Seq(FrameSet) /\ n + 1 \in Nat /\ Assign(s, n + 1, stack, NoMove)
    BY <1>2, <1>3
  <2> HIDE DEF stack
  <2>2. /\ current' = s /\ lastMove' = NoMove
        /\ frames' \in Seq(FrameSet) /\ Len(frames') = Len(stack)
        /\ DOMAIN frames' = 1..Len(stack)
        /\ \A k \in 1..Len(stack) :
              frames'[k] = [stack[k] EXCEPT !.overtaken = @ \/ k < n + 1]
    BY <2>1, AssignFacts
  <2>3. QED
    BY <1>2, <2>2 DEF stack
<1>5. ASSUME NEW k \in 1..n
      PROVE  /\ frames'[k].overtaken
             /\ frames'[k].kind = frames[k].kind /\ frames'[k].pc = frames[k].pc
  <2>1. /\ frames'[k] = [frames[k] EXCEPT !.overtaken = @ \/ k < n + 1]
        /\ frames[k] \in FrameSet /\ k < n + 1
    BY <1>2, <1>4
  <2>2. QED
    BY <2>1 DEF FrameSet
<1>6. /\ frames'[n + 1].kind = "start" /\ frames'[n + 1].pc = "entry"
      /\ frames'[n + 1].target = s /\ frames'[n + 1].inst = i
  BY <1>1, <1>2, <1>4 DEF FrameSet
<1>7. WfTypeOK'
  BY <1>2, <1>3, <1>4 DEF WfTypeOK
<1>8. StackInv'
  <2>1. ASSUME NEW k \in 1..n PROVE CallInv(frames'[k], current') 
    BY <1>2, <1>5 DEF WfIInv, StackInv, CallInv
  <2>2. CallInv(frames'[n + 1], current')
    BY <1>3, <1>4, <1>6 DEF CallInv
  <2>3. QED
    BY <1>2, <1>4, <2>1, <2>2 DEF StackInv
<1>9. HistoryInv'
  <2>1. ASSUME NEW j \in Instances, n > 0 \/ j # i PROVE disturbed'[j]
    <3>1. disturbed'[j] = (disturbed[j] \/ j # i \/ frames # <<>>)
      BY <1>3
    <3>2. j # i \/ frames # <<>>
      BY <1>2, <2>1
    <3>3. QED
      BY <3>1, <3>2
  <2>2. CASE n > 0
    BY <2>1, <2>2 DEF HistoryInv
  <2>3. CASE n = 0
    <3>1. Len(frames') = 1 /\ Recording(i)'
      BY <1>2, <1>4, <1>6, <2>3 DEF Recording
    <3>2. QED
      BY <2>1, <3>1 DEF HistoryInv
  <2>4. QED
    BY <1>2, <2>2, <2>3
<1>10. MovesDeclared'
  BY <1>4 DEF MovesDeclared, NoMove
<1>11. QED
  BY <1>7, <1>8, <1>9, <1>10 DEF WfIInv

LEMMA TriggerKeeps ==
    ASSUME WfIInv, NEW i \in Instances, NEW a \in Actions, Trigger(i, a)
    PROVE  WfIInv'
<1> DEFINE f == Frame("trigger", i, Arrows[current][a], "guard")
           n == Len(frames)
<1>1. /\ current \in States /\ a \in DOMAIN Arrows[current] /\ <<current, a>> \in Listed
      /\ frames' = Append(frames, f) /\ UNCHANGED <<current, lastTo, lastMove>>
      /\ disturbed' = [j \in Instances |-> disturbed[j] \/ frames # <<>>]
  BY DEF Trigger, TriggerIf, Disturb
<1>2. /\ f \in FrameSet /\ f.kind = "trigger" /\ f.pc = "guard"
      /\ f.target = Arrows[current][a]
  BY <1>1 DEF Frame, FrameSet, Targets
<1> HIDE DEF f
<1>3. /\ n \in Nat /\ frames' \in Seq(FrameSet) /\ Len(frames') = n + 1
      /\ DOMAIN frames' = 1..(n + 1) /\ frames'[n + 1] = f
      /\ \A k \in 1..n : frames'[k] = frames[k]
      /\ frames = <<>> <=> n = 0
      /\ DOMAIN frames = 1..n
  BY <1>1, <1>2, StackedFacts DEF WfIInv, WfTypeOK
<1>4. WfTypeOK'
  BY <1>1, <1>3 DEF WfIInv, WfTypeOK
<1>5. StackInv'
  <2>1. ASSUME NEW k \in 1..n PROVE CallInv(frames'[k], current')
    BY <1>1, <1>3 DEF WfIInv, StackInv, CallInv
  <2>2. CallInv(frames'[n + 1], current')
    BY <1>1, <1>2, <1>3 DEF CallInv
  <2>3. QED
    BY <1>3, <2>1, <2>2 DEF StackInv
<1>6. HistoryInv'
  <2>1. ASSUME NEW j \in Instances, n > 0 PROVE disturbed'[j]
    <3>1. disturbed'[j] = (disturbed[j] \/ frames # <<>>)
      BY <1>1
    <3>2. frames # <<>>
      BY <1>3, <2>1
    <3>3. QED
      BY <3>1, <3>2
  <2>2. CASE n > 0
    BY <2>1, <2>2 DEF HistoryInv
  <2>3. CASE n = 0
    <3>1. Len(frames') = 1 /\ frames = <<>>
      BY <1>3, <2>3
    <3>2. \A j \in Instances : disturbed[j] => disturbed'[j]
      BY <1>1
    <3>4. \A j \in Instances :
             lastTo[j] # NoState /\ ~disturbed[j] => lastTo[j] = current
      BY <3>1 DEF WfIInv, HistoryInv, Recording
    <3>5. QED
      BY <1>1, <3>1, <3>2, <3>4 DEF HistoryInv
  <2>4. QED
    BY <1>3, <2>2, <2>3
<1>7. MovesDeclared'
  BY <1>1 DEF WfIInv, MovesDeclared
<1>8. QED
  BY <1>4, <1>5, <1>6, <1>7 DEF WfIInv

\* The innermost call ends without a trace: a guard or a handler refused.
LEMMA RefusedKeeps ==
    ASSUME WfIInv, frames # <<>>, callee.pc # "entry", frames' = Return,
           UNCHANGED <<current, lastTo, disturbed, lastMove>>
    PROVE  WfIInv'
<1> DEFINE n == Len(frames)
<1>1. /\ n \in Nat \ {0} /\ DOMAIN frames = 1..n /\ frames[n].pc # "entry"
      /\ frames' \in Seq(FrameSet) /\ Len(frames') = n - 1 /\ DOMAIN frames' = 1..(n - 1)
      /\ \A k \in 1..(n - 1) : frames'[k] = frames[k]
      /\ frames' # <<>> <=> n > 1
  BY StackFacts DEF WfIInv
<1>2. WfTypeOK'
  BY <1>1 DEF WfIInv, WfTypeOK
<1>3. StackInv'
  <2>1. ASSUME NEW k \in 1..(n - 1) PROVE CallInv(frames'[k], current')
    <3>1. k \in DOMAIN frames /\ frames'[k] = frames[k]
      BY <1>1
    <3>2. QED
      BY <3>1 DEF WfIInv, StackInv
  <2>2. QED
    BY <1>1, <2>1 DEF StackInv
<1>4. HistoryInv'
  <2>1. CASE n > 1
    BY <1>1, <2>1 DEF WfIInv, HistoryInv
  <2>2. CASE n = 1
    BY <1>1, <2>2 DEF WfIInv, HistoryInv, Recording
  <2>3. QED
    BY <1>1, <2>1, <2>2
<1>5. MovesDeclared'
  BY DEF WfIInv, MovesDeclared
<1>6. QED
  BY <1>2, <1>3, <1>4, <1>5 DEF WfIInv

\* The innermost call goes on to a step before its assignment.
LEMMA ContinuedKeeps ==
    ASSUME WfIInv, frames # <<>>, callee.pc # "entry", NEW where \in {"handler", "exit"},
           Continue(where), UNCHANGED <<current, lastTo, disturbed, lastMove>>
    PROVE  WfIInv'
<1> DEFINE n == Len(frames)
<1>1. /\ n \in Nat \ {0} /\ DOMAIN frames = 1..n /\ frames[n].pc # "entry"
      /\ frames[n] \in FrameSet
      /\ frames' \in Seq(FrameSet) /\ Len(frames') = n /\ DOMAIN frames' = 1..n
      /\ \A k \in 1..(n - 1) : frames'[k] = frames[k]
      /\ frames'[n] = [frames[n] EXCEPT !.pc = where]
  BY StackFacts, ContinueFacts DEF WfIInv, Continue
<1>2. WfTypeOK'
  BY <1>1 DEF WfIInv, WfTypeOK
<1>3. /\ frames'[n].pc = where /\ frames'[n].kind = frames[n].kind
      /\ frames'[n].target = frames[n].target /\ frames'[n].overtaken = frames[n].overtaken
  BY <1>1 DEF FrameSet
<1>4. StackInv'
  <2>1. ASSUME NEW k \in 1..(n - 1) PROVE CallInv(frames'[k], current')
    BY <1>1 DEF WfIInv, StackInv, CallInv
  <2>2. CallInv(frames'[n], current')
    <3>1. CallInv(frames[n], current)
      BY <1>1 DEF WfIInv, StackInv
    <3>2. QED
      BY <1>1, <1>3, <3>1 DEF CallInv
  <2>3. QED
    BY <1>1, <2>1, <2>2 DEF StackInv
<1>5. HistoryInv'
  <2>1. CASE n > 1
    BY <1>1, <2>1 DEF WfIInv, HistoryInv
  <2>2. CASE n = 1
    BY <1>1, <1>3, <2>2 DEF WfIInv, HistoryInv, Recording
  <2>3. QED
    BY <1>1, <2>1, <2>2
<1>6. MovesDeclared'
  BY DEF WfIInv, MovesDeclared
<1>7. QED
  BY <1>2, <1>4, <1>5, <1>6 DEF WfIInv

\* The exit action has returned: the assignment.
LEMMA LeaveKeeps ==
    ASSUME WfIInv, ExitReturns
    PROVE  WfIInv'
<1> DEFINE n == Len(frames)
           t == callee.target
           stack == IF t \in States THEN [frames EXCEPT ![n].pc = "entry"] ELSE Return
<1>1. /\ frames # <<>> /\ callee.pc = "exit" /\ UNCHANGED lastTo
      /\ Assign(t, n, stack, [from |-> current, to |-> t, fit |-> ~callee.overtaken])
      /\ disturbed' = [j \in Instances |-> disturbed[j] \/ j # callee.inst \/ t \notin States]
  BY DEF ExitReturns, At, Leave, Disturb
<1>2. /\ n \in Nat \ {0} /\ DOMAIN frames = 1..n /\ callee = frames[n]
      /\ \A k \in 1..n : frames[k] \in FrameSet
      /\ CallInv(callee, current) /\ WfTypeOK
  BY <1>1, StackFacts DEF WfIInv, WfTypeOK, StackInv
<1>3. /\ stack \in Seq(FrameSet)
      /\ Len(stack) = IF t \in States THEN n ELSE n - 1
      /\ \A k \in 1..(n - 1) : stack[k] = frames[k]
      /\ t \in States => stack[n] = [callee EXCEPT !.pc = "entry"]
  <2>1. CASE t \in States
    BY <1>1, <1>2, <2>1, ContinueFacts DEF WfIInv
  <2>2. CASE t \notin States
    BY <1>1, <1>2, <2>2, StackFacts DEF WfIInv
  <2>3. QED
    BY <2>1, <2>2
<1> HIDE DEF stack
<1>4. /\ current' = t /\ lastMove' = [from |-> current, to |-> t, fit |-> ~callee.overtaken]
      /\ frames' \in Seq(FrameSet) /\ Len(frames') = Len(stack)
      /\ DOMAIN frames' = 1..Len(stack)
      /\ \A k \in 1..Len(stack) :
            frames'[k] = [stack[k] EXCEPT !.overtaken = @ \/ k < n]
  <2> DEFINE move == [from |-> current, to |-> t, fit |-> ~callee.overtaken]
  <2>1. n \in Nat /\ stack \in Seq(FrameSet) /\ Assign(t, n, stack, move)
    BY <1>1, <1>2, <1>3
  <2> HIDE DEF move
  <2>2. /\ current' = t /\ lastMove' = move
        /\ frames' \in Seq(FrameSet) /\ Len(frames') = Len(stack)
        /\ DOMAIN frames' = 1..Len(stack)
        /\ \A k \in 1..Len(stack) :
              frames'[k] = [stack[k] EXCEPT !.overtaken = @ \/ k < n]
    BY <2>1, AssignFacts
  <2>3. QED
    BY <2>2 DEF move
<1>12. /\ n \in Nat \ {0}
       /\ Len(stack) = n - 1 \/ (Len(stack) = n /\ t \in States)
       /\ t \in States => Len(stack) = n
  BY <1>2, <1>3
<1>5. ASSUME NEW k \in 1..(n - 1)
      PROVE  /\ frames'[k].overtaken
             /\ frames'[k].kind = frames[k].kind /\ frames'[k].pc = frames[k].pc
  <2>1. k \in 1..Len(stack) /\ k \in 1..n /\ k < n
    BY <1>12
  <2>2. frames'[k] = [frames[k] EXCEPT !.overtaken = @ \/ k < n] /\ frames[k] \in FrameSet
    BY <1>2, <1>3, <1>4, <2>1
  <2>3. QED
    BY <2>1, <2>2 DEF FrameSet
<1>6. t \in States => /\ frames'[n].kind = "trigger" /\ frames'[n].pc = "entry"
                      /\ frames'[n].inst = callee.inst
  <2>1. callee.kind = "trigger" /\ callee \in FrameSet
    BY <1>1, <1>2 DEF CallInv, FrameSet
  <2>2. t \in States => n \in 1..Len(stack)
    BY <1>12
  <2>3. t \in States => frames'[n] = [[callee EXCEPT !.pc = "entry"]
                                      EXCEPT !.overtaken = @ \/ n < n]
    BY <1>3, <1>4, <2>2
  <2>4. QED
    BY <2>1, <2>3 DEF FrameSet
<1>7. WfTypeOK'
  <2>1. t \in States \cup Targets
    BY <1>2 DEF FrameSet
  <2>2. disturbed' \in [Instances -> BOOLEAN]
    BY <1>1
  <2>3. QED
    BY <1>1, <1>2, <1>4, <2>1, <2>2 DEF WfTypeOK
<1>8. StackInv'
  <2>1. ASSUME NEW k \in 1..(n - 1) PROVE CallInv(frames'[k], current')
    <3>1. CallInv(frames[k], current)
      BY <1>2 DEF WfIInv, StackInv
    <3>2. QED
      BY <1>5, <3>1 DEF CallInv
  <2>2. t \in States => CallInv(frames'[n], current')
    BY <1>6 DEF CallInv
  <2>3. QED
    <3>1. \A k \in DOMAIN frames' : k \in 1..(n - 1) \/ (k = n /\ t \in States)
      BY <1>4, <1>12
    <3>2. QED
      BY <2>1, <2>2, <3>1 DEF StackInv
<1>9. HistoryInv'
  <2>1. ASSUME NEW j \in Instances, disturbed[j] \/ j # callee.inst \/ t \notin States
        PROVE  disturbed'[j]
    <3>1. disturbed'[j] = (disturbed[j] \/ j # callee.inst \/ t \notin States)
      BY <1>1
    <3>2. QED
      BY <2>1, <3>1
  <2>2. CASE n > 1
    <3>1. \A j \in Instances : disturbed[j]
      BY <2>2 DEF WfIInv, HistoryInv
    <3>2. QED
      BY <2>1, <3>1 DEF HistoryInv
  <2>3. CASE n = 1
    <3>1. ~(Len(frames') > 1)
      BY <1>4, <1>12, <2>3
    <3>2. ASSUME NEW j \in Instances, j = callee.inst, t \in States PROVE Recording(j)'
      <4>1. Len(frames') = 1 /\ frames' # <<>>
        BY <1>4, <1>12, <2>3, <3>2
      <4>2. QED
        BY <1>6, <2>3, <3>2, <4>1 DEF Recording
    <3>3. QED
      BY <2>1, <3>1, <3>2 DEF HistoryInv
  <2>4. QED
    BY <1>2, <2>2, <2>3
<1>10. MovesDeclared'
  <2>1. ~callee.overtaken =>
           /\ current \in States
           /\ \E a \in DOMAIN Arrows[current] :
                 <<current, a>> \in Listed /\ t = Arrows[current][a]
    BY <1>1, <1>2 DEF CallInv
  <2>2. /\ lastMove'.from = current /\ lastMove'.to = t
        /\ lastMove'.fit <=> ~callee.overtaken
    BY <1>4
  <2>3. QED
    BY <2>1, <2>2 DEF MovesDeclared
<1>11. QED
  BY <1>7, <1>8, <1>9, <1>10 DEF WfIInv

\* The entry action has returned or raised: the innermost call ends.
LEMMA EndKeeps ==
    ASSUME WfIInv, EntryReturns \/ EntryRaises
    PROVE  WfIInv'
<1> DEFINE n == Len(frames)
           i == callee.inst
           begun == callee.kind = "start"
<1>1. /\ n \in Nat \ {0} /\ DOMAIN frames = 1..n /\ callee = frames[n] /\ callee \in FrameSet
      /\ frames' = Return /\ frames' \in Seq(FrameSet) /\ Len(frames') = n - 1
      /\ DOMAIN frames' = 1..(n - 1)
      /\ \A k \in 1..(n - 1) : frames'[k] = frames[k]
      /\ frames' # <<>> <=> n > 1
      /\ callee.pc = "entry" /\ UNCHANGED <<current, lastMove>>
      /\ WfTypeOK /\ CallInv(callee, current)
  <2>1. /\ frames # <<>> /\ frames' = Return /\ callee.pc = "entry"
        /\ UNCHANGED <<current, lastMove>>
    BY DEF EntryReturns, EntryRaises, At
  <2>2. /\ n \in Nat \ {0} /\ DOMAIN frames = 1..n /\ callee = frames[n] /\ callee \in FrameSet
        /\ Return \in Seq(FrameSet) /\ Len(Return) = n - 1 /\ DOMAIN Return = 1..(n - 1)
        /\ \A k \in 1..(n - 1) : Return[k] = frames[k]
        /\ Return # <<>> <=> n > 1
    BY <2>1, StackFacts DEF WfIInv
  <2>3. WfTypeOK /\ CallInv(callee, current)
    BY <2>2 DEF WfIInv, StackInv
  <2>4. QED
    BY <2>1, <2>2, <2>3
<1>2. i \in Instances
  BY <1>1 DEF FrameSet
<1>3. \/ /\ lastTo' = [lastTo EXCEPT ![i] = IF begun THEN callee.target ELSE current]
         /\ disturbed' = [disturbed EXCEPT ![i] = (@ /\ n > 1) \/ (begun /\ callee.overtaken)]
      \/ /\ lastTo' = lastTo
         /\ disturbed' = [j \in Instances |-> disturbed[j] \/ j = i]
  BY DEF EntryReturns, EntryRaises, Disturb
<1>4. /\ lastTo' \in [Instances -> States \cup Targets \cup {NoState}]
      /\ \A j \in Instances : j # i => lastTo'[j] = lastTo[j]
      /\ lastTo'[i] = lastTo[i] \/ lastTo'[i] = IF begun THEN callee.target ELSE current
  <2>1. callee.target \in States \cup Targets
    BY <1>1 DEF FrameSet
  <2>2. QED
    BY <1>1, <1>2, <1>3, <2>1 DEF WfTypeOK
<1>5. disturbed' \in [Instances -> BOOLEAN]
  BY <1>1, <1>3 DEF WfTypeOK
<1>6. ASSUME NEW j \in Instances PROVE j # i => (disturbed'[j] <=> disturbed[j])
  BY <1>1, <1>2, <1>3 DEF WfTypeOK
<1>7. disturbed'[i] \/ lastTo'[i] = IF begun THEN callee.target ELSE current
  BY <1>1, <1>2, <1>3 DEF WfTypeOK
<1>8. (begun /\ callee.overtaken) \/ (disturbed[i] /\ n > 1) => disturbed'[i]
  BY <1>1, <1>2, <1>3 DEF WfTypeOK
<1>9. StackInv'
  <2>1. ASSUME NEW k \in 1..(n - 1) PROVE CallInv(frames'[k], current')
    <3>1. k \in DOMAIN frames /\ frames'[k] = frames[k]
      BY <1>1
    <3>2. QED
      BY <1>1, <3>1 DEF WfIInv, StackInv
  <2>2. QED
    BY <1>1, <2>1 DEF StackInv
<1>10. HistoryInv'
  <2>1. CASE n > 1
    <3>1. \A j \in Instances : disturbed[j]
      BY <2>1 DEF WfIInv, HistoryInv
    <3>2. \A j \in Instances : disturbed'[j]
      BY <1>2, <1>6, <1>8, <2>1, <3>1
    <3>3. QED
      BY <3>2 DEF HistoryInv
  <2>2. CASE n = 1
    <3>1. ~(Len(frames') > 1)
      BY <1>1, <2>2
    <3>2. disturbed'[i] \/ lastTo'[i] = current'
      BY <1>1, <1>7, <1>8 DEF CallInv
    <3>3. \A j \in Instances : j # i => ~Recording(j)
      BY <1>1, <2>2 DEF Recording
    <3>4. \A j \in Instances :
             j # i /\ lastTo'[j] # NoState /\ ~disturbed'[j] => lastTo'[j] = current'
      BY <1>1, <1>4, <1>6, <3>3 DEF WfIInv, HistoryInv
    <3>5. QED
      BY <3>1, <3>2, <3>4 DEF HistoryInv
  <2>3. QED
    BY <1>1, <2>1, <2>2
<1>11. WfTypeOK' /\ MovesDeclared'
  BY <1>1, <1>4, <1>5 DEF WfIInv, WfTypeOK, MovesDeclared
<1>12. QED
  BY <1>9, <1>10, <1>11 DEF WfIInv

LEMMA WfNextIInv == WfIInv /\ [WfNext]_wfVars => WfIInv'
<1> SUFFICES ASSUME WfIInv, [WfNext]_wfVars PROVE WfIInv'
  OBVIOUS
<1>1. ASSUME UNCHANGED <<current, lastTo, disturbed, frames, lastMove>> PROVE WfIInv'
  <2>1. WfTypeOK' /\ MovesDeclared'
    BY <1>1 DEF WfIInv, WfTypeOK, MovesDeclared
  <2>2. StackInv' /\ HistoryInv'
    BY <1>1 DEF WfIInv, StackInv, HistoryInv, Recording
  <2>3. QED
    BY <2>1, <2>2 DEF WfIInv
<1>2. ASSUME NEW i \in Instances, CreateInstance(i) \/ Cancel(i) PROVE WfIInv'
  BY <1>1, <1>2 DEF CreateInstance, Cancel
<1>3. ASSUME NEW i \in Instances, NEW s \in States, Start(i, s) PROVE WfIInv'
  BY <1>3, StartKeeps
<1>4. ASSUME NEW i \in Instances, NEW a \in Actions, Trigger(i, a) PROVE WfIInv'
  BY <1>4, TriggerKeeps
<1>5. CASE Refuse
  BY <1>5, RefusedKeeps DEF Refuse, At
<1>6. CASE GuardHolds
  BY <1>6, ContinuedKeeps DEF GuardHolds, At
<1>7. CASE HandlerReturns
  BY <1>7, ContinuedKeeps, RefusedKeeps DEF HandlerReturns, At
<1>8. CASE ExitReturns \/ EntryReturns \/ EntryRaises
  BY <1>8, LeaveKeeps, EndKeeps
<1>9. CASE UNCHANGED wfVars
  BY <1>1, <1>9 DEF wfVars
<1>10. QED
  BY <1>2, <1>3, <1>4, <1>5, <1>6, <1>7, <1>8, <1>9 DEF WfNext

\* The strengthened invariant holds in every reachable state.
THEOREM WorkflowInvariant == WfSpec => []WfIInv
<1>1. WfInit => WfIInv
  BY WorkflowAssumption DEF WfInit, WfIInv, WfTypeOK, StackInv, HistoryInv, MovesDeclared, NoMove
<1>2. QED
  BY <1>1, WfNextIInv, PTL DEF WfSpec

\* Between calls the history of an undisturbed instance ends in the state the
\* workflow is in.
THEOREM HistoriesTrack == WfSpec => []HistoryTracks
<1>1. WfIInv => HistoryTracks
  BY DEF WfIInv, HistoryInv, HistoryTracks, Recording
<1>2. QED
  BY <1>1, WorkflowInvariant, PTL

\* Every move of a call that was not overtaken is one of the transitions.
THEOREM MovesAreDeclared == WfSpec => []MovesDeclared
<1>1. WfIInv => MovesDeclared
  BY DEF WfIInv
<1>2. QED
  BY <1>1, WorkflowInvariant, PTL

-----------------------------------------------------------------------------
(* Modules *)

ModSpec == ModInit /\ [][ModNext]_modVars

ModJobs == InstallJob \cup RemoveJob \cup {NoJob}
ModTables == [dir : DirNames, enabled : BOOLEAN]

\* A change of the disk overtakes the tables of all other processes, and
\* remembers the names that are on disk twice by now.
LEMMA WriteFacts ==
    ASSUME ModTypeOK, NEW p \in Procs, NEW dirs, Write(p, dirs)
    PROVE  /\ disk' = dirs /\ TwiceInv' /\ twice \subseteq twice'
           /\ outdated' \in [Procs -> BOOLEAN]
           /\ \A q \in Procs : ~outdated'[q] => q = p /\ ~outdated[q]
<1>1. /\ disk' = dirs
      /\ outdated' = [q \in Procs |-> outdated[q] \/ q # p]
      /\ twice' = twice \cup {NameOf(dirs, d) : d \in
                     {d \in Loadable(dirs) : \E e \in Loadable(dirs) \ {d} :
                                                NameOf(dirs, e) = NameOf(dirs, d)}}
  BY DEF Write
<1>2. TwiceInv'
  <2> SUFFICES ASSUME NEW d \in Loadable(disk'), NEW e \in Loadable(disk'), d # e,
                      NameOf(disk', d) = NameOf(disk', e)
               PROVE  NameOf(disk', d) \in twice'
    BY DEF TwiceInv
  <2>1. QED
    BY <1>1
<1>3. ASSUME NEW q \in Procs, ~outdated'[q] PROVE q = p /\ ~outdated[q]
  <2>1. outdated'[q] = (outdated[q] \/ q # p)
    BY <1>1
  <2>2. QED
    BY <1>3, <2>1
<1>4. outdated' \in [Procs -> BOOLEAN]
  BY <1>1
<1>5. QED
  BY <1>1, <1>2, <1>3, <1>4

\* A step that writes nothing.
LEMMA NoWrite ==
    ASSUME ModIInv, UNCHANGED <<disk, twice>>
    PROVE  TwiceInv'
BY DEF ModIInv, TwiceInv

LEMMA NamesTypes == ModTypeOK => Names(disk) \subseteq ModNames
BY DEF ModTypeOK, Names, NameOf, Loadable, ModNames

\* A table that _load_modules can make out of one that agreed on its names.
LEMMA LoadFacts ==
    ASSUME ModTypeOK, NEW old,
           \A n \in DOMAIN old : n \in Names(disk),
           NEW t \in Loads(old, disk)
    PROVE  /\ IsTable(t)
           /\ DOMAIN t = Names(disk)
           /\ \A n \in DOMAIN t :
                 /\ t[n].dir \in Loadable(disk) /\ NameOf(disk, t[n].dir) = n
                 /\ t[n].enabled = Marked(disk, t[n].dir)
<1>1. t \in [DOMAIN old \cup Names(disk) ->
               {[dir |-> d, enabled |-> b] : d \in DirNames, b \in BOOLEAN}]
  BY DEF Loads
<1>2. DOMAIN t = Names(disk)
  BY <1>1
<1>3. \A n \in DOMAIN t : t[n] \in ModTables
  BY <1>1 DEF ModTables
<1>4. IsTable(t)
  BY <1>1, <1>2, <1>3, NamesTypes DEF IsTable, ModTables
<1>5. ASSUME NEW n \in DOMAIN t
      PROVE  /\ t[n].dir \in Loadable(disk) /\ NameOf(disk, t[n].dir) = n
             /\ t[n].enabled = Marked(disk, t[n].dir)
  BY <1>2, <1>5 DEF Loads
<1>6. QED
  BY <1>2, <1>4, <1>5

\* The same for any table: the types alone.
LEMMA LoadTypes ==
    ASSUME ModTypeOK, NEW p \in Procs, NEW t \in Loads(table[p], disk)
    PROVE  IsTable(t)
<1>1. t \in [DOMAIN table[p] \cup Names(disk) ->
               {[dir |-> d, enabled |-> b] : d \in DirNames, b \in BOOLEAN}]
  BY DEF Loads
<1>2. \A n \in DOMAIN t : t[n] \in ModTables
  BY <1>1 DEF ModTables
<1>3. DOMAIN t \subseteq ModNames
  BY <1>1, NamesTypes DEF ModTypeOK, IsTable
<1>4. QED
  BY <1>1, <1>2, <1>3 DEF IsTable, ModTables

\* Only the table of p changes, to one of its type.
LEMMA OwnTypes ==
    ASSUME ModTypeOK, NEW p \in Procs, NEW t, IsTable(t),
           table' = [table EXCEPT ![p] = t]
    PROVE  /\ table' = [q \in Procs |-> table'[q]]
           /\ \A q \in Procs : IsTable(table'[q])
           /\ table'[p] = t /\ \A q \in Procs : q # p => table'[q] = table[q]
<1>1. table'[p] = t /\ \A q \in Procs : q # p => table'[q] = table[q]
  BY DEF ModTypeOK
<1>2. table' = [q \in Procs |-> table'[q]]
  BY DEF ModTypeOK
<1>3. ASSUME NEW q \in Procs PROVE IsTable(table'[q])
  <2>1. CASE q = p
    BY <1>1, <2>1
  <2>2. CASE q # p
    BY <1>1, <2>2 DEF ModTypeOK
  <2>3. QED
    BY <2>1, <2>2
<1>4. QED
  BY <1>1, <1>2, <1>3

\* Only the operation of p changes.
LEMMA JobFacts ==
    ASSUME ModTypeOK, NEW p \in Procs, NEW new \in ModJobs, job' = [job EXCEPT ![p] = new]
    PROVE  /\ job' \in [Procs -> ModJobs] /\ job'[p] = new
           /\ \A q \in Procs \ {p} :
                 /\ job'[q] = job[q]
                 /\ \A d : (Copying(q, d)' <=> Copying(q, d)) /\ (Removing(q, d)' <=> Removing(q, d))
<1>1. /\ job' \in [Procs -> ModJobs] /\ job'[p] = new
      /\ \A q \in Procs \ {p} : job'[q] = job[q]
  BY DEF ModTypeOK, ModJobs
<1>2. QED
  BY <1>1 DEF Copying, Removing, JobAt

\* What the operation of p is.
LEMMA JobTypes ==
    ASSUME ModTypeOK, NEW p \in Procs, job[p] # NoJob
    PROVE  /\ p \in up /\ job[p].dir \in DirNames /\ job[p].left \subseteq Files
           /\ job[p].at \in {"make", "copy", "load"} => job[p] \in InstallJob /\ job[p].src \in DOMAIN Sources
           /\ job[p].at = "remove" => job[p] \in RemoveJob
BY DEF ModTypeOK, InstallJob, RemoveJob

\* One file of one directory changes.
LEMMA FileFacts ==
    ASSUME ModTypeOK, NEW d \in DOMAIN disk, NEW f \in Files, NEW c \in Contents,
           f # "marker" => c \in DOMAIN Sources \cup {Absent},
           disk' = [disk EXCEPT ![d][f] = c]
    PROVE  /\ DOMAIN disk' = DOMAIN disk /\ disk' \in [DOMAIN disk' -> [Files -> Contents]]
           /\ \A e \in DOMAIN disk : {disk'[e]["manifest"], disk'[e]["rest"]}
                                        \subseteq DOMAIN Sources \cup {Absent}
           /\ disk'[d][f] = c /\ \A g \in Files : g # f => disk'[d][g] = disk[d][g]
           /\ \A e \in DOMAIN disk : e # d => disk'[e] = disk[e]
<1>1. disk \in [DOMAIN disk -> [Files -> Contents]] /\ disk[d] \in [Files -> Contents]
  BY DEF ModTypeOK
<1>2. /\ DOMAIN disk' = DOMAIN disk /\ disk'[d] = [disk[d] EXCEPT ![f] = c]
      /\ \A e \in DOMAIN disk : e # d => disk'[e] = disk[e]
  BY <1>1
<1>3. /\ disk'[d] \in [Files -> Contents]
      /\ disk'[d][f] = c /\ \A g \in Files : g # f => disk'[d][g] = disk[d][g]
  BY <1>1, <1>2
<1>4. disk' \in [DOMAIN disk' -> [Files -> Contents]]
  BY <1>1, <1>2, <1>3
<1>5. ASSUME NEW e \in DOMAIN disk, NEW g \in {"manifest", "rest"}
      PROVE  disk'[e][g] \in DOMAIN Sources \cup {Absent}
  <2>1. disk[e][g] \in DOMAIN Sources \cup {Absent} /\ g \in Files
    BY DEF ModTypeOK, Files
  <2>2. QED
    BY <1>2, <1>3, <2>1
<1>6. QED
  BY <1>2, <1>3, <1>4, <1>5

\* Another process's table and operation are not touched.
LEMMA AgreesKept ==
    ASSUME NEW q \in Procs, Agrees(q), table'[q] = table[q], job'[q] = job[q],
           UNCHANGED <<disk, twice>>
    PROVE  Agrees(q)'
BY DEF Agrees, JobAt, Copying, Removing, OwnDir

\* A step of p that writes nothing.
LEMMA QuietKeeps ==
    ASSUME ModIInv, NEW p \in Procs, NEW new \in ModJobs, job' = [job EXCEPT ![p] = new],
           UNCHANGED <<disk, cut>>, broken \subseteq broken',
           \A d : Copying(p, d)' => Copying(p, d) /\ new.src = job[p].src /\ new.left = job[p].left,
           \A d : Removing(p, d) => Removing(p, d)' \/ d \in broken',
           \A d \in DOMAIN disk : Copying(p, d) => Complete(d) \/ Unfinished(d)'
    PROVE  CopyInv' /\ CompleteInv'
<1>1. /\ job' \in [Procs -> ModJobs] /\ job'[p] = new
      /\ \A q \in Procs \ {p} :
            /\ job'[q] = job[q]
            /\ \A d : (Copying(q, d)' <=> Copying(q, d)) /\ (Removing(q, d)' <=> Removing(q, d))
  BY JobFacts DEF ModIInv
<1>2. \A q \in Procs : \A d : Removing(q, d) => Removing(q, d)' \/ d \in broken'
  BY <1>1
<1>3. \A q \in Procs : \A d :
        Copying(q, d)' => Copying(q, d) /\ job'[q].src = job[q].src /\ job'[q].left = job[q].left
  BY <1>1
<1>4. CopyInv'
  <2> SUFFICES ASSUME NEW q \in Procs, NEW d \in DirNames, Copying(q, d)', d \notin cut
               PROVE  /\ d \in DOMAIN disk
                      /\ \A r \in Procs : Copying(r, d)' => r = q
                      /\ \A f \in {"manifest", "rest"} :
                            /\ disk[d][f] \in {Absent, job'[q].src}
                            /\ \/ f \in job'[q].left \/ disk[d][f] # Absent
                               \/ d \in broken' \/ \E r \in Procs : Removing(r, d)'
    BY DEF CopyInv
  <2>1. Copying(q, d) /\ job'[q].src = job[q].src /\ job'[q].left = job[q].left
    BY <1>3
  <2>2. /\ d \in DOMAIN disk
        /\ \A r \in Procs : Copying(r, d) => r = q
        /\ \A f \in {"manifest", "rest"} :
              /\ disk[d][f] \in {Absent, job[q].src}
              /\ \/ f \in job[q].left \/ disk[d][f] # Absent
                 \/ d \in broken \/ \E r \in Procs : Removing(r, d)
    BY <2>1 DEF ModIInv, CopyInv
  <2>3. (\E r \in Procs : Removing(r, d)) => d \in broken' \/ \E r \in Procs : Removing(r, d)'
    BY <1>2
  <2>4. QED
    BY <1>3, <2>1, <2>2, <2>3
<1>5. CompleteInv'
  <2> SUFFICES ASSUME NEW d \in DOMAIN disk PROVE Complete(d) \/ Unfinished(d)'
    BY DEF CompleteInv, Complete
  <2>1. Complete(d) \/ d \in broken \cup cut \/ \E q \in Procs : Copying(q, d) \/ Removing(q, d)
    BY DEF ModIInv, CompleteInv, Unfinished
  <2>2. ASSUME NEW q \in Procs, Copying(q, d), q # p PROVE Unfinished(d)'
    BY <1>1, <2>2 DEF Unfinished
  <2>3. ASSUME NEW q \in Procs, Removing(q, d) PROVE Unfinished(d)'
    BY <1>2, <2>3 DEF Unfinished
  <2>4. d \in broken \cup cut => Unfinished(d)'
    BY DEF Unfinished
  <2>5. QED
    BY <2>1, <2>2, <2>3, <2>4
<1>6. QED
  BY <1>4, <1>5

LEMMA BeginsKeeps ==
    ASSUME ModIInv, NEW p \in Procs, ProcessBegins(p)
    PROVE  ModIInv'
<1>1. PICK t \in Loads(EmptyDict, disk) : table' = [table EXCEPT ![p] = t]
  BY DEF ProcessBegins
<1>2. /\ p \notin up /\ up' = up \cup {p}
      /\ outdated' = [outdated EXCEPT ![p] = FALSE]
      /\ UNCHANGED <<disk, job, twice, broken, cut>>
      /\ ModTypeOK
  BY DEF ProcessBegins, ModIInv
<1>3. /\ IsTable(t)
      /\ DOMAIN t = Names(disk)
      /\ \A n \in DOMAIN t :
            /\ t[n].dir \in Loadable(disk) /\ NameOf(disk, t[n].dir) = n
            /\ t[n].enabled = Marked(disk, t[n].dir)
  BY <1>2, LoadFacts, EmptyFacts
<1>4. /\ table' = [q \in Procs |-> table'[q]]
      /\ \A q \in Procs : IsTable(table'[q])
      /\ table'[p] = t /\ \A q \in Procs : q # p => table'[q] = table[q]
  BY <1>1, <1>2, <1>3, OwnTypes
<1>5. ModTypeOK'
  <2>1. outdated' \in [Procs -> BOOLEAN]
    BY <1>2 DEF ModTypeOK
  <2>2. QED
    BY <1>2, <1>4, <2>1 DEF ModTypeOK
<1>6. CopyInv' /\ CompleteInv'
  BY <1>2 DEF ModIInv, CopyInv, CompleteInv, Complete, Unfinished, Copying, Removing, JobAt
<1>7. TwiceInv'
  BY <1>2, NoWrite
<1>8. AgreeInv'
  <2>1. Agrees(p)'
    <3>1. job'[p] = NoJob
      BY <1>2 DEF ModTypeOK
    <3>2. QED
      BY <1>2, <1>3, <1>4, <3>1 DEF Agrees, JobAt, Copying, Removing, OwnDir, Names
  <2>2. ASSUME NEW q \in up, q # p, ~outdated'[q] PROVE Agrees(q)'
    <3>1. q \in Procs /\ ~outdated[q]
      BY <1>2, <2>2 DEF ModTypeOK
    <3>2. Agrees(q)
      BY <3>1 DEF ModIInv, AgreeInv
    <3>3. QED
      BY <1>2, <1>4, <2>2, <3>1, <3>2, AgreesKept
  <2>3. QED
    BY <1>2, <2>1, <2>2 DEF AgreeInv
<1>9. QED
  BY <1>5, <1>6, <1>7, <1>8 DEF ModIInv

\* The operation of p is cut short, by a kill or by an exception.
LEMMA CutShortKeeps ==
    ASSUME ModIInv, NEW p \in Procs, Kill(p) \/ OperationRaises(p)
    PROVE  ModIInv'
<1>1. /\ job' = [job EXCEPT ![p] = NoJob] /\ UNCHANGED <<disk, twice, cut>> /\ ModTypeOK
      /\ broken' = broken \cup {d \in DirNames : Copying(p, d) \/ Removing(p, d)}
  BY DEF Kill, OperationRaises, CutShort, ModIInv
<1>2. /\ job' \in [Procs -> ModJobs] /\ job'[p] = NoJob
      /\ \A q \in Procs \ {p} : job'[q] = job[q]
  BY <1>1, JobFacts DEF ModJobs
<1>3. \A d : Copying(p, d) \/ Removing(p, d) => d \in broken'
  <2>1. \A d : Copying(p, d) \/ Removing(p, d) => d \in DirNames
    BY <1>1, JobTypes DEF Copying, Removing, JobAt
  <2>2. QED
    BY <1>1, <2>1
<1>4. CopyInv' /\ CompleteInv'
  <2>1. \A d : ~Copying(p, d)'
    BY <1>2 DEF Copying, JobAt
  <2>2. NoJob \in ModJobs /\ broken \subseteq broken'
    BY <1>1 DEF ModJobs
  <2>3. \A d : d \in broken' => Unfinished(d)'
    BY DEF Unfinished
  <2>4. QED
    BY <1>1, <1>3, <2>1, <2>2, <2>3, QuietKeeps
<1>5. TwiceInv'
  BY <1>1, NoWrite
<1>6. CASE Kill(p)
  <2>1. /\ up' = up \ {p} /\ table' = [table EXCEPT ![p] = EmptyDict] /\ UNCHANGED outdated
    BY <1>6 DEF Kill
  <2>2. IsTable(EmptyDict)
    BY DEF EmptyDict, IsTable
  <2>3. /\ table' = [q \in Procs |-> table'[q]]
        /\ \A q \in Procs : IsTable(table'[q])
        /\ \A q \in Procs : q # p => table'[q] = table[q]
    BY <1>1, <2>1, <2>2, OwnTypes
  <2>4. ModTypeOK'
    BY <1>1, <1>2, <2>1, <2>3 DEF ModTypeOK, ModJobs
  <2>5. AgreeInv'
    <3> SUFFICES ASSUME NEW q \in up', ~outdated'[q] PROVE Agrees(q)'
      BY DEF AgreeInv
    <3>1. q \in Procs /\ q # p /\ Agrees(q)
      BY <1>1, <2>1 DEF ModIInv, AgreeInv, ModTypeOK
    <3>2. QED
      BY <1>1, <1>2, <2>3, <3>1, AgreesKept
  <2>6. QED
    BY <1>4, <1>5, <2>4, <2>5 DEF ModIInv
<1>7. CASE OperationRaises(p)
  <2>1. outdated' = [outdated EXCEPT ![p] = TRUE] /\ UNCHANGED <<up, table>>
    BY <1>7 DEF OperationRaises
  <2>2. ModTypeOK'
    BY <1>1, <1>2, <2>1 DEF ModTypeOK, ModJobs
  <2>3. AgreeInv'
    <3> SUFFICES ASSUME NEW q \in up', ~outdated'[q] PROVE Agrees(q)'
      BY DEF AgreeInv
    <3>1. q \in Procs /\ q # p /\ Agrees(q)
      BY <1>1, <2>1 DEF ModIInv, AgreeInv, ModTypeOK
    <3>2. QED
      BY <1>1, <1>2, <2>1, <3>1, AgreesKept
  <2>4. QED
    BY <1>4, <1>5, <2>2, <2>3 DEF ModIInv
<1>8. QED
  BY <1>6, <1>7

\* A step of p that changes only its operation: InstallCheck, the refused InstallMakes,
\* InstallCopied and the beginning of Uninstall.
LEMMA OwnJobKeeps ==
    ASSUME ModIInv, NEW p \in Procs, p \in up, NEW new \in ModJobs, job' = [job EXCEPT ![p] = new],
           UNCHANGED <<disk, up, table, outdated, twice, broken, cut>>,
           CopyInv', CompleteInv', ~outdated[p] => Agrees(p)'
    PROVE  ModIInv'
<1>1. /\ job' \in [Procs -> ModJobs] /\ \A q \in Procs \ {p} : job'[q] = job[q]
  BY JobFacts DEF ModIInv
<1>2. ModTypeOK'
  BY <1>1 DEF ModIInv, ModTypeOK, ModJobs
<1>3. AgreeInv'
  <2> SUFFICES ASSUME NEW q \in up, ~outdated[q] PROVE Agrees(q)'
    BY DEF AgreeInv
  <2>1. q \in Procs /\ Agrees(q)
    BY DEF ModIInv, AgreeInv, ModTypeOK
  <2>2. QED
    BY <1>1, <2>1, AgreesKept
<1>4. QED
  BY <1>2, <1>3, NoWrite DEF ModIInv

\* p is not yet in a directory, before and after.
LEMMA OutsideKeeps ==
    ASSUME ModIInv, NEW p \in Procs, p \in up, NEW new \in ModJobs, job' = [job EXCEPT ![p] = new],
           UNCHANGED <<disk, up, table, outdated, twice, broken, cut>>,
           job[p] = NoJob \/ job[p].at = "make", new = NoJob \/ new.at = "make"
    PROVE  ModIInv'
<1>1. job'[p] = new
  BY JobFacts DEF ModIInv
<1>2. /\ \A d : ~Copying(p, d) /\ ~Removing(p, d) /\ ~OwnDir(p, d)
      /\ \A d : ~Copying(p, d)' /\ ~Removing(p, d)' /\ ~OwnDir(p, d)'
      /\ ~JobAt(p, "remove") /\ ~JobAt(p, "remove")'
  BY <1>1 DEF Copying, Removing, OwnDir, JobAt
<1>3. CopyInv' /\ CompleteInv'
  BY <1>2, QuietKeeps
<1>4. ASSUME ~outdated[p] PROVE Agrees(p)'
  <2>1. Agrees(p)
    BY <1>4 DEF ModIInv, AgreeInv
  <2>2. QED
    BY <1>2, <2>1 DEF Agrees
<1>5. QED
  BY <1>3, <1>4, OwnJobKeeps

LEMMA InstallMakesKeeps ==
    ASSUME ModIInv, NEW p \in Procs, InstallMakes(p)
    PROVE  ModIInv'
<1> DEFINE d == job[p].dir
           copy == [at |-> "copy", dir |-> d, src |-> job[p].src, left |-> FilesOf(job[p].src)]
<1>1. /\ p \in up /\ job[p] # NoJob /\ job[p].at = "make" /\ ModTypeOK
      /\ job[p] \in InstallJob /\ d \in DirNames /\ job[p].src \in DOMAIN Sources
      /\ UNCHANGED <<up, table, cut>>
  BY JobTypes DEF InstallMakes, MakeDirectory, JobAt, ModIInv
<1>2. CASE d \in DOMAIN disk
  <2>1. job' = [job EXCEPT ![p] = NoJob] /\ UNCHANGED <<disk, outdated, twice, broken>>
    BY <1>1, <1>2 DEF InstallMakes, MakeDirectory
  <2>2. QED
    BY <1>1, <2>1, OutsideKeeps DEF ModJobs
<1>3. CASE d \notin DOMAIN disk
  <2>1. /\ Write(p, Put(disk, d, NoFiles)) /\ job' = [job EXCEPT ![p] = copy]
        /\ broken' = broken \ {d}
    BY <1>1, <1>3 DEF InstallMakes, MakeDirectory, JobAt, ModTypeOK
  <2>2. /\ disk' = Put(disk, d, NoFiles) /\ TwiceInv' /\ twice \subseteq twice'
        /\ outdated' \in [Procs -> BOOLEAN]
        /\ \A q \in Procs : ~outdated'[q] => q = p /\ ~outdated[q]
    BY <1>1, <2>1, WriteFacts
  <2>3. /\ copy \in InstallJob /\ copy \in ModJobs /\ copy.at = "copy" /\ copy.dir = d
        /\ copy.src = job[p].src /\ {"manifest", "rest"} \subseteq copy.left /\ copy # NoJob
    <3>1. FilesOf(job[p].src) \subseteq Files /\ {"manifest", "rest"} \subseteq FilesOf(job[p].src)
      BY DEF FilesOf, Files
    <3>2. copy \in InstallJob /\ copy # NoJob
      BY <1>1, <3>1, ModulesAssumption DEF InstallJob
    <3>3. QED
      BY <3>1, <3>2 DEF ModJobs
  <2> HIDE DEF copy
  <2>4. /\ job' \in [Procs -> ModJobs] /\ job'[p] = copy
        /\ \A q \in Procs \ {p} :
              /\ job'[q] = job[q]
              /\ \A e : (Copying(q, e)' <=> Copying(q, e)) /\ (Removing(q, e)' <=> Removing(q, e))
    BY <1>1, <2>1, <2>3, JobFacts
  <2>5. /\ DOMAIN disk' = DOMAIN disk \cup {d} /\ disk'[d] = NoFiles
        /\ \A e \in DOMAIN disk : e # d /\ disk'[e] = disk[e]
    BY <1>3, <2>2 DEF Put
  <2>6. \A f \in Files : disk'[d][f] = Absent
    BY <2>5 DEF NoFiles
  <2>7. ModTypeOK'
    <3>1. NoFiles \in [Files -> Contents] /\ {"manifest", "rest"} \subseteq Files
      BY DEF NoFiles, Contents, Files
    <3>2. disk' \in [DOMAIN disk' -> [Files -> Contents]]
      BY <1>1, <2>2, <2>5, <3>1 DEF ModTypeOK, Put
    <3>3. \A e \in DOMAIN disk' : {disk'[e]["manifest"], disk'[e]["rest"]} \subseteq DOMAIN Sources \cup {Absent}
      BY <1>1, <2>5, <2>6, <3>1 DEF ModTypeOK
    <3>4. DOMAIN disk' \subseteq DirNames /\ \A q \in Procs : job'[q] # NoJob => q \in up
      BY <1>1, <2>4, <2>5 DEF ModTypeOK
    <3>5. QED
      BY <1>1, <2>2, <2>4, <3>2, <3>3, <3>4 DEF ModTypeOK, ModJobs
  <2>8. /\ \A e : (Copying(p, e)' <=> e = d) /\ ~Copying(p, e) /\ ~Removing(p, e) /\ ~Removing(p, e)'
        /\ \A e : (OwnDir(p, e)' <=> e = d) /\ ~OwnDir(p, e)
        /\ ~JobAt(p, "remove") /\ ~JobAt(p, "remove")'
    BY <1>1, <2>3, <2>4 DEF Copying, Removing, OwnDir, JobAt
  <2>9. CopyInv'
    <3> SUFFICES ASSUME NEW q \in Procs, NEW e \in DirNames, Copying(q, e)', e \notin cut
                 PROVE  /\ e \in DOMAIN disk'
                        /\ \A r \in Procs : Copying(r, e)' => r = q
                        /\ \A f \in {"manifest", "rest"} :
                              /\ disk'[e][f] \in {Absent, job'[q].src}
                              /\ \/ f \in job'[q].left \/ disk'[e][f] # Absent
                                 \/ e \in broken' \/ \E r \in Procs : Removing(r, e)'
      BY <1>1 DEF CopyInv
    <3>1. CASE e = d
      <4>1. \A r \in Procs : Copying(r, e)' => r = p
        BY <1>1, <1>3, <2>4, <3>1 DEF ModIInv, CopyInv
      <4>2. q = p
        BY <4>1
      <4>3. QED
        BY <2>3, <2>4, <2>5, <2>6, <3>1, <4>1, <4>2 DEF Files
    <3>2. CASE e # d
      <4>1. q # p /\ Copying(q, e) /\ job'[q] = job[q]
        BY <2>4, <2>8, <3>2
      <4>2. /\ e \in DOMAIN disk
            /\ \A r \in Procs : Copying(r, e) => r = q
            /\ \A f \in {"manifest", "rest"} :
                  /\ disk[e][f] \in {Absent, job[q].src}
                  /\ \/ f \in job[q].left \/ disk[e][f] # Absent
                     \/ e \in broken \/ \E r \in Procs : Removing(r, e)
        BY <4>1 DEF ModIInv, CopyInv
      <4>3. \A r \in Procs : /\ Copying(r, e)' => Copying(r, e)
                             /\ Removing(r, e) => Removing(r, e)'
        BY <2>4, <2>8, <3>2
      <4>4. QED
        BY <2>1, <2>5, <3>2, <4>1, <4>2, <4>3
    <3>3. QED
      BY <3>1, <3>2
  <2>10. CompleteInv'
    <3> SUFFICES ASSUME NEW e \in DOMAIN disk' PROVE Complete(e)' \/ Unfinished(e)'
      BY DEF CompleteInv
    <3>1. CASE e = d
      BY <2>8, <3>1 DEF Unfinished
    <3>2. CASE e # d
      <4>1. e \in DOMAIN disk /\ disk'[e] = disk[e] /\ (Complete(e) \/ Unfinished(e))
        BY <2>5, <3>2 DEF ModIInv, CompleteInv
      <4>2. Unfinished(e) => Unfinished(e)'
        BY <1>1, <2>1, <2>4, <2>8, <3>2 DEF Unfinished
      <4>3. QED
        BY <4>1, <4>2 DEF Complete
    <3>3. QED
      BY <3>1, <3>2
  <2>11. AgreeInv'
    <3> SUFFICES ASSUME p \in up, ~outdated[p] PROVE Agrees(p)'
      BY <1>1, <2>2 DEF AgreeInv, ModTypeOK
    <3>1. Agrees(p)
      BY DEF ModIInv, AgreeInv
    <3>2. Loadable(disk') = Loadable(disk)
      BY <2>5, <2>6 DEF Loadable, Files
    <3>3. \A e \in Loadable(disk) : /\ e # d /\ NameOf(disk', e) = NameOf(disk, e)
                                    /\ Marked(disk', e) = Marked(disk, e)
      BY <2>5 DEF Loadable, NameOf, Marked
    <3>4. QED
      BY <1>1, <2>2, <2>8, <3>1, <3>2, <3>3 DEF Agrees
  <2>12. QED
    BY <2>2, <2>7, <2>9, <2>10, <2>11 DEF ModIInv
<1>4. QED
  BY <1>2, <1>3

\* One of the files that p copies or removes is done.
LEMMA LeftFacts ==
    ASSUME ModTypeOK, NEW p \in Procs, job[p] # NoJob, NEW f,
           job' = [job EXCEPT ![p].left = @ \ {f}]
    PROVE  /\ job' \in [Procs -> ModJobs] /\ job'[p] # NoJob /\ job'[p].left = job[p].left \ {f}
           /\ job'[p].at = job[p].at /\ job'[p].dir = job[p].dir
           /\ job[p].at = "copy" => job'[p].src = job[p].src
           /\ job[p].at = "remove" => job'[p].name = job[p].name
           /\ \A q \in Procs \ {p} : job'[q] = job[q]
           /\ \A q \in Procs : \A d : (Copying(q, d)' <=> Copying(q, d)) /\ (Removing(q, d)' <=> Removing(q, d))
<1>1. PICK r : r = job[p]
  OBVIOUS
<1>2. PICK n : n = [r EXCEPT !.left = @ \ {f}]
  OBVIOUS
<1>3. r \in InstallJob \/ r \in RemoveJob
  BY <1>1 DEF ModTypeOK
<1>4. /\ n \in InstallJob \cup RemoveJob /\ n.left = r.left \ {f} /\ n.at = r.at /\ n.dir = r.dir
      /\ r.at = "copy" => n.src = r.src
      /\ r.at = "remove" => n.name = r.name
  <2>1. CASE r \in InstallJob
    BY <1>2, <2>1 DEF InstallJob
  <2>2. CASE r \in RemoveJob
    BY <1>2, <2>2 DEF RemoveJob
  <2>3. QED
    BY <1>3, <2>1, <2>2
<1>5. n # NoJob /\ n \in ModJobs
  BY <1>4, ModulesAssumption DEF ModJobs
<1>6. job' = [job EXCEPT ![p] = n]
  BY <1>1, <1>2 DEF ModTypeOK
<1>7. /\ job' \in [Procs -> ModJobs] /\ job'[p] = n
      /\ \A q \in Procs \ {p} : job'[q] = job[q]
  BY <1>5, <1>6, JobFacts
<1>8. \A q \in Procs : \A d : (Copying(q, d)' <=> Copying(q, d)) /\ (Removing(q, d)' <=> Removing(q, d))
  BY <1>1, <1>4, <1>5, <1>7 DEF Copying, Removing, JobAt
<1>9. QED
  BY <1>1, <1>4, <1>5, <1>7, <1>8

\* A step of p that changes one file.
LEMMA FileKeeps ==
    ASSUME ModIInv, NEW p \in Procs, NEW d \in DOMAIN disk, NEW f \in Files, NEW c \in Contents,
           f # "marker" => c \in DOMAIN Sources \cup {Absent},
           Write(p, [disk EXCEPT ![d][f] = c]), UNCHANGED <<up, broken, cut>>,
           job' \in [Procs -> ModJobs], \A q \in Procs : job'[q] # NoJob => q \in up,
           \A q \in Procs : \A e : (Copying(q, e)' <=> Copying(q, e)) /\ (Removing(q, e)' <=> Removing(q, e)),
           \A q \in Procs : \A e : e # d /\ Copying(q, e) => /\ job'[q].src = job[q].src
                                                            /\ job'[q].left = job[q].left,
           table' = [q \in Procs |-> table'[q]],
           \A q \in Procs : IsTable(table'[q]),
           \A q \in Procs : Copying(q, d) /\ d \notin cut =>
              \A g \in {"manifest", "rest"} :
                 /\ disk'[d][g] \in {Absent, job'[q].src}
                 /\ \/ g \in job'[q].left \/ disk'[d][g] # Absent
                    \/ d \in broken \/ \E r \in Procs : Removing(r, d),
           Complete(d)' \/ Unfinished(d),
           p \in up /\ ~outdated[p] => Agrees(p)'
    PROVE  ModIInv'
<1>1. ModTypeOK
  BY DEF ModIInv
<1>2. /\ disk' = [disk EXCEPT ![d][f] = c] /\ TwiceInv' /\ twice \subseteq twice'
      /\ outdated' \in [Procs -> BOOLEAN]
      /\ \A q \in Procs : ~outdated'[q] => q = p /\ ~outdated[q]
  BY <1>1, WriteFacts
<1>3. /\ DOMAIN disk' = DOMAIN disk /\ disk' \in [DOMAIN disk' -> [Files -> Contents]]
      /\ \A e \in DOMAIN disk : {disk'[e]["manifest"], disk'[e]["rest"]}
                                   \subseteq DOMAIN Sources \cup {Absent}
      /\ \A e \in DOMAIN disk : e # d => disk'[e] = disk[e]
  BY <1>1, <1>2, FileFacts
<1>4. ModTypeOK'
  BY <1>1, <1>2, <1>3 DEF ModTypeOK, ModJobs
<1>5. CopyInv'
  <2> SUFFICES ASSUME NEW q \in Procs, NEW e \in DirNames, Copying(q, e)', e \notin cut
               PROVE  /\ e \in DOMAIN disk'
                      /\ \A r \in Procs : Copying(r, e)' => r = q
                      /\ \A g \in {"manifest", "rest"} :
                            /\ disk'[e][g] \in {Absent, job'[q].src}
                            /\ \/ g \in job'[q].left \/ disk'[e][g] # Absent
                               \/ e \in broken' \/ \E r \in Procs : Removing(r, e)'
    BY DEF CopyInv
  <2>1. /\ Copying(q, e) /\ e \in DOMAIN disk
        /\ \A r \in Procs : Copying(r, e) => r = q
        /\ \A g \in {"manifest", "rest"} :
              /\ disk[e][g] \in {Absent, job[q].src}
              /\ \/ g \in job[q].left \/ disk[e][g] # Absent
                 \/ e \in broken \/ \E r \in Procs : Removing(r, e)
    BY DEF ModIInv, CopyInv
  <2>2. CASE e = d
    BY <1>3, <2>1, <2>2
  <2>3. CASE e # d
    <3>1. job'[q].src = job[q].src /\ job'[q].left = job[q].left /\ disk'[e] = disk[e]
      BY <1>3, <2>1, <2>3
    <3>2. QED
      BY <1>3, <2>1, <3>1
  <2>4. QED
    BY <2>2, <2>3
<1>6. CompleteInv'
  <2> SUFFICES ASSUME NEW e \in DOMAIN disk PROVE Complete(e)' \/ Unfinished(e)'
    BY <1>3 DEF CompleteInv
  <2>1. Unfinished(e)' <=> Unfinished(e)
    BY DEF Unfinished
  <2>2. CASE e = d
    BY <2>1, <2>2
  <2>3. CASE e # d
    BY <1>3, <2>1, <2>3 DEF ModIInv, CompleteInv, Complete
  <2>4. QED
    BY <2>2, <2>3
<1>7. AgreeInv'
  BY <1>1, <1>2 DEF AgreeInv, ModTypeOK
<1>8. QED
  BY <1>2, <1>4, <1>5, <1>6, <1>7 DEF ModIInv

\* What p finds of the files of other directories is what it found before.
LEMMA OtherFiles ==
    ASSUME ModTypeOK, NEW d \in DOMAIN disk, NEW f \in Files, NEW c \in Contents,
           f # "marker" => c \in DOMAIN Sources \cup {Absent},
           disk' = [disk EXCEPT ![d][f] = c]
    PROVE  \A e : e # d =>
              /\ e \in Loadable(disk') <=> e \in Loadable(disk)
              /\ e \in Loadable(disk) => /\ NameOf(disk', e) = NameOf(disk, e)
                                         /\ Marked(disk', e) = Marked(disk, e)
BY FileFacts DEF Loadable, NameOf, Marked

LEMMA InstallCopiesKeeps ==
    ASSUME ModIInv, NEW p \in Procs, NEW f \in Files, InstallCopies(p, f)
    PROVE  ModIInv'
<1>1. PICK d : d = job[p].dir
  OBVIOUS
<1>2. PICK c : c = CopyOf(job[p].src, f)
  OBVIOUS
<1>3. /\ ModTypeOK /\ d \in DOMAIN disk /\ job[p] # NoJob /\ job[p].at = "copy"
      /\ Write(p, [disk EXCEPT ![d][f] = c])
      /\ job' = [job EXCEPT ![p].left = @ \ {f}]
      /\ UNCHANGED <<up, table, broken, cut>>
  BY <1>1, <1>2 DEF ModIInv, InstallCopies, JobAt
<1>4. job[p].src \in DOMAIN Sources /\ p \in up
  BY <1>3, JobTypes
<1>5. /\ job' \in [Procs -> ModJobs] /\ job'[p] # NoJob /\ job'[p].left = job[p].left \ {f}
      /\ job'[p].at = job[p].at /\ job'[p].dir = job[p].dir /\ job'[p].src = job[p].src
      /\ \A q \in Procs \ {p} : job'[q] = job[q]
      /\ \A q \in Procs : \A e : (Copying(q, e)' <=> Copying(q, e)) /\ (Removing(q, e)' <=> Removing(q, e))
  BY <1>3, LeftFacts
<1>6. /\ c \in Contents
      /\ f # "marker" => c = job[p].src /\ c # Absent
      /\ f # "marker" => c \in DOMAIN Sources \cup {Absent}
  BY <1>2, <1>4, ModulesAssumption DEF CopyOf, Contents
<1>7. /\ disk' = [disk EXCEPT ![d][f] = c] /\ twice \subseteq twice'
  BY <1>3, WriteFacts
<1>8. disk'[d][f] = c /\ \A g \in Files : g # f => disk'[d][g] = disk[d][g]
  BY <1>3, <1>6, <1>7, FileFacts
<1>9. Copying(p, d) /\ ~Removing(p, d)
  BY <1>1, <1>3 DEF Copying, Removing, JobAt
<1>10. ASSUME NEW q \in Procs, Copying(q, d), d \notin cut, NEW g \in {"manifest", "rest"}
       PROVE  /\ disk'[d][g] \in {Absent, job'[q].src}
              /\ \/ g \in job'[q].left \/ disk'[d][g] # Absent
                 \/ d \in broken \/ \E r \in Procs : Removing(r, d)
  <2>1. d \in DirNames /\ g \in Files
    BY <1>3 DEF ModTypeOK, Files
  <2>2. /\ q = p
        /\ disk[d][g] \in {Absent, job[p].src}
        /\ \/ g \in job[p].left \/ disk[d][g] # Absent
           \/ d \in broken \/ \E r \in Procs : Removing(r, d)
    BY <1>9, <1>10, <2>1 DEF ModIInv, CopyInv
  <2>3. CASE g = f
    BY <1>5, <1>6, <1>8, <1>10, <2>2, <2>3
  <2>4. CASE g # f
    BY <1>5, <1>8, <2>1, <2>2, <2>4
  <2>5. QED
    BY <2>3, <2>4
<1>11. ASSUME ~outdated[p] PROVE Agrees(p)'
  <2>1. Agrees(p)
    BY <1>4, <1>11 DEF ModIInv, AgreeInv
  <2>2. \A e : e # d =>
           /\ e \in Loadable(disk') <=> e \in Loadable(disk)
           /\ e \in Loadable(disk) => /\ NameOf(disk', e) = NameOf(disk, e)
                                      /\ Marked(disk', e) = Marked(disk, e)
    BY <1>3, <1>6, <1>7, OtherFiles
  <2>3. /\ \A e : (OwnDir(p, e)' <=> e = d) /\ (OwnDir(p, e) <=> e = d)
        /\ \A e : (Copying(p, e)' <=> e = d) /\ (Copying(p, e) <=> e = d)
        /\ \A e : ~Removing(p, e)' /\ ~Removing(p, e)
        /\ ~JobAt(p, "remove")'
    BY <1>1, <1>3, <1>5 DEF OwnDir, Copying, Removing, JobAt
  <2>4. QED
    BY <1>3, <1>7, <2>1, <2>2, <2>3 DEF Agrees
<1>12. QED
  <2>1. Complete(d)' \/ Unfinished(d)
    BY <1>9 DEF Unfinished
  <2>2. \A q \in Procs : job'[q] # NoJob => q \in up
    BY <1>3, <1>4, <1>5 DEF ModTypeOK
  <2>3. \A q \in Procs : \A e : e # d /\ Copying(q, e) => /\ job'[q].src = job[q].src
                                                        /\ job'[q].left = job[q].left
    BY <1>1, <1>5 DEF Copying
  <2>4. /\ table' = [q \in Procs |-> table'[q]]
        /\ \A q \in Procs : IsTable(table'[q])
    BY <1>3 DEF ModTypeOK
  <2>5. QED
    BY <1>3, <1>5, <1>6, <1>10, <1>11, <2>1, <2>2, <2>3, <2>4, FileKeeps

LEMMA UninstallRemovesKeeps ==
    ASSUME ModIInv, NEW p \in Procs, NEW f \in Files, UninstallRemoves(p, f)
    PROVE  ModIInv'
<1>1. PICK d : d = job[p].dir
  OBVIOUS
<1>2. /\ ModTypeOK /\ d \in DOMAIN disk /\ job[p] # NoJob /\ job[p].at = "remove"
      /\ Write(p, [disk EXCEPT ![d][f] = Absent])
      /\ job' = [job EXCEPT ![p].left = @ \ {f}]
      /\ UNCHANGED <<up, table, broken, cut>>
  BY <1>1 DEF ModIInv, UninstallRemoves, JobAt
<1>3. /\ job' \in [Procs -> ModJobs] /\ job'[p] # NoJob
      /\ job'[p].at = job[p].at /\ job'[p].dir = job[p].dir /\ job'[p].name = job[p].name
      /\ \A q \in Procs \ {p} : job'[q] = job[q]
      /\ \A q \in Procs : \A e : (Copying(q, e)' <=> Copying(q, e)) /\ (Removing(q, e)' <=> Removing(q, e))
  BY <1>2, LeftFacts
<1>4. /\ Absent \in Contents /\ Absent \in DOMAIN Sources \cup {Absent} /\ p \in up
  BY <1>2, JobTypes DEF Contents
<1>5. /\ disk' = [disk EXCEPT ![d][f] = Absent] /\ twice \subseteq twice'
  BY <1>2, WriteFacts
<1>6. disk'[d][f] = Absent /\ \A g \in Files : g # f => disk'[d][g] = disk[d][g]
  BY <1>2, <1>4, <1>5, FileFacts
<1>7. Removing(p, d) /\ \A e : ~Copying(p, e)
  BY <1>1, <1>2 DEF Copying, Removing, JobAt
<1>8. ASSUME NEW q \in Procs, Copying(q, d), d \notin cut, NEW g \in {"manifest", "rest"}
      PROVE  /\ disk'[d][g] \in {Absent, job'[q].src}
             /\ \/ g \in job'[q].left \/ disk'[d][g] # Absent
                \/ d \in broken \/ \E r \in Procs : Removing(r, d)
  <2>1. d \in DirNames /\ g \in Files /\ q # p
    BY <1>2, <1>7, <1>8 DEF ModTypeOK, Files
  <2>2. disk[d][g] \in {Absent, job[q].src}
    BY <1>8, <2>1 DEF ModIInv, CopyInv
  <2>3. QED
    BY <1>3, <1>6, <1>7, <2>1, <2>2
<1>9. ASSUME ~outdated[p] PROVE Agrees(p)'
  <2>1. Agrees(p)
    BY <1>4, <1>9 DEF ModIInv, AgreeInv
  <2>2. \A e : e # d =>
           /\ e \in Loadable(disk') <=> e \in Loadable(disk)
           /\ e \in Loadable(disk) => /\ NameOf(disk', e) = NameOf(disk, e)
                                      /\ Marked(disk', e) = Marked(disk, e)
    BY <1>2, <1>4, <1>5, OtherFiles
  <2>3. /\ \A e : (OwnDir(p, e)' <=> e = d) /\ (OwnDir(p, e) <=> e = d)
        /\ \A e : (Removing(p, e)' <=> e = d) /\ (Removing(p, e) <=> e = d)
        /\ \A e : ~Copying(p, e)' /\ ~Copying(p, e)
        /\ JobAt(p, "remove")' /\ JobAt(p, "remove") /\ job'[p].name = job[p].name
    BY <1>1, <1>2, <1>3 DEF OwnDir, Copying, Removing, JobAt
  <2>4. QED
    BY <1>2, <1>5, <2>1, <2>2, <2>3 DEF Agrees
<1>10. QED
  <2>1. Complete(d)' \/ Unfinished(d)
    BY <1>7 DEF Unfinished
  <2>2. \A q \in Procs : job'[q] # NoJob => q \in up
    BY <1>2, <1>3, <1>4 DEF ModTypeOK
  <2>3. \A q \in Procs : \A e : e # d /\ Copying(q, e) => /\ job'[q].src = job[q].src
                                                        /\ job'[q].left = job[q].left
    BY <1>3, <1>7
  <2>4. /\ table' = [q \in Procs |-> table'[q]]
        /\ \A q \in Procs : IsTable(table'[q])
    BY <1>2 DEF ModTypeOK
  <2>5. QED
    BY <1>2, <1>3, <1>4, <1>8, <1>9, <2>1, <2>2, <2>3, <2>4, FileKeeps

\* enable and disable: the marker and the entry together.
LEMMA MarkerKeeps ==
    ASSUME ModIInv, NEW p \in Procs, NEW n, NEW on \in BOOLEAN, SetMarker(p, n, on, on)
    PROVE  ModIInv'
<1>1. PICK d : d = table[p][n].dir
  OBVIOUS
<1>2. PICK c : c = IF on THEN Touched ELSE Absent
  OBVIOUS
<1>3. /\ ModTypeOK /\ p \in up /\ job[p] = NoJob /\ n \in DOMAIN table[p]
      /\ table' = [table EXCEPT ![p][n].enabled = on]
      /\ UNCHANGED <<up, job, broken, cut>>
  BY DEF SetMarker, Idle, ModIInv
<1>4. PICK t : t = [table[p] EXCEPT ![n].enabled = on]
  OBVIOUS
<1>5. /\ IsTable(t) /\ DOMAIN t = DOMAIN table[p]
      /\ t[n].dir = d /\ t[n].enabled = on
      /\ \A m \in DOMAIN table[p] : m # n => t[m] = table[p][m]
  <2>1. table[p] \in [DOMAIN table[p] -> ModTables] /\ DOMAIN table[p] \subseteq ModNames
    BY <1>3 DEF ModTypeOK, IsTable, ModTables
  <2>2. PICK r \in ModTables : r = table[p][n]
    BY <1>3, <2>1
  <2>3. PICK s : s = [r EXCEPT !.enabled = on]
    OBVIOUS
  <2>4. s \in ModTables /\ s.dir = r.dir /\ s.enabled = on
    BY <2>3 DEF ModTables
  <2>5. t = [table[p] EXCEPT ![n] = s]
    BY <1>4, <2>2, <2>3
  <2>6. QED
    BY <1>1, <1>3, <2>1, <2>2, <2>4, <2>5 DEF IsTable, ModTables
<1>6. table' = [table EXCEPT ![p] = t]
  BY <1>3, <1>4 DEF ModTypeOK
<1>7. /\ table' = [q \in Procs |-> table'[q]]
      /\ \A q \in Procs : IsTable(table'[q])
      /\ table'[p] = t /\ \A q \in Procs : q # p => table'[q] = table[q]
  BY <1>3, <1>5, <1>6, OwnTypes
<1>8. \A e : ~Copying(p, e) /\ ~Removing(p, e) /\ ~OwnDir(p, e) /\ ~JobAt(p, "remove")
  BY <1>3 DEF Copying, Removing, OwnDir, JobAt
<1>9. \A q \in Procs : \A e : (Copying(q, e)' <=> Copying(q, e)) /\ (Removing(q, e)' <=> Removing(q, e))
  BY <1>3 DEF Copying, Removing, JobAt
<1>10. \A e : ~Copying(p, e)' /\ ~Removing(p, e)' /\ ~OwnDir(p, e)' /\ ~JobAt(p, "remove")'
  BY <1>3 DEF Copying, Removing, OwnDir, JobAt
<1>11. ASSUME ~outdated[p]
       PROVE  /\ d \in DOMAIN disk
              /\ \A m \in DOMAIN table[p] : m # n => table[p][m].dir # d
  <2>1. \A m \in DOMAIN table[p] : LET e == table[p][m].dir IN e \in Loadable(disk) /\ NameOf(disk, e) = m
    BY <1>3, <1>8, <1>11 DEF ModIInv, AgreeInv, Agrees
  <2>2. QED
    BY <1>1, <1>3, <2>1 DEF Loadable
<1>12. CASE d \in DOMAIN disk
  <2>1. /\ Write(p, [disk EXCEPT ![d]["marker"] = c])
    BY <1>1, <1>2, <1>12 DEF SetMarker
  <2>2. /\ disk' = [disk EXCEPT ![d]["marker"] = c] /\ twice \subseteq twice'
    BY <1>3, <2>1, WriteFacts
  <2>3. c \in Contents /\ (c # Absent <=> on) /\ "marker" \in Files
    BY <1>2 DEF Contents, Files, Absent, Touched
  <2>4. /\ disk'[d]["marker"] = c /\ disk'[d]["manifest"] = disk[d]["manifest"]
        /\ disk'[d]["rest"] = disk[d]["rest"] /\ DOMAIN disk' = DOMAIN disk
    BY <1>3, <1>12, <2>2, <2>3, FileFacts DEF Files
  <2>5. ASSUME NEW q \in Procs, Copying(q, d), d \notin cut, NEW g \in {"manifest", "rest"}
        PROVE  /\ disk'[d][g] \in {Absent, job'[q].src}
               /\ \/ g \in job'[q].left \/ disk'[d][g] # Absent
                  \/ d \in broken \/ \E r \in Procs : Removing(r, d)
    <3>1. d \in DirNames
      BY <1>3, <1>12 DEF ModTypeOK
    <3>2. /\ disk[d][g] \in {Absent, job[q].src}
          /\ \/ g \in job[q].left \/ disk[d][g] # Absent
             \/ d \in broken \/ \E r \in Procs : Removing(r, d)
      BY <2>5, <3>1 DEF ModIInv, CopyInv
    <3>3. QED
      BY <1>3, <2>4, <3>2
  <2>6. ASSUME ~outdated[p] PROVE Agrees(p)'
    <3>1. Agrees(p)
      BY <1>3, <2>6 DEF ModIInv, AgreeInv
    <3>2. \A e : e # d =>
             /\ e \in Loadable(disk') <=> e \in Loadable(disk)
             /\ e \in Loadable(disk) => /\ NameOf(disk', e) = NameOf(disk, e)
                                        /\ Marked(disk', e) = Marked(disk, e)
      BY <1>3, <1>12, <2>2, <2>3, OtherFiles
    <3>3. /\ d \in Loadable(disk') <=> d \in Loadable(disk)
          /\ NameOf(disk', d) = NameOf(disk, d) /\ (Marked(disk', d) <=> on)
      BY <1>12, <2>3, <2>4 DEF Loadable, NameOf, Marked
    <3>4. \A e : /\ e \in Loadable(disk') <=> e \in Loadable(disk)
                 /\ e \in Loadable(disk) => NameOf(disk', e) = NameOf(disk, e)
      BY <3>2, <3>3
    <3>5. ASSUME NEW m \in DOMAIN table'[p]
          PROVE  /\ table'[p][m].dir \in Loadable(disk') /\ NameOf(disk', table'[p][m].dir) = m
                 /\ table'[p][m].enabled = Marked(disk', table'[p][m].dir)
      <4>1. m \in DOMAIN table[p]
        BY <1>5, <1>7, <3>5
      <4>2. /\ table[p][m].dir \in Loadable(disk) /\ NameOf(disk, table[p][m].dir) = m
            /\ table[p][m].enabled = Marked(disk, table[p][m].dir)
        BY <1>8, <3>1, <4>1 DEF Agrees
      <4>3. CASE m = n
        BY <1>1, <1>5, <1>7, <3>3, <4>2, <4>3 DEF Marked
      <4>4. CASE m # n
        BY <1>5, <1>7, <1>11, <2>6, <3>2, <4>1, <4>2, <4>4
      <4>5. QED
        BY <4>3, <4>4
    <3>6. ASSUME NEW e \in Loadable(disk'), NameOf(disk', e) \notin twice'
          PROVE  NameOf(disk', e) \in DOMAIN table'[p]
      BY <1>5, <1>7, <1>8, <2>2, <3>1, <3>4, <3>6 DEF Agrees
    <3>7. QED
      BY <1>10, <3>5, <3>6 DEF Agrees
  <2>7. Complete(d)' \/ Unfinished(d)
    BY <1>12, <2>4 DEF ModIInv, CompleteInv, Complete
  <2>8. /\ job' \in [Procs -> ModJobs] /\ \A q \in Procs : job'[q] # NoJob => q \in up
        /\ \A q \in Procs : \A e : e # d /\ Copying(q, e) => /\ job'[q].src = job[q].src
                                                            /\ job'[q].left = job[q].left
    BY <1>3 DEF ModTypeOK, ModJobs
  <2>9. QED
    BY <1>3, <1>7, <1>9, <1>12, <2>1, <2>3, <2>5, <2>6, <2>7, <2>8, FileKeeps
<1>13. CASE d \notin DOMAIN disk
  <2>1. UNCHANGED <<disk, outdated, twice>>
    BY <1>1, <1>13 DEF SetMarker
  <2>2. ModTypeOK'
    BY <1>3, <1>7, <2>1 DEF ModTypeOK
  <2>3. CopyInv' /\ CompleteInv'
    BY <1>3, <2>1 DEF ModIInv, CopyInv, CompleteInv, Complete, Unfinished, Copying, Removing, JobAt
  <2>4. AgreeInv'
    <3> SUFFICES ASSUME NEW q \in up, ~outdated[q] PROVE Agrees(q)'
      BY <1>3, <2>1 DEF AgreeInv
    <3>1. q \in Procs /\ Agrees(q) /\ q # p
      BY <1>3, <1>11, <1>13 DEF ModIInv, AgreeInv, ModTypeOK
    <3>2. QED
      BY <1>3, <1>7, <2>1, <3>1, AgreesKept
  <2>5. QED
    BY <2>1, <2>2, <2>3, <2>4, NoWrite DEF ModIInv
<1>14. QED
  BY <1>12, <1>13

LEMMA InstallCopiedKeeps ==
    ASSUME ModIInv, NEW p \in Procs, InstallCopied(p)
    PROVE  ModIInv'
<1>1. PICK d : d = job[p].dir
  OBVIOUS
<1>2. PICK new : new = [job[p] EXCEPT !.at = "load"]
  OBVIOUS
<1>3. /\ ModTypeOK /\ d \in DOMAIN disk /\ job[p] # NoJob /\ job[p].at = "copy" /\ job[p].left = {}
      /\ UNCHANGED <<disk, up, table, outdated, twice, broken, cut>>
  BY <1>1 DEF ModIInv, InstallCopied, JobAt
<1>4. p \in up /\ job[p] \in InstallJob /\ job[p].src \in DOMAIN Sources
  BY <1>3, JobTypes
<1>5. new \in InstallJob /\ new.at = "load" /\ new.dir = d
  BY <1>1, <1>2, <1>4 DEF InstallJob
<1>6. new \in ModJobs /\ new # NoJob /\ job' = [job EXCEPT ![p] = new]
  BY <1>2, <1>3, <1>5, ModulesAssumption DEF ModJobs, InstallCopied, ModTypeOK
<1>7. job'[p] = new
  BY <1>3, <1>6, JobFacts
<1>8. /\ \A e : (OwnDir(p, e)' <=> e = d) /\ (OwnDir(p, e) <=> e = d)
      /\ \A e : (Copying(p, e) <=> e = d) /\ ~Copying(p, e)' /\ ~Removing(p, e) /\ ~Removing(p, e)'
      /\ ~JobAt(p, "remove")'
  BY <1>1, <1>3, <1>5, <1>6, <1>7 DEF OwnDir, Copying, Removing, JobAt
<1>9. Complete(d) \/ Unfinished(d)'
  <2>1. CASE d \in cut \cup broken
    BY <1>3, <2>1 DEF Unfinished
  <2>2. CASE d \notin cut /\ \E r \in Procs : Removing(r, d)
    <3>1. PICK r \in Procs : Removing(r, d)
      BY <2>2
    <3>2. r # p /\ Removing(r, d)'
      BY <1>3, <1>6, <1>8, <3>1, JobFacts
    <3>3. QED
      BY <3>2 DEF Unfinished
  <2>3. CASE d \notin cut \cup broken /\ ~\E r \in Procs : Removing(r, d)
    <3>1. d \in DirNames /\ Copying(p, d)
      BY <1>3, <1>8 DEF ModTypeOK
    <3>2. \A f \in {"manifest", "rest"} : disk[d][f] \in {Absent, job[p].src} /\ disk[d][f] # Absent
      BY <1>3, <2>3, <3>1 DEF ModIInv, CopyInv
    <3>3. QED
      BY <3>2 DEF Complete
  <2>4. QED
    BY <2>1, <2>2, <2>3
<1>10. CopyInv' /\ CompleteInv'
  BY <1>3, <1>6, <1>8, <1>9, QuietKeeps
<1>11. ASSUME ~outdated[p] PROVE Agrees(p)'
  <2>1. Agrees(p)
    BY <1>4, <1>11 DEF ModIInv, AgreeInv
  <2>2. QED
    BY <1>3, <1>8, <2>1 DEF Agrees
<1>12. QED
  BY <1>3, <1>4, <1>6, <1>10, <1>11, OwnJobKeeps

LEMMA InstallLoadsKeeps ==
    ASSUME ModIInv, NEW p \in Procs, InstallLoads(p)
    PROVE  ModIInv'
<1>1. PICK t \in Loads(table[p], disk) : table' = [table EXCEPT ![p] = t]
  BY DEF InstallLoads
<1>2. /\ ModTypeOK /\ job[p] # NoJob /\ job[p].at = "load" /\ job' = [job EXCEPT ![p] = NoJob]
      /\ UNCHANGED <<disk, up, outdated, twice, broken, cut>>
  BY DEF InstallLoads, JobAt, ModIInv
<1>3. IsTable(t)
  BY <1>2, LoadTypes
<1>4. /\ table' = [q \in Procs |-> table'[q]]
      /\ \A q \in Procs : IsTable(table'[q])
      /\ table'[p] = t /\ \A q \in Procs : q # p => table'[q] = table[q]
  BY <1>1, <1>2, <1>3, OwnTypes
<1>5. NoJob \in ModJobs
  BY DEF ModJobs
<1>6. /\ job' \in [Procs -> ModJobs] /\ job'[p] = NoJob /\ \A q \in Procs \ {p} : job'[q] = job[q]
  BY <1>2, <1>5, JobFacts
<1>7. \A e : ~Copying(p, e) /\ ~Removing(p, e) /\ ~Copying(p, e)' /\ ~Removing(p, e)' /\ ~OwnDir(p, e)'
  BY <1>2, <1>6 DEF Copying, Removing, OwnDir, JobAt
<1>8. CopyInv' /\ CompleteInv'
  BY <1>2, <1>5, <1>7, QuietKeeps
<1>9. ModTypeOK'
  BY <1>2, <1>4, <1>6 DEF ModTypeOK, ModJobs
<1>10. AgreeInv'
  <2> SUFFICES ASSUME NEW q \in up, ~outdated[q] PROVE Agrees(q)'
    BY <1>2 DEF AgreeInv
  <2>1. q \in Procs /\ Agrees(q)
    BY <1>2 DEF ModIInv, AgreeInv, ModTypeOK
  <2>2. CASE q = p
    <3>1. \A n \in DOMAIN table[p] : n \in Names(disk)
      BY <1>7, <2>1, <2>2 DEF Agrees, Names
    <3>2. /\ DOMAIN t = Names(disk)
          /\ \A n \in DOMAIN t :
                /\ t[n].dir \in Loadable(disk) /\ NameOf(disk, t[n].dir) = n
                /\ t[n].enabled = Marked(disk, t[n].dir)
      BY <1>2, <3>1, LoadFacts
    <3>3. ~JobAt(p, "remove")'
      BY <1>6 DEF JobAt
    <3>4. QED
      BY <1>2, <1>4, <1>7, <2>2, <3>2, <3>3 DEF Agrees, Names
  <2>3. CASE q # p
    BY <1>2, <1>4, <1>6, <2>1, <2>3, AgreesKept
  <2>4. QED
    BY <2>2, <2>3
<1>11. QED
  BY <1>2, <1>8, <1>9, <1>10, NoWrite DEF ModIInv

LEMMA UninstallKeeps ==
    ASSUME ModIInv, NEW p \in Procs, NEW n, Uninstall(p, n)
    PROVE  ModIInv'
<1>1. PICK d : d = table[p][n].dir
  OBVIOUS
<1>2. PICK new : new = [at |-> "remove", dir |-> d, name |-> n,
                        left |-> {f \in Files : disk[d][f] # Absent}]
  OBVIOUS
<1>3. /\ ModTypeOK /\ TwiceInv /\ p \in up /\ job[p] = NoJob /\ n \in DOMAIN table[p] /\ d \in DOMAIN disk
      /\ job' = [job EXCEPT ![p] = new]
      /\ UNCHANGED <<disk, up, table, outdated, twice, broken, cut>>
  BY <1>1, <1>2 DEF Uninstall, BeginOperation, Idle, ModIInv
<1>4. \A e : ~Copying(p, e) /\ ~Removing(p, e) /\ ~OwnDir(p, e)
  BY <1>3 DEF Copying, Removing, OwnDir, JobAt
<1>5. d \in DirNames /\ n \in ModNames
  BY <1>3 DEF ModTypeOK, IsTable
<1>6. new \in RemoveJob /\ new # NoJob /\ new \in ModJobs /\ new.at = "remove" /\ new.dir = d /\ new.name = n
  BY <1>2, <1>5, ModulesAssumption DEF RemoveJob, ModJobs
<1>7. job'[p] = new
  BY <1>3, <1>6, JobFacts
<1>8. /\ \A e : (OwnDir(p, e)' <=> e = d) /\ (Removing(p, e)' <=> e = d) /\ ~Copying(p, e)'
      /\ JobAt(p, "remove")' /\ job'[p].name = n
  BY <1>6, <1>7 DEF OwnDir, Copying, Removing, JobAt
<1>9. CopyInv' /\ CompleteInv'
  BY <1>3, <1>4, <1>6, <1>8, QuietKeeps
<1>10. ASSUME ~outdated[p] PROVE Agrees(p)'
  <2>1. Agrees(p) /\ ~JobAt(p, "remove")
    BY <1>3, <1>10 DEF ModIInv, AgreeInv, JobAt
  <2>2. \A m \in DOMAIN table[p] :
           /\ table[p][m].dir \in Loadable(disk) /\ NameOf(disk, table[p][m].dir) = m
           /\ table[p][m].enabled = Marked(disk, table[p][m].dir)
    BY <1>4, <2>1 DEF Agrees
  <2>3. ASSUME NEW e \in Loadable(disk), NameOf(disk, e) \notin twice, e # d
        PROVE  NameOf(disk, e) \in DOMAIN table[p] /\ NameOf(disk, e) # n
    <3>1. d \in Loadable(disk) /\ NameOf(disk, d) = n
      BY <1>1, <1>3, <2>2
    <3>2. QED
      BY <1>3, <1>4, <2>1, <2>3, <3>1 DEF Agrees, TwiceInv
  <2>4. \A m \in DOMAIN table[p] : m # n => table[p][m].dir # d
    BY <1>1, <1>3, <2>2
  <2>5. QED
    BY <1>1, <1>3, <1>8, <2>2, <2>3, <2>4 DEF Agrees, Marked
<1>11. QED
  BY <1>3, <1>6, <1>9, <1>10, OwnJobKeeps

LEMMA UninstallEndsKeeps ==
    ASSUME ModIInv, NEW p \in Procs, UninstallEnds(p)
    PROVE  ModIInv'
<1>1. PICK d : d = job[p].dir
  OBVIOUS
<1>2. PICK n : n = job[p].name
  OBVIOUS
<1>3. PICK t : t = Drop(table[p], {n})
  OBVIOUS
<1>4. /\ ModTypeOK /\ job[p] # NoJob /\ job[p].at = "remove" /\ d \in DOMAIN disk
      /\ Write(p, Drop(disk, {d}))
      /\ job' = [job EXCEPT ![p] = NoJob] /\ UNCHANGED <<up, broken>>
      /\ cut' = IF \E q \in Procs : Copying(q, d) THEN cut \cup {d} ELSE cut
  BY <1>1 DEF ModIInv, UninstallEnds, JobAt
<1>5. table' = [table EXCEPT ![p] = t]
  BY <1>2, <1>3 DEF UninstallEnds
<1>6. p \in up
  BY <1>4, JobTypes
<1>7. /\ DOMAIN t = DOMAIN table[p] \ {n} /\ \A m \in DOMAIN t : t[m] = table[p][m]
      /\ IsTable(t)
  <2>1. DOMAIN t = DOMAIN table[p] \ {n} /\ \A m \in DOMAIN t : t[m] = table[p][m]
    BY <1>3 DEF Drop
  <2>2. IsTable(table[p])
    BY <1>4 DEF ModTypeOK
  <2>3. IsTable(t)
    BY <1>3, <2>1, <2>2 DEF IsTable, Drop
  <2>4. QED
    BY <2>1, <2>3
<1>8. /\ table' = [q \in Procs |-> table'[q]]
      /\ \A q \in Procs : IsTable(table'[q])
      /\ table'[p] = t /\ \A q \in Procs : q # p => table'[q] = table[q]
  BY <1>4, <1>5, <1>7, OwnTypes
<1>9. NoJob \in ModJobs
  BY DEF ModJobs
<1>10. /\ job' \in [Procs -> ModJobs] /\ job'[p] = NoJob
       /\ \A q \in Procs \ {p} :
             /\ job'[q] = job[q]
             /\ \A e : (Copying(q, e)' <=> Copying(q, e)) /\ (Removing(q, e)' <=> Removing(q, e))
  BY <1>4, <1>9, JobFacts
<1>11. /\ \A e : (Removing(p, e) <=> e = d) /\ (OwnDir(p, e) <=> e = d) /\ ~Copying(p, e)
       /\ \A e : ~Removing(p, e)' /\ ~OwnDir(p, e)' /\ ~Copying(p, e)'
       /\ JobAt(p, "remove") /\ ~JobAt(p, "remove")'
  BY <1>1, <1>4, <1>10 DEF Removing, OwnDir, Copying, JobAt
<1>12. /\ disk' = Drop(disk, {d}) /\ TwiceInv' /\ twice \subseteq twice'
       /\ outdated' \in [Procs -> BOOLEAN]
       /\ \A q \in Procs : ~outdated'[q] => q = p /\ ~outdated[q]
  BY <1>4, WriteFacts
<1>13. DOMAIN disk' = DOMAIN disk \ {d} /\ \A e \in DOMAIN disk' : disk'[e] = disk[e]
  BY <1>12 DEF Drop
<1>14. ModTypeOK'
  <2>1. disk' \in [DOMAIN disk' -> [Files -> Contents]]
    BY <1>4, <1>12, <1>13 DEF ModTypeOK, Drop
  <2>2. /\ DOMAIN disk' \subseteq DirNames
        /\ \A e \in DOMAIN disk' : {disk'[e]["manifest"], disk'[e]["rest"]} \subseteq DOMAIN Sources \cup {Absent}
    BY <1>4, <1>13 DEF ModTypeOK
  <2>3. up' \subseteq Procs /\ \A q \in Procs : job'[q] # NoJob => q \in up'
    BY <1>4, <1>6, <1>10 DEF ModTypeOK
  <2>4. job' \in [Procs -> InstallJob \cup RemoveJob \cup {NoJob}]
    BY <1>10 DEF ModJobs
  <2>5. QED
    BY <1>8, <1>12, <2>1, <2>2, <2>3, <2>4 DEF ModTypeOK
<1>15. CopyInv'
  <2> SUFFICES ASSUME NEW q \in Procs, NEW e \in DirNames, Copying(q, e)', e \notin cut'
               PROVE  /\ e \in DOMAIN disk'
                      /\ \A r \in Procs : Copying(r, e)' => r = q
                      /\ \A g \in {"manifest", "rest"} :
                            /\ disk'[e][g] \in {Absent, job'[q].src}
                            /\ \/ g \in job'[q].left \/ disk'[e][g] # Absent
                               \/ e \in broken' \/ \E r \in Procs : Removing(r, e)'
    BY DEF CopyInv
  <2>1. q # p /\ Copying(q, e) /\ job'[q] = job[q]
    BY <1>10, <1>11
  <2>2. e # d /\ e \notin cut
    BY <1>4, <2>1
  <2>3. /\ e \in DOMAIN disk
        /\ \A r \in Procs : Copying(r, e) => r = q
        /\ \A g \in {"manifest", "rest"} :
              /\ disk[e][g] \in {Absent, job[q].src}
              /\ \/ g \in job[q].left \/ disk[e][g] # Absent
                 \/ e \in broken \/ \E r \in Procs : Removing(r, e)
    BY <2>1, <2>2 DEF ModIInv, CopyInv
  <2>4. \A r \in Procs : (Copying(r, e)' => Copying(r, e)) /\ (Removing(r, e) => Removing(r, e)')
    BY <1>10, <1>11, <2>2
  <2>5. QED
    BY <1>4, <1>13, <2>1, <2>2, <2>3, <2>4
<1>16. CompleteInv'
  <2> SUFFICES ASSUME NEW e \in DOMAIN disk' PROVE Complete(e)' \/ Unfinished(e)'
    BY DEF CompleteInv
  <2>1. e \in DOMAIN disk /\ e # d /\ disk'[e] = disk[e] /\ (Complete(e) \/ Unfinished(e))
    BY <1>13 DEF ModIInv, CompleteInv
  <2>2. \A q \in Procs : Copying(q, e) \/ Removing(q, e) => Copying(q, e)' \/ Removing(q, e)'
    BY <1>10, <1>11, <2>1
  <2>3. Unfinished(e) => Unfinished(e)'
    BY <1>4, <2>2 DEF Unfinished
  <2>4. QED
    BY <2>1, <2>3 DEF Complete
<1>17. AgreeInv'
  <2> SUFFICES ASSUME ~outdated[p] PROVE Agrees(p)'
    BY <1>4, <1>12 DEF AgreeInv, ModTypeOK
  <2>1. Agrees(p)
    BY <1>6 DEF ModIInv, AgreeInv
  <2>2. /\ Loadable(disk') = Loadable(disk) \ {d}
        /\ \A e \in Loadable(disk') : /\ NameOf(disk', e) = NameOf(disk, e)
                                      /\ Marked(disk', e) = Marked(disk, e)
    BY <1>13 DEF Loadable, NameOf, Marked
  <2>3. ASSUME NEW m \in DOMAIN t
        PROVE  /\ t[m].dir \in Loadable(disk') /\ NameOf(disk', t[m].dir) = m
               /\ t[m].enabled = Marked(disk', t[m].dir)
    <3>1. m # n /\ m \in DOMAIN table[p] /\ t[m] = table[p][m]
      BY <1>7
    <3>2. /\ ~Removing(p, t[m].dir)
          /\ t[m].dir \in Loadable(disk) /\ NameOf(disk, t[m].dir) = m
          /\ t[m].enabled = Marked(disk, t[m].dir)
      BY <1>2, <2>1, <3>1 DEF Agrees
    <3>3. t[m].dir # d
      BY <1>11, <3>2
    <3>4. QED
      BY <2>2, <3>2, <3>3
  <2>4. ASSUME NEW e \in Loadable(disk'), NameOf(disk', e) \notin twice'
        PROVE  NameOf(disk', e) \in DOMAIN t
    <3>1. e \in Loadable(disk) /\ e # d /\ NameOf(disk', e) = NameOf(disk, e) /\ NameOf(disk, e) \notin twice
      BY <1>12, <2>2, <2>4
    <3>2. NameOf(disk, e) \in DOMAIN table[p] /\ NameOf(disk, e) # n
      BY <1>2, <1>11, <2>1, <3>1 DEF Agrees
    <3>3. QED
      BY <1>7, <3>1, <3>2
  <2>5. QED
    BY <1>8, <1>11, <2>3, <2>4 DEF Agrees
<1>18. QED
  BY <1>12, <1>14, <1>15, <1>16, <1>17 DEF ModIInv

LEMMA ModNextIInv == ModIInv /\ [ModNext]_modVars => ModIInv'
<1> SUFFICES ASSUME ModIInv, [ModNext]_modVars PROVE ModIInv'
  OBVIOUS
<1>1. CASE UNCHANGED modVars
  <2>1. UNCHANGED <<disk, up, table, job, outdated, twice, broken, cut>>
    BY <1>1 DEF modVars
  <2>2. ModTypeOK' /\ TwiceInv'
    BY <2>1, NoWrite DEF ModIInv, ModTypeOK, JobAt
  <2>3. CopyInv' /\ CompleteInv'
    BY <2>1 DEF ModIInv, CopyInv, CompleteInv, Complete, Unfinished, Copying, Removing, JobAt
  <2>4. \A q \in Procs : Agrees(q) => Agrees(q)'
    BY <2>1, AgreesKept
  <2>5. QED
    BY <2>1, <2>2, <2>3, <2>4 DEF ModIInv, AgreeInv, ModTypeOK
<1>2. ASSUME NEW p \in Procs,
             \/ ProcessBegins(p) \/ Kill(p) \/ OperationRaises(p)
             \/ \E s \in DOMAIN Sources, d \in DirNames : InstallCheck(p, s, d)
             \/ InstallMakes(p) \/ InstallCopied(p) \/ InstallLoads(p)
             \/ \E f \in Files : InstallCopies(p, f) \/ UninstallRemoves(p, f)
             \/ \E n \in DOMAIN table[p] : Enable(p, n) \/ Disable(p, n) \/ Uninstall(p, n)
             \/ UninstallEnds(p)
      PROVE  ModIInv'
  <2>1. CASE ProcessBegins(p)
    BY <2>1, BeginsKeeps
  <2>2. CASE Kill(p) \/ OperationRaises(p)
    BY <2>2, CutShortKeeps
  <2>3. ASSUME NEW s \in DOMAIN Sources, NEW d \in DirNames, InstallCheck(p, s, d) PROVE ModIInv'
    <3> DEFINE new == [at |-> "make", dir |-> d, src |-> s, left |-> {}]
    <3>1. new \in ModJobs
      BY DEF ModJobs, InstallJob
    <3>2. /\ p \in up /\ job[p] = NoJob /\ job' = [job EXCEPT ![p] = new] /\ new.at = "make"
          /\ UNCHANGED <<disk, up, table, outdated, twice, broken, cut>>
      BY <2>3 DEF InstallCheck, BeginOperation, Idle
    <3> HIDE DEF new
    <3>3. QED
      BY <3>1, <3>2, OutsideKeeps
  <2>4. CASE InstallMakes(p)
    BY <2>4, InstallMakesKeeps
  <2>5. CASE InstallCopied(p)
    BY <2>5, InstallCopiedKeeps
  <2>6. CASE InstallLoads(p)
    BY <2>6, InstallLoadsKeeps
  <2>7. ASSUME NEW f \in Files, InstallCopies(p, f) \/ UninstallRemoves(p, f) PROVE ModIInv'
    BY <2>7, InstallCopiesKeeps, UninstallRemovesKeeps
  <2>8. ASSUME NEW n, Enable(p, n) \/ Disable(p, n) PROVE ModIInv'
    BY <2>8, MarkerKeeps DEF Enable, Disable
  <2>9. ASSUME NEW n, Uninstall(p, n) PROVE ModIInv'
    BY <2>9, UninstallKeeps
  <2>10. CASE UninstallEnds(p)
    BY <2>10, UninstallEndsKeeps
  <2>11. QED
    BY <1>2, <2>1, <2>2, <2>3, <2>4, <2>5, <2>6, <2>7, <2>8, <2>9, <2>10
<1>3. QED
  BY <1>1, <1>2 DEF ModNext

\* Through kills, exceptions and overlapping operations of other processes: who copies
\* where, and what a manager that nobody has overtaken has in its table.
THEOREM ModulesInvariant == ModSpec => []ModIInv
<1>1. ModInit => ModIInv
  <2> SUFFICES ASSUME ModInit PROVE ModIInv
    OBVIOUS
  <2>1. ModTypeOK
    <3>1. /\ disk = EmptyDict /\ up = {} /\ table = [p \in Procs |-> EmptyDict]
          /\ job = [p \in Procs |-> NoJob] /\ outdated = [p \in Procs |-> FALSE]
      BY DEF ModInit
    <3>2. disk \in [DOMAIN disk -> [Files -> Contents]]
      BY <3>1 DEF EmptyDict
    <3>3. IsTable(EmptyDict)
      BY DEF EmptyDict, IsTable
    <3>4. QED
      BY <3>1, <3>2, <3>3, EmptyFacts DEF ModTypeOK
  <2>2. CopyInv /\ CompleteInv /\ TwiceInv /\ AgreeInv
    BY EmptyFacts DEF ModInit, CopyInv, CompleteInv, TwiceInv, AgreeInv, Copying, JobAt, Loadable
  <2>3. QED
    BY <2>1, <2>2 DEF ModIInv
<1>2. QED
  BY <1>1, ModNextIInv, PTL DEF ModSpec

\* A manager that nobody has overtaken lists the modules that have a manifest on disk and
\* serves those that are enabled there; one that is incomplete has its install or removal
\* in progress elsewhere, or cut short.
THEOREM ManagersAgree == ModSpec => []ManagerAgrees
<1>1. ASSUME ModIInv PROVE ManagerAgrees
  <2> SUFFICES ASSUME NEW p \in up, job[p] = NoJob, ~outdated[p]
               PROVE  /\ DOMAIN table[p] \ twice = Names(disk) \ twice
                      /\ Served(p) \ twice = {NameOf(disk, d) : d \in
                            {d \in Loadable(disk) : Marked(disk, d)}} \ twice
                      /\ \A n \in DOMAIN table[p] :
                            /\ n \notin twice => NameOf(disk, table[p][n].dir) = n
                            /\ Complete(table[p][n].dir) \/ Unfinished(table[p][n].dir)
    BY DEF ManagerAgrees
  <2>1. /\ Agrees(p) /\ TwiceInv /\ CompleteInv
        /\ \A d : ~Removing(p, d) /\ ~OwnDir(p, d)
    BY <1>1 DEF ModIInv, AgreeInv, Removing, OwnDir, Copying, JobAt
  <2>2. \A n \in DOMAIN table[p] :
           /\ table[p][n].dir \in Loadable(disk) /\ NameOf(disk, table[p][n].dir) = n
           /\ table[p][n].enabled = Marked(disk, table[p][n].dir)
    BY <2>1 DEF Agrees
  <2>3. DOMAIN table[p] \ twice = Names(disk) \ twice
    BY <2>1, <2>2 DEF Agrees, Names
  <2>4. ASSUME NEW n \in Served(p)
        PROVE  \E d \in Loadable(disk) : Marked(disk, d) /\ NameOf(disk, d) = n
    BY <2>2 DEF Served
  <2>5. ASSUME NEW d \in Loadable(disk), Marked(disk, d), NameOf(disk, d) \notin twice
        PROVE  NameOf(disk, d) \in Served(p)
    <3> DEFINE n == NameOf(disk, d)
    <3>1. n \in DOMAIN table[p]
      BY <2>3, <2>5 DEF Names
    <3>2. table[p][n].dir = d
      BY <2>1, <2>2, <2>5, <3>1 DEF TwiceInv
    <3>3. QED
      BY <2>2, <2>5, <3>1, <3>2 DEF Served
  <2>6. \A n \in DOMAIN table[p] : Complete(table[p][n].dir) \/ Unfinished(table[p][n].dir)
    BY <2>1, <2>2 DEF CompleteInv, Loadable
  <2>7. QED
    BY <2>2, <2>3, <2>4, <2>5, <2>6
<1>2. QED
  BY <1>1, ModulesInvariant, PTL

\* What is in a file that is not removed was there, or is what a copy brings.
LEMMA FilesKept ==
    ASSUME ModIInv, [ModNext]_modVars, NEW d \in DOMAIN disk', NEW g \in {"manifest", "rest"}
    PROVE  /\ cut \subseteq cut'
           /\ \/ disk'[d][g] = Absent
              \/ d \in DOMAIN disk /\ disk'[d][g] = disk[d][g]
              \/ d \in DOMAIN disk /\ \E p \in Procs : Copying(p, d) /\ disk'[d][g] = job[p].src
<1> DEFINE StaysOrCopied ==
             \/ disk'[d][g] = Absent
             \/ d \in DOMAIN disk /\ disk'[d][g] = disk[d][g]
             \/ d \in DOMAIN disk /\ \E p \in Procs : Copying(p, d) /\ disk'[d][g] = job[p].src
<1>1. ModTypeOK /\ g \in Files /\ g # "marker"
  BY DEF ModIInv, Files
<1>2. ASSUME UNCHANGED disk PROVE StaysOrCopied
  BY <1>2
<1>3. ASSUME NEW e \in DOMAIN disk, NEW f \in Files, NEW c, disk' = [disk EXCEPT ![e][f] = c],
             f # "marker" => c = Absent \/ \E p \in Procs : Copying(p, e) /\ c = job[p].src
      PROVE  StaysOrCopied
  <2>1. d \in DOMAIN disk /\ disk \in [DOMAIN disk -> [Files -> Contents]]
    BY <1>1, <1>3 DEF ModTypeOK
  <2>2. CASE d = e /\ g = f
    <3>1. disk'[d][g] = c
      BY <1>1, <1>3, <2>1, <2>2
    <3>2. QED
      BY <1>1, <1>3, <2>1, <2>2, <3>1
  <2>3. CASE d # e \/ g # f
    BY <1>1, <1>3, <2>1, <2>3
  <2>4. QED
    BY <2>2, <2>3
<1>4. ASSUME NEW p \in Procs, InstallMakes(p) PROVE StaysOrCopied
  <2>1. CASE job[p].dir \in DOMAIN disk
    BY <1>2, <1>4, <2>1 DEF InstallMakes, MakeDirectory
  <2>2. CASE job[p].dir \notin DOMAIN disk
    <3>1. disk' = Put(disk, job[p].dir, NoFiles)
      BY <1>4, <2>2 DEF InstallMakes, MakeDirectory, Write
    <3>2. QED
      BY <1>1, <2>2, <3>1 DEF Put, NoFiles
  <2>3. QED
    BY <2>1, <2>2
<1>5. ASSUME NEW p \in Procs, NEW f \in Files, InstallCopies(p, f) PROVE StaysOrCopied
  <2>1. /\ job[p].dir \in DOMAIN disk /\ Copying(p, job[p].dir)
        /\ disk' = [disk EXCEPT ![job[p].dir][f] = CopyOf(job[p].src, f)]
        /\ f # "marker" => CopyOf(job[p].src, f) = job[p].src
    BY <1>5 DEF InstallCopies, Write, Copying, JobAt, CopyOf
  <2>2. QED
    BY <1>3, <2>1
<1>6. ASSUME NEW p \in Procs, NEW f \in Files, UninstallRemoves(p, f) PROVE StaysOrCopied
  BY <1>3, <1>6 DEF UninstallRemoves, Write
<1>7. ASSUME NEW p \in Procs, NEW n, NEW on, SetMarker(p, n, on, on) PROVE StaysOrCopied
  BY <1>2, <1>3, <1>7 DEF SetMarker, Write, Files
<1>8. ASSUME NEW p \in Procs, UninstallEnds(p) PROVE StaysOrCopied
  BY <1>8 DEF UninstallEnds, Write, Drop
<1>9. StaysOrCopied
  BY <1>2, <1>4, <1>5, <1>6, <1>7, <1>8
     DEF ModNext, modVars, ProcessBegins, Kill, OperationRaises, InstallCheck, InstallCopied,
         InstallLoads, Enable, Disable, Uninstall
<1>10. cut \subseteq cut'
  BY DEF ModNext, modVars, ProcessBegins, Kill, OperationRaises, InstallCheck, InstallMakes,
         MakeDirectory, InstallCopies, InstallCopied, InstallLoads, SetMarker, Enable, Disable,
         Uninstall, UninstallRemoves, UninstallEnds
<1>11. QED
  BY <1>9, <1>10

\* Two installs never mix, unless a directory was removed in the middle of a copy.
THEOREM InstallsNeverClobber == ModSpec => InstallNeverClobbers
<1> DEFINE Stays == \A d \in (DOMAIN disk \cap DOMAIN disk') \ cut : \A f, g \in {"manifest", "rest"} :
                      disk[d][f] # Absent /\ disk'[d][g] # Absent => disk'[d][g] = disk[d][f]
<1>1. ASSUME ModIInv, SourceInv, [ModNext]_modVars, NEW d \in (DOMAIN disk \cap DOMAIN disk') \ cut,
             NEW f \in {"manifest", "rest"}, NEW g \in {"manifest", "rest"},
             disk[d][f] # Absent, disk'[d][g] # Absent
      PROVE  disk'[d][g] = disk[d][f]
  <2>1. CASE disk'[d][g] = disk[d][g]
    BY <1>1, <2>1 DEF SourceInv
  <2>2. ASSUME NEW p \in Procs, Copying(p, d), disk'[d][g] = job[p].src PROVE disk'[d][g] = disk[d][f]
    <3>1. d \in DirNames
      BY <1>1 DEF ModIInv, ModTypeOK
    <3>2. QED
      BY <1>1, <2>2, <3>1 DEF ModIInv, CopyInv
  <2>3. QED
    BY <1>1, <2>1, <2>2, FilesKept
<1>2. ASSUME ModIInv, SourceInv, [ModNext]_modVars PROVE SourceInv'
  <2> SUFFICES ASSUME NEW d \in DOMAIN disk' \ cut', disk'[d]["manifest"] # Absent, disk'[d]["rest"] # Absent
               PROVE  disk'[d]["manifest"] = disk'[d]["rest"]
    BY DEF SourceInv
  <2>1. d \notin cut
    BY <1>2, FilesKept
  <2>2. CASE d \in DOMAIN disk /\ \E f \in {"manifest", "rest"} : disk[d][f] # Absent
    BY <1>1, <1>2, <2>1, <2>2
  <2>3. CASE d \in DOMAIN disk /\ \A f \in {"manifest", "rest"} : disk[d][f] = Absent
    <3>1. \A g \in {"manifest", "rest"} : \E p \in Procs : Copying(p, d) /\ disk'[d][g] = job[p].src
      BY <1>2, <2>3, FilesKept
    <3>2. d \in DirNames
      BY <1>2, <2>3 DEF ModIInv, ModTypeOK
    <3>3. \A p, q \in Procs : Copying(p, d) /\ Copying(q, d) => p = q
      BY <1>2, <2>1, <3>2 DEF ModIInv, CopyInv
    <3>4. PICK p \in Procs : Copying(p, d) /\ disk'[d]["manifest"] = job[p].src
      BY <3>1
    <3>5. PICK q \in Procs : Copying(q, d) /\ disk'[d]["rest"] = job[q].src
      BY <3>1
    <3>6. QED
      BY <3>3, <3>4, <3>5
  <2>4. CASE d \notin DOMAIN disk
    BY <1>2, <2>4, FilesKept
  <2>5. QED
    BY <2>2, <2>3, <2>4
<1>3. ASSUME ModIInv, SourceInv, [ModNext]_modVars PROVE [Stays]_modVars
  BY <1>1, <1>3
<1>4. ModInit => SourceInv
  BY EmptyFacts DEF ModInit, SourceInv
<1>5. ModSpec => [][Stays]_modVars
  BY <1>2, <1>3, <1>4, ModulesInvariant, PTL DEF ModSpec
<1>6. QED
  BY <1>5 DEF InstallNeverClobbers

-----------------------------------------------------------------------------
(* Database: the pool of connections to external databases *)

DbPoolSpec == PoolInit /\ [][PoolNext]_poolVars

DbConns == [db : {DbName[p] : p \in Paths}, info : {"named", "none", "object"}]

\* What DbPoolIInv says of one key, and of a connection in use.
KeyInv(k) ==
    /\ pooled[k] \subseteq DOMAIN dbConns
    /\ IsFiniteSet(pooled[k]) /\ Cardinality(pooled[k]) <= PoolSize
    /\ pooled[k] \cap DOMAIN inUse = {}
    /\ \A l \in DOMAIN pooled \ {k} : pooled[k] \cap pooled[l] = {}
    /\ \A c \in pooled[k] : dbConns[c].db = k \/ (dbConns[c].info = "none" /\ k = Default)

UseInv(c) ==
    /\ c \in DOMAIN dbConns /\ inUse[c] \in Paths
    /\ dbConns[c].db = DbName[inUse[c]] \/ (dbConns[c].info = "none" /\ inUse[c] = Default)

PoolParts ==
    /\ dbConns \in Seq(DbConns)
    /\ pooled = [k \in DOMAIN pooled |-> pooled[k]]
    /\ \A k \in DOMAIN pooled : KeyInv(k)
    /\ \A c \in DOMAIN inUse : UseInv(c)

LEMMA PoolSplit == DbPoolIInv => PoolParts
BY DEF DbPoolIInv, PoolParts, KeyInv, UseInv, DbConns

LEMMA PoolJoin == PoolParts' => DbPoolIInv'
<1> SUFFICES ASSUME PoolParts' PROVE DbPoolIInv'
  OBVIOUS
<1>1. pooled' \in [DOMAIN pooled' -> SUBSET DOMAIN dbConns']
  BY DEF PoolParts, KeyInv
<1>2. QED
  BY <1>1 DEF DbPoolIInv, PoolParts, KeyInv, UseInv, DbConns

LEMMA ConnFacts ==
    ASSUME DbPoolIInv, NEW c \in DOMAIN dbConns
    PROVE  dbConns[c] \in DbConns /\ \E q \in Paths : dbConns[c].db = DbName[q]
<1>1. dbConns \in Seq(DbConns)
  BY PoolSplit DEF PoolParts
<1>2. dbConns[c] \in DbConns
  BY <1>1
<1>3. QED
  BY <1>2 DEF DbConns

LEMMA PooledKeeps ==
    ASSUME DbPoolIInv, NEW p \in Paths, GetPooled(p) PROVE DbPoolIInv'
<1> USE DatabaseAssumption
<1>0. PoolParts
  BY PoolSplit
<1>1. PICK c \in Known(p) :
         /\ pooled' = [pooled EXCEPT ![p] = @ \ {c}]
         /\ inUse' = Put(inUse, c, p) /\ UNCHANGED dbConns
  BY DEF GetPooled
<1>2. p \in DOMAIN pooled /\ c \in pooled[p] /\ KeyInv(p)
  BY <1>0, <1>1 DEF Known, PoolParts
<1>3. /\ DOMAIN pooled' = DOMAIN pooled /\ pooled'[p] = pooled[p] \ {c}
      /\ \A k \in DOMAIN pooled \ {p} : pooled'[k] = pooled[k]
      /\ pooled' = [k \in DOMAIN pooled' |-> pooled'[k]]
  BY <1>1, <1>2
<1>4. /\ DOMAIN inUse' = DOMAIN inUse \cup {c} /\ inUse'[c] = p
      /\ \A d \in DOMAIN inUse \ {c} : inUse'[d] = inUse[d]
  BY <1>1 DEF Put
<1>5. KeyInv(p)'
  <2>1. IsFiniteSet(pooled'[p]) /\ Cardinality(pooled'[p]) <= Cardinality(pooled[p])
    BY <1>2, <1>3, FS_Subset DEF KeyInv
  <2>2. Cardinality(pooled'[p]) \in Nat /\ Cardinality(pooled[p]) \in Nat
    BY <1>2, <2>1, FS_CardinalityType DEF KeyInv
  <2>3. QED
    BY <1>1, <1>2, <1>3, <1>4, <2>1, <2>2 DEF KeyInv
<1>6. ASSUME NEW k \in DOMAIN pooled \ {p} PROVE KeyInv(k)'
  BY <1>0, <1>1, <1>2, <1>3, <1>4 DEF KeyInv, PoolParts
<1>7. UseInv(c)'
  <2>1. c \in DOMAIN dbConns /\ (dbConns[c].db = p \/ (dbConns[c].info = "none" /\ p = Default))
    BY <1>2 DEF KeyInv
  <2>2. dbConns[c].db = p => dbConns[c].db = DbName[p]
    BY <2>1, ConnFacts
  <2>3. QED
    BY <1>1, <1>4, <2>1, <2>2 DEF UseInv
<1>8. ASSUME NEW d \in DOMAIN inUse \ {c} PROVE UseInv(d)'
  BY <1>0, <1>1, <1>4 DEF UseInv, PoolParts
<1>9. PoolParts'
  BY <1>0, <1>1, <1>3, <1>4, <1>5, <1>6, <1>7, <1>8 DEF PoolParts
<1>10. QED
  BY <1>9, PoolJoin

\* The key of a path that has no idle connection is made, or stays as it is.
LEMMA KeyMade ==
    ASSUME DbPoolIInv, NEW p, Known(p) = {}, pooled' = Put(pooled, p, {})
    PROVE  /\ DOMAIN pooled' = DOMAIN pooled \cup {p} /\ pooled'[p] = {}
           /\ \A k \in DOMAIN pooled \ {p} : pooled'[k] = pooled[k]
           /\ pooled' = [k \in DOMAIN pooled' |-> pooled'[k]]
BY DEF Put

LEMMA CreatedKeeps ==
    ASSUME DbPoolIInv, NEW p \in Paths, GetCreated(p) PROVE DbPoolIInv'
<1> USE DatabaseAssumption
<1>0. PoolParts
  BY PoolSplit
<1>c. PICK c : c = Len(dbConns) + 1
  OBVIOUS
<1>1. PICK info \in {"named", "none", "object"} :
         dbConns' = Append(dbConns, [db |-> DbName[p], info |-> info])
  BY DEF GetCreated
<1>2. /\ Known(p) = {} /\ pooled' = Put(pooled, p, {}) /\ inUse' = Put(inUse, c, p)
  BY <1>c DEF GetCreated
<1> DEFINE conn == [db |-> DbName[p], info |-> info]
<1>3. conn \in DbConns /\ conn.db = DbName[p]
  BY DEF DbConns
<1> HIDE DEF conn
<1>4. /\ dbConns' \in Seq(DbConns) /\ DOMAIN dbConns' = DOMAIN dbConns \cup {c}
      /\ c \notin DOMAIN dbConns /\ dbConns'[c] = conn
      /\ \A d \in DOMAIN dbConns : dbConns'[d] = dbConns[d]
  BY <1>c, <1>0, <1>1, <1>3 DEF PoolParts, conn
<1>5. /\ DOMAIN inUse' = DOMAIN inUse \cup {c} /\ inUse'[c] = p
      /\ \A d \in DOMAIN inUse \ {c} : inUse'[d] = inUse[d]
  BY <1>2 DEF Put
<1>6. /\ DOMAIN pooled' = DOMAIN pooled \cup {p} /\ pooled'[p] = {}
      /\ \A k \in DOMAIN pooled \ {p} : pooled'[k] = pooled[k]
      /\ pooled' = [k \in DOMAIN pooled' |-> pooled'[k]]
  BY <1>2, KeyMade
<1>7. KeyInv(p)'
  BY <1>6, FS_EmptySet DEF KeyInv
<1>8. ASSUME NEW k \in DOMAIN pooled \ {p} PROVE KeyInv(k)'
  <2>1. KeyInv(k)
    BY <1>0 DEF PoolParts
  <2>2. \A l \in DOMAIN pooled' \ {k} : pooled'[k] \cap pooled'[l] = {}
    BY <1>6, <2>1 DEF KeyInv
  <2>3. \A d \in pooled'[k] : dbConns'[d].db = k \/ (dbConns'[d].info = "none" /\ k = Default)
    BY <1>4, <1>6, <2>1 DEF KeyInv
  <2>4. QED
    BY <1>4, <1>5, <1>6, <2>1, <2>2, <2>3 DEF KeyInv
<1>9. UseInv(c)'
  BY <1>3, <1>4, <1>5 DEF UseInv
<1>10. ASSUME NEW d \in DOMAIN inUse PROVE UseInv(d)'
  BY <1>0, <1>4, <1>5 DEF UseInv, PoolParts
<1>11. PoolParts'
  BY <1>4, <1>5, <1>6, <1>7, <1>8, <1>9, <1>10 DEF PoolParts
<1>12. QED
  BY <1>11, PoolJoin

LEMMA FailsKeeps ==
    ASSUME DbPoolIInv, NEW p \in Paths, GetFails(p) PROVE DbPoolIInv'
<1> USE DatabaseAssumption
<1>0. PoolParts
  BY PoolSplit
<1>1. /\ DOMAIN pooled' = DOMAIN pooled \cup {p} /\ pooled'[p] = {}
      /\ \A k \in DOMAIN pooled \ {p} : pooled'[k] = pooled[k]
      /\ pooled' = [k \in DOMAIN pooled' |-> pooled'[k]]
      /\ UNCHANGED <<dbConns, inUse>>
  BY KeyMade DEF GetFails
<1>2. KeyInv(p)'
  BY <1>1, FS_EmptySet DEF KeyInv
<1>3. ASSUME NEW k \in DOMAIN pooled \ {p} PROVE KeyInv(k)'
  BY <1>0, <1>1 DEF KeyInv, PoolParts
<1>4. PoolParts'
  BY <1>0, <1>1, <1>2, <1>3 DEF PoolParts, UseInv
<1>5. QED
  BY <1>4, PoolJoin

\* A connection that is in use is idle nowhere: it can be put under the key.
LEMMA PutBackKeeps ==
    ASSUME DbPoolIInv, NEW c, NEW k, PutBack(c, k),
           dbConns[c].db = k \/ (dbConns[c].info = "none" /\ k = Default)
    PROVE  DbPoolIInv'
<1> USE DatabaseAssumption
<1>0. PoolParts
  BY PoolSplit
<1> DEFINE room == k \in DOMAIN pooled /\ Cardinality(Known(k)) < PoolSize
<1>1. /\ c \in DOMAIN inUse /\ inUse' = Drop(inUse, {c}) /\ UNCHANGED dbConns
      /\ pooled' = IF room THEN [pooled EXCEPT ![k] = @ \cup {c}] ELSE pooled
  BY DEF PutBack
<1>2. /\ DOMAIN inUse' = DOMAIN inUse \ {c}
      /\ \A d \in DOMAIN inUse \ {c} : inUse'[d] = inUse[d]
  BY <1>1 DEF Drop
<1>3. c \in DOMAIN dbConns /\ \A l \in DOMAIN pooled : c \notin pooled[l]
  BY <1>0, <1>1 DEF PoolParts, UseInv, KeyInv
<1>4. ASSUME NEW d \in DOMAIN inUse' PROVE UseInv(d)'
  <2>1. d \in DOMAIN inUse \ {c} /\ inUse'[d] = inUse[d] /\ dbConns' = dbConns
    BY <1>1, <1>2
  <2>2. UseInv(d)
    BY <1>0, <2>1 DEF PoolParts
  <2>3. QED
    BY <2>1, <2>2 DEF UseInv
<1>5. CASE ~room
  <2>1. \A l \in DOMAIN pooled' : KeyInv(l)'
    BY <1>0, <1>1, <1>2, <1>5 DEF PoolParts, KeyInv
  <2>2. QED
    BY <1>0, <1>1, <1>4, <1>5, <2>1, PoolJoin DEF PoolParts
<1>6. CASE room
  <2>1. /\ DOMAIN pooled' = DOMAIN pooled /\ pooled'[k] = pooled[k] \cup {c}
        /\ \A l \in DOMAIN pooled \ {k} : pooled'[l] = pooled[l]
        /\ pooled' = [l \in DOMAIN pooled' |-> pooled'[l]]
    BY <1>1, <1>6
  <2>2. KeyInv(k) /\ Cardinality(pooled[k]) < PoolSize
    BY <1>0, <1>6 DEF PoolParts, Known
  <2>3. IsFiniteSet(pooled'[k]) /\ Cardinality(pooled'[k]) <= PoolSize
    <3>1. IsFiniteSet(pooled[k]) /\ c \notin pooled[k]
      BY <1>3, <1>6, <2>2 DEF KeyInv
    <3>2. /\ IsFiniteSet(pooled[k] \cup {c})
          /\ Cardinality(pooled[k] \cup {c}) = Cardinality(pooled[k]) + 1
      BY <3>1, FS_AddElement
    <3>3. Cardinality(pooled[k]) \in Nat
      BY <3>1, FS_CardinalityType
    <3>4. QED
      BY <2>1, <2>2, <3>2, <3>3
  <2>4. KeyInv(k)'
    BY <1>1, <1>2, <1>3, <2>1, <2>2, <2>3 DEF KeyInv
  <2>5. ASSUME NEW l \in DOMAIN pooled \ {k} PROVE KeyInv(l)'
    BY <1>0, <1>1, <1>2, <1>3, <1>6, <2>1 DEF KeyInv, PoolParts
  <2>6. PoolParts'
    BY <1>0, <1>1, <1>4, <2>1, <2>4, <2>5 DEF PoolParts
  <2>7. QED
    BY <2>6, PoolJoin
<1>7. QED
  BY <1>5, <1>6

LEMMA RaisesKeeps ==
    ASSUME DbPoolIInv, NEW c, ReturnRaises(c) PROVE DbPoolIInv'
<1>0. PoolParts
  BY PoolSplit
<1>1. /\ c \in DOMAIN inUse /\ inUse' = Drop(inUse, {c}) /\ UNCHANGED <<pooled, dbConns>>
  BY DEF ReturnRaises
<1>2. /\ DOMAIN inUse' = DOMAIN inUse \ {c}
      /\ \A d \in DOMAIN inUse \ {c} : inUse'[d] = inUse[d]
  BY <1>1 DEF Drop
<1>3. PoolParts'
  BY <1>0, <1>1, <1>2, ZenonT(60) DEF PoolParts, UseInv, KeyInv
<1>4. QED
  BY <1>3, PoolJoin

\* A connection is used for the database its path leads to, or for the path "default" when
\* its driver tells no name; it is idle under one key at most, and never idle and in use.
THEOREM PooledConnectionsFit == DbPoolSpec => []DbPoolSafe
<1> USE DatabaseAssumption
<1>1. PoolInit => DbPoolIInv
  <2> SUFFICES ASSUME PoolInit PROVE DbPoolIInv
    OBVIOUS
  <2>1. pooled \in [DOMAIN pooled -> SUBSET DOMAIN dbConns] /\ DOMAIN pooled = {}
    BY DEF PoolInit, EmptyDict
  <2>2. QED
    BY <2>1, EmptyFacts DEF PoolInit, DbPoolIInv
<1>2. DbPoolIInv /\ [PoolNext]_poolVars => DbPoolIInv'
  <2> SUFFICES ASSUME DbPoolIInv, [PoolNext]_poolVars PROVE DbPoolIInv'
    OBVIOUS
  <2>1. ASSUME NEW c \in DOMAIN inUse, ReturnDb(c) PROVE DbPoolIInv'
    <3>1. c \in DOMAIN dbConns /\ dbConns[c].info # "object"
      BY <2>1 DEF ReturnDb, PutBack, DbPoolIInv
    <3>2. dbConns[c].info \in {"named", "none"}
      BY <3>1, ConnFacts DEF DbConns
    <3>3. CASE dbConns[c].info = "named"
      BY <2>1, <3>3, PutBackKeeps DEF ReturnDb
    <3>4. CASE dbConns[c].info = "none"
      BY <2>1, <3>4, PutBackKeeps DEF ReturnDb
    <3>5. QED
      BY <3>2, <3>3, <3>4
  <2>2. ASSUME UNCHANGED poolVars PROVE DbPoolIInv'
    BY <2>2 DEF poolVars, DbPoolIInv
  <2>3. QED
    BY <2>1, <2>2, PooledKeeps, CreatedKeeps, FailsKeeps, RaisesKeeps DEF PoolNext
<1>3. DbPoolIInv => DbPoolSafe
  <2> SUFFICES ASSUME DbPoolIInv PROVE DbPoolSafe
    OBVIOUS
  <2>0. PoolParts
    BY PoolSplit
  <2>1. ASSUME NEW c \in DOMAIN inUse
        PROVE  dbConns[c].db = DbName[inUse[c]] \/ (dbConns[c].info = "none" /\ inUse[c] = Default)
    BY <2>0, <2>1 DEF PoolParts, UseInv
  <2>2. ASSUME NEW k \in Keys
        PROVE  /\ Known(k) \cap DOMAIN inUse = {}
               /\ \A l \in Keys \ {k} : Known(k) \cap Known(l) = {}
               /\ Cardinality(Known(k)) <= PoolSize
    BY <2>0, FS_EmptySet DEF PoolParts, KeyInv, Known
  <2>3. QED
    BY <2>1, <2>2 DEF DbPoolSafe
<1>4. QED
  BY <1>1, <1>2, <1>3, PTL DEF DbPoolSpec

-----------------------------------------------------------------------------
(* Database: migrations *)

MigSpec == MigInit /\ [][MigNext]_migVars

LEMMA StatementKeeps ==
    ASSUME MigIInv, MigrateStatement PROVE MigIInv'
<1> USE DatabaseAssumption
<1> DEFINE m == at[1]
           n == at[2]
           last == n = Statements
<1>1. at # <<0, 0>> /\ m \in Nat \ {0} /\ n \in 1..Statements /\ at = <<m, n>>
  BY DEF MigrateStatement, MigIInv
<1>2. /\ schema' = schema \cup {at}
      /\ succeeded' = IF last THEN succeeded \cup {m} ELSE succeeded
  BY DEF MigrateStatement
<1>3. schema' \subseteq Nat \X Nat
  BY <1>1, <1>2 DEF MigIInv
<1>4. \A x \in schema' : 1..(x[1] - 1) \subseteq succeeded'
  BY <1>1, <1>2 DEF MigIInv, MigrationsKept
<1>5. last => \A k \in 1..Statements : <<m, k>> \in schema'
  BY <1>1, <1>2 DEF MigIInv
<1>6. succeeded \ repeated \subseteq succeeded
  OBVIOUS
<1>7. CASE ~last
  <2>1. at' = <<m, n + 1>> /\ repeated' = repeated
    BY <1>1, <1>7 DEF MigrateStatement
  <2>2. /\ at' \in Nat \X Nat /\ at' # <<0, 0>> /\ at'[1] > 0 /\ at'[2] \in 1..Statements
        /\ 1..(at'[1] - 1) \subseteq succeeded'
    BY <1>1, <1>2, <1>7, <2>1 DEF MigIInv
  <2>3. \A k \in 1..(at'[2] - 1) : <<at'[1], k>> \in schema'
    BY <1>1, <1>2, <2>1 DEF MigIInv
  <2>4. at'[1] \in succeeded' => at'[1] \in repeated'
    BY <1>1, <1>2, <1>7, <2>1 DEF MigIInv
  <2>5. \A i \in succeeded' \ repeated' : \A k \in 1..Statements : <<i, k>> \in schema'
    BY <1>2, <1>7, <2>1 DEF MigIInv, MigrationsKept
  <2>6. QED
    BY <1>3, <1>4, <2>2, <2>3, <2>4, <2>5 DEF MigIInv, MigrationsKept
<1>8. CASE last
  <2>1. /\ at' = IF m = Len(Migrations) THEN <<0, 0>> ELSE <<m + 1, 1>>
        /\ repeated' = repeated \cup ({at'[1]} \cap succeeded)
    BY <1>1, <1>8 DEF MigrateStatement
  <2>2. \A i \in succeeded' \ repeated' : \A k \in 1..Statements : <<i, k>> \in schema'
    BY <1>2, <1>5, <1>8, <2>1 DEF MigIInv, MigrationsKept
  <2>3. CASE at' = <<0, 0>>
    BY <1>3, <1>4, <2>2, <2>3 DEF MigIInv, MigrationsKept
  <2>4. CASE at' = <<m + 1, 1>>
    <3>1. at' \in Nat \X Nat /\ at'[1] = m + 1 /\ at'[2] = 1 /\ at'[2] \in 1..Statements
      BY <1>1, <2>4
    <3>2. 1..(at'[1] - 1) \subseteq succeeded'
      <4>1. 1..(at'[1] - 1) = 1..(m - 1) \cup {m}
        BY <1>1, <3>1
      <4>2. QED
        BY <1>1, <1>2, <1>8, <4>1 DEF MigIInv
    <3>3. at'[1] \in succeeded' => at'[1] \in repeated'
      BY <1>1, <1>2, <1>8, <2>1, <3>1
    <3>4. \A k \in 1..(at'[2] - 1) : <<at'[1], k>> \in schema'
      BY <3>1
    <3>5. at'[1] > 0
      BY <1>1, <3>1
    <3>6. QED
      BY <1>3, <1>4, <2>2, <3>1, <3>2, <3>3, <3>4, <3>5 DEF MigIInv, MigrationsKept
  <2>5. QED
    BY <2>1, <2>3, <2>4
<1>9. QED
  BY <1>7, <1>8

LEMMA MigStepIInv == MigIInv /\ [MigNext]_migVars => MigIInv'
<1> SUFFICES ASSUME MigIInv, [MigNext]_migVars PROVE MigIInv'
  OBVIOUS
<1> USE DatabaseAssumption
<1>1. ASSUME MigrateBegin PROVE MigIInv'
  <2>1. /\ at' = <<1, 1>> /\ at'[1] = 1 /\ at'[2] = 1 /\ UNCHANGED <<schema, succeeded>>
        /\ repeated' = repeated \cup ({1} \cap succeeded)
    BY <1>1 DEF MigrateBegin
  <2>2. at' \in Nat \X Nat /\ 1 \in 1..Statements
    BY <2>1
  <2>3. MigrationsKept'
    BY <2>1 DEF MigIInv, MigrationsKept
  <2>4. 1..(at'[1] - 1) = {} /\ 1..(at'[2] - 1) = {}
    BY <2>1
  <2>5. QED
    BY <2>1, <2>2, <2>3, <2>4 DEF MigIInv
\* The effects of a migration are undone only while that migration is executed,
\* and then it was not applied before, or counts as repeated.
<1>2. ASSUME NEW undone, undone \subseteq {at[1]}, FailUndoing(undone) PROVE MigIInv'
  <2>1. /\ at # <<0, 0>> /\ at' = <<0, 0>> /\ UNCHANGED <<succeeded, repeated>>
        /\ schema' = {x \in schema : x[1] \notin undone}
    BY <1>2 DEF FailUndoing
  <2>2. schema' \subseteq schema
    BY <2>1
  <2>3. \A x \in schema' : 1..(x[1] - 1) \subseteq succeeded'
    BY <2>1, <2>2 DEF MigIInv, MigrationsKept
  <2>4. ASSUME NEW i \in succeeded \ repeated, NEW k \in 1..Statements
        PROVE  <<i, k>> \in schema'
    <3>1. i # at[1] /\ <<i, k>> \in schema
      BY <2>1 DEF MigIInv, MigrationsKept
    <3>2. <<i, k>>[1] \notin undone
      BY <1>2, <3>1
    <3>3. QED
      BY <2>1, <3>1, <3>2
  <2>5. MigrationsKept'
    BY <2>1, <2>3, <2>4 DEF MigrationsKept
  <2>6. QED
    BY <2>1, <2>2, <2>5 DEF MigIInv
<1>3. ASSUME MigrateFails PROVE MigIInv'
  BY <1>2, <1>3 DEF MigrateFails
<1>4. ASSUME MigrateKilled PROVE MigIInv'
  BY <1>2, <1>4 DEF MigrateKilled
<1>5. ASSUME UNCHANGED migVars PROVE MigIInv'
  BY <1>5 DEF migVars, MigIInv, MigrationsKept
<1>6. QED
  BY <1>1, <1>3, <1>4, <1>5, StatementKeeps DEF MigNext

\* What an applied migration made stays, whatever fails or is killed later.
THEOREM MigrationsStay == MigSpec => []MigrationsKept
<1>1. MigInit => MigIInv
  BY DEF MigInit, MigIInv, MigrationsKept
<1>2. MigIInv => MigrationsKept
  BY DEF MigIInv
<1>3. QED
  BY <1>1, <1>2, MigStepIInv, PTL DEF MigSpec

-----------------------------------------------------------------------------
(* Database: seeding *)

SeedSpec == SeedInit /\ [][SeedNext]_seedVars

SeederRecords == [at : {"users", "posts", "commit", "done", "killed"},
                  tries : SUBSET Emails, new : SUBSET Emails, authors : SUBSET Emails]

\* What SeedIInv says of one seeder, and of all of them unless one was killed.
SeederInv(s) ==
    /\ seeder[s].authors \subseteq users \cup seeder[s].new
    /\ seeder[s].at \in {"posts", "commit"} => seeder[s].tries = {}
    /\ writer = s => seeder[s].at \in {"users", "posts", "commit"}

Waiting(s) ==
    IF writer = s THEN seeder[s].new \cup seeder[s].tries = Emails
    ELSE /\ seeder[s].new = {}
         /\ writer = "nobody" => seeder[s].at = "users" /\ seeder[s].tries = Emails

FirstInv ==
    (\A s \in Seeders : seeder[s].at # "killed") =>
        users = Emails \/ (users = {} /\ \A s \in Seeders : Waiting(s))

LEMMA SeedParts ==
    SeedIInv <=> /\ users \subseteq Emails /\ posts \subseteq users
                 /\ writer \in Seeders \cup {"nobody"}
                 /\ seeder \in [Seeders -> SeederRecords]
                 /\ \A s \in Seeders : SeederInv(s)
                 /\ FirstInv
BY DEF SeedIInv, SeederRecords, SeederInv, FirstInv, Waiting

\* The step of a seeder changes that seeder alone.
LEMMA SeederStep ==
    ASSUME SeedIInv, NEW s \in Seeders, NEW new \in SeederRecords, Step(s, new)
    PROVE  /\ seeder' \in [Seeders -> SeederRecords] /\ seeder'[s] = new
           /\ \A t \in Seeders \ {s} : seeder'[t] = seeder[t]
BY DEF SeedIInv, SeederRecords, Step

\* What is left to show when s has made a step.
LEMMA SeederStepKeeps ==
    ASSUME SeedIInv, NEW s \in Seeders, NEW new \in SeederRecords, Step(s, new),
           users \subseteq users', users' \subseteq Emails, posts' \subseteq users',
           writer' \in {writer, s, "nobody"}, writer' = s \/ writer' = writer \/ writer = s,
           SeederInv(s)', FirstInv'
    PROVE  SeedIInv'
<1> USE DatabaseAssumption
<1>1. /\ seeder' \in [Seeders -> SeederRecords]
      /\ \A t \in Seeders \ {s} : seeder'[t] = seeder[t]
  BY SeederStep
<1>2. ASSUME NEW t \in Seeders \ {s} PROVE SeederInv(t)'
  BY <1>1, SeedParts DEF SeederInv
<1>3. writer' \in Seeders \cup {"nobody"}
  BY SeedParts
<1>4. \A t \in Seeders : SeederInv(t)'
  BY <1>2
<1>5. QED
  BY <1>1, <1>3, <1>4 DEF SeedIInv, SeederRecords, SeederInv, FirstInv, Waiting

LEMMA SeedStepIInv == SeedIInv /\ [SeedNext]_seedVars => SeedIInv'
<1> SUFFICES ASSUME SeedIInv, [SeedNext]_seedVars PROVE SeedIInv'
  OBVIOUS
<1> USE DatabaseAssumption
<1>0. ASSUME NEW s \in Seeders
      PROVE  /\ seeder[s] \in SeederRecords /\ SeederInv(s) /\ FirstInv
             /\ users \subseteq Emails /\ posts \subseteq users
  BY SeedParts
<1>1. ASSUME NEW s \in Seeders, NEW e \in Emails, InsertUser(s, e) PROVE SeedIInv'
  <2> DEFINE new == [seeder[s] EXCEPT !.tries = @ \ {e}, !.new = (@ \cup {e}) \ users]
  <2>1. /\ seeder[s].at = "users" /\ CanWrite(s) /\ Step(s, new)
        /\ writer' = s /\ UNCHANGED <<users, posts>>
    BY <1>1 DEF InsertUser
  <2>2. /\ new \in SeederRecords /\ new.at = "users"
        /\ new.tries = seeder[s].tries \ {e} /\ new.authors = seeder[s].authors
        /\ new.new = (seeder[s].new \cup {e}) \ users
    BY <1>0, <2>1 DEF SeederRecords
  <2> HIDE DEF new
  <2>3. seeder'[s] = new /\ \A t \in Seeders \ {s} : seeder'[t] = seeder[t]
    BY <2>1, <2>2, SeederStep
  <2>4. SeederInv(s)'
    BY <1>0, <2>1, <2>2, <2>3 DEF SeederInv
  <2>5. FirstInv'
    <3> SUFFICES ASSUME \A t \in Seeders : seeder'[t].at # "killed", users # Emails
                 PROVE  users = {} /\ \A t \in Seeders : Waiting(t)'
      BY <2>1 DEF FirstInv
    <3>1. users = {} /\ \A t \in Seeders : Waiting(t)
      BY <1>0, <2>1, <2>3 DEF FirstInv
    <3>2. Waiting(s)'
      BY <1>0, <2>1, <2>2, <2>3, <3>1 DEF Waiting, CanWrite
    <3>3. ASSUME NEW t \in Seeders \ {s} PROVE Waiting(t)'
      BY <2>1, <2>3, <3>1 DEF Waiting, CanWrite
    <3>4. QED
      BY <3>1, <3>2, <3>3
  <2>6. QED
    BY <1>0, <2>1, <2>2, <2>4, <2>5, SeederStepKeeps
<1>2. ASSUME NEW s \in Seeders, NEW e \in Emails, InsertLocked(s, e) PROVE SeedIInv'
  <2> DEFINE new == [seeder[s] EXCEPT !.tries = @ \ {e}]
  <2>1. /\ seeder[s].at = "users" /\ ~CanWrite(s) /\ Step(s, new)
        /\ UNCHANGED <<users, posts, writer>>
    BY <1>2 DEF InsertLocked
  <2>2. /\ new \in SeederRecords /\ new.at = "users"
        /\ new.new = seeder[s].new /\ new.authors = seeder[s].authors
    BY <1>0, <2>1 DEF SeederRecords
  <2> HIDE DEF new
  <2>3. seeder'[s] = new /\ \A t \in Seeders \ {s} : seeder'[t] = seeder[t]
    BY <2>1, <2>2, SeederStep
  <2>4. SeederInv(s)'
    BY <1>0, <2>1, <2>2, <2>3 DEF SeederInv
  <2>5. FirstInv'
    <3> SUFFICES ASSUME \A t \in Seeders : seeder'[t].at # "killed", users # Emails
                 PROVE  users = {} /\ \A t \in Seeders : Waiting(t)'
      BY <2>1 DEF FirstInv
    <3>1. users = {} /\ \A t \in Seeders : Waiting(t)
      BY <1>0, <2>1, <2>3 DEF FirstInv
    <3>2. QED
      BY <2>1, <2>2, <2>3, <3>1 DEF Waiting, CanWrite
  <2>6. QED
    BY <1>0, <2>1, <2>2, <2>4, <2>5, SeederStepKeeps
<1>3. ASSUME NEW s \in Seeders, SelectUsers(s) PROVE SeedIInv'
  <2> DEFINE new == [seeder[s] EXCEPT !.at = "posts", !.authors = users \cup seeder[s].new]
  <2>1. /\ seeder[s].at = "users" /\ seeder[s].tries = {} /\ Step(s, new)
        /\ UNCHANGED <<users, posts, writer>>
    BY <1>3 DEF SelectUsers
  <2>2. /\ new \in SeederRecords /\ new.at = "posts" /\ new.tries = {}
        /\ new.new = seeder[s].new /\ new.authors = users \cup seeder[s].new
    BY <1>0, <2>1 DEF SeederRecords
  <2> HIDE DEF new
  <2>3. seeder'[s] = new /\ \A t \in Seeders \ {s} : seeder'[t] = seeder[t]
    BY <2>1, <2>2, SeederStep
  <2>4. SeederInv(s)'
    BY <1>0, <2>1, <2>2, <2>3 DEF SeederInv
  <2>5. FirstInv'
    <3> SUFFICES ASSUME \A t \in Seeders : seeder'[t].at # "killed", users # Emails
                 PROVE  users = {} /\ \A t \in Seeders : Waiting(t)'
      BY <2>1 DEF FirstInv
    <3>1. users = {} /\ \A t \in Seeders : Waiting(t)
      BY <1>0, <2>1, <2>3 DEF FirstInv
    <3>2. writer # "nobody"
      BY <2>1, <3>1 DEF Waiting
    <3>3. QED
      BY <2>1, <2>2, <2>3, <3>1, <3>2 DEF Waiting
  <2>6. QED
    BY <1>0, <2>1, <2>2, <2>4, <2>5, SeederStepKeeps
<1>4. ASSUME NEW s \in Seeders, InsertPosts(s) PROVE SeedIInv'
  <2>1. PICK some \in SUBSET seeder[s].authors :
           /\ some # {} => CanWrite(s)
           /\ Step(s, [seeder[s] EXCEPT !.at = "commit", !.authors = some])
           /\ writer' = IF some # {} THEN s ELSE writer
    BY <1>4 DEF InsertPosts
  <2> DEFINE new == [seeder[s] EXCEPT !.at = "commit", !.authors = some]
  <2>2. seeder[s].at = "posts" /\ Step(s, new) /\ UNCHANGED <<users, posts>>
    BY <1>4, <2>1 DEF InsertPosts
  <2>3. /\ new \in SeederRecords /\ new.at = "commit" /\ new.tries = seeder[s].tries
        /\ new.new = seeder[s].new /\ new.authors = some
    BY <1>0, <2>2 DEF SeederRecords
  <2> HIDE DEF new
  <2>4. seeder'[s] = new /\ \A t \in Seeders \ {s} : seeder'[t] = seeder[t]
    BY <2>2, <2>3, SeederStep
  <2>5. SeederInv(s)'
    BY <1>0, <2>1, <2>2, <2>3, <2>4 DEF SeederInv
  <2>6. FirstInv'
    <3> SUFFICES ASSUME \A t \in Seeders : seeder'[t].at # "killed", users # Emails
                 PROVE  users = {} /\ \A t \in Seeders : Waiting(t)'
      BY <2>2 DEF FirstInv
    <3>1. users = {} /\ \A t \in Seeders : Waiting(t)
      BY <1>0, <2>2, <2>4 DEF FirstInv
    <3>2. writer # "nobody"
      BY <2>2, <3>1 DEF Waiting
    <3>3. writer' = writer
      BY <2>1, <3>2 DEF CanWrite
    <3>4. QED
      BY <2>3, <2>4, <3>1, <3>2, <3>3 DEF Waiting
  <2>7. QED
    BY <1>0, <2>1, <2>2, <2>3, <2>5, <2>6, SeederStepKeeps
<1>5. ASSUME NEW s \in Seeders, Commit(s) PROVE SeedIInv'
  <2> DEFINE new == [seeder[s] EXCEPT !.at = "done"]
  <2>1. /\ seeder[s].at = "commit" /\ Step(s, new) /\ users' = users \cup seeder[s].new
        /\ posts' = posts \cup seeder[s].authors
        /\ writer' = IF writer = s THEN "nobody" ELSE writer
    BY <1>5 DEF Commit, CommitOf
  <2>2. /\ new \in SeederRecords /\ new.at = "done"
        /\ new.new = seeder[s].new /\ new.authors = seeder[s].authors
    BY <1>0, <2>1 DEF SeederRecords
  <2> HIDE DEF new
  <2>3. seeder'[s] = new /\ \A t \in Seeders \ {s} : seeder'[t] = seeder[t]
    BY <2>1, <2>2, SeederStep
  <2>4. SeederInv(s)'
    BY <1>0, <2>1, <2>2, <2>3 DEF SeederInv
  <2>5. users' \subseteq Emails /\ posts' \subseteq users' /\ users \subseteq users'
    BY <1>0, <2>1 DEF SeederInv, SeederRecords
  <2>6. FirstInv'
    <3> SUFFICES ASSUME \A t \in Seeders : seeder'[t].at # "killed", users' # Emails
                 PROVE  users' = {} /\ \A t \in Seeders : Waiting(t)'
      BY DEF FirstInv
    <3>1. \A t \in Seeders : seeder[t].at # "killed"
      BY <2>1, <2>3
    <3>2. users # Emails
      BY <2>5
    <3>3. users = {} /\ \A t \in Seeders : Waiting(t)
      BY <1>0, <3>1, <3>2 DEF FirstInv
    <3>4. writer # "nobody"
      BY <2>1, <3>3 DEF Waiting
    <3>5. writer # s
      BY <1>0, <2>1, <3>3 DEF Waiting, SeederInv
    <3>6. QED
      BY <2>1, <2>2, <2>3, <3>3, <3>4, <3>5 DEF Waiting
  <2>7. QED
    BY <2>1, <2>2, <2>4, <2>5, <2>6, SeederStepKeeps
<1>6. ASSUME NEW s \in Seeders, SeederKilled(s) PROVE SeedIInv'
  <2> DEFINE new == [seeder[s] EXCEPT !.at = "killed"]
  <2>1. /\ Step(s, new) /\ UNCHANGED <<users, posts>>
        /\ writer' = IF writer = s THEN "nobody" ELSE writer
    BY <1>6 DEF SeederKilled
  <2>2. /\ new \in SeederRecords /\ new.at = "killed"
        /\ new.new = seeder[s].new /\ new.authors = seeder[s].authors
    BY <1>0, <2>1 DEF SeederRecords
  <2> HIDE DEF new
  <2>3. seeder'[s] = new
    BY <2>1, <2>2, SeederStep
  <2>4. SeederInv(s)'
    BY <1>0, <2>1, <2>2, <2>3 DEF SeederInv
  <2>5. FirstInv'
    BY <2>2, <2>3 DEF FirstInv
  <2>6. QED
    BY <1>0, <2>1, <2>2, <2>4, <2>5, SeederStepKeeps
<1>7. ASSUME UNCHANGED seedVars PROVE SeedIInv'
  BY <1>7 DEF seedVars, SeedIInv
<1>8. QED
  BY <1>1, <1>2, <1>3, <1>4, <1>5, <1>6, <1>7 DEF SeedNext, Seeded

\* Seeders that pass over what another one is writing leave nothing out.
THEOREM SeedingIsComplete == SeedSpec => []SeedComplete
<1> USE DatabaseAssumption
<1>1. SeedInit => SeedIInv
  BY DEF SeedInit, SeedIInv
<1>2. SeedIInv => SeedComplete
  <2> SUFFICES ASSUME SeedIInv, \A s \in Seeders : seeder[s].at = "done", users # Emails
               PROVE  FALSE
    BY DEF SeedComplete, SeedIInv
  <2>1. PICK s \in Seeders : TRUE
    OBVIOUS
  <2>2. writer = "nobody"
    BY SeedParts DEF SeederInv
  <2>3. Waiting(s)
    BY SeedParts DEF FirstInv
  <2>4. QED
    BY <2>1, <2>2, <2>3 DEF Waiting
<1>3. QED
  BY <1>1, <1>2, SeedStepIInv, PTL DEF SeedSpec

-----------------------------------------------------------------------------
(* CacheStore: values computed before a delete *)

cacheClockVars == <<now, cacheVars>>

CacheSpec == now = Epoch /\ CacheInit /\ [][CacheNext]_cacheClockVars

CallRecords == [key : CacheKeys, ttl : Ttls, val : Nat, raced : BOOLEAN]

\* A table whose entries are old ones, except one for k that is marked when
\* it is older than the last delete.
LEMMA StorePutKeeps ==
    ASSUME CacheIInv, NEW k \in CacheKeys, NEW v, NEW ttl, NEW raced,
           v < purged[k] => raced, UNCHANGED <<data, purged>>,
           store' = Put(store, k, Entry(v, ttl, raced))
    PROVE  \A j \in DOMAIN store' :
              j \in CacheKeys /\ (store'[j].val < purged'[j] => store'[j].raced)
<1>1. DOMAIN store' = DOMAIN store \cup {k}
  BY DEF Put
<1>2. store'[k].val = v /\ store'[k].raced = raced
  BY DEF Put, Entry
<1>3. \A j \in DOMAIN store \ {k} : store'[j] = store[j]
  BY DEF Put
<1>4. QED
  BY <1>1, <1>2, <1>3 DEF CacheIInv

\* A lookup or a drop leaves entries as they are.
LEMMA StoreDropKeeps ==
    ASSUME CacheIInv, NEW ks, UNCHANGED purged,
           store' \in {store, Drop(store, ks)}
    PROVE  \A j \in DOMAIN store' :
              j \in CacheKeys /\ (store'[j].val < purged'[j] => store'[j].raced)
BY DEF CacheIInv, Drop

\* The innermost call and what is left when it returns.
LEMMA TopFacts ==
    ASSUME CacheIInv, calls # <<>>
    PROVE  /\ Len(calls) \in DOMAIN calls /\ top \in CallRecords
           /\ top.val # 0 /\ top.val < purged[top.key] => top.raced
           /\ Pop \in Seq(CallRecords)
           /\ \A i \in DOMAIN Pop : i \in DOMAIN calls /\ Pop[i] = calls[i]
<1>1. calls \in Seq(CallRecords)
  BY DEF CacheIInv, CallRecords
<1>2. Len(calls) \in DOMAIN calls /\ top \in CallRecords
  BY <1>1, EmptySeq DEF top
<1>3. /\ Pop \in Seq(CallRecords)
      /\ \A i \in DOMAIN Pop : i \in DOMAIN calls /\ Pop[i] = calls[i]
  BY <1>1, <1>2 DEF Pop
<1>4. QED
  BY <1>2, <1>3 DEF CacheIInv, top

\* Delete and clear: what was read before is marked where it is still to be
\* stored, and is gone where it is stored already.
LEMMA PurgeKeeps ==
    ASSUME CacheIInv, NEW ks \in SUBSET CacheKeys, NEW left, Purge(ks, left),
           \A j \in DOMAIN left : j \in DOMAIN store \ ks /\ left[j] = store[j]
    PROVE  CacheIInv'
<1>1. /\ store' = left /\ UNCHANGED data
      /\ purged' = [k \in CacheKeys |-> IF k \in ks THEN data[k] ELSE purged[k]]
      /\ calls' = Overtaken(ks)
  BY DEF Purge
<1>2. calls \in Seq(CallRecords)
  BY DEF CacheIInv, CallRecords
<1>3. /\ calls' \in Seq(CallRecords) /\ DOMAIN calls' = DOMAIN calls
      /\ \A i \in DOMAIN calls :
            /\ calls'[i].key = calls[i].key /\ calls'[i].val = calls[i].val
            /\ calls[i].raced => calls'[i].raced
            /\ calls[i].key \in ks /\ calls[i].val # 0 => calls'[i].raced
  <2>1. /\ DOMAIN calls' = 1..Len(calls) /\ Len(calls) \in Nat
        /\ \A i \in DOMAIN calls : calls[i] \in CallRecords
    BY <1>1, <1>2 DEF Overtaken
  <2>2. ASSUME NEW i \in DOMAIN calls
        PROVE  /\ calls'[i] \in CallRecords
               /\ calls'[i].key = calls[i].key /\ calls'[i].val = calls[i].val
               /\ calls[i].raced => calls'[i].raced
               /\ calls[i].key \in ks /\ calls[i].val # 0 => calls'[i].raced
    BY <1>1, <2>1, <2>2 DEF Overtaken, CallRecords
  <2>3. calls' = [i \in 1..Len(calls) |-> calls'[i]]
    BY <1>1, <2>1 DEF Overtaken
  <2>4. QED
    BY <1>2, <2>1, <2>2, <2>3
<1>4. /\ purged' \in [CacheKeys -> Nat]
      /\ \A k \in CacheKeys : purged'[k] <= data[k]
      /\ \A k \in CacheKeys \ ks : purged'[k] = purged[k]
  BY <1>1 DEF CacheIInv
<1>5. \A i \in DOMAIN calls' :
         calls'[i].val # 0 /\ calls'[i].val < purged'[calls'[i].key] => calls'[i].raced
  <2> SUFFICES ASSUME NEW i \in DOMAIN calls,
                      calls'[i].val # 0, calls'[i].val < purged'[calls'[i].key]
               PROVE  calls'[i].raced
    BY <1>3
  <2>1. calls[i] \in CallRecords
    BY <1>2, <1>3
  <2>2. calls[i].key \in CacheKeys
    BY <2>1 DEF CallRecords
  <2>3. QED
    BY <1>3, <1>4, <2>2, ZenonT(60) DEF CacheIInv
<1>6. \A k \in DOMAIN store' :
         k \in CacheKeys /\ (store'[k].val < purged'[k] => store'[k].raced)
  BY <1>1, <1>4 DEF CacheIInv
<1>7. QED
  BY <1>1, <1>3, <1>4, <1>5, <1>6 DEF CacheIInv, CallRecords

LEMMA CacheStepIInv == CacheIInv /\ [CacheNext]_cacheClockVars => CacheIInv'
<1> SUFFICES ASSUME CacheIInv, [CacheNext]_cacheClockVars PROVE CacheIInv'
  OBVIOUS
<1> USE DEF CallRecords
<1> DEFINE Stored == \A k \in DOMAIN store' :
               k \in CacheKeys /\ (store'[k].val < purged'[k] => store'[k].raced)
<1>1. ASSUME UNCHANGED <<store, data, purged, calls>> PROVE CacheIInv'
  BY <1>1 DEF CacheIInv
<1>2. ASSUME Stored, UNCHANGED <<data, purged, calls>> PROVE CacheIInv'
  BY <1>2 DEF CacheIInv
<1>3. ASSUME Stored, UNCHANGED <<data, purged>>, calls # <<>>, calls' = Pop PROVE CacheIInv'
  <2>1. Pop \in Seq(CallRecords) /\ \A i \in DOMAIN Pop : i \in DOMAIN calls /\ Pop[i] = calls[i]
    BY <1>3, TopFacts
  <2>2. QED
    BY <1>3, <2>1 DEF CacheIInv
<1>4. ASSUME NEW k \in CacheKeys, Get(k) PROVE CacheIInv'
  BY <1>2, <1>4, StoreDropKeeps DEF Get, Looked
<1>5. ASSUME NEW k \in CacheKeys, NEW ttl \in Ttls, Set(k, ttl) PROVE CacheIInv'
  <2>1. ~(data[k] < purged[k])
    BY DEF CacheIInv
  <2>2. Stored
    BY <1>5, <2>1, StorePutKeeps DEF Set
  <2>3. QED
    BY <1>2, <1>5, <2>2 DEF Set
<1>6. ASSUME NEW k \in CacheKeys, Delete(k) PROVE CacheIInv'
  <2>1. \A j \in DOMAIN Drop(store, {k}) :
           j \in DOMAIN store \ {k} /\ Drop(store, {k})[j] = store[j]
    BY DEF Drop
  <2>2. QED
    BY <1>6, <2>1, PurgeKeeps DEF Delete
<1>7. ASSUME Clear PROVE CacheIInv'
  BY <1>7, PurgeKeeps, EmptyFacts DEF Clear
<1>8. ASSUME NEW k \in CacheKeys, Change(k) PROVE CacheIInv'
  <2>1. /\ data' \in [CacheKeys -> Nat \ {0}] /\ UNCHANGED <<store, purged, calls>>
        /\ \A j \in CacheKeys : data'[j] >= data[j]
    BY <1>8 DEF Change, CacheIInv
  <2>2. QED
    BY <2>1 DEF CacheIInv
<1>9. ASSUME NEW k \in CacheKeys, NEW ttl \in Ttls, RememberMiss(k, ttl) PROVE CacheIInv'
  <2> DEFINE c == [key |-> k, ttl |-> ttl, val |-> 0, raced |-> FALSE]
  <2>1. /\ calls' = Append(calls, c) /\ UNCHANGED <<data, purged>>
        /\ store' \in {store, Drop(store, {k})}
    BY <1>9 DEF RememberMiss, Looked
  <2>2. Stored
    BY <2>1, StoreDropKeeps
  <2>3. /\ calls' \in Seq(CallRecords)
        /\ \A i \in DOMAIN calls' :
              (i \in DOMAIN calls /\ calls'[i] = calls[i]) \/ calls'[i] = c
    BY <2>1 DEF CacheIInv
  <2>4. QED
    BY <2>1, <2>2, <2>3 DEF CacheIInv
<1>10. ASSUME CallbackReads PROVE CacheIInv'
  <2> DEFINE n == Len(calls)
  <2>1. n \in DOMAIN calls /\ calls[n] \in CallRecords /\ calls \in Seq(CallRecords)
    BY <1>10, TopFacts DEF CallbackReads, top, CacheIInv
  <2>2. calls' = [calls EXCEPT ![n].val = data[calls[n].key]] /\ UNCHANGED <<store, data, purged>>
    BY <1>10 DEF CallbackReads, top
  <2>3. data[calls[n].key] \in Nat /\ purged[calls[n].key] <= data[calls[n].key]
    BY <2>1 DEF CacheIInv
  <2> DEFINE c == [calls[n] EXCEPT !.val = data[calls[n].key]]
  <2>4. c \in CallRecords /\ c.key = calls[n].key /\ c.val = data[calls[n].key]
    BY <2>1, <2>3
  <2>5. calls' = [calls EXCEPT ![n] = c]
    BY <2>2
  <2> HIDE DEF c, CallRecords
  <2>6. /\ calls' \in Seq(CallRecords) /\ DOMAIN calls' = DOMAIN calls
        /\ \A i \in DOMAIN calls \ {n} : calls'[i] = calls[i]
        /\ calls'[n] = c
    BY <2>1, <2>4, <2>5
  <2>7. ~(c.val < purged[c.key])
    BY <2>1, <2>3, <2>4 DEF CacheIInv, CallRecords
  <2>8. \A i \in DOMAIN calls' :
           calls'[i].val # 0 /\ calls'[i].val < purged[calls'[i].key] => calls'[i].raced
    BY <2>2, <2>6, <2>7 DEF CacheIInv
  <2>9. QED
    BY <2>2, <2>6, <2>8 DEF CacheIInv, CallRecords
<1>11. ASSUME CallbackReturns PROVE CacheIInv'
  <2>1. top.key \in CacheKeys /\ (top.val < purged[top.key] => top.raced)
    BY <1>11, TopFacts DEF CallbackReturns
  <2>2. Stored
    BY <1>11, <2>1, StorePutKeeps DEF CallbackReturns
  <2>3. QED
    BY <1>3, <1>11, <2>2 DEF CallbackReturns
<1>12. ASSUME CallbackReturnsNone PROVE CacheIInv'
  <2>1. Stored
    BY <1>12, StoreDropKeeps DEF CallbackReturnsNone
  <2>2. QED
    BY <1>3, <1>12, <2>1 DEF CallbackReturnsNone
<1>13. ASSUME CallbackRaises PROVE CacheIInv'
  <2>1. Stored
    BY <1>13, StoreDropKeeps DEF CallbackRaises
  <2>2. QED
    BY <1>3, <1>13, <2>1 DEF CallbackRaises
<1>14. QED
  BY <1>1, <1>4, <1>5, <1>6, <1>7, <1>8, <1>9, <1>10, <1>11, <1>12, <1>13
     DEF CacheNext, RememberHit, cacheVars, cacheClockVars

\* A deleted value is not served again, unless a callback that had read the
\* data before the delete stores it after it.
THEOREM StaleOnlyWhenOvertaken == CacheSpec => []StaleOnlyByRace
<1>1. now = Epoch /\ CacheInit => CacheIInv
  <2> SUFFICES ASSUME CacheInit PROVE CacheIInv
    OBVIOUS
  <2>1. calls \in Seq(CallRecords) /\ DOMAIN calls = {}
    BY DEF CacheInit
  <2>2. QED
    BY <2>1, EmptyFacts DEF CacheInit, CacheIInv, CallRecords
<1>2. CacheIInv => StaleOnlyByRace
  BY DEF CacheIInv, StaleOnlyByRace, Live
<1>3. QED
  BY <1>1, <1>2, CacheStepIInv, PTL DEF CacheSpec

-----------------------------------------------------------------------------
(* Locale: headers and plurals *)

LocaleSpec == LocaleInit /\ [][LocaleNext]_localeVars

Letters == {"e", "n", "s", "f", "r"}

LEMMA TableFacts ==
    /\ Len(Locales) = 4 /\ DOMAIN Locales = 1..4
    /\ \A l \in 1..4 : Locales[l].lang \in Seq(Letters) /\ Len(Locales[l].lang) = 2
    /\ Locales[1].lang = <<"e", "n">> /\ Locales[2].lang = <<"e", "s">>
    /\ Locales[3].lang = <<"e", "s">> /\ Locales[4].lang = <<"f", "r">>
<1>1. /\ Len(Locales) = 4 /\ DOMAIN Locales = 1..4
      /\ Locales[1].lang = <<"e", "n">> /\ Locales[2].lang = <<"e", "s">>
      /\ Locales[3].lang = <<"e", "s">> /\ Locales[4].lang = <<"f", "r">>
  BY DEF Locales, Tag
<1>2. \A l \in 1..4 : l \in {1, 2, 3, 4}
  OBVIOUS
<1>3. /\ <<"e", "n">> \in Seq(Letters) /\ <<"e", "s">> \in Seq(Letters)
      /\ <<"f", "r">> \in Seq(Letters)
  BY DEF Letters
<1>4. Len(<<"e", "n">>) = 2 /\ Len(<<"e", "s">>) = 2 /\ Len(<<"f", "r">>) = 2
  OBVIOUS
<1>5. QED
  BY <1>1, <1>2, <1>3, <1>4

\* The first of a set of places in the table.
LEMMA FirstFacts ==
    ASSUME NEW ls \in SUBSET (1..4), ls # {}
    PROVE  (CHOOSE l \in ls : \A k \in ls : l <= k) \in ls
<1>1. \E l \in ls : \A k \in ls : l <= k
  <2>1. CASE 1 \in ls
    BY <2>1
  <2>2. CASE 1 \notin ls /\ 2 \in ls
    BY <2>2
  <2>3. CASE 1 \notin ls /\ 2 \notin ls /\ 3 \in ls
    BY <2>3
  <2>4. CASE 1 \notin ls /\ 2 \notin ls /\ 3 \notin ls
    <3>1. \A k \in 1..4 : k \in {1, 2, 3, 4}
      OBVIOUS
    <3>2. \A k \in ls : k = 4
      BY <2>4, <3>1
    <3>3. PICK k \in ls : k = 4
      BY <3>2
    <3>4. QED
      BY <3>2, <3>3
  <2>5. QED
    BY <2>1, <2>2, <2>3, <2>4
<1>2. QED
  BY <1>1

\* The plural rules agree with CLDR for every number but those of Deviates.
LEMMA RulesFollowCLDR ==
    ASSUME NEW n \in Nat, NEW rule \in Rules
    PROVE  IF Deviates(n, rule)
           THEN PluralForm(n, rule) = "other" /\ CLDR(n, rule) # "other"
           ELSE PluralForm(n, rule) = CLDR(n, rule)
<1> DEFINE d == n % 10
           r == n % 100
<1>1. d \in 0..9 /\ r \in 0..99 /\ r % 10 = d
  OBVIOUS
<1>2. CASE rule \in {"en", "es", "de"}
  BY <1>2 DEF PluralForm, CLDR, OneOther, Deviates
<1>3. CASE rule = "fr"
  BY <1>3 DEF PluralForm, CLDR, FrenchPlural, Deviates
<1>4. CASE rule = "zh"
  BY <1>4 DEF PluralForm, CLDR, Deviates
<1>5. CASE rule = "ar"
  <2>1. /\ n \in 0..99 => r = n
        /\ n \in 100..102 => r = n - 100
    OBVIOUS
  <2>2. QED
    BY <1>1, <1>5, <2>1 DEF PluralForm, CLDR, ArabicPlural, Deviates
<1>6. CASE rule = "ru"
  BY <1>1, <1>6 DEF PluralForm, CLDR, RussianPlural, Deviates
<1>7. CASE rule = "pl"
  BY <1>1, <1>7 DEF PluralForm, CLDR, PolishPlural, PolishIf, Deviates
<1>8. QED
  BY <1>2, <1>3, <1>4, <1>5, <1>6, <1>7 DEF Rules

\* A header leads into the table, and to its own language when that is there.
LEMMA HeadersLead == HeaderHonoured
<1> SUFFICES ASSUME NEW tag \in Tags
             PROVE  LET l == ParseAcceptLanguage(tag) IN
                    /\ l \in DOMAIN Locales
                    /\ (\E k \in DOMAIN Locales : Locales[k].lang = tag.lang) =>
                          Locales[l].lang = tag.lang
  BY DEF HeaderHonoured
<1> DEFINE l == ParseAcceptLanguage(tag)
           exact == {k \in DOMAIN Locales : Locales[k] = tag}
           similar == {k \in DOMAIN Locales : IsPrefix(tag.lang, Locales[k].lang)}
           First(ls) == CHOOSE i \in ls : \A k \in ls : i <= k
<1>1. l = IF exact # {} THEN First(exact) ELSE IF similar # {} THEN First(similar) ELSE 1
  BY DEF ParseAcceptLanguage
<1>2. exact \subseteq 1..4 /\ similar \subseteq 1..4
  BY TableFacts
<1>3. CASE exact # {}
  <2>1. l \in exact
    BY <1>1, <1>2, <1>3, FirstFacts
  <2>2. QED
    BY <2>1
<1>4. CASE exact = {} /\ similar # {}
  <2>1. l \in similar
    BY <1>1, <1>2, <1>4, FirstFacts
  <2>2. ASSUME NEW k \in DOMAIN Locales, Locales[k].lang = tag.lang
        PROVE  Locales[l].lang = tag.lang
    <3> DEFINE a == tag.lang
               b == Locales[l].lang
    <3>1. a \in Seq(Letters) /\ b \in Seq(Letters) /\ Len(a) = 2 /\ Len(b) = 2
      BY <2>1, <2>2, TableFacts
    <3>2. SubSeq(a, 1, 2) = SubSeq(b, 1, 2)
      BY <2>1, <3>1 DEF IsPrefix
    <3>3. SubSeq(a, 1, 2) = a /\ SubSeq(b, 1, 2) = b
      BY <3>1
    <3>4. QED
      BY <3>2, <3>3
  <2>3. QED
    BY <2>1, <2>2
\* A language of the table would be a prefix of itself.
<1>5. CASE exact = {} /\ similar = {}
  <2>1. l = 1 /\ l \in DOMAIN Locales
    BY <1>1, <1>5, TableFacts
  <2>2. ASSUME NEW k \in DOMAIN Locales, Locales[k].lang = tag.lang PROVE FALSE
    <3>1. tag.lang \in Seq(Letters) /\ Len(tag.lang) = 2
      BY <2>2, TableFacts
    <3>2. IsPrefix(tag.lang, Locales[k].lang)
      BY <2>2, <3>1 DEF IsPrefix
    <3>3. QED
      BY <1>5, <3>2
  <2>3. QED
    BY <2>1, <2>2
<1>6. QED
  BY <1>3, <1>4, <1>5

LocaleIInv == locale \in 0..4 /\ count \in Nat

\* The locale stays in the table, a header is honoured, and a plural is that of CLDR
\* for every number but those of Deviates.
THEOREM LocalesAreSound == LocaleSpec => []LocaleSound
<1>1. LocaleInit => LocaleIInv
  BY DEF LocaleInit, LocaleIInv
<1>2. LocaleIInv /\ [LocaleNext]_localeVars => LocaleIInv'
  <2> SUFFICES ASSUME LocaleIInv, [LocaleNext]_localeVars PROVE LocaleIInv'
    OBVIOUS
  <2>1. ASSUME NEW tag \in Tags, SetFromHeader(tag) PROVE LocaleIInv'
    BY <2>1, HeadersLead, TableFacts DEF SetFromHeader, HeaderHonoured, LocaleIInv
  <2>2. ASSUME NEW l \in 0..Len(Locales), SetFromCookie(l) PROVE LocaleIInv'
    BY <2>2, TableFacts DEF SetFromCookie, LocaleIInv
  <2>3. QED
    BY <2>1, <2>2 DEF LocaleNext, CountUp, LocaleIInv, localeVars
<1>3. LocaleIInv => LocaleSound
  <2> SUFFICES ASSUME LocaleIInv PROVE LocaleSound
    OBVIOUS
  <2>1. \A rule \in Rules : IF Deviates(count, rule)
                             THEN PluralForm(count, rule) = "other" /\ CLDR(count, rule) # "other"
                             ELSE PluralForm(count, rule) = CLDR(count, rule)
    BY RulesFollowCLDR DEF LocaleIInv
\* The languages of the table share their rule with English, but for French.
  <2>2. PluralForm(count, "en") = CLDR(count, "en") /\ CLDR(count, "en") = CLDR(count, "es")
    BY DEF PluralForm, CLDR, OneOther
  <2>3. PluralForm(count, "en") = CLDR(count, "fr") <=> count # 0
    BY DEF PluralForm, CLDR, OneOther, LocaleIInv
  <2>4. CurrentLocale \in {1, 2, 3, 4}
    BY DEF CurrentLocale, LocaleIInv
  <2>5. PluralsExact
    BY <2>1, <2>2, <2>3, <2>4 DEF PluralsExact, RuleOf
  <2>6. QED
    BY <2>5, HeadersLead, TableFacts DEF LocaleSound, LocaleIInv
<1>4. QED
  BY <1>1, <1>2, <1>3, PTL DEF LocaleSpec

-----------------------------------------------------------------------------
(* Framing: what a pooled connection carries *)

FrameSpec == FrameInit /\ [][FrameNext]_frameVars

\* How a frame falls apart into header and body.
LEMMA FrameFacts ==
    ASSUME NEW r
    PROVE  /\ Len(FrameOf(r)) = 4 /\ Len(BodyOf(r)) = 2
           /\ IsHeader(FrameOf(r)) /\ FrameOf(r) # <<>> /\ BodyOf(r) # <<>>
           /\ BodyOf(r)[1] = <<"b", r>> /\ BodyOf(r)[2] = <<"b", r>> /\ BodyOf(r)[1][2] = r
           /\ Rest(FrameOf(r), 2) = BodyOf(r) /\ Rest(BodyOf(r), 2) = <<>>
           /\ <<>> \o FrameOf(r) = FrameOf(r)
<1> DEFINE h == <<"h", r>>
           b == <<"b", r>>
<1>1. h[1] = "h" /\ b[2] = r
  OBVIOUS
<1> HIDE DEF h, b
<1>2. /\ FrameOf(r) = <<h, h, b, b>> /\ BodyOf(r) = <<b, b>>
  BY DEF FrameOf, BodyOf, h, b
<1>3. /\ <<h, h, b, b>> \in Seq({h, b}) /\ Len(<<h, h, b, b>>) = 4
      /\ <<b, b>> \in Seq({h, b}) /\ Len(<<b, b>>) = 2
  OBVIOUS
<1>4. SubSeq(<<h, h, b, b>>, 3, 4) = <<b, b>>
  <2> DEFINE s == SubSeq(<<h, h, b, b>>, 3, 4)
  <2>1. s \in Seq({h, b}) /\ Len(s) = 2 /\ s[1] = b /\ s[2] = b
    BY <1>3
  <2>2. /\ <<b, b>> \in Seq({h, b}) /\ Len(<<b, b>>) = 2
        /\ <<b, b>>[1] = b /\ <<b, b>>[2] = b
    BY <1>3
  <2> DEFINE bb == <<b, b>>
  <2> HIDE DEF s, bb
  <2>3. \A i \in 1..Len(s) : s[i] = bb[i]
    <3>1. \A i \in 1..2 : i = 1 \/ i = 2
      OBVIOUS
    <3>2. QED
      BY <2>1, <2>2, <3>1 DEF bb
  <2>4. s = bb
    BY <2>1, <2>2, <2>3, SeqEqual DEF bb
  <2>5. QED
    BY <2>4 DEF s, bb
<1>5. SubSeq(<<b, b>>, 3, 2) = <<>>
  BY <1>3
<1>6. <<>> \o <<h, h, b, b>> = <<h, h, b, b>>
  BY <1>3
<1>7. QED
  BY <1>1, <1>2, <1>3, <1>4, <1>5, <1>6 DEF IsHeader, Rest, b

\* Where an exchange is when its thread, or the server, can read.
LEMMA PhaseFacts ==
    ASSUME NEW c \in Links, NEW phase, NEW r, Exchange(c) \in OnItsWay(phase, r)
    PROVE  /\ phase \in {"header", "body"} /\ server[c] \in {"header", "body"}
           /\ toClient[c] # <<>> =>
                 /\ toServer[c] = <<>> /\ server[c] = "header"
                 /\ toClient[c] = IF phase = "header" THEN FrameOf(r) ELSE BodyOf(r)
           /\ toServer[c] # <<>> =>
                 /\ phase = "header" /\ toClient[c] = <<>>
                 /\ toServer[c] = IF server[c] = "header" THEN FrameOf(r) ELSE BodyOf(r)
<1>1. CASE phase = "header"
  BY <1>1, FrameFacts DEF Exchange, OnItsWay
<1>2. CASE phase = "body"
  BY <1>2, FrameFacts DEF Exchange, OnItsWay
<1>3. QED
  BY <1>1, <1>2 DEF OnItsWay

\* What FrIInv says of a thread that uses a connection.
CallerInv(t) ==
    caller[t].at # "idle" =>
        /\ caller[t].link \notin idle
        /\ \A u \in Callers \ {t} :
              caller[u].at # "idle" => caller[u].link # caller[t].link
        /\ caller[t].link \notin failed =>
              Exchange(caller[t].link) \in OnItsWay(caller[t].at, caller[t].req)

CallerRecords == [at : {"idle", "header", "body", "junk"}, link : Links, req : Nat]

LEMMA SendKeeps ==
    ASSUME FrIInv, NEW t \in Callers, NEW c \in Links, SendRequest(t, c) PROVE FrIInv'
<1>r. PICK r : r = sentRequests + 1
  OBVIOUS
<1> DEFINE call == [at |-> "header", link |-> c, req |-> r]
<1>1. /\ caller[t].at = "idle" /\ c \in idle /\ idle' = idle \ {c}
      /\ caller' = [caller EXCEPT ![t] = call] /\ sentRequests' = r
      /\ toServer' = [toServer EXCEPT ![c] = @ \o FrameOf(r)]
      /\ result' = None /\ UNCHANGED <<toClient, server, failed>>
  BY <1>r DEF SendRequest
<1>2. r \in Nat /\ call \in CallerRecords
  BY <1>r DEF FrIInv, FrameTypeOK, CallerRecords
<1>3. /\ caller' \in [Callers -> CallerRecords]
      /\ caller'[t] = call /\ \A u \in Callers \ {t} : caller'[u] = caller[u]
      /\ DOMAIN toServer' = Links /\ toServer'[c] = toServer[c] \o FrameOf(r)
      /\ \A d \in Links \ {c} : toServer'[d] = toServer[d]
  BY <1>1, <1>2 DEF FrIInv, FrameTypeOK, CallerRecords
<1>4. FrameTypeOK'
  BY <1>1, <1>2, <1>3 DEF FrIInv, FrameTypeOK, CallerRecords
<1>5. c \notin failed => Exchange(c)' \in OnItsWay("header", r)
  BY <1>1, <1>3, FrameFacts, ZenonT(60) DEF FrIInv, OwnReply, Exchange, OnItsWay
<1>6. CallerInv(t)'
  BY <1>1, <1>3, <1>5 DEF FrIInv, ExchangeInv, CallerInv
<1>7. ASSUME NEW u \in Callers \ {t}, caller[u].at # "idle" PROVE CallerInv(u)'
  <2>1. caller[u].link # c /\ caller[u].link \in Links /\ CallerInv(u)
    BY <1>1, <1>7 DEF FrIInv, ExchangeInv, FrameTypeOK, CallerInv
  <2>2. Exchange(caller[u].link)' = Exchange(caller[u].link)
    BY <1>1, <1>3, <2>1 DEF Exchange
  <2>3. QED
    BY <1>1, <1>3, <1>7, <2>1, <2>2 DEF CallerInv
<1>8. \A u \in Callers : caller'[u].at # "idle" => CallerInv(u)'
  BY <1>3, <1>6, <1>7
<1>9. ExchangeInv'
  BY <1>8 DEF ExchangeInv, CallerInv
<1>10. OwnReply'
  BY <1>1, <1>3 DEF FrIInv, FrameTypeOK, OwnReply, None
<1>11. QED
  BY <1>4, <1>9, <1>10 DEF FrIInv

LEMMA BreakKeeps ==
    ASSUME FrIInv, NEW t \in Callers, NEW c \in Links, NEW n, SendBreaks(t, c, n)
    PROVE  FrIInv'
<1>1. /\ c \in idle /\ sentRequests' = sentRequests + 1 /\ result' = None
      /\ toServer' = [toServer EXCEPT ![c] = @ \o SubSeq(FrameOf(sentRequests + 1), 1, n)]
      /\ failed' = failed \cup {c} /\ UNCHANGED <<toClient, server, idle, caller>>
  BY DEF SendBreaks
<1>2. /\ DOMAIN toServer' = Links
      /\ \A d \in Links \ {c} : toServer'[d] = toServer[d]
  BY <1>1 DEF FrIInv, FrameTypeOK
<1>3. FrameTypeOK'
  BY <1>1, <1>2 DEF FrIInv, FrameTypeOK
<1>4. ASSUME NEW u \in Callers, caller[u].at # "idle" PROVE CallerInv(u)'
  <2>1. caller[u].link # c /\ caller[u].link \in Links /\ CallerInv(u)
    BY <1>1, <1>4 DEF FrIInv, ExchangeInv, FrameTypeOK, CallerInv
  <2>2. Exchange(caller[u].link)' = Exchange(caller[u].link)
    BY <1>1, <1>2, <2>1 DEF Exchange
  <2>3. QED
    BY <1>1, <1>4, <2>1, <2>2 DEF CallerInv
<1>5. ExchangeInv'
  BY <1>1, <1>4 DEF ExchangeInv, CallerInv
<1>6. OwnReply'
  BY <1>1, <1>2 DEF FrIInv, FrameTypeOK, OwnReply, None
<1>7. QED
  BY <1>3, <1>5, <1>6 DEF FrIInv

\* A call ends: the connection is quiet, or known to have failed; and so it
\* is when the answer is not the thread's own.
LEMMA EndsKeeps ==
    ASSUME FrIInv, NEW t \in Callers, caller[t].at # "idle",
           NEW answer, NEW fails \in BOOLEAN, Ends(t, answer, fails),
           UNCHANGED <<toServer, server, sentRequests>>, DOMAIN toClient' = Links,
           \A d \in Links \ {caller[t].link} : toClient'[d] = toClient[d],
           ~fails /\ caller[t].link \notin failed =>
              /\ toServer[caller[t].link] = <<>> /\ server[caller[t].link] = "header"
              /\ toClient'[caller[t].link] = <<>>,
           answer.of # answer.req =>
              answer.req = caller[t].req /\ (fails \/ caller[t].link \in failed)
    PROVE  FrIInv'
<1>c. PICK c : c = caller[t].link
  OBVIOUS
<1>1. /\ caller' = [caller EXCEPT ![t].at = "idle"] /\ idle' = idle \cup {c}
      /\ result' = answer /\ failed' = IF fails THEN failed \cup {c} ELSE failed
  BY <1>c DEF Ends
<1>2. caller[t] \in CallerRecords /\ c \in Links
  BY <1>c DEF FrIInv, FrameTypeOK, CallerRecords
<1>3. /\ caller' \in [Callers -> CallerRecords]
      /\ caller'[t].at = "idle" /\ caller'[t].link = c /\ caller'[t].req = caller[t].req
      /\ \A u \in Callers \ {t} : caller'[u] = caller[u]
  BY <1>1, <1>2, <1>c DEF FrIInv, FrameTypeOK, CallerRecords
<1>4. FrameTypeOK'
  BY <1>1, <1>2, <1>3 DEF FrIInv, FrameTypeOK, CallerRecords
<1>5. ASSUME NEW u \in Callers \ {t}, caller[u].at # "idle" PROVE CallerInv(u)'
  <2>1. caller[u].link # c /\ caller[u].link \in Links /\ CallerInv(u)
    BY <1>c, <1>5 DEF FrIInv, ExchangeInv, FrameTypeOK, CallerInv
  <2>2. Exchange(caller[u].link)' = Exchange(caller[u].link)
    BY <1>3, <1>c, <2>1 DEF Exchange
  <2>3. QED
    BY <1>1, <1>3, <1>5, <2>1, <2>2 DEF CallerInv
<1>6. \A u \in Callers : caller'[u].at # "idle" => CallerInv(u)'
  BY <1>3, <1>5
<1>7. ExchangeInv'
  BY <1>6 DEF ExchangeInv, CallerInv
<1>8. \A d \in idle' \ failed' :
         toServer'[d] = <<>> /\ toClient'[d] = <<>> /\ server'[d] = "header"
  <2>1. c \in failed' \/ (toServer'[c] = <<>> /\ toClient'[c] = <<>> /\ server'[c] = "header")
    BY <1>1, <1>c
  <2>2. \A d \in idle \ failed : d # c =>
           toServer'[d] = <<>> /\ toClient'[d] = <<>> /\ server'[d] = "header"
    BY <1>c DEF FrIInv, FrameTypeOK, OwnReply
  <2>3. QED
    BY <1>1, <2>1, <2>2
<1>9. result'.of # result'.req =>
         \E u \in Callers : caller'[u].req = result'.req /\ caller'[u].link \in failed'
  BY <1>1, <1>3, <1>c
<1>10. QED
  BY <1>4, <1>7, <1>8, <1>9 DEF FrIInv, OwnReply

LEMMA HeaderKeeps ==
    ASSUME FrIInv, NEW t \in Callers, NEW n \in 1..2, RecvHeader(t, n) PROVE FrIInv'
<1>c. PICK c : c = caller[t].link
  OBVIOUS
<1>r. PICK r : r = caller[t].req
  OBVIOUS
<1>1. /\ caller[t].at = "header" /\ n \in 1..Len(toClient[c])
      /\ toClient' = [toClient EXCEPT ![c] = Rest(toClient[c], n)]
      /\ UNCHANGED <<toServer, server, sentRequests>>
  BY <1>c DEF RecvHeader
<1>2. /\ caller[t] \in CallerRecords /\ c \in Links /\ DOMAIN toClient' = Links
      /\ toClient'[c] = Rest(toClient[c], n)
      /\ \A d \in Links \ {c} : toClient'[d] = toClient[d]
  BY <1>1, <1>c DEF FrIInv, FrameTypeOK, CallerRecords
<1>3. CASE n < 2
  <2>1. Ends(t, None, TRUE)
    BY <1>3 DEF RecvHeader
  <2>2. None.of = None.req
    BY DEF None
  <2>3. QED
    BY <1>1, <1>2, <1>c, <2>1, <2>2, EndsKeeps
<1>4. CASE n = 2
  <2>1. PICK where \in {"body", "junk"} :
           /\ where = IF IsHeader(toClient[c]) THEN "body" ELSE "junk"
           /\ caller' = [caller EXCEPT ![t].at = where]
    BY <1>4, <1>c DEF RecvHeader
  <2>2. result' = None /\ UNCHANGED <<idle, failed>>
    BY <1>4 DEF RecvHeader
  <2>3. /\ caller' \in [Callers -> CallerRecords]
        /\ caller'[t].at = where /\ caller'[t].link = c /\ caller'[t].req = r
        /\ \A u \in Callers \ {t} : caller'[u] = caller[u]
    BY <1>2, <1>c, <1>r, <2>1 DEF FrIInv, FrameTypeOK, CallerRecords
  <2>4. FrameTypeOK'
    BY <1>1, <1>2, <2>2, <2>3 DEF FrIInv, FrameTypeOK, CallerRecords
  <2>5. c \notin failed => Exchange(c)' \in OnItsWay(where, r)
    <3> SUFFICES ASSUME c \notin failed PROVE Exchange(c)' \in OnItsWay(where, r)
      OBVIOUS
    <3>1. Exchange(c) \in OnItsWay("header", r)
      BY <1>1, <1>c, <1>r DEF FrIInv, ExchangeInv
    <3>2. toClient[c] # <<>>
      BY <1>1
    <3>3. toClient[c] = FrameOf(r) /\ toServer[c] = <<>> /\ server[c] = "header"
      BY <1>2, <3>1, <3>2, PhaseFacts
    <3>4. where = "body" /\ toClient'[c] = BodyOf(r)
      BY <1>2, <1>4, <2>1, <3>3, FrameFacts
    <3>5. QED
      BY <1>1, <3>3, <3>4 DEF Exchange, OnItsWay
  <2>6. CallerInv(t)'
    BY <1>1, <1>c, <2>2, <2>3, <2>5 DEF FrIInv, ExchangeInv, CallerInv
  <2>7. ASSUME NEW u \in Callers \ {t}, caller[u].at # "idle" PROVE CallerInv(u)'
    <3>1. caller[u].link # c /\ caller[u].link \in Links /\ CallerInv(u)
      BY <1>1, <1>c, <2>7 DEF FrIInv, ExchangeInv, FrameTypeOK, CallerInv
    <3>2. Exchange(caller[u].link)' = Exchange(caller[u].link)
      BY <1>1, <1>2, <2>3, <3>1 DEF Exchange
    <3>3. QED
      BY <1>c, <2>2, <2>3, <2>7, <3>1, <3>2 DEF CallerInv
  <2>8. \A u \in Callers : caller'[u].at # "idle" => CallerInv(u)'
    BY <2>3, <2>6, <2>7
  <2>9. ExchangeInv'
    BY <2>8 DEF ExchangeInv, CallerInv
  <2>10. c \notin idle
    BY <1>1, <1>c DEF FrIInv, ExchangeInv
  <2>11. OwnReply'
    BY <1>1, <1>2, <2>2, <2>10 DEF FrIInv, FrameTypeOK, OwnReply, None
  <2>12. QED
    BY <2>4, <2>9, <2>11 DEF FrIInv
<1>5. QED
  BY <1>3, <1>4

LEMMA BodyKeeps ==
    ASSUME FrIInv, NEW t \in Callers, NEW n \in 1..2, RecvBody(t, n) PROVE FrIInv'
<1> DEFINE c == caller[t].link
           r == caller[t].req
<1>1. /\ caller[t].at = "body" /\ n \in 1..Len(toClient[c])
      /\ toClient' = [toClient EXCEPT ![c] = Rest(toClient[c], n)]
      /\ UNCHANGED <<toServer, server, sentRequests>>
  BY DEF RecvBody, TakeBody
<1>2. /\ c \in Links /\ DOMAIN toClient' = Links
      /\ toClient'[c] = Rest(toClient[c], n)
      /\ \A d \in Links \ {c} : toClient'[d] = toClient[d]
  BY <1>1 DEF FrIInv, FrameTypeOK
<1>3. CASE n < 2
  <2>1. Ends(t, None, TRUE)
    BY <1>3 DEF RecvBody, TakeBody
  <2>2. None.of = None.req
    BY DEF None
  <2>3. QED
    BY <1>1, <1>2, <1>3, <2>1, <2>2, EndsKeeps
<1>4. CASE n = 2
  <2>1. ASSUME c \notin failed
        PROVE  /\ toClient[c] = BodyOf(r) /\ toServer[c] = <<>> /\ server[c] = "header"
               /\ toClient'[c] = <<>> /\ toClient[c][1][2] = r
    <3>1. Exchange(c) \in OnItsWay("body", r)
      BY <1>1, <2>1 DEF FrIInv, ExchangeInv
    <3>2. toClient[c] # <<>>
      BY <1>1
    <3>3. toClient[c] = BodyOf(r) /\ toServer[c] = <<>> /\ server[c] = "header"
      BY <1>2, <3>1, <3>2, PhaseFacts
    <3>4. QED
      BY <1>2, <1>4, <3>3, FrameFacts
  <2> DEFINE answer == [req |-> r, of |-> toClient[c][1][2]]
  <2>2. Ends(t, answer, FALSE)
    BY <1>4, ~(2 < 2) DEF RecvBody, TakeBody
  <2>3. answer.req = r /\ (answer.of # answer.req => c \in failed)
    BY <2>1
  <2>4. c \notin failed =>
           toServer[c] = <<>> /\ server[c] = "header" /\ toClient'[c] = <<>>
    BY <2>1
  <2> HIDE DEF answer
  <2>5. QED
    BY <1>1, <1>2, <2>2, <2>3, <2>4, EndsKeeps
<1>5. QED
  BY <1>3, <1>4

LEMMA JunkKeeps ==
    ASSUME FrIInv, NEW t \in Callers, NEW n, RecvJunk(t, n) PROVE FrIInv'
<1> DEFINE c == caller[t].link
           answer == [req |-> caller[t].req, of |-> Junk]
<1>1. /\ caller[t].at = "junk" /\ Ends(t, answer, TRUE)
      /\ toClient' = [toClient EXCEPT ![c] = Rest(@, n)]
      /\ UNCHANGED <<toServer, server, sentRequests>>
  BY DEF RecvJunk
<1>2. /\ DOMAIN toClient' = Links
      /\ \A d \in Links \ {c} : toClient'[d] = toClient[d]
  BY <1>1 DEF FrIInv, FrameTypeOK
<1>3. answer.req = caller[t].req
  OBVIOUS
<1> HIDE DEF answer
<1>4. QED
  BY <1>1, <1>2, <1>3, EndsKeeps

LEMMA RecvFailsKeeps ==
    ASSUME FrIInv, NEW t \in Callers, RecvFails(t) PROVE FrIInv'
<1>1. None.of = None.req
  BY DEF None
<1>2. /\ caller[t].at # "idle" /\ Ends(t, None, TRUE)
      /\ UNCHANGED <<toServer, toClient, server, sentRequests>>
  BY DEF RecvFails
<1>3. DOMAIN toClient' = Links /\ \A d \in Links : toClient'[d] = toClient[d]
  BY <1>2 DEF FrIInv, FrameTypeOK
<1>4. QED
  BY <1>1, <1>2, <1>3, EndsKeeps

\* The server reads or answers on a connection that carries something: it is
\* with a thread, and stays with it.
LEMMA ServeKeeps ==
    ASSUME FrIInv, NEW c \in Links, UNCHANGED <<idle, caller, sentRequests, result, failed>>,
           DOMAIN toServer' = Links, DOMAIN toClient' = Links, DOMAIN server' = Links,
           \A d \in Links \ {c} : Exchange(d)' = Exchange(d),
           c \in idle => c \in failed,
           \A r : c \notin failed /\ Exchange(c) \in OnItsWay("header", r) =>
              Exchange(c)' \in OnItsWay("header", r),
           \A r : c \notin failed => Exchange(c) \notin OnItsWay("body", r)
    PROVE  FrIInv'
<1>1. FrameTypeOK'
  BY DEF FrIInv, FrameTypeOK
<1>2. ASSUME NEW t \in Callers, caller[t].at # "idle" PROVE CallerInv(t)'
  <2>1. caller[t].link \in Links /\ CallerInv(t)
    BY <1>2 DEF FrIInv, ExchangeInv, FrameTypeOK, CallerInv
  <2>2. caller[t].link \notin failed =>
           Exchange(caller[t].link)' \in OnItsWay(caller[t].at, caller[t].req)
    <3>1. CASE caller[t].link # c
      BY <1>2, <2>1, <3>1 DEF CallerInv
    <3>2. CASE caller[t].link = c /\ c \notin failed
      <4>1. Exchange(c) \in OnItsWay(caller[t].at, caller[t].req)
        BY <1>2, <2>1, <3>2 DEF CallerInv
      <4>2. caller[t].at = "header"
        BY <3>2, <4>1, PhaseFacts
      <4>3. QED
        BY <3>2, <4>1, <4>2
    <3>3. QED
      BY <3>1, <3>2
  <2>3. QED
    BY <1>2, <2>1, <2>2 DEF CallerInv
<1>3. ExchangeInv'
  BY <1>2 DEF ExchangeInv, CallerInv
<1>4. OwnReply'
  BY DEF FrIInv, FrameTypeOK, OwnReply, Exchange
<1>5. QED
  BY <1>1, <1>3, <1>4 DEF FrIInv

LEMMA ServerKeeps ==
    ASSUME FrIInv, NEW c \in Links, ServeHeader(c) \/ ServeBody(c) PROVE FrIInv'
<1>1. /\ UNCHANGED <<idle, caller, sentRequests, result, failed>>
      /\ DOMAIN toServer' = Links /\ DOMAIN toClient' = Links /\ DOMAIN server' = Links
      /\ \A d \in Links \ {c} : Exchange(d)' = Exchange(d)
  BY DEF ServeHeader, ServeBody, FrIInv, FrameTypeOK, Exchange
<1>2. Len(toServer[c]) >= 2 /\ toServer[c] # <<>>
  <2>1. Len(toServer[c]) >= 2
    BY DEF ServeHeader, ServeBody
  <2>2. Len(<<>>) = 0
    OBVIOUS
  <2>3. QED
    BY <2>1, <2>2
<1>3. c \in idle => c \in failed
  BY <1>2 DEF FrIInv, OwnReply
<1>4. ASSUME NEW r, Exchange(c) \in OnItsWay("header", r)
      PROVE  Exchange(c)' \in OnItsWay("header", r)
  <2>1. /\ toClient[c] = <<>>
        /\ toServer[c] = IF server[c] = "header" THEN FrameOf(r) ELSE BodyOf(r)
    BY <1>2, <1>4, PhaseFacts
  <2>2. CASE ServeHeader(c)
    <3>1. server[c] = "header" /\ toServer[c] = FrameOf(r) /\ IsHeader(toServer[c])
      BY <2>1, <2>2, FrameFacts DEF ServeHeader
    <3>2. toServer'[c] = BodyOf(r) /\ server'[c] = "body" /\ toClient'[c] = <<>>
      BY <2>1, <2>2, <3>1, FrameFacts DEF ServeHeader, FrIInv, FrameTypeOK
    <3>3. QED
      BY <3>2 DEF Exchange, OnItsWay
  <2>3. CASE ServeBody(c)
    <3>1. server[c] = "body" /\ toServer[c] = BodyOf(r)
      BY <2>1, <2>3 DEF ServeBody
    <3>2. toServer[c][1] = toServer[c][2] /\ toServer[c][1][2] = r
      BY <3>1, FrameFacts
    <3>3. toClient' = [toClient EXCEPT ![c] = @ \o FrameOf(r)]
      BY <2>3, <3>2 DEF ServeBody
    <3>4. toServer'[c] = <<>> /\ server'[c] = "header" /\ toClient'[c] = FrameOf(r)
      BY <2>1, <2>3, <3>1, <3>3, FrameFacts DEF ServeBody, FrIInv, FrameTypeOK
    <3>5. QED
      BY <3>4 DEF Exchange, OnItsWay
  <2>4. QED
    BY <2>2, <2>3
<1>5. ASSUME NEW r PROVE Exchange(c) \notin OnItsWay("body", r)
  BY <1>2, PhaseFacts
<1>6. QED
  BY <1>1, <1>3, <1>4, <1>5, ServeKeeps

LEMMA ServeJunkKeeps ==
    ASSUME FrIInv, NEW c \in Links, NEW n, ServeJunk(c, n) PROVE FrIInv'
<1>1. /\ UNCHANGED <<idle, caller, sentRequests, result, failed>>
      /\ DOMAIN toServer' = Links /\ DOMAIN toClient' = Links /\ DOMAIN server' = Links
      /\ \A d \in Links \ {c} : Exchange(d)' = Exchange(d)
  BY DEF ServeJunk, FrIInv, FrameTypeOK, Exchange
<1>2. server[c] = "junk"
  BY DEF ServeJunk
<1>3. c \in idle => c \in failed
  BY <1>2 DEF FrIInv, OwnReply
<1>4. \A r, phase : Exchange(c) \notin OnItsWay(phase, r)
  BY <1>2, PhaseFacts
<1>5. QED
  BY <1>1, <1>3, <1>4, ServeKeeps

LEMMA FrStepIInv == FrIInv /\ [FrameNext]_frameVars => FrIInv'
<1> SUFFICES ASSUME FrIInv, [FrameNext]_frameVars PROVE FrIInv'
  OBVIOUS
<1>1. ASSUME NEW t \in Callers, NEW n \in 1..2, RecvHeader(t, n) \/ RecvBody(t, n)
      PROVE  FrIInv'
  BY <1>1, HeaderKeeps, BodyKeeps
<1>2. ASSUME UNCHANGED frameVars PROVE FrIInv'
  BY <1>2 DEF frameVars, FrIInv, FrameTypeOK, ExchangeInv, OwnReply, Exchange
<1>3. QED
  BY <1>1, <1>2, SendKeeps, BreakKeeps, JunkKeeps, RecvFailsKeeps, ServerKeeps, ServeJunkKeeps
     DEF FrameNext

\* A thread gets the answer to its own request, and a connection waits empty,
\* until an exchange fails on it.
THEOREM RepliesAreOwn == FrameSpec => []OwnReply
<1> USE FramingAssumption
<1>1. FrameInit => FrIInv
  <2> SUFFICES ASSUME FrameInit PROVE FrIInv
    OBVIOUS
  <2>1. (CHOOSE c \in Links : TRUE) \in Links
    OBVIOUS
  <2>2. FrameTypeOK /\ \A t \in Callers : caller[t].at = "idle"
    BY <2>1 DEF FrameInit, FrameTypeOK
  <2>3. OwnReply
    BY DEF FrameInit, OwnReply, None
  <2>4. QED
    BY <2>2, <2>3 DEF FrIInv, ExchangeInv
<1>2. FrIInv => OwnReply
  BY DEF FrIInv
<1>3. QED
  BY <1>1, <1>2, FrStepIInv, PTL DEF FrameSpec
-----------------------------------------------------------------------------
(* MemoryJobs: one place for every job *)

MemSpec == MemInit /\ [][MemNext]_memVars

MemObjects == [status : {"none", "pending", "processing", "retry", "completed", "dead"},
               retries : Nat]

MemWorkerStates == [at : {"idle", "pop", "popping", "take", "mark", "run", "requeue", "append", "dead"},
                    job : MemIds \cup {NoId}, list : 0..MaxLists]

MemPusherStates == [at : {"no", "test", "create", "look", "append"}, list : 0..MaxLists]

MemTypes ==
    /\ object \in [MemIds -> MemObjects] /\ recorded \subseteq MemIds /\ safe \subseteq MemIds
    /\ lists \in [ListNos -> Seq(MemIds)] /\ listNo \in 0..MaxLists
    /\ pusher \in [MemIds -> MemPusherStates]
    /\ worker \in [MemWorkers -> MemWorkerStates] /\ executions \in [MemIds -> Nat]

Distinct == \A m, n \in ListNos : \A i \in DOMAIN lists[m], k \in DOMAIN lists[n] :
               lists[m][i] = lists[n][k] => m = n /\ i = k

\* What the invariant says of the job j of one worker, and of one job.
Doing(w, j) ==
    /\ j = NoId <=> worker[w].at \in {"idle", "pop", "popping", "dead"}
    /\ worker[w].at \in {"take", "mark", "requeue", "append"} => Ready(j)
    /\ worker[w].at \in {"take", "requeue", "append"} => j \in recorded
    /\ worker[w].at = "run" =>
          /\ object[j].status = "processing"
          /\ executions[j] = object[j].retries + 1 /\ object[j].retries <= MaxRetries

HeldInv(w, j) ==
    /\ Doing(w, j)
    /\ j \notin pushing /\ ~InQueue(j)
    /\ \A v \in MemWorkers : worker[v].job = j /\ j # NoId => v = w

WaitInv(j) ==
    /\ j \in pushing \/ InQueue(j) => Ready(j) /\ j \in recorded
    /\ j \in pushing => ~InQueue(j)

JobInv(j) ==
    /\ object[j].status = "none" => executions[j] = 0 /\ object[j].retries = 0
    /\ executions[j] <= MaxRetries + 1
    /\ object[j].status \notin {"none", "completed", "dead"} =>
          \/ j \in pushing \/ InQueue(j)
          \/ \E w \in MemWorkers : worker[w].job = j

LEMMA MemParts ==
    MemPlaceInv <=> /\ MemTypes /\ Distinct
                    /\ \A w \in MemWorkers : HeldInv(w, worker[w].job)
                    /\ \A j \in MemIds : WaitInv(j) /\ JobInv(j)
<1>1. MemTypeOK <=> MemTypes
  BY DEF MemTypeOK, MemTypes, MemObjects, MemWorkerStates, MemPusherStates
<1>2. OnItsWayInv /\ OnePlaceInv /\ EndInv =>
         /\ Distinct /\ \A w \in MemWorkers : HeldInv(w, worker[w].job)
         /\ \A j \in MemIds : WaitInv(j) /\ JobInv(j)
  BY DEF OnItsWayInv, OnePlaceInv, EndInv, Distinct, HeldInv, Doing, WaitInv, JobInv
<1>3. ASSUME MemTypes, Distinct, \A w \in MemWorkers : HeldInv(w, worker[w].job),
             \A j \in MemIds : WaitInv(j) /\ JobInv(j)
      PROVE  OnItsWayInv /\ OnePlaceInv /\ EndInv
  <2>1. pushing \subseteq MemIds
    BY DEF pushing
  <2>2. OnItsWayInv
    BY <1>3 DEF OnItsWayInv, HeldInv, Doing, WaitInv
  <2>3. OnePlaceInv
    BY <1>3, <2>1 DEF OnePlaceInv, Distinct, HeldInv, WaitInv
  <2>4. EndInv
    BY <1>3 DEF EndInv, JobInv
  <2>5. QED
    BY <2>2, <2>3, <2>4
<1>4. QED
  BY <1>1, <1>2, <1>3 DEF MemPlaceInv

LEMMA MemJoin ==
    ASSUME MemTypes', Distinct', \A w \in MemWorkers : HeldInv(w, worker[w].job)',
           \A j \in MemIds : WaitInv(j)' /\ JobInv(j)'
    PROVE  MemPlaceInv'
BY DEF MemPlaceInv, MemTypeOK, OnItsWayInv, OnePlaceInv, EndInv, MemTypes, MemObjects,
       MemWorkerStates, MemPusherStates, Distinct, HeldInv, Doing, WaitInv, JobInv, Ready, InQueue,
       pushing

\* Where a worker goes.
LEMMA GoFacts ==
    ASSUME MemPlaceInv, NEW w \in MemWorkers, NEW j \in MemIds \cup {NoId},
           NEW where \in {"idle", "pop", "popping", "take", "mark", "run", "requeue", "append", "dead"},
           Go(w, where, j)
    PROVE  /\ worker' \in [MemWorkers -> MemWorkerStates]
           /\ worker'[w].at = where /\ worker'[w].job = j
           /\ \A v \in MemWorkers \ {w} : worker'[v] = worker[v]
<1>1. worker \in [MemWorkers -> MemWorkerStates]
  BY MemParts DEF MemTypes
<1>2. [at |-> where, job |-> j, list |-> 0] \in MemWorkerStates
  BY MemoryJobsAssumption DEF MemWorkerStates
<1>3. QED
  BY <1>1, <1>2 DEF Go

\* What a worker holds.
LEMMA HoldFacts ==
    ASSUME MemPlaceInv, NEW w \in MemWorkers, NEW j, j = worker[w].job
    PROVE  /\ worker[w] \in MemWorkerStates /\ j \in MemIds \cup {NoId} /\ HeldInv(w, j)
           /\ j \in MemIds <=> worker[w].at \in {"take", "mark", "run", "requeue", "append"}
<1> USE MemoryJobsAssumption
<1>1. worker[w] \in MemWorkerStates /\ HeldInv(w, j)
  BY MemParts DEF MemTypes
<1>2. QED
  BY <1>1 DEF MemWorkerStates, HeldInv, Doing

\* The lists when an identifier is appended to one, or the first one is taken.
LEMMA AppendFacts ==
    ASSUME MemPlaceInv, NEW j \in MemIds, NEW l \in ListNos, ~InQueue(j),
           lists' = [lists EXCEPT ![l] = Append(lists[l], j)]
    PROVE  /\ lists' \in [ListNos -> Seq(MemIds)] /\ Distinct' /\ InQueue(j)'
           /\ \A i : i # j => (InQueue(i)' <=> InQueue(i))
           /\ \A n \in ListNos \ {l} : lists'[n] = lists[n]
<1>1. /\ lists \in [ListNos -> Seq(MemIds)] /\ Distinct
      /\ \A n \in ListNos : \A i \in DOMAIN lists[n] : lists[n][i] # j
  BY MemParts DEF MemTypes, InQueue
<1>2. /\ lists' \in [ListNos -> Seq(MemIds)] /\ lists'[l] = Append(lists[l], j)
      /\ \A n \in ListNos \ {l} : lists'[n] = lists[n]
  BY <1>1
<1>3. /\ lists[l] \in Seq(MemIds) /\ DOMAIN lists'[l] = DOMAIN lists[l] \cup {Len(lists[l]) + 1}
      /\ Len(lists[l]) + 1 \notin DOMAIN lists[l]
      /\ lists'[l][Len(lists[l]) + 1] = j /\ \A i \in DOMAIN lists[l] : lists'[l][i] = lists[l][i]
  BY <1>1, <1>2
<1>4. Distinct'
  <2> SUFFICES ASSUME NEW m \in ListNos, NEW n \in ListNos, NEW i \in DOMAIN lists'[m],
                      NEW k \in DOMAIN lists'[n], lists'[m][i] = lists'[n][k]
               PROVE  m = n /\ i = k
    BY DEF Distinct
  <2>1. \/ m = l /\ i = Len(lists[l]) + 1 /\ lists'[m][i] = j
        \/ i \in DOMAIN lists[m] /\ lists'[m][i] = lists[m][i] /\ lists[m][i] # j
    BY <1>1, <1>2, <1>3
  <2>2. \/ n = l /\ k = Len(lists[l]) + 1 /\ lists'[n][k] = j
        \/ k \in DOMAIN lists[n] /\ lists'[n][k] = lists[n][k] /\ lists[n][k] # j
    BY <1>1, <1>2, <1>3
  <2>3. QED
    BY <1>1, <2>1, <2>2 DEF Distinct
<1>5. ASSUME NEW i, i # j PROVE InQueue(i)' <=> InQueue(i)
  <2>1. InQueue(i) => InQueue(i)'
    BY <1>2, <1>3 DEF InQueue
  <2>2. InQueue(i)' => InQueue(i)
    BY <1>2, <1>3, <1>5 DEF InQueue
  <2>3. QED
    BY <2>1, <2>2
<1>6. QED
  BY <1>2, <1>3, <1>4, <1>5 DEF InQueue

LEMMA TailEntries ==
    ASSUME NEW s \in Seq(MemIds), s # <<>>
    PROVE  /\ Tail(s) \in Seq(MemIds) /\ 1 \in DOMAIN s /\ s[1] = Head(s)
           /\ \A i \in DOMAIN Tail(s) : i + 1 \in DOMAIN s /\ Tail(s)[i] = s[i + 1]
           /\ \A i \in DOMAIN s : i = 1 \/ (i - 1 \in DOMAIN Tail(s) /\ Tail(s)[i - 1] = s[i])
<1>1. /\ Tail(s) \in Seq(MemIds) /\ Len(s) \in Nat \ {0} /\ Len(Tail(s)) = Len(s) - 1
      /\ DOMAIN s = 1..Len(s) /\ DOMAIN Tail(s) = 1..Len(Tail(s))
      /\ \A i \in 1..Len(s) - 1 : Tail(s)[i] = s[i + 1]
  BY SMTT(30)
<1>2. QED
  BY <1>1

LEMMA TailFacts ==
    ASSUME MemPlaceInv, NEW l \in ListNos, lists[l] # <<>>, NEW h, h = Head(lists[l]),
           lists' = [lists EXCEPT ![l] = Tail(lists[l])]
    PROVE  /\ lists' \in [ListNos -> Seq(MemIds)] /\ Distinct' /\ h \in MemIds
           /\ InQueue(h) /\ ~InQueue(h)'
           /\ \A i : i # h => (InQueue(i)' <=> InQueue(i))
           /\ \A n \in ListNos \ {l} : lists'[n] = lists[n]
<1>1. lists \in [ListNos -> Seq(MemIds)] /\ Distinct
  BY MemParts DEF MemTypes
<1>2. /\ lists' \in [ListNos -> Seq(MemIds)] /\ lists'[l] = Tail(lists[l])
      /\ \A n \in ListNos \ {l} : lists'[n] = lists[n]
  BY <1>1
<1>3. /\ lists[l] \in Seq(MemIds) /\ 1 \in DOMAIN lists[l] /\ lists[l][1] = h
      /\ \A i \in DOMAIN lists'[l] : i + 1 \in DOMAIN lists[l] /\ lists'[l][i] = lists[l][i + 1]
      /\ \A i \in DOMAIN lists[l] : i = 1 \/ (i - 1 \in DOMAIN lists'[l] /\ lists'[l][i - 1] = lists[l][i])
      /\ \A n \in ListNos : DOMAIN lists[n] \subseteq Nat \ {0} /\ DOMAIN lists'[n] \subseteq Nat \ {0}
  <2>1. lists[l] \in Seq(MemIds)
    BY <1>1
  <2>2. \A n \in ListNos : lists[n] \in Seq(MemIds) /\ lists'[n] \in Seq(MemIds)
    BY <1>1, <1>2
  <2>3. \A n \in ListNos : DOMAIN lists[n] \subseteq Nat \ {0} /\ DOMAIN lists'[n] \subseteq Nat \ {0}
    BY <2>2
  <2>4. QED
    BY <1>2, <2>1, <2>3, TailEntries
\* Where an entry was before.
<1>4. \A n \in ListNos : \A i \in DOMAIN lists'[n] :
         \E k \in DOMAIN lists[n] : /\ k = IF n = l THEN i + 1 ELSE i
                                    /\ lists'[n][i] = lists[n][k] /\ (n = l => k # 1)
  BY <1>2, <1>3
<1>5. Distinct'
  <2> SUFFICES ASSUME NEW m \in ListNos, NEW n \in ListNos, NEW i \in DOMAIN lists'[m],
                      NEW k \in DOMAIN lists'[n], lists'[m][i] = lists'[n][k]
               PROVE  m = n /\ i = k
    BY DEF Distinct
  <2>1. PICK x \in DOMAIN lists[m] : x = (IF m = l THEN i + 1 ELSE i) /\ lists'[m][i] = lists[m][x]
    BY <1>4
  <2>2. PICK y \in DOMAIN lists[n] : y = (IF n = l THEN k + 1 ELSE k) /\ lists'[n][k] = lists[n][y]
    BY <1>4
  <2>3. m = n /\ x = y
    BY <1>1, <2>1, <2>2 DEF Distinct
  <2>4. i \in Nat /\ k \in Nat
    BY <1>3
  <2>5. QED
    BY <2>1, <2>2, <2>3, <2>4
<1>6. \A n \in ListNos : \A i \in DOMAIN lists'[n] : lists'[n][i] # h
  <2> SUFFICES ASSUME NEW n \in ListNos, NEW i \in DOMAIN lists'[n], lists'[n][i] = h PROVE FALSE
    OBVIOUS
  <2>1. PICK x \in DOMAIN lists[n] : lists[n][x] = h /\ (n = l => x # 1)
    BY <1>4
  <2>2. QED
    BY <1>1, <1>3, <2>1 DEF Distinct
<1>7. ASSUME NEW i, i # h PROVE InQueue(i)' <=> InQueue(i)
  <2>1. InQueue(i)' => InQueue(i)
    BY <1>4 DEF InQueue
  <2>2. ASSUME InQueue(i) PROVE InQueue(i)'
    <3>1. PICK n \in ListNos : \E k \in DOMAIN lists[n] : lists[n][k] = i
      BY <2>2 DEF InQueue
    <3>2. PICK k \in DOMAIN lists[n] : lists[n][k] = i
      BY <3>1
    <3>3. CASE n = l
      BY <1>3, <1>7, <3>2, <3>3 DEF InQueue
    <3>4. CASE n # l
      BY <1>2, <3>2, <3>4 DEF InQueue
    <3>5. QED
      BY <3>3, <3>4
  <2>3. QED
    BY <2>1, <2>2
<1>8. h \in MemIds /\ InQueue(h)
  BY <1>1, <1>3 DEF InQueue
<1>9. QED
  BY <1>2, <1>5, <1>6, <1>7, <1>8 DEF InQueue

\* A job's enqueue goes on, or ends.
LEMMA PushFacts ==
    ASSUME MemPlaceInv, NEW j \in MemIds, NEW n \in 0..MaxLists,
           NEW where \in {"no", "test", "create", "look", "append"}, PushAt(j, where, n)
    PROVE  /\ pusher' \in [MemIds -> MemPusherStates]
           /\ pushing' = IF where = "no" THEN pushing \ {j} ELSE pushing \cup {j}
<1>1. pusher \in [MemIds -> MemPusherStates]
  BY MemParts DEF MemTypes
<1>2. pusher' \in [MemIds -> MemPusherStates]
  BY <1>1 DEF PushAt, MemPusherStates
<1>3. pusher'[j].at = where /\ \A i \in MemIds \ {j} : pusher'[i] = pusher[i]
  BY <1>1 DEF PushAt
<1>4. \A i : i \in pushing' <=> i \in (IF where = "no" THEN pushing \ {j} ELSE pushing \cup {j})
  BY <1>3 DEF pushing
<1>5. QED
  BY <1>2, <1>4

LEMMA MemEnqueueKeeps ==
    ASSUME MemPlaceInv, NEW j \in MemIds, MemEnqueue(j) PROVE MemPlaceInv'
<1> USE MemoryJobsAssumption
<1>1. /\ object[j].status = "none" /\ object' = [object EXCEPT ![j].status = "pending"]
      /\ recorded' = recorded \cup {j} /\ PushAt(j, "test", 0)
      /\ UNCHANGED <<lists, listNo, worker, executions>>
  BY DEF MemEnqueue
<1>0. pushing' = pushing \cup {j} /\ pusher' \in [MemIds -> MemPusherStates]
  BY <1>1, PushFacts
<1>s. safe' \subseteq MemIds
  BY MemParts DEF MemTypes, MemEnqueue
<1>2. object[j] \in MemObjects /\ WaitInv(j) /\ JobInv(j) /\ MemTypes /\ Distinct
  BY MemParts DEF MemTypes
<1>3. /\ object' \in [MemIds -> MemObjects]
      /\ object'[j].status = "pending" /\ object'[j].retries = object[j].retries
      /\ \A i \in MemIds \ {j} : object'[i] = object[i]
  BY <1>1, <1>2 DEF MemTypes, MemObjects
\* A job that is not enqueued yet is nowhere.
<1>4. j \notin pushing /\ ~InQueue(j)
  BY <1>1, <1>2 DEF WaitInv, Ready
<1>5. ASSUME NEW w \in MemWorkers PROVE worker[w].job # j
  <2>1. worker[w].job = j => Doing(w, j) /\ worker[w].at \in {"take", "mark", "run", "requeue", "append"}
    BY HoldFacts DEF HeldInv
  <2>2. QED
    BY <1>1, <2>1 DEF Doing, Ready
<1>6. \A i : InQueue(i)' <=> InQueue(i)
  BY <1>1 DEF InQueue
<1>7. ASSUME NEW i \in MemIds PROVE WaitInv(i)' /\ JobInv(i)'
  <2>1. CASE i = j
    BY <1>0, <1>1, <1>2, <1>3, <1>4, <1>6, <2>1 DEF WaitInv, JobInv, Ready
  <2>2. CASE i # j
    <3>1. WaitInv(i) /\ JobInv(i)
      BY MemParts
    <3>2. QED
      BY <1>0, <1>1, <1>3, <1>6, <2>2, <3>1 DEF WaitInv, JobInv, Ready
  <2>3. QED
    BY <2>1, <2>2
<1>8. ASSUME NEW w \in MemWorkers PROVE HeldInv(w, worker[w].job)'
  <2>i. PICK i : i = worker[w].job
    OBVIOUS
  <2>1. i # j /\ HeldInv(w, i) /\ i \in MemIds \cup {NoId}
    BY <1>5, <2>i, HoldFacts
  <2>2. i = NoId => worker[w].at \in {"idle", "pop", "popping", "dead"}
    BY <2>1 DEF HeldInv, Doing
  <2>3. Doing(w, i)'
    BY <1>1, <1>3, <2>1, <2>2 DEF HeldInv, Doing, Ready
  <2>4. HeldInv(w, i)'
    BY <1>0, <1>1, <1>6, <2>1, <2>3 DEF HeldInv
  <2>5. worker'[w].job = i
    BY <1>1, <2>i
  <2>6. QED
    BY <2>4, <2>5
<1>9. MemTypes' /\ Distinct'
  BY <1>0, <1>s, <1>1, <1>2, <1>3 DEF MemTypes, Distinct
<1>10. QED
  BY <1>7, <1>8, <1>9, MemJoin

\* A worker makes a step with its job j and keeps it, or has ended it.
LEMMA WorkKeeps ==
    ASSUME MemPlaceInv, NEW w \in MemWorkers, NEW j \in MemIds, j = worker[w].job,
           NEW k \in {j, NoId},
           NEW where \in {"idle", "pop", "popping", "take", "mark", "run", "requeue", "append", "dead"},
           Go(w, where, k), UNCHANGED <<lists, listNo, pusher, safe>>,
           object' \in [MemIds -> MemObjects], recorded' \subseteq MemIds,
           executions' \in [MemIds -> Nat],
           \A i \in MemIds \ {j} : /\ object'[i] = object[i] /\ executions'[i] = executions[i]
                                   /\ i \in recorded' <=> i \in recorded,
           Doing(w, k)', executions'[j] <= MaxRetries + 1,
           object'[j].status # "none",
           k = NoId => object'[j].status \in {"completed", "dead"}
    PROVE  MemPlaceInv'
<1> USE MemoryJobsAssumption
<1>0. pushing' = pushing
  BY DEF pushing
<1>1. /\ worker' \in [MemWorkers -> MemWorkerStates]
      /\ worker'[w].at = where /\ worker'[w].job = k
      /\ \A v \in MemWorkers \ {w} : worker'[v] = worker[v]
  BY GoFacts
<1>2. HeldInv(w, j) /\ MemTypes /\ Distinct
  BY HoldFacts, MemParts
<1>3. \A i : InQueue(i)' <=> InQueue(i)
  BY DEF InQueue
<1>4. j # NoId /\ j \notin pushing /\ ~InQueue(j)
      /\ \A v \in MemWorkers \ {w} : worker[v].job # j
  BY <1>2 DEF HeldInv
<1>5. ASSUME NEW i \in MemIds PROVE WaitInv(i)' /\ JobInv(i)'
  <2>1. CASE i = j
    <3>1. WaitInv(j)'
      BY <1>0, <1>3, <1>4 DEF WaitInv
    <3>2. JobInv(j)'
      BY <1>0, <1>1 DEF JobInv
    <3>3. QED
      BY <2>1, <3>1, <3>2
  <2>2. CASE i # j
    <3>1. WaitInv(i) /\ JobInv(i)
      BY MemParts
    <3>2. WaitInv(i)'
      BY <1>0, <1>3, <2>2, <3>1 DEF WaitInv, Ready
    <3>3. (\E v \in MemWorkers : worker[v].job = i) => \E v \in MemWorkers : worker'[v].job = i
      BY <1>1, <2>2
    <3>4. JobInv(i)'
      BY <1>0, <1>3, <2>2, <3>1, <3>3 DEF JobInv
    <3>5. QED
      BY <3>2, <3>4
  <2>3. QED
    BY <2>1, <2>2
<1>6. HeldInv(w, k)'
  <2>1. k \notin pushing /\ ~InQueue(k)
    <3>1. NoId \notin pushing /\ ~InQueue(NoId)
      BY <1>2 DEF MemTypes, InQueue, pushing
    <3>2. QED
      BY <1>4, <3>1
  <2>2. QED
    BY <1>0, <1>1, <1>3, <1>4, <2>1 DEF HeldInv
<1>7. ASSUME NEW v \in MemWorkers \ {w} PROVE HeldInv(v, worker[v].job)'
  <2>i. PICK i : i = worker[v].job
    OBVIOUS
  <2>1. i # j /\ HeldInv(v, i) /\ i \in MemIds \cup {NoId}
    BY <1>4, <2>i, HoldFacts
  <2>2. i = NoId => worker[v].at \in {"idle", "pop", "popping", "dead"}
    BY <2>1 DEF HeldInv, Doing
  <2>3. Doing(v, i)'
    BY <1>1, <2>1, <2>2 DEF HeldInv, Doing, Ready
  <2>4. HeldInv(v, i)'
    BY <1>0, <1>1, <1>3, <2>1, <2>3 DEF HeldInv
  <2>5. worker'[v].job = i
    BY <1>1, <2>i
  <2>6. QED
    BY <2>4, <2>5
<1>8. \A v \in MemWorkers : HeldInv(v, worker[v].job)'
  BY <1>1, <1>6, <1>7
<1>9. MemTypes' /\ Distinct'
  BY <1>1, <1>2 DEF MemTypes, Distinct
<1>10. QED
  BY <1>5, <1>8, <1>9, MemJoin

\* What stays for a job i that is not the one that moves.
LEMMA OthersHeld ==
    ASSUME MemPlaceInv, NEW v \in MemWorkers, NEW i, i = worker[v].job, worker'[v] = worker[v],
           NEW j \in MemIds, i # j, UNCHANGED <<object, executions, recorded>>,
           pushing' \subseteq pushing, InQueue(i)' <=> InQueue(i),
           \A u \in MemWorkers : worker'[u].job \in {worker[u].job, j, NoId}
    PROVE  HeldInv(v, worker[v].job)'
<1>1. HeldInv(v, i) /\ i \in MemIds \cup {NoId}
  BY HoldFacts
<1>2. Doing(v, i)'
  BY <1>1 DEF HeldInv, Doing, Ready
<1>3. HeldInv(v, i)'
  BY <1>1, <1>2 DEF HeldInv
<1>4. worker'[v].job = i
  OBVIOUS
<1>5. QED
  BY <1>3, <1>4

\* Steps of an enqueue that look for the list move no job.
LEMMA PusherGoesOn ==
    ASSUME MemPlaceInv, NEW j \in MemIds, pusher[j].at # "no", NEW n \in 0..MaxLists,
           NEW where \in {"test", "create", "look", "append"}, PushAt(j, where, n),
           listNo' \in 0..MaxLists,
           UNCHANGED <<object, recorded, lists, worker, executions, safe>>
    PROVE  MemPlaceInv'
<1>1. pusher' \in [MemIds -> MemPusherStates] /\ pushing' = pushing
  BY PushFacts DEF pushing
<1>2. MemTypes' /\ Distinct'
  BY <1>1, MemParts DEF MemTypes, Distinct
<1>3. \A i : InQueue(i)' <=> InQueue(i)
  BY DEF InQueue
<1>4. \A i \in MemIds : WaitInv(i)' /\ JobInv(i)'
  BY <1>1, <1>3, MemParts DEF WaitInv, JobInv, Ready
<1>5. ASSUME NEW w \in MemWorkers PROVE HeldInv(w, worker[w].job)'
  <2>i. PICK i : i = worker[w].job
    OBVIOUS
  <2>1. HeldInv(w, i)
    BY <2>i, MemParts
  <2>2. HeldInv(w, i)'
    BY <1>1, <1>3, <2>1 DEF HeldInv, Doing, Ready
  <2>3. QED
    BY <2>i, <2>2
<1>6. QED
  BY <1>2, <1>4, <1>5, MemJoin

LEMMA MemPushKeeps ==
    ASSUME MemPlaceInv, LookInv, NEW j \in MemIds, MemPush(j) PROVE MemPlaceInv'
<1>l. PICK l : l = pusher[j].list
  OBVIOUS
<1>0. l \in ListNos
  BY <1>l, MemParts DEF MemPush, LookInv, MemTypes, MemPusherStates, ListNos
<1>1. /\ pusher[j].at = "append" /\ PushAt(j, "no", 0) /\ lists' = [lists EXCEPT ![l] = Append(lists[l], j)]
      /\ UNCHANGED <<object, recorded, listNo, worker, executions, safe>>
  BY <1>l DEF MemPush
<1>p. /\ j \in pushing /\ pushing' = pushing \ {j} /\ pusher' \in [MemIds -> MemPusherStates]
  BY <1>1, PushFacts, MemoryJobsAssumption DEF pushing
<1>2. WaitInv(j) /\ JobInv(j) /\ MemTypes /\ ~InQueue(j)
  BY <1>p, MemParts DEF WaitInv
<1>3. /\ lists' \in [ListNos -> Seq(MemIds)] /\ Distinct' /\ InQueue(j)'
      /\ \A i : i # j => (InQueue(i)' <=> InQueue(i))
  BY <1>0, <1>1, <1>2, AppendFacts
<1>4. ASSUME NEW i \in MemIds PROVE WaitInv(i)' /\ JobInv(i)'
  <2>1. WaitInv(i) /\ JobInv(i)
    BY MemParts
  <2>2. QED
    BY <1>p, <1>1, <1>3, <2>1 DEF WaitInv, JobInv, Ready
<1>5. ASSUME NEW w \in MemWorkers PROVE HeldInv(w, worker[w].job)'
  <2>i. PICK i : i = worker[w].job
    OBVIOUS
  <2>1. i # j
    BY <1>p, <2>i, HoldFacts DEF HeldInv
  <2>2. QED
    BY <1>p, <1>1, <1>3, <2>i, <2>1, OthersHeld
<1>6. MemTypes'
  BY <1>p, <1>1, <1>2, <1>3 DEF MemTypes
<1>7. QED
  BY <1>3, <1>4, <1>5, <1>6, MemJoin

\* A worker that moves no job.
LEMMA IdleKeeps ==
    ASSUME MemPlaceInv, NEW w \in MemWorkers,
           worker' \in [MemWorkers -> MemWorkerStates],
           worker'[w].job = worker[w].job,
           \A v \in MemWorkers \ {w} : worker'[v] = worker[v],
           \/ worker[w].at \in {"idle", "pop", "popping"} /\ worker'[w].at \in {"pop", "popping", "dead"}
           \/ worker[w].at = "requeue" /\ worker'[w].at = "append",
           UNCHANGED <<object, recorded, lists, listNo, pusher, executions, safe>>
    PROVE  MemPlaceInv'
<1> USE MemoryJobsAssumption
<1>2. MemTypes /\ Distinct /\ pushing' = pushing
  BY MemParts DEF pushing
<1>3. \A i : InQueue(i)' <=> InQueue(i)
  BY DEF InQueue
<1>3a. \A u \in MemWorkers : worker'[u].job = worker[u].job
  OBVIOUS
<1>4. ASSUME NEW i \in MemIds PROVE WaitInv(i)' /\ JobInv(i)'
  <2>1. WaitInv(i) /\ JobInv(i)
    BY MemParts
  <2>3. QED
    BY <1>2, <1>3, <1>3a, <2>1 DEF WaitInv, JobInv, Ready
<1>5. ASSUME NEW v \in MemWorkers PROVE HeldInv(v, worker[v].job)'
  <2>i. PICK i : i = worker[v].job
    OBVIOUS
  <2>1. HeldInv(v, i) /\ Doing(v, i) /\ i \in MemIds \cup {NoId} /\ worker'[v].job = i
    BY <1>3a, <2>i, HoldFacts DEF HeldInv
  <2>2. Doing(v, i)'
    <3>1. CASE v = w
      BY <2>1, <3>1 DEF Doing, Ready
    <3>2. CASE v # w
      BY <2>1, <3>2 DEF Doing, Ready
    <3>3. QED
      BY <3>1, <3>2
  <2>4. HeldInv(v, i)'
    BY <1>2, <1>3, <1>3a, <2>1, <2>2 DEF HeldInv
  <2>5. QED
    BY <2>1, <2>4
<1>6. MemTypes' /\ Distinct'
  BY <1>2 DEF MemTypes, Distinct
<1>7. QED
  BY <1>4, <1>5, <1>6, MemJoin

\* A worker without a job goes on without one.
LEMMA IdleGoes ==
    ASSUME MemPlaceInv, NEW w \in MemWorkers, worker[w].at \in {"idle", "pop", "popping"},
           NEW where \in {"pop", "dead"}, Go(w, where, NoId),
           UNCHANGED <<object, recorded, lists, listNo, pusher, executions, safe>>
    PROVE  MemPlaceInv'
<1>1. /\ worker' \in [MemWorkers -> MemWorkerStates]
      /\ worker'[w].at = where /\ worker'[w].job = NoId
      /\ \A v \in MemWorkers \ {w} : worker'[v] = worker[v]
  BY GoFacts
<1>2. worker[w].job = NoId
  BY HoldFacts DEF HeldInv, Doing
<1>3. QED
  BY <1>1, <1>2, IdleKeeps

LEMMA LookUpKeeps ==
    ASSUME MemPlaceInv, NEW w \in MemWorkers, MemPopLook(w) \/ MemRequeueLook(w)
    PROVE  MemPlaceInv'
<1>1. MemTypes
  BY MemParts
<1>2. PICK where \in {"popping", "append"} :
         /\ LookUp(w, where)
         /\ \/ where = "popping" /\ worker[w].at = "pop"
            \/ where = "append" /\ worker[w].at = "requeue"
  BY DEF MemPopLook, MemRequeueLook
<1>3. /\ worker' \in [MemWorkers -> MemWorkerStates]
      /\ worker'[w].at = where /\ worker'[w].job = worker[w].job
      /\ \A v \in MemWorkers \ {w} : worker'[v] = worker[v]
  BY <1>1, <1>2 DEF LookUp, MemTypes, MemWorkerStates
<1>4. UNCHANGED <<object, recorded, lists, listNo, pusher, executions, safe>>
  BY DEF MemPopLook, MemRequeueLook
<1>5. QED
  BY <1>2, <1>3, <1>4, IdleKeeps

LEMMA MemPopKeeps ==
    ASSUME MemPlaceInv, LookInv, NEW w \in MemWorkers, MemPop(w) PROVE MemPlaceInv'
<1> USE MemoryJobsAssumption
<1>l. PICK l : l = worker[w].list
  OBVIOUS
<1>h. PICK h : h = Head(lists[l])
  OBVIOUS
<1>1. worker[w].at = "popping" /\ UNCHANGED <<object, recorded, listNo, pusher, executions, safe>>
  BY DEF MemPop
<1>0. l \in ListNos /\ pushing' = pushing
  BY <1>1, <1>l, MemParts DEF LookInv, MemTypes, MemWorkerStates, ListNos, pushing
<1>2. CASE lists[l] = <<>>
  BY <1>1, <1>2, <1>l, IdleGoes DEF MemPop
<1>3. CASE lists[l] # <<>>
  <2>1. Go(w, "take", h) /\ lists' = [lists EXCEPT ![l] = Tail(lists[l])]
    BY <1>3, <1>h, <1>l DEF MemPop
  <2>2. /\ lists' \in [ListNos -> Seq(MemIds)] /\ Distinct' /\ h \in MemIds /\ InQueue(h) /\ ~InQueue(h)'
        /\ \A i : i # h => (InQueue(i)' <=> InQueue(i))
    BY <1>0, <1>3, <1>h, <2>1, TailFacts
  <2>3. /\ worker' \in [MemWorkers -> MemWorkerStates]
        /\ worker'[w].at = "take" /\ worker'[w].job = h
        /\ \A v \in MemWorkers \ {w} : worker'[v] = worker[v]
    BY <2>1, <2>2, GoFacts
  <2>4. worker[w].job = NoId /\ HeldInv(w, NoId) /\ MemTypes /\ Distinct
    BY <1>1, HoldFacts, MemParts DEF HeldInv, Doing
  <2>5. WaitInv(h) /\ Ready(h) /\ h \in recorded /\ h \notin pushing
    BY <2>2, MemParts DEF WaitInv
  <2>6. ASSUME NEW v \in MemWorkers PROVE worker[v].job # h
    BY <2>2, HoldFacts DEF HeldInv
  <2>7. ASSUME NEW i \in MemIds PROVE WaitInv(i)' /\ JobInv(i)'
    <3>1. WaitInv(i) /\ JobInv(i)
      BY MemParts
    <3>2. (\E v \in MemWorkers : worker[v].job = i) => \E v \in MemWorkers : worker'[v].job = i
      BY <2>3, <2>4
    <3>3. \E v \in MemWorkers : worker'[v].job = h
      BY <2>3
    <3>4. WaitInv(i)'
      BY <1>0, <1>1, <2>2, <2>5, <3>1 DEF WaitInv, Ready
    <3>5. JobInv(i)'
      BY <1>0, <1>1, <2>2, <3>1, <3>2, <3>3 DEF JobInv
    <3>6. QED
      BY <3>4, <3>5
  <2>8. HeldInv(w, h)'
    <3>1. Doing(w, h)'
      BY <1>1, <2>2, <2>3, <2>5 DEF Doing, Ready
    <3>2. QED
      BY <1>0, <1>1, <2>2, <2>3, <2>5, <2>6, <3>1 DEF HeldInv
  <2>9. ASSUME NEW v \in MemWorkers \ {w} PROVE HeldInv(v, worker[v].job)'
    <3>i. PICK i : i = worker[v].job
      OBVIOUS
    <3>1. \A u \in MemWorkers : worker'[u].job \in {worker[u].job, h, NoId}
      BY <2>3
    <3>2. QED
      BY <1>0, <1>1, <2>2, <2>3, <2>6, <3>i, <3>1, OthersHeld
  <2>10. \A v \in MemWorkers : HeldInv(v, worker[v].job)'
    BY <2>3, <2>8, <2>9
  <2>11. MemTypes'
    BY <1>0, <1>1, <2>2, <2>3, <2>4 DEF MemTypes
  <2>12. QED
    BY <2>2, <2>7, <2>10, <2>11, MemJoin
<1>4. QED
  BY <1>2, <1>3

LEMMA MemRequeueKeeps ==
    ASSUME MemPlaceInv, LookInv, NEW w \in MemWorkers, MemRequeue(w) PROVE MemPlaceInv'
<1> USE MemoryJobsAssumption
<1>j. PICK j : j = worker[w].job
  OBVIOUS
<1>l. PICK l : l = worker[w].list
  OBVIOUS
<1>1. /\ worker[w].at = "append" /\ lists' = [lists EXCEPT ![l] = Append(lists[l], j)]
      /\ Go(w, "idle", NoId)
      /\ UNCHANGED <<object, recorded, listNo, pusher, executions, safe>>
  BY <1>j, <1>l DEF MemRequeue
<1>0. l \in ListNos /\ pushing' = pushing
  BY <1>1, <1>l, MemParts DEF LookInv, MemTypes, MemWorkerStates, ListNos, pushing
<1>2. j \in MemIds /\ HeldInv(w, j) /\ MemTypes
  BY <1>j, <1>1, HoldFacts, MemParts
<1>3. /\ Ready(j) /\ j \in recorded /\ j \notin pushing /\ ~InQueue(j)
      /\ \A v \in MemWorkers \ {w} : worker[v].job # j
  BY <1>1, <1>2 DEF HeldInv, Doing
<1>4. /\ lists' \in [ListNos -> Seq(MemIds)] /\ Distinct' /\ InQueue(j)'
      /\ \A i : i # j => (InQueue(i)' <=> InQueue(i))
  BY <1>0, <1>1, <1>2, <1>3, AppendFacts
<1>5. /\ worker' \in [MemWorkers -> MemWorkerStates]
      /\ worker'[w].at = "idle" /\ worker'[w].job = NoId
      /\ \A v \in MemWorkers \ {w} : worker'[v] = worker[v]
  BY <1>1, GoFacts
<1>6. ASSUME NEW i \in MemIds PROVE WaitInv(i)' /\ JobInv(i)'
  <2>1. WaitInv(i) /\ JobInv(i)
    BY MemParts
  <2>2. i # j => ((\E v \in MemWorkers : worker[v].job = i) =>
                       (\E v \in MemWorkers : worker'[v].job = i))
    BY <1>5, <1>j
  <2>3. WaitInv(i)'
    BY <1>0, <1>1, <1>3, <1>4, <2>1 DEF WaitInv, Ready
  <2>4. JobInv(i)'
    BY <1>0, <1>1, <1>4, <2>1, <2>2 DEF JobInv
  <2>5. QED
    BY <2>3, <2>4
<1>7. HeldInv(w, NoId)'
  <2>1. ~InQueue(NoId)' /\ NoId \notin pushing
    BY <1>2, <1>4 DEF MemTypes, InQueue, pushing
  <2>2. QED
    BY <1>0, <1>1, <1>5, <2>1 DEF HeldInv, Doing
<1>8. ASSUME NEW v \in MemWorkers \ {w} PROVE HeldInv(v, worker[v].job)'
  <2>i. PICK i : i = worker[v].job
    OBVIOUS
  <2>1. \A u \in MemWorkers : worker'[u].job \in {worker[u].job, j, NoId}
    BY <1>5
  <2>2. QED
    BY <1>0, <1>1, <1>2, <1>3, <1>4, <1>5, <2>i, <2>1, OthersHeld
<1>9. \A v \in MemWorkers : HeldInv(v, worker[v].job)'
  BY <1>5, <1>7, <1>8
<1>10. MemTypes'
  BY <1>0, <1>1, <1>2, <1>4, <1>5 DEF MemTypes
<1>11. QED
  BY <1>4, <1>6, <1>9, <1>10, MemJoin

LEMMA MemWorkKeeps ==
    ASSUME MemPlaceInv, NEW w \in MemWorkers,
           MemTake(w) \/ MemRun(w) \/ MemComplete(w) \/ MemFail(w)
    PROVE  MemPlaceInv'
<1> USE MemoryJobsAssumption
<1>j. PICK j : j = worker[w].job
  OBVIOUS
<1>1. worker[w].at \in {"take", "mark", "run"} /\ UNCHANGED <<lists, listNo, pusher, safe>>
  BY DEF MemTake, MemRun, MemComplete, MemFail, FailWith
<1>2. j \in MemIds /\ HeldInv(w, j) /\ MemTypes /\ JobInv(j) /\ Doing(w, j)
  BY <1>j, <1>1, HoldFacts, MemParts DEF HeldInv
<1>3. /\ object[j].status \in {"pending", "processing", "retry"} /\ object[j] \in MemObjects
      /\ executions[j] \in Nat
  BY <1>1, <1>2 DEF Doing, Ready, MemTypes
<1>4. CASE MemTake(w)
  <2>1. worker[w].at = "take" /\ j \in recorded
    BY <1>2, <1>4 DEF MemTake, Doing
  <2>2. Go(w, "mark", j) /\ recorded' = recorded \ {j} /\ UNCHANGED <<object, executions>>
    BY <1>4, <1>j, <2>1 DEF MemTake
  <2>3. worker'[w].at = "mark"
    BY <1>2, <2>2, GoFacts
  <2>4. Doing(w, j)'
    BY <1>2, <2>1, <2>2, <2>3 DEF Doing, Ready
  <2>5. executions'[j] <= MaxRetries + 1
    BY <1>2, <2>2 DEF JobInv
  <2>6. QED
    BY <1>1, <1>2, <1>3, <1>j, <2>2, <2>4, <2>5, WorkKeeps DEF MemTypes
<1>5. CASE MemRun(w)
  <2>1. /\ worker[w].at = "mark" /\ Go(w, "run", j) /\ recorded' = recorded \cup {j}
        /\ object' = [object EXCEPT ![j].status = "processing"]
        /\ executions' = [executions EXCEPT ![j] = @ + 1]
    BY <1>5, <1>j DEF MemRun
  <2>2. worker'[w].at = "run"
    BY <1>2, <2>1, GoFacts
  <2>3. /\ object' \in [MemIds -> MemObjects] /\ object'[j].status = "processing"
        /\ object'[j].retries = object[j].retries
        /\ \A i \in MemIds \ {j} : object'[i] = object[i]
    BY <1>2, <1>3, <2>1 DEF MemTypes, MemObjects
  <2>4. /\ executions' \in [MemIds -> Nat] /\ executions'[j] = executions[j] + 1
        /\ \A i \in MemIds \ {j} : executions'[i] = executions[i]
    BY <1>2, <1>3, <2>1 DEF MemTypes
  <2>5. executions[j] = object[j].retries /\ object[j].retries <= MaxRetries
    BY <1>2, <2>1 DEF Doing, Ready
  <2>6. Doing(w, j)'
    BY <1>2, <2>2, <2>3, <2>4, <2>5 DEF Doing
  <2>7. executions'[j] <= MaxRetries + 1
    BY <1>3, <2>4, <2>5
  <2>8. recorded' \subseteq MemIds /\ \A i \in MemIds \ {j} : i \in recorded' <=> i \in recorded
    BY <1>2, <2>1 DEF MemTypes
  <2>9. QED
    BY <1>1, <1>2, <1>j, <2>1, <2>3, <2>4, <2>6, <2>7, <2>8, WorkKeeps
<1>6. CASE MemComplete(w)
  <2>1. /\ Go(w, "idle", NoId) /\ recorded' = recorded \cup {j} /\ UNCHANGED executions
        /\ object' = [object EXCEPT ![j].status = "completed"]
    BY <1>6, <1>j DEF MemComplete
  <2>2. worker'[w].at = "idle"
    BY <2>1, GoFacts
  <2>3. /\ object' \in [MemIds -> MemObjects] /\ object'[j].status = "completed"
        /\ \A i \in MemIds \ {j} : object'[i] = object[i]
    BY <1>2, <1>3, <2>1 DEF MemTypes, MemObjects
  <2>4. Doing(w, NoId)'
    BY <2>2 DEF Doing
  <2>5. executions'[j] <= MaxRetries + 1 /\ executions' \in [MemIds -> Nat]
    BY <1>2, <2>1 DEF JobInv, MemTypes
  <2>6. recorded' \subseteq MemIds /\ \A i \in MemIds \ {j} : i \in recorded' <=> i \in recorded
    BY <1>2, <2>1 DEF MemTypes
  <2>7. QED
    BY <1>1, <1>2, <1>j, <2>1, <2>3, <2>4, <2>5, <2>6, WorkKeeps
<1>7. CASE MemFail(w)
  <2>r. PICK r : r = object[j].retries
    OBVIOUS
  <2>1. /\ worker[w].at = "run" /\ UNCHANGED executions
        /\ r \in Nat /\ r <= MaxRetries /\ executions[j] = r + 1
    BY <1>2, <1>3, <1>7, <2>r DEF MemFail, FailWith, Doing, MemObjects
  <2>2. PICK again \in BOOLEAN :
           /\ again <=> r + 1 <= MaxRetries
           /\ object' = [object EXCEPT ![j] = [status |-> IF again THEN "retry" ELSE "dead",
                                               retries |-> @.retries + 1]]
           /\ IF again THEN recorded' = recorded \cup {j} /\ Go(w, "requeue", j)
                       ELSE Go(w, "idle", NoId) /\ UNCHANGED recorded
    BY <1>7, <1>j, <2>r, <2>1 DEF MemFail, FailWith
  <2>3. /\ object' \in [MemIds -> MemObjects]
        /\ object'[j] = [status |-> IF again THEN "retry" ELSE "dead", retries |-> r + 1]
        /\ \A i \in MemIds \ {j} : object'[i] = object[i]
    BY <1>2, <1>3, <2>r, <2>1, <2>2 DEF MemTypes, MemObjects
  <2>4. /\ recorded' \subseteq MemIds /\ executions' \in [MemIds -> Nat]
        /\ \A i \in MemIds \ {j} : i \in recorded' <=> i \in recorded
    BY <1>2, <2>1, <2>2 DEF MemTypes
  <2>5. executions'[j] = r + 1 /\ executions'[j] <= MaxRetries + 1
    BY <2>1
  <2>6. CASE again
    <3>1. Go(w, "requeue", j) /\ j \in recorded'
      BY <2>2, <2>6
    <3>2. worker'[w].at = "requeue"
      BY <1>2, <3>1, GoFacts
    <3>3. object'[j].status = "retry" /\ object'[j].retries = r + 1
      BY <2>3, <2>6
    <3>4. Doing(w, j)'
      BY <1>2, <2>2, <2>5, <2>6, <3>1, <3>2, <3>3 DEF Doing, Ready
    <3>5. QED
      BY <1>1, <1>2, <1>j, <2>1, <2>3, <2>4, <2>5, <3>1, <3>3, <3>4, WorkKeeps
  <2>7. CASE ~again
    <3>1. Go(w, "idle", NoId)
      BY <2>2, <2>7
    <3>2. worker'[w].at = "idle"
      BY <3>1, GoFacts
    <3>3. object'[j].status = "dead"
      BY <2>3, <2>7
    <3>4. Doing(w, NoId)'
      BY <3>2 DEF Doing
    <3>5. QED
      BY <1>1, <1>2, <1>j, <2>1, <2>3, <2>4, <2>5, <3>1, <3>3, <3>4, WorkKeeps
  <2>8. QED
    BY <2>6, <2>7
<1>8. QED
  BY <1>4, <1>5, <1>6, <1>7

LEMMA MemStepPlaces == MemIInv /\ [MemNext]_memVars => MemPlaceInv'
<1> SUFFICES ASSUME MemIInv, [MemNext]_memVars PROVE MemPlaceInv'
  OBVIOUS
<1>0. MemPlaceInv /\ LookInv
  BY DEF MemIInv
<1>1. ASSUME UNCHANGED <<object, recorded, lists, listNo, pusher, worker, executions, safe>> PROVE MemPlaceInv'
  BY <1>0, <1>1 DEF MemPlaceInv, MemTypeOK, OnItsWayInv, OnePlaceInv, EndInv, Ready, InQueue, pushing
<1>2. ASSUME NEW w \in MemWorkers, WorkerStep(w) PROVE MemPlaceInv'
  <2>1. CASE MemCheck(w)
    BY <1>0, <2>1, IdleGoes DEF MemCheck
  <2>2. CASE ~MemCheck(w)
    BY <1>0, <1>2, <2>2, MemPopKeeps, MemRequeueKeeps, MemWorkKeeps, LookUpKeeps DEF WorkerStep
  <2>3. QED
    BY <2>1, <2>2
<1>3. ASSUME NEW j \in MemIds, PusherStep(j) PROVE MemPlaceInv'
  <2>1. MemTypes
    BY <1>0, MemParts
  <2>2. CASE MemTest(j)
    <3>1. PICK where \in {"create", "look"} : PushAt(j, where, 0)
      BY <2>2 DEF MemTest
    <3>2. QED
      BY <1>0, <2>1, <2>2, <3>1, PusherGoesOn, MemoryJobsAssumption DEF MemTest, MemTypes
  <2>3. CASE MemCreate(j)
    <3>1. listNo' \in 0..MaxLists
      BY <2>1, <2>3, MemoryJobsAssumption DEF MemCreate, MemTypes
    <3>2. QED
      BY <1>0, <2>3, <3>1, PusherGoesOn, MemoryJobsAssumption DEF MemCreate
  <2>4. CASE MemLook(j)
    <3>1. PICK n \in 0..MaxLists : n = listNo
      BY <2>1 DEF MemTypes
    <3>2. PushAt(j, "append", n)
      BY <2>4, <3>1 DEF MemLook, PushAt
    <3>3. QED
      BY <1>0, <2>1, <2>4, <3>1, <3>2, PusherGoesOn DEF MemLook, MemTypes
  <2>5. QED
    BY <1>0, <1>3, <2>2, <2>3, <2>4, MemPushKeeps DEF PusherStep
<1>4. QED
  BY <1>0, <1>1, <1>2, <1>3, MemEnqueueKeeps DEF MemNext, RunReadyJob, BecomeDue, memVars

\* A step of a worker looks the list up, or forgets the one it had.
Ways == {"idle", "pop", "dead", "take", "mark", "run", "requeue"}

LEMMA WorkerGoes ==
    ASSUME NEW w, WorkerStep(w), ~(MemPopLook(w) \/ MemRequeueLook(w))
    PROVE  \E where \in Ways : \E j : Go(w, where, j)
<1>1. CASE MemCheck(w) \/ MemComplete(w) \/ MemRequeue(w) \/ MemRun(w)
  BY <1>1, Zenon DEF MemCheck, MemComplete, MemRequeue, MemRun, Ways
<1>2. CASE MemPop(w)
  BY <1>2, Zenon DEF MemPop, Ways
<1>3. CASE MemTake(w)
  BY <1>3, Zenon DEF MemTake, Ways
<1>4. CASE MemFail(w)
  <2>1. \E j : Go(w, "requeue", j) \/ Go(w, "idle", j)
    BY <1>4, Zenon DEF MemFail, FailWith
  <2>2. QED
    BY <2>1, Zenon DEF Ways
<1>5. QED
  BY <1>1, <1>2, <1>3, <1>4 DEF WorkerStep

LEMMA WorkerMoves ==
    ASSUME MemTypes, NEW w \in MemWorkers, WorkerStep(w)
    PROVE  /\ UNCHANGED <<listNo, pusher, safe>>
           /\ \A v \in MemWorkers \ {w} : worker'[v] = worker[v]
<1>1. UNCHANGED <<listNo, pusher, safe>>
  BY DEF WorkerStep, MemCheck, MemPopLook, MemPop, MemTake, MemRun, MemComplete, MemFail, FailWith,
         MemRequeueLook, MemRequeue
<1>2. CASE MemPopLook(w) \/ MemRequeueLook(w)
  BY <1>1, <1>2 DEF MemPopLook, MemRequeueLook, LookUp, MemTypes, MemWorkerStates
<1>3. CASE ~(MemPopLook(w) \/ MemRequeueLook(w))
  <2>1. PICK where, j : Go(w, where, j)
    BY <1>3, WorkerGoes
  <2>2. QED
    BY <1>1, <2>1 DEF Go, MemTypes
<1>4. QED
  BY <1>2, <1>3

\* What a step does to the enqueues, the workers and the stored list.
LEMMA LookKeeps == MemIInv /\ [MemNext]_memVars => LookInv'
<1> SUFFICES ASSUME MemIInv, [MemNext]_memVars PROVE LookInv'
  OBVIOUS
<1> USE MemoryJobsAssumption
<1>0. MemTypes /\ LookInv
  BY MemParts DEF MemIInv
<1>1. CASE UNCHANGED <<listNo, pusher, worker>>
  BY <1>0, <1>1 DEF LookInv
<1>2. ASSUME NEW j \in MemIds, MemEnqueue(j) \/ PusherStep(j) PROVE LookInv'
  <2>1. UNCHANGED worker /\ listNo' \in {listNo, listNo + 1} /\ listNo \in Nat
    BY <1>0, <1>2 DEF MemEnqueue, PusherStep, MemTest, MemCreate, MemLook, MemPush, MemTypes
  <2>2. \A i \in MemIds \ {j} : pusher'[i] = pusher[i]
    BY <1>0, <1>2 DEF MemEnqueue, PusherStep, MemTest, MemCreate, MemLook, MemPush, PushAt, MemTypes
  <2>3. /\ pusher'[j].at = "look" => listNo' # 0
        /\ pusher'[j].at = "append" => pusher'[j].list # 0 /\ listNo' # 0
    <3>0. pusher[j].at = "look" => listNo # 0
      BY <1>0 DEF LookInv
    <3>1. CASE MemEnqueue(j)
      BY <1>0, <3>1 DEF MemEnqueue, PushAt, MemTypes
    <3>2. CASE MemTest(j)
      BY <1>0, <3>2 DEF MemTest, PushAt, MemTypes
    <3>3. CASE MemCreate(j)
      BY <1>0, <2>1, <3>3 DEF MemCreate, PushAt, MemTypes
    <3>4. CASE MemLook(j)
      BY <1>0, <3>0, <3>4 DEF MemLook, PushAt, MemTypes
    <3>5. CASE MemPush(j)
      BY <1>0, <3>5 DEF MemPush, PushAt, MemTypes
    <3>6. QED
      BY <1>2, <3>1, <3>2, <3>3, <3>4, <3>5 DEF PusherStep
  <2>4. QED
    BY <1>0, <2>1, <2>2, <2>3 DEF LookInv
<1>3. ASSUME NEW w \in MemWorkers, WorkerStep(w) PROVE LookInv'
  <2>1. UNCHANGED <<listNo, pusher>> /\ \A v \in MemWorkers \ {w} : worker'[v] = worker[v]
    BY <1>0, <1>3, WorkerMoves
  <2>2. listNo # 0
    BY <1>0, <1>3 DEF LookInv, WorkerStep, MemCheck, MemPopLook, MemPop, MemTake, MemRun, MemComplete, MemFail,
                      FailWith, MemRequeueLook, MemRequeue
  <2>3. worker'[w].at \in {"popping", "append"} => worker'[w].list # 0
    <3>1. CASE MemPopLook(w) \/ MemRequeueLook(w)
      BY <1>0, <2>2, <3>1 DEF MemPopLook, MemRequeueLook, LookUp, MemTypes, MemWorkerStates
    <3>2. CASE ~(MemPopLook(w) \/ MemRequeueLook(w))
      <4>1. PICK where \in Ways : \E j : Go(w, where, j)
        BY <1>3, <3>2, WorkerGoes
      <4>2. PICK j : Go(w, where, j)
        BY <4>1
      <4>3. worker'[w].at = where
        BY <1>0, <4>2 DEF Go, MemTypes
      <4>4. QED
        BY <4>1, <4>3 DEF Ways
    <3>3. QED
      BY <3>1, <3>2
  <2>4. QED
    BY <1>0, <2>1, <2>2, <2>3 DEF LookInv
<1>4. QED
  BY <1>1, <1>2, <1>3 DEF MemNext, RunReadyJob, BecomeDue, memVars

\* Once the list is settled no enqueue stores another.
LEMMA SettledKeeps == MemIInv /\ ListSettled /\ [MemNext]_memVars => ListSettled' /\ listNo' = listNo
<1> SUFFICES ASSUME MemIInv, ListSettled, [MemNext]_memVars PROVE ListSettled' /\ listNo' = listNo
  OBVIOUS
<1>0. MemTypes
  BY MemParts DEF MemIInv
<1>1. CASE UNCHANGED <<listNo, pusher>>
  BY <1>1 DEF ListSettled
<1>2. ASSUME NEW j \in MemIds, MemEnqueue(j) \/ PusherStep(j) PROVE ListSettled' /\ listNo' = listNo
  <2>1. listNo' = listNo /\ \E where \in {"no", "test", "look", "append"} : \E n : PushAt(j, where, n)
    BY <1>2 DEF ListSettled, MemEnqueue, PusherStep, MemTest, MemCreate, MemLook, MemPush
  <2>2. QED
    BY <1>0, <2>1 DEF ListSettled, PushAt, MemTypes
<1>3. CASE \E w \in MemWorkers : WorkerStep(w)
  <2>1. UNCHANGED <<listNo, pusher>>
    BY <1>3 DEF WorkerStep, MemCheck, MemPopLook, MemPop, MemTake, MemRun, MemComplete, MemFail, FailWith,
                MemRequeueLook, MemRequeue
  <2>2. QED
    BY <1>1, <2>1
<1>4. QED
  BY <1>1, <1>2, <1>3 DEF MemNext, RunReadyJob, BecomeDue, memVars

\* What the invariant says of one job that is safe.
SafeJob(j) ==
    /\ ~Stranded(j) /\ object[j].status # "none"
    /\ pusher[j].at = "append" => pusher[j].list = listNo
    /\ \A w \in MemWorkers : worker[w].job = j /\ worker[w].at = "append" => worker[w].list = listNo

\* An enqueue of another job leaves a safe job where it is, its own goes to the stored list.
LEMMA SafePushKeeps ==
    ASSUME MemIInv, NEW j \in safe, ListSettled, NEW i \in MemIds, MemEnqueue(i) \/ PusherStep(i),
           listNo' = listNo
    PROVE  SafeJob(j)'
<1> USE MemoryJobsAssumption
<1>0. MemTypes /\ LookInv /\ SafeJob(j) /\ j \in MemIds /\ MemPlaceInv
  BY MemParts DEF MemIInv, SafeInv, SafeJob, MemTypes
<1>1. UNCHANGED worker
  BY DEF MemEnqueue, PusherStep, MemTest, MemCreate, MemLook, MemPush
<1>2. object'[j].status # "none"
  BY <1>0 DEF MemEnqueue, PusherStep, MemTest, MemCreate, MemLook, MemPush, SafeJob, MemTypes, MemObjects
<1>3. pusher'[j].at = "append" => pusher'[j].list = listNo
  <2>1. CASE i # j
    <3>1. pusher'[j] = pusher[j]
      BY <1>0, <2>1 DEF MemEnqueue, PusherStep, MemTest, MemCreate, MemLook, MemPush, PushAt, MemTypes
    <3>2. QED
      BY <1>0, <3>1 DEF SafeJob
  <2>2. CASE i = j
    <3>1. PICK where, n : PushAt(j, where, n) /\ (where = "append" => n = listNo)
      BY <2>2 DEF MemEnqueue, PusherStep, MemTest, MemCreate, MemLook, MemPush
    <3>2. pusher'[j].at = where /\ pusher'[j].list = n
      BY <1>0, <3>1 DEF PushAt, MemTypes
    <3>3. QED
      BY <3>1, <3>2
  <2>3. QED
    BY <2>1, <2>2
<1>4. ~Stranded(j)'
  <2>1. CASE UNCHANGED lists
    BY <1>0, <2>1 DEF SafeJob, Stranded
  <2>2. CASE MemPush(i)
    <3>l. PICK l : l = pusher[i].list
      OBVIOUS
    <3>1. l \in ListNos /\ lists' = [lists EXCEPT ![l] = Append(lists[l], i)]
      BY <1>0, <2>2, <3>l DEF MemPush, LookInv, MemTypes, MemPusherStates, ListNos
    <3>2. i = j => l = listNo
      BY <1>0, <2>2, <3>l DEF MemPush, SafeJob
    <3>3. lists[l] \in Seq(MemIds) /\ lists'[l] = Append(lists[l], i)
          /\ \A n \in ListNos \ {l} : lists'[n] = lists[n]
      BY <1>0, <3>1 DEF MemTypes
    <3>4. \A k \in DOMAIN lists'[l] : (k \in DOMAIN lists[l] /\ lists'[l][k] = lists[l][k]) \/ lists'[l][k] = i
      BY <3>3
    <3>5. QED
      BY <1>0, <3>1, <3>2, <3>3, <3>4 DEF SafeJob, Stranded
  <2>3. QED
    BY <2>1, <2>2 DEF MemEnqueue, PusherStep, MemTest, MemCreate, MemLook
<1>5. QED
  BY <1>0, <1>1, <1>2, <1>3, <1>4 DEF SafeJob

\* A worker puts a safe job back into the stored list only.
LEMMA SafeWorkKeeps ==
    ASSUME MemIInv, NEW j \in safe, NEW w \in MemWorkers, WorkerStep(w)
    PROVE  SafeJob(j)'
<1> USE MemoryJobsAssumption
<1>0. MemTypes /\ LookInv /\ SafeJob(j) /\ j \in MemIds /\ MemPlaceInv
  BY MemParts DEF MemIInv, SafeInv, SafeJob, MemTypes
<1>i. PICK i : i = worker[w].job
  OBVIOUS
<1>1. UNCHANGED <<listNo, pusher>> /\ \A v \in MemWorkers \ {w} : worker'[v] = worker[v]
  BY <1>0, WorkerMoves
<1>2. object'[j].status # "none"
  <2>1. object[j].status # "none" /\ object[j] \in MemObjects
    BY <1>0 DEF SafeJob, MemTypes
  <2>2. CASE UNCHANGED object
    BY <2>1, <2>2
  <2>3. CASE MemRun(w)
    BY <1>0, <2>1, <2>3 DEF MemRun, MemTypes, MemObjects
  <2>4. CASE MemComplete(w)
    BY <1>0, <2>1, <2>4 DEF MemComplete, MemTypes, MemObjects
  <2>5. CASE MemFail(w)
    BY <1>0, <2>1, <2>5 DEF MemFail, FailWith, MemTypes, MemObjects
  <2>6. QED
    BY <2>2, <2>3, <2>4, <2>5 DEF WorkerStep, MemCheck, MemPopLook, MemPop, MemTake, MemRequeueLook, MemRequeue
<1>3. worker'[w].at = "append" => worker'[w].list = listNo
  <2>1. CASE MemPopLook(w) \/ MemRequeueLook(w)
    BY <1>0, <2>1 DEF MemPopLook, MemRequeueLook, LookUp, MemTypes, MemWorkerStates
  <2>2. CASE ~(MemPopLook(w) \/ MemRequeueLook(w))
    <3>1. PICK where \in Ways : \E x : Go(w, where, x)
      BY <2>2, WorkerGoes
    <3>2. PICK x : Go(w, where, x)
      BY <3>1
    <3>3. worker'[w].at = where
      BY <1>0, <3>2 DEF Go, MemTypes
    <3>4. QED
      BY <3>1, <3>3 DEF Ways
  <2>3. QED
    BY <2>1, <2>2
<1>4. ~Stranded(j)'
  <2>1. CASE UNCHANGED lists
    BY <1>0, <1>1, <2>1 DEF SafeJob, Stranded
  <2>l. PICK l : l = worker[w].list
    OBVIOUS
  <2>2. CASE MemPop(w) /\ lists' # lists
    <3>1. /\ l \in ListNos /\ lists[l] # <<>> /\ lists' = [lists EXCEPT ![l] = Tail(lists[l])]
      BY <1>0, <2>2, <2>l DEF MemPop, LookInv, MemTypes, MemWorkerStates, ListNos
    <3>s. PICK s \in Seq(MemIds) : s = lists[l]
      BY <1>0, <3>1 DEF MemTypes
    <3>2. s # <<>> /\ lists'[l] = Tail(s) /\ \A n \in ListNos \ {l} : lists'[n] = lists[n]
      BY <1>0, <3>1, <3>s DEF MemTypes
    <3>3. \A k \in DOMAIN lists'[l] : k + 1 \in DOMAIN lists[l] /\ lists'[l][k] = lists[l][k + 1]
      BY <3>2, <3>s, TailEntries
    <3>4. ASSUME NEW n \in ListNos \ {listNo}, NEW k \in DOMAIN lists'[n] PROVE lists'[n][k] # j
      <4>1. CASE n = l
        BY <1>0, <3>3, <4>1 DEF SafeJob, Stranded
      <4>2. CASE n # l
        BY <1>0, <3>2, <4>2 DEF SafeJob, Stranded
      <4>3. QED
        BY <4>1, <4>2
    <3>5. QED
      BY <1>1, <3>4 DEF Stranded
  <2>3. CASE MemRequeue(w)
    <3>1. /\ l \in ListNos /\ lists' = [lists EXCEPT ![l] = Append(lists[l], i)]
      BY <1>0, <1>i, <2>3, <2>l DEF MemRequeue, LookInv, MemTypes, MemWorkerStates, ListNos
    <3>2. i = j => l = listNo
      BY <1>0, <1>i, <2>3, <2>l DEF MemRequeue, SafeJob
    <3>3. i \in MemIds
      BY <1>0, <1>i, <2>3, HoldFacts DEF MemRequeue
    <3>4. lists[l] \in Seq(MemIds) /\ lists'[l] = Append(lists[l], i)
          /\ \A n \in ListNos \ {l} : lists'[n] = lists[n]
      BY <1>0, <3>1 DEF MemTypes
    <3>5. \A k \in DOMAIN lists'[l] : (k \in DOMAIN lists[l] /\ lists'[l][k] = lists[l][k]) \/ lists'[l][k] = i
      BY <3>3, <3>4
    <3>6. QED
      BY <1>0, <1>1, <3>1, <3>2, <3>4, <3>5 DEF SafeJob, Stranded
  <2>4. QED
    BY <2>1, <2>2, <2>3 DEF WorkerStep, MemCheck, MemPopLook, MemTake, MemRun, MemComplete, MemFail,
                            FailWith, MemRequeueLook
<1>5. QED
  BY <1>0, <1>1, <1>2, <1>3, <1>4 DEF SafeJob

\* A job whose enqueue begins when the list is settled is nowhere yet.
LEMMA SafeBegins ==
    ASSUME MemIInv, NEW j \in MemIds, MemEnqueue(j), ListSettled PROVE SafeJob(j)'
<1>0. MemTypes /\ WaitInv(j) /\ MemPlaceInv
  BY MemParts DEF MemIInv
<1>1. /\ object[j].status = "none" /\ object'[j].status = "pending" /\ pusher'[j].at = "test"
      /\ UNCHANGED <<lists, listNo, worker>>
  BY <1>0 DEF MemEnqueue, PushAt, MemTypes, MemObjects
<1>2. ~InQueue(j)
  BY <1>0, <1>1 DEF WaitInv, Ready
<1>3. ASSUME NEW w \in MemWorkers PROVE worker[w].job # j
  <2>1. worker[w].job = j => Doing(w, j) /\ worker[w].at \in {"take", "mark", "run", "requeue", "append"}
    BY <1>0, HoldFacts DEF HeldInv
  <2>2. QED
    BY <1>1, <2>1 DEF Doing, Ready
<1>4. QED
  BY <1>1, <1>2, <1>3 DEF SafeJob, Stranded, InQueue

LEMMA SafeKeeps == MemIInv /\ [MemNext]_memVars => SafeInv'
<1> SUFFICES ASSUME MemIInv, [MemNext]_memVars PROVE SafeInv'
  OBVIOUS
<1>0. MemTypes /\ \A j \in safe : ListSettled /\ SafeJob(j)
  BY MemParts DEF MemIInv, SafeInv, SafeJob
<1>1. ASSUME NEW j \in safe' PROVE ListSettled' /\ SafeJob(j)'
  <2>1. CASE j \in safe
    <3>1. ListSettled' /\ listNo' = listNo
      BY <1>0, <2>1, SettledKeeps
    <3>2. CASE UNCHANGED <<object, lists, pusher, worker>>
      BY <1>0, <2>1, <3>1, <3>2 DEF SafeJob, Stranded
    <3>3. CASE \E i \in MemIds : MemEnqueue(i) \/ PusherStep(i)
      BY <1>0, <2>1, <3>1, <3>3, SafePushKeeps
    <3>4. CASE \E w \in MemWorkers : WorkerStep(w)
      BY <2>1, <3>1, <3>4, SafeWorkKeeps
    <3>5. QED
      BY <3>1, <3>2, <3>3, <3>4 DEF MemNext, RunReadyJob, BecomeDue, memVars
  <2>2. CASE j \notin safe
    <3>1. j \in MemIds /\ MemEnqueue(j) /\ ListSettled
      <4>1. \E i \in MemIds : MemEnqueue(i)
        BY <2>2 DEF MemNext, RunReadyJob, BecomeDue, memVars, PusherStep, MemTest, MemCreate, MemLook, MemPush,
                    WorkerStep, MemCheck, MemPopLook, MemPop, MemTake, MemRun, MemComplete, MemFail, FailWith,
                    MemRequeueLook, MemRequeue
      <4>2. QED
        BY <2>2, <4>1 DEF MemEnqueue
    <3>2. QED
      BY <3>1, SafeBegins, SettledKeeps
  <2>3. QED
    BY <2>1, <2>2
<1>2. QED
  BY <1>1 DEF SafeInv, SafeJob

LEMMA MemStepIInv == MemIInv /\ [MemNext]_memVars => MemIInv'
  BY MemStepPlaces, LookKeeps, SafeKeeps DEF MemIInv

\* A job is in one place at a time until it ends, is run at most max_retries + 1 times, and is
\* in no replaced list if the list was settled when its enqueue began.
THEOREM MemoryJobsAreSafe == MemSpec => []MemJobsSafe
<1> USE MemoryJobsAssumption
<1>1. MemInit => MemIInv
  <2> SUFFICES ASSUME MemInit PROVE MemIInv
    OBVIOUS
  <2>1. /\ lists \in [ListNos -> Seq(MemIds)] /\ \A n \in ListNos : DOMAIN lists[n] = {}
    <3>1. <<>> \in Seq(MemIds) /\ DOMAIN <<>> = {}
      OBVIOUS
    <3>2. QED
      BY <3>1 DEF MemInit
  <2>2. pushing = {} /\ \A j : ~InQueue(j)
    BY <2>1 DEF MemInit, pushing, InQueue
  <2>3. MemTypeOK
    BY <2>1 DEF MemInit, MemTypeOK
  <2>4. OnItsWayInv /\ OnePlaceInv /\ EndInv
    BY <2>1, <2>2 DEF MemInit, OnItsWayInv, OnePlaceInv, EndInv
  <2>5. LookInv /\ SafeInv
    BY DEF MemInit, LookInv, SafeInv
  <2>6. QED
    BY <2>3, <2>4, <2>5 DEF MemIInv, MemPlaceInv
<1>2. MemIInv => MemJobsSafe
  <2> SUFFICES ASSUME MemIInv, NEW j \in MemIds
               PROVE  /\ \A v, w \in MemWorkers : worker[v].job = j /\ worker[w].job = j => v = w
                      /\ executions[j] <= MaxRetries + 1
                      /\ (IF j \in pushing THEN 1 ELSE 0) + Cardinality(ListPlaces(j))
                         + (IF \E w \in MemWorkers : worker[w].job = j THEN 1 ELSE 0)
                           = IF object[j].status \in {"none", "completed", "dead"} THEN 0 ELSE 1
                      /\ j \in safe => ~Stranded(j)
    BY DEF MemJobsSafe
  <2> DEFINE held == \E w \in MemWorkers : worker[w].job = j
             ended == object[j].status \in {"none", "completed", "dead"}
  <2>0. MemPlaceInv
    BY DEF MemIInv
  <2>1. WaitInv(j) /\ JobInv(j) /\ MemTypes /\ Distinct
    BY <2>0, MemParts
  <2>2. \A w \in MemWorkers : worker[w].job = j => HeldInv(w, j) /\ Doing(w, j)
    BY <2>0, HoldFacts DEF HeldInv
  <2>3. \A w \in MemWorkers :
           worker[w].job = j => worker[w].at \in {"take", "mark", "run", "requeue", "append"}
    BY <2>0, HoldFacts
\* In at most one place, and in one unless ended.
  <2>4. ~(j \in pushing /\ InQueue(j)) /\ (held => j \notin pushing /\ ~InQueue(j))
    BY <2>1, <2>2 DEF WaitInv, HeldInv
  <2>5. held => ~ended
    BY <2>2, <2>3 DEF Doing, Ready
  <2>6. ended <=> ~(j \in pushing \/ InQueue(j) \/ held)
    BY <2>1, <2>5 DEF WaitInv, JobInv, Ready
  <2>7. ~InQueue(j) => Cardinality(ListPlaces(j)) = 0
    <3>1. ~InQueue(j) => ListPlaces(j) = {}
      BY DEF InQueue, ListPlaces
    <3>2. QED
      BY <3>1, FS_EmptySet
  <2>8. InQueue(j) => Cardinality(ListPlaces(j)) = 1
    <3> SUFFICES ASSUME InQueue(j) PROVE Cardinality(ListPlaces(j)) = 1
      OBVIOUS
    <3>1. PICK n \in ListNos : \E i \in DOMAIN lists[n] : lists[n][i] = j
      BY DEF InQueue
    <3>2. PICK i \in DOMAIN lists[n] : lists[n][i] = j
      BY <3>1
    <3>3. \A m \in ListNos : {k \in DOMAIN lists[m] : lists[m][k] = j} = IF m = n THEN {i} ELSE {}
      BY <2>1, <3>2 DEF Distinct
    <3>4. ListPlaces(j) = {<<n, i>>}
      <4>1. \A x \in ListPlaces(j) : x = <<n, i>>
        <5> SUFFICES ASSUME NEW x \in ListPlaces(j) PROVE x = <<n, i>>
          OBVIOUS
        <5>1. PICK m \in ListNos : x \in {m} \X {k \in DOMAIN lists[m] : lists[m][k] = j}
          BY DEF ListPlaces
        <5>2. x \in {m} \X (IF m = n THEN {i} ELSE {})
          BY <3>3, <5>1
        <5>3. QED
          BY <5>2
      <4>2. <<n, i>> \in {n} \X {k \in DOMAIN lists[n] : lists[n][k] = j}
        BY <3>2
      <4>3. QED
        BY <4>1, <4>2 DEF ListPlaces
    <3>5. QED
      BY <3>4, FS_Singleton
  <2>9. (IF j \in pushing THEN 1 ELSE 0) + Cardinality(ListPlaces(j)) + (IF held THEN 1 ELSE 0)
          = IF ended THEN 0 ELSE 1
    <3> HIDE DEF held, ended
    <3>1. QED
      BY <2>4, <2>6, <2>7, <2>8
  <2>10. \A v, w \in MemWorkers : worker[v].job = j /\ worker[w].job = j => v = w
    BY <2>0, <2>2, MemoryJobsAssumption DEF HeldInv
  <2>11. j \in safe => ~Stranded(j)
    BY DEF MemIInv, SafeInv
  <2>12. QED
    BY <2>1, <2>9, <2>10, <2>11 DEF JobInv
<1>3. QED
  BY <1>1, <1>2, MemStepIInv, PTL DEF MemSpec

-----------------------------------------------------------------------------
(* Audit: entries of racing threads *)

AuditSpec == AuditInit /\ [][AuditNext]_auditVars

AuditorStates == [at : {"idle", "create", "read", "log"}, manager : Nat,
                  written : Nat, safe : BOOLEAN]

LogInv(log) ==
    /\ Ordered(log)
    /\ \A i \in DOMAIN log : log[i].nr <= auditor[log[i].by].written

ThreadInv(t) ==
    /\ auditor[t].at = "read" => auditManager # 0
    /\ auditor[t].at = "log" => auditor[t].manager \in DOMAIN auditLogs
    /\ auditor[t].safe => Settled
    /\ auditor[t].safe /\ auditor[t].at = "log" => auditor[t].manager = auditManager

InLog(log, e) == \E i \in DOMAIN log : log[i] = e

EntryInv(e) ==
    /\ e \in Entries /\ \E m \in DOMAIN auditLogs : InLog(auditLogs[m], e)
    /\ e.safe => Settled /\ InLog(auditLogs[auditManager], e)

AuditTypes ==
    /\ auditLogs \in Seq(Seq(Entries)) /\ auditManager \in 0..Len(auditLogs)
    /\ auditor \in [Auditors -> AuditorStates]

LEMMA AuditSplit ==
    AuditIInv => /\ AuditTypes
                 /\ \A m \in DOMAIN auditLogs : LogInv(auditLogs[m])
                 /\ \A t \in Auditors : ThreadInv(t)
                 /\ \A e \in trail : EntryInv(e)
BY DEF AuditIInv, AuditTypeOK, AuditTypes, AuditorStates, LogInv, ThreadInv, EntryInv,
       InLog, AuditLog, Settled

LEMMA AuditJoin ==
    ASSUME AuditTypes', \A m \in DOMAIN auditLogs' : LogInv(auditLogs[m])',
           \A t \in Auditors : ThreadInv(t)', \A e \in trail' : EntryInv(e)'
    PROVE  AuditIInv'
BY DEF AuditIInv, AuditTypeOK, AuditTypes, AuditorStates, LogInv, ThreadInv, EntryInv,
       InLog, AuditLog, Settled

LEMMA EntryFacts ==
    ASSUME NEW log \in Seq(Entries), NEW i \in DOMAIN log
    PROVE  i \in Nat /\ log[i] \in Entries /\ log[i].by \in Auditors /\ log[i].nr \in Nat
<1>1. i \in Nat /\ log[i] \in Entries
  OBVIOUS
<1>2. QED
  BY <1>1 DEF Entries

\* The state of the thread that makes a step.
LEMMA AuditorFacts ==
    ASSUME AuditIInv, NEW t \in Auditors, NEW new \in AuditorStates,
           auditor' = [auditor EXCEPT ![t] = new]
    PROVE  /\ auditor' \in [Auditors -> AuditorStates] /\ auditor'[t] = new
           /\ \A u \in Auditors \ {t} : auditor'[u] = auditor[u]
BY AuditSplit DEF AuditTypes

LEMMA GetManagerKeeps ==
    ASSUME AuditIInv, NEW t \in Auditors, GetManager(t) PROVE AuditIInv'
<1>s. PICK settled \in BOOLEAN : settled <=> Settled
  OBVIOUS
<1> DEFINE where == IF auditManager = 0 THEN "create" ELSE "read"
           new == [auditor[t] EXCEPT !.at = where, !.safe = settled]
<1>0. auditor[t] \in AuditorStates /\ auditManager \in Nat
  BY AuditSplit DEF AuditTypes
<1>1. /\ auditor' = [auditor EXCEPT ![t].at = where, ![t].safe = Settled]
      /\ auditor[t].at = "idle" /\ UNCHANGED <<auditManager, auditLogs, trail>>
  BY DEF GetManager, TestManager
<1>2. auditor' = [auditor EXCEPT ![t] = new]
  BY <1>0, <1>1, <1>s, AuditSplit DEF AuditTypes
<1>3. /\ new \in AuditorStates /\ new.at = where /\ new.safe = settled
      /\ new.written = auditor[t].written
  BY <1>0, <1>s DEF AuditorStates
<1> HIDE DEF new
<1>4. /\ auditor' \in [Auditors -> AuditorStates] /\ auditor'[t] = new
      /\ \A u \in Auditors \ {t} : auditor'[u] = auditor[u]
  BY <1>2, <1>3, AuditorFacts
\* Once all is settled nobody makes a manager any more.
<1>5. Settled => Settled'
  BY <1>1, <1>3, <1>4 DEF Settled
<1>6. ASSUME NEW u \in Auditors PROVE ThreadInv(u)'
  <2>1. CASE u = t
    BY <1>1, <1>3, <1>4, <1>5, <1>s, <2>1 DEF ThreadInv
  <2>2. CASE u # t
    <3>1. ThreadInv(u)
      BY AuditSplit
    <3>2. QED
      BY <1>1, <1>4, <1>5, <2>2, <3>1 DEF ThreadInv
  <2>3. QED
    BY <2>1, <2>2
<1>7. \A m \in DOMAIN auditLogs' : LogInv(auditLogs[m])'
  <2>1. \A u \in Auditors : auditor'[u].written = auditor[u].written
    BY <1>3, <1>4
  <2>2. ASSUME NEW m \in DOMAIN auditLogs PROVE LogInv(auditLogs[m])'
    <3>l. PICK log : log = auditLogs[m]
      OBVIOUS
    <3>1. LogInv(log) /\ log \in Seq(Entries) /\ auditLogs'[m] = log
      BY <1>1, <3>l, AuditSplit DEF AuditTypes
    <3>2. \A i \in DOMAIN log : log[i].by \in Auditors
      BY <3>1, EntryFacts
    <3>3. QED
      BY <2>1, <3>1, <3>2 DEF LogInv, Ordered
  <2>3. QED
    BY <1>1, <2>2
<1>8. \A e \in trail' : EntryInv(e)'
  BY <1>1, <1>5, AuditSplit DEF EntryInv, InLog
<1>9. AuditTypes'
  BY <1>1, <1>4, AuditSplit DEF AuditTypes
<1>10. QED
  BY <1>6, <1>7, <1>8, <1>9, AuditJoin

LEMMA CreateManagerKeeps ==
    ASSUME AuditIInv, NEW t \in Auditors, CreateManager(t) PROVE AuditIInv'
<1>n. PICK n : n = Len(auditLogs) + 1
  OBVIOUS
<1> DEFINE new == [auditor[t] EXCEPT !.at = "read"]
<1>0. auditor[t] \in AuditorStates /\ AuditTypes
  BY AuditSplit DEF AuditTypes
<1>1. /\ auditor' = [auditor EXCEPT ![t] = new] /\ auditor[t].at = "create"
      /\ auditLogs' = Append(auditLogs, <<>>) /\ auditManager' = n /\ UNCHANGED trail
  BY <1>n DEF CreateManager
<1>2. /\ new \in AuditorStates /\ new.at = "read" /\ new.safe = auditor[t].safe
      /\ new.written = auditor[t].written
  BY <1>0 DEF AuditorStates
<1> HIDE DEF new
<1>3. /\ auditor' \in [Auditors -> AuditorStates] /\ auditor'[t] = new
      /\ \A u \in Auditors \ {t} : auditor'[u] = auditor[u]
  BY <1>1, <1>2, AuditorFacts
<1>4. /\ <<>> \in Seq(Entries) /\ auditLogs' \in Seq(Seq(Entries))
      /\ Len(auditLogs') = n /\ n \in Nat \ {0} /\ DOMAIN auditLogs' = DOMAIN auditLogs \cup {n}
      /\ auditLogs'[n] = <<>> /\ \A m \in DOMAIN auditLogs : auditLogs'[m] = auditLogs[m]
  BY <1>0, <1>1, <1>n DEF AuditTypes
\* t was about to make a manager: not all was settled.
<1>5. ~Settled
  BY <1>1 DEF Settled
<1>6. ASSUME NEW u \in Auditors PROVE ThreadInv(u)'
  <2>1. ThreadInv(u) /\ ThreadInv(t)
    BY AuditSplit
  <2>2. CASE u = t
    BY <1>1, <1>2, <1>3, <1>4, <1>5, <2>1, <2>2 DEF ThreadInv
  <2>3. CASE u # t
    BY <1>1, <1>3, <1>4, <1>5, <2>1, <2>3 DEF ThreadInv
  <2>4. QED
    BY <2>2, <2>3
<1>7. ASSUME NEW m \in DOMAIN auditLogs' PROVE LogInv(auditLogs[m])'
  <2>1. CASE m \in DOMAIN auditLogs
    <3>l. PICK log : log = auditLogs[m]
      OBVIOUS
    <3>1. LogInv(log) /\ log \in Seq(Entries) /\ auditLogs'[m] = log
      BY <1>0, <1>4, <2>1, <3>l, AuditSplit DEF AuditTypes
    <3>2. \A i \in DOMAIN log : log[i].by \in Auditors
      BY <3>1, EntryFacts
    <3>3. \A u \in Auditors : auditor'[u].written = auditor[u].written
      BY <1>2, <1>3
    <3>4. QED
      BY <3>1, <3>2, <3>3 DEF LogInv, Ordered
  <2>2. CASE m = n
    BY <1>4, <2>2 DEF LogInv, Ordered
  <2>3. QED
    BY <1>4, <2>1, <2>2
<1>8. \A e \in trail' : EntryInv(e)'
  <2>1. \A e \in trail : EntryInv(e) /\ ~e.safe
    BY <1>5, AuditSplit DEF EntryInv
  <2>2. QED
    BY <1>1, <1>4, <2>1 DEF EntryInv, InLog
<1>9. AuditTypes'
  BY <1>1, <1>3, <1>4 DEF AuditTypes
<1>10. QED
  BY <1>6, <1>7, <1>8, <1>9, AuditJoin

LEMMA ReadManagerKeeps ==
    ASSUME AuditIInv, NEW t \in Auditors, ReadManager(t) PROVE AuditIInv'
<1> DEFINE new == [auditor[t] EXCEPT !.at = "log", !.manager = auditManager]
<1>0. auditor[t] \in AuditorStates /\ AuditTypes
  BY AuditSplit DEF AuditTypes
<1>1. /\ auditor' = [auditor EXCEPT ![t] = new] /\ auditor[t].at = "read"
      /\ UNCHANGED <<auditManager, auditLogs, trail>>
  BY <1>0 DEF ReadManager, AuditTypes
<1>m. auditManager \in Nat
  BY <1>0 DEF AuditTypes
<1>2. /\ new \in AuditorStates /\ new.at = "log" /\ new.safe = auditor[t].safe
      /\ new.written = auditor[t].written /\ new.manager = auditManager
  BY <1>0, <1>m DEF AuditorStates
<1> HIDE DEF new
<1>3. /\ auditor' \in [Auditors -> AuditorStates] /\ auditor'[t] = new
      /\ \A u \in Auditors \ {t} : auditor'[u] = auditor[u]
  BY <1>1, <1>2, AuditorFacts
<1>4. Settled => Settled'
  BY <1>1, <1>2, <1>3 DEF Settled
<1>5. ASSUME NEW u \in Auditors PROVE ThreadInv(u)'
  <2>1. ThreadInv(u) /\ auditManager \in 0..Len(auditLogs)
    BY <1>0, AuditSplit DEF AuditTypes
  <2>2. auditManager # 0 => auditManager \in DOMAIN auditLogs
    BY <1>0, <2>1 DEF AuditTypes
  <2>3. QED
    BY <1>1, <1>2, <1>3, <1>4, <2>1, <2>2 DEF ThreadInv
<1>6. ASSUME NEW m \in DOMAIN auditLogs' PROVE LogInv(auditLogs[m])'
  <2>l. PICK log : log = auditLogs[m]
    OBVIOUS
  <2>1. LogInv(log) /\ log \in Seq(Entries) /\ auditLogs'[m] = log
    BY <1>0, <1>1, <2>l, AuditSplit DEF AuditTypes
  <2>2. \A i \in DOMAIN log : log[i].by \in Auditors
    BY <2>1, EntryFacts
  <2>3. \A u \in Auditors : auditor'[u].written = auditor[u].written
    BY <1>2, <1>3
  <2>4. QED
    BY <2>1, <2>2, <2>3 DEF LogInv, Ordered
<1>7. \A e \in trail' : EntryInv(e)'
  BY <1>1, <1>4, AuditSplit DEF EntryInv, InLog
<1>8. AuditTypes'
  BY <1>0, <1>1, <1>3 DEF AuditTypes
<1>9. QED
  BY <1>5, <1>6, <1>7, <1>8, AuditJoin

LEMMA LogActionKeeps ==
    ASSUME AuditIInv, NEW t \in Auditors, LogAction(t) PROVE AuditIInv'
<1>k. PICK k : k = auditor[t].manager
  OBVIOUS
<1>w. PICK w : w = auditor[t].written + 1
  OBVIOUS
<1>e. PICK e : e = [by |-> t, nr |-> w, safe |-> auditor[t].safe]
  OBVIOUS
<1> DEFINE new == [auditor[t] EXCEPT !.at = "idle", !.written = w]
<1>0. auditor[t] \in AuditorStates /\ AuditTypes /\ ThreadInv(t)
  BY AuditSplit DEF AuditTypes
<1>1. /\ auditor' = [auditor EXCEPT ![t].at = "idle", ![t].written = @ + 1]
      /\ auditor[t].at = "log" /\ auditLogs' = [auditLogs EXCEPT ![k] = Append(auditLogs[k], e)]
      /\ trail' = trail \cup {e} /\ UNCHANGED auditManager
  BY <1>k, <1>w, <1>e DEF LogAction
<1>2. auditor' = [auditor EXCEPT ![t] = new]
  BY <1>0, <1>1, <1>w DEF AuditTypes
<1>n. w \in Nat /\ w > auditor[t].written
  BY <1>0, <1>w DEF AuditorStates
<1>3. /\ new \in AuditorStates /\ new.at = "idle" /\ new.safe = auditor[t].safe
      /\ new.written = w /\ w \in Nat /\ w > auditor[t].written
  BY <1>0, <1>n DEF AuditorStates
<1> HIDE DEF new
<1>4. /\ auditor' \in [Auditors -> AuditorStates] /\ auditor'[t] = new
      /\ \A u \in Auditors \ {t} : auditor'[u] = auditor[u]
  BY <1>2, <1>3, AuditorFacts
<1>5. e \in Entries /\ e.by = t /\ e.nr = w /\ e.safe = auditor[t].safe
  BY <1>0, <1>3, <1>e DEF Entries, AuditorStates
<1>6. k \in DOMAIN auditLogs
  BY <1>0, <1>1, <1>k DEF ThreadInv
<1>l. PICK log : log = auditLogs[k]
  OBVIOUS
<1> DEFINE longer == Append(log, e)
<1>7. /\ log \in Seq(Entries) /\ longer \in Seq(Entries)
      /\ DOMAIN longer = DOMAIN log \cup {Len(log) + 1} /\ longer[Len(log) + 1] = e
      /\ \A i \in DOMAIN log : longer[i] = log[i] /\ i < Len(log) + 1
  BY <1>0, <1>5, <1>6, <1>l DEF AuditTypes
<1> HIDE DEF longer
<1>8. /\ auditLogs' \in Seq(Seq(Entries)) /\ DOMAIN auditLogs' = DOMAIN auditLogs
      /\ Len(auditLogs') = Len(auditLogs) /\ auditLogs'[k] = longer
      /\ \A m \in DOMAIN auditLogs \ {k} : auditLogs'[m] = auditLogs[m]
  <2>1. auditLogs' = [auditLogs EXCEPT ![k] = longer]
    BY <1>1, <1>l DEF longer
  <2>2. QED
    BY <1>0, <1>6, <1>7, <2>1 DEF AuditTypes
<1>9. Settled => Settled'
  BY <1>1, <1>3, <1>4 DEF Settled
<1>10. ASSUME NEW u \in Auditors PROVE ThreadInv(u)'
  <2>1. ThreadInv(u)
    BY AuditSplit
  <2>2. CASE u = t
    BY <1>0, <1>3, <1>4, <1>9, <2>2 DEF ThreadInv
  <2>3. CASE u # t
    BY <1>1, <1>4, <1>8, <1>9, <2>1, <2>3 DEF ThreadInv
  <2>4. QED
    BY <2>2, <2>3
\* The new entry has a number above all those its thread has written.
<1>11. ASSUME NEW m \in DOMAIN auditLogs PROVE LogInv(auditLogs[m])'
  <2>o. PICK old : old = auditLogs[m]
    OBVIOUS
  <2>1. LogInv(old) /\ old \in Seq(Entries)
    BY <1>0, <2>o, AuditSplit DEF AuditTypes
  <2>2. \A i \in DOMAIN old : old[i].by \in Auditors /\ old[i].nr \in Nat
    BY <2>1, EntryFacts
  <2>3. \A u \in Auditors : auditor'[u].written \in Nat /\ auditor[u].written \in Nat
                           /\ auditor[u].written <= auditor'[u].written
    <3>1. \A u \in Auditors : auditor'[u].written \in Nat /\ auditor[u].written \in Nat
      BY <1>0, <1>4 DEF AuditTypes, AuditorStates
    <3>2. \A u \in Auditors : auditor'[u] = auditor[u] \/ auditor'[u].written > auditor[u].written
      BY <1>3, <1>4
    <3>3. QED
      BY <3>1, <3>2
  <2>4. \A i \in DOMAIN old : old[i].nr <= auditor'[old[i].by].written
    BY <2>1, <2>2, <2>3 DEF LogInv
  <2>5. CASE m # k
    <3>1. auditLogs'[m] = old
      BY <1>8, <2>5, <2>o
    <3>2. QED
      BY <2>1, <2>4, <3>1 DEF LogInv, Ordered
  <2>6. CASE m = k
    <3>1. old = log /\ auditLogs'[m] = longer
      BY <1>8, <1>l, <2>6, <2>o
    <3>2. \A i \in DOMAIN log : log[i].by = t => log[i].nr < w
      BY <1>3, <2>1, <2>2, <3>1, <1>0 DEF LogInv, AuditorStates
    <3>3. Ordered(longer)
      <4> SUFFICES ASSUME NEW i \in DOMAIN longer, NEW j \in DOMAIN longer,
                          longer[i].by = longer[j].by, i < j
                   PROVE  longer[i].nr < longer[j].nr
        BY DEF Ordered
      <4>1. i \in DOMAIN log
        BY <1>7
      <4>2. CASE j \in DOMAIN log
        BY <1>7, <2>1, <3>1, <4>1, <4>2 DEF LogInv, Ordered
      <4>3. CASE j = Len(log) + 1
        BY <1>5, <1>7, <3>2, <4>1, <4>3
      <4>4. QED
        BY <1>7, <4>2, <4>3
    <3>4. \A i \in DOMAIN longer : longer[i].nr <= auditor'[longer[i].by].written
      BY <1>3, <1>4, <1>5, <1>7, <2>4, <3>1
    <3>5. QED
      BY <3>1, <3>3, <3>4 DEF LogInv, Ordered
  <2>7. QED
    BY <2>5, <2>6
<1>12. ASSUME NEW f \in trail' PROVE EntryInv(f)'
  <2>1. \A m \in DOMAIN auditLogs : InLog(auditLogs[m], f) => InLog(auditLogs'[m], f)
    BY <1>7, <1>8, <1>l DEF InLog
  <2>2. InLog(auditLogs'[k], e)
    BY <1>7, <1>8 DEF InLog
  <2>3. CASE f \in trail
    <3>1. EntryInv(f)
      BY <2>3, AuditSplit
    <3>2. f.safe => auditManager \in DOMAIN auditLogs
      BY <1>0, <3>1 DEF EntryInv, Settled, AuditTypes
    <3>3. /\ f \in Entries /\ \E m \in DOMAIN auditLogs' : InLog(auditLogs'[m], f)
          /\ f.safe => Settled' /\ InLog(auditLogs'[auditManager'], f)
      BY <1>1, <1>8, <1>9, <2>1, <3>1, <3>2 DEF EntryInv
    <3>4. QED
      BY <3>3 DEF EntryInv, InLog
  <2>4. CASE f = e
    <3>1. f.safe => Settled /\ k = auditManager
      BY <1>0, <1>1, <1>5, <1>k, <2>4 DEF ThreadInv
    <3>2. /\ f \in Entries /\ \E m \in DOMAIN auditLogs' : InLog(auditLogs'[m], f)
          /\ f.safe => Settled' /\ InLog(auditLogs'[auditManager'], f)
      BY <1>1, <1>5, <1>6, <1>8, <1>9, <2>2, <2>4, <3>1
    <3>3. QED
      BY <3>2 DEF EntryInv, InLog
  <2>5. QED
    BY <1>1, <2>3, <2>4
<1>13. AuditTypes'
  BY <1>0, <1>1, <1>4, <1>8 DEF AuditTypes
<1>14. \A m \in DOMAIN auditLogs' : LogInv(auditLogs[m])'
  BY <1>8, <1>11
<1>15. QED
  BY <1>10, <1>12, <1>13, <1>14, AuditJoin

\* What was audited once all was settled is found, once and in order.
THEOREM AuditTrailComplete == AuditSpec => []AuditComplete
<1>1. AuditInit => AuditIInv
  <2> SUFFICES ASSUME AuditInit PROVE AuditIInv
    OBVIOUS
  <2>1. auditLogs \in Seq(Seq(Entries)) /\ DOMAIN auditLogs = {} /\ auditManager \in 0..Len(auditLogs)
    BY DEF AuditInit
  <2>2. QED
    BY <2>1 DEF AuditInit, AuditIInv, AuditTypeOK
<1>2. AuditIInv /\ [AuditNext]_auditVars => AuditIInv'
  <2> SUFFICES ASSUME AuditIInv, [AuditNext]_auditVars PROVE AuditIInv'
    OBVIOUS
  <2>1. ASSUME UNCHANGED auditVars PROVE AuditIInv'
    BY <2>1 DEF auditVars, AuditIInv, AuditTypeOK, AuditLog, Settled, Ordered
  <2>2. QED
    BY <2>1, GetManagerKeeps, CreateManagerKeeps, ReadManagerKeeps, LogActionKeeps DEF AuditNext
<1>3. AuditIInv => AuditComplete
  <2> SUFFICES ASSUME AuditIInv PROVE AuditComplete
    OBVIOUS
  <2>1. AuditTypes /\ AuditLog \in Seq(Entries) /\ Ordered(AuditLog)
    BY AuditSplit DEF AuditTypes, AuditLog, LogInv, Ordered
  <2>2. ASSUME NEW e \in trail, e.safe
        PROVE  Cardinality({i \in Find(e.by) : AuditLog[i] = e}) = 1
    <3>1. \E i \in DOMAIN AuditLog : AuditLog[i] = e
      BY <2>2 DEF AuditIInv
    <3>2. PICK i \in DOMAIN AuditLog : AuditLog[i] = e
      BY <3>1
    <3>3. ASSUME NEW k \in DOMAIN AuditLog, AuditLog[k] = e PROVE k = i
      <4>1. e.nr \in Nat /\ i \in Nat /\ k \in Nat
        BY <2>1, <3>2, EntryFacts
      <4>2. QED
        BY <2>1, <3>2, <3>3, <4>1 DEF Ordered
    <3>4. {k \in Find(e.by) : AuditLog[k] = e} = {i}
      BY <3>2, <3>3 DEF Find
    <3>5. QED
      BY <3>4, FS_Singleton
  <2>3. \A t \in Auditors : \A i, k \in Find(t) : i < k => AuditLog[i].nr < AuditLog[k].nr
    BY <2>1 DEF Find, Ordered
  <2>4. \A e \in trail :
           \E m \in DOMAIN auditLogs : \E i \in DOMAIN auditLogs[m] : auditLogs[m][i] = e
    BY DEF AuditIInv
  <2>5. QED
    BY <2>2, <2>3, <2>4 DEF AuditComplete
<1>4. QED
  BY <1>1, <1>2, <1>3, PTL DEF AuditSpec
-----------------------------------------------------------------------------
(* RateLimits: the window of a key *)

RateSpec == now = Epoch /\ RateInit /\ [][RateNext]_<<now, rateVars>>

LEMMA LimitFacts ==
    /\ Window \in Nat /\ "auth" \in DOMAIN Limits
    /\ \A type \in DOMAIN Limits : Limits[type] \in Nat
    /\ \A l \in Limiters : \E type \in DOMAIN Limits : Limiter(type) = l
    /\ \A type \in DOMAIN Limits : Limiter(type) \in Limiters
BY RateAssumption, Zenon DEF Limiter, Limiters

\* One list: what it has, what was admitted, and that they agree on the window.
ListOK(l, list, all) ==
    /\ all \subseteq Admissions /\ IsFiniteSet(all) /\ list \subseteq all
    /\ \A r \in all \ list : now - r.at >= Window
    /\ \E type \in DOMAIN Limits :
          Limiter(type) = l /\ Cardinality(Recent(all, Window)) <= Limits[type]

\* A list that has lost only what is old has the same window.
LEMMA SameWindow ==
    ASSUME now \in Epoch..MaxTime, NEW l, NEW list, NEW all, ListOK(l, list, all)
    PROVE  /\ Recent(list, Window) = Recent(all, Window)
           /\ IsFiniteSet(Recent(all, Window))
           /\ Cardinality(Recent(all, Window)) \in Nat
<1>1. now \in Nat /\ Window \in Nat /\ \A r \in all : r.at \in Nat
  BY LimitFacts DEF ListOK, Admissions
<1>2. ASSUME NEW r \in all, now - r.at < Window PROVE r \in list
  BY <1>1, <1>2 DEF ListOK
<1>3. Recent(list, Window) = Recent(all, Window)
  BY <1>2 DEF Recent, ListOK
<1>4. Recent(all, Window) \in SUBSET all
  BY DEF Recent
<1>5. IsFiniteSet(Recent(all, Window))
  BY <1>4, FS_Subset DEF ListOK
<1>6. QED
  BY <1>3, <1>5, FS_CardinalityType

\* The parts, list by list.
LEMMA RateParts ==
    ASSUME RateIInv, NEW l \in Limiters, NEW c \in Clients
    PROVE  ListOK(l, requests[l][c], admitted[l][c])
BY DEF RateIInv, RateTypeOK, OnlyOldForgotten, RateWindow, ListOK

RateTypes ==
    /\ now \in Epoch..MaxTime
    /\ requests \in [Limiters -> [Clients -> SUBSET Admissions]]
    /\ admitted \in [Limiters -> [Clients -> SUBSET Admissions]]

LEMMA RateTyped == RateIInv => RateTypes
BY DEF RateIInv, RateTypeOK, RateTypes

Lists == \A l \in Limiters, c \in Clients : ListOK(l, requests[l][c], admitted[l][c])

LEMMA RateJoin == RateTypes /\ Lists => RateIInv
<1> SUFFICES ASSUME RateTypes, Lists PROVE RateIInv
  OBVIOUS
<1> USE DEF Lists
<1>1. RateTypeOK
  BY DEF RateTypes, RateTypeOK, ListOK
<1>2. OnlyOldForgotten
  BY DEF OnlyOldForgotten, ListOK
<1>3. ASSUME NEW l \in Limiters, NEW c \in Clients
      PROVE  LET inWindow == Cardinality(Recent(admitted[l][c], Window)) IN
             /\ Cardinality(Recent(requests[l][c], Window)) = inWindow
             /\ \E type \in DOMAIN Limits : Limiter(type) = l /\ inWindow <= Limits[type]
             /\ l = "auth" => Remaining(c) = Limits["auth"] - inWindow
  <2> DEFINE inWindow == Cardinality(Recent(admitted[l][c], Window))
  <2>1. ListOK(l, requests[l][c], admitted[l][c])
    OBVIOUS
  <2>2. /\ Recent(requests[l][c], Window) = Recent(admitted[l][c], Window)
        /\ inWindow \in Nat
    BY <2>1, SameWindow DEF RateTypes
  <2>3. PICK type \in DOMAIN Limits : Limiter(type) = l /\ inWindow <= Limits[type]
    BY <2>1 DEF ListOK
  <2>4. l = "auth" => type = "auth"
    BY <2>3 DEF Limiter
  <2>5. l = "auth" => Remaining(c) = Limits["auth"] - inWindow
    <3>1. Limits["auth"] \in Nat
      BY LimitFacts
    <3> HIDE DEF inWindow
    <3>2. l = "auth" => ~(inWindow > Limits["auth"])
      BY <2>2, <2>3, <2>4, <3>1
    <3>3. l = "auth" =>
            Remaining(c) = IF inWindow > Limits["auth"] THEN 0 ELSE Limits["auth"] - inWindow
      BY <2>2 DEF Remaining, inWindow
    <3>4. QED
      BY <3>2, <3>3
  <2>6. QED
    BY <2>2, <2>3, <2>5
<1>4. RateWindow
  BY <1>3 DEF RateWindow
<1>5. QED
  BY <1>1, <1>2, <1>4 DEF RateIInv

LEMMA RateJoined == (RateTypes /\ Lists => RateIInv)'
BY RateJoin, PTL

\* A list without requests fits its limiter.
LEMMA EmptyList ==
    ASSUME NEW l \in Limiters
    PROVE  ListOK(l, {}, {})
<1>1. Recent({}, Window) = {}
  BY DEF Recent
<1>2. IsFiniteSet({}) /\ Cardinality({}) = 0
  BY FS_EmptySet
<1>3. PICK type \in DOMAIN Limits : Limiter(type) = l
  BY LimitFacts
<1>4. 0 <= Limits[type]
  BY LimitFacts
<1>5. QED
  BY <1>1, <1>2, <1>3, <1>4 DEF ListOK

LEMMA RateInitial ==
    ASSUME now = Epoch, RateInit
    PROVE  RateIInv
<1>1. RateTypes
  BY DEF RateInit, RateTypes
<1>2. ASSUME NEW l \in Limiters, NEW c \in Clients
      PROVE  ListOK(l, requests[l][c], admitted[l][c])
  BY EmptyList DEF RateInit
<1>3. QED
  BY <1>1, <1>2, RateJoin DEF Lists

\* While the clock runs, requests leave the window and none enters it.
LEMMA RateTick ==
    ASSUME RateIInv, Tick, UNCHANGED rateVars
    PROVE  RateIInv'
<1>1. /\ now \in Nat /\ Window \in Nat /\ now' = now + 1 /\ now' \in Epoch..MaxTime
      /\ requests' = requests /\ admitted' = admitted
  BY RateTyped, LimitFacts DEF RateTypes, Tick, rateVars
<1>2. RateTypes'
  BY <1>1, RateTyped DEF RateTypes
<1>3. ASSUME NEW l \in Limiters, NEW c \in Clients
      PROVE  ListOK(l, requests[l][c], admitted[l][c])'
  <2>1. PICK list, all : list = requests[l][c] /\ all = admitted[l][c]
    OBVIOUS
  <2>2. list = requests'[l][c] /\ all = admitted'[l][c]
    BY <1>1, <2>1
  <2>3. ListOK(l, list, all)
    BY <2>1, RateParts
  <2>4. \A r \in all : r.at \in Nat
    BY <2>3 DEF ListOK, Admissions
  <2>5. \A r \in all \ list : now' - r.at >= Window
    BY <1>1, <2>3, <2>4 DEF ListOK
  <2>6. PICK before, after :
           before = Recent(all, Window) /\ after = {r \in all : now' - r.at < Window}
    OBVIOUS
  <2>7. after \in SUBSET before
    BY <1>1, <2>4, <2>6 DEF Recent
  <2>8. IsFiniteSet(before) /\ Cardinality(before) \in Nat
    BY <2>3, <2>6, RateTyped, SameWindow DEF RateTypes
  <2>9. IsFiniteSet(after) /\ Cardinality(after) <= Cardinality(before)
    BY <2>7, <2>8, FS_Subset
  <2>10. PICK type \in DOMAIN Limits :
            Limiter(type) = l /\ Cardinality(before) <= Limits[type]
    BY <2>3, <2>6 DEF ListOK
  <2>11. Cardinality(after) <= Limits[type]
    BY <2>8, <2>9, <2>10, FS_CardinalityType, LimitFacts
  <2>12. (Recent(all, Window))' = after
    BY <2>6 DEF Recent
  <2>13. ListOK(l, list, all)'
    BY <2>3, <2>5, <2>10, <2>11, <2>12 DEF ListOK
  <2>14. QED
    BY <2>2, <2>13
<1>4. QED
  BY <1>2, <1>3, RateJoined DEF Lists

\* A request that is turned away only makes the list forget, one that is
\* admitted adds itself to the window.
LEMMA RateRequest ==
    ASSUME RateIInv, UNCHANGED now, NEW type \in DOMAIN Limits, NEW c \in Clients,
           IsAllowed(type, c)
    PROVE  RateIInv'
<1>1. PICK l : l = Limiter(type)
  OBVIOUS
<1>2. l \in Limiters /\ RateTypes
  BY <1>1, LimitFacts, RateTyped
<1>3. PICK list, all : list = requests[l][c] /\ all = admitted[l][c]
  OBVIOUS
<1>4. PICK kept : kept = Recent(list, Window)
  OBVIOUS
<1>5. PICK this : this = [at |-> now, nr |-> Cardinality(all) + 1]
  OBVIOUS
<1>6. PICK ok \in BOOLEAN : ok <=> Cardinality(kept) < Limits[type]
  OBVIOUS
<1>7. ListOK(l, list, all)
  BY <1>2, <1>3, RateParts
<1>8. kept = Recent(all, Window) /\ IsFiniteSet(kept) /\ Cardinality(kept) \in Nat
  BY <1>2, <1>4, <1>7, SameWindow DEF RateTypes
<1>9. this \in Admissions /\ this.at = now
  BY <1>2, <1>5, <1>7, FS_CardinalityType DEF ListOK, Admissions, RateTypes
<1>10. PICK newList, newAll :
          /\ newList = (IF ok THEN kept \cup {this} ELSE kept)
          /\ newAll = (IF ok THEN all \cup {this} ELSE all)
  OBVIOUS
<1>11. /\ requests' = [requests EXCEPT ![l][c] = newList]
       /\ admitted' = [admitted EXCEPT ![l][c] = newAll]
  BY <1>1, <1>3, <1>4, <1>5, <1>6, <1>10 DEF IsAllowed, Request
<1>12. newAll \subseteq Admissions /\ newList \subseteq newAll
  BY <1>4, <1>7, <1>8, <1>9, <1>10 DEF ListOK, Recent
<1>13. RateTypes'
  BY <1>2, <1>11, <1>12 DEF RateTypes
<1>14. IsFiniteSet(newAll)
  BY <1>7, <1>10, FS_AddElement DEF ListOK
<1>15. \A r \in newAll \ newList : now - r.at >= Window
  <2>1. ASSUME NEW r \in newAll \ newList PROVE now - r.at >= Window
    <3>1. r \in all /\ r \notin kept
      BY <1>10
    <3>2. r.at \in Nat /\ now \in Nat /\ Window \in Nat
      BY <1>2, <1>7, <3>1, LimitFacts DEF ListOK, Admissions, RateTypes
    <3>3. ~(now - r.at < Window)
      BY <1>8, <3>1 DEF Recent
    <3>4. QED
      BY <3>2, <3>3
  <2>2. QED
    BY <2>1
<1>16. \E t \in DOMAIN Limits :
          Limiter(t) = l /\ Cardinality(Recent(newAll, Window)) <= Limits[t]
  <2>1. CASE ~ok
    BY <1>7, <1>10, <2>1 DEF ListOK
  <2>2. CASE ok
    <3>1. Recent(newAll, Window) \in SUBSET (kept \cup {this})
      BY <1>8, <1>10, <2>2 DEF Recent
    <3>2. /\ IsFiniteSet(kept \cup {this})
          /\ Cardinality(kept \cup {this}) <= Cardinality(kept) + 1
      BY <1>8, FS_AddElement
    <3>3. /\ Cardinality(Recent(newAll, Window)) <= Cardinality(kept \cup {this})
          /\ IsFiniteSet(Recent(newAll, Window))
      BY <3>1, <3>2, FS_Subset
    <3>4. PICK a, b \in Nat : a = Cardinality(Recent(newAll, Window)) /\ b = Cardinality(kept \cup {this})
      BY <3>2, <3>3, FS_CardinalityType
    <3>5. a <= Limits[type]
      BY <1>6, <1>8, <2>2, <3>2, <3>3, <3>4, LimitFacts
    <3>6. QED
      BY <1>1, <3>4, <3>5
  <2>3. QED
    BY <2>1, <2>2
<1>17. ListOK(l, newList, newAll)
  BY <1>12, <1>14, <1>15, <1>16 DEF ListOK
<1>18. ASSUME NEW m \in Limiters, NEW d \in Clients
       PROVE  ListOK(m, requests[m][d], admitted[m][d])'
  <2>1. ListOK(m, requests'[m][d], admitted'[m][d])
    <3>1. CASE m = l /\ d = c
      BY <1>2, <1>11, <1>17, <3>1 DEF RateTypes
    <3>2. CASE ~(m = l /\ d = c)
      <4>1. requests'[m][d] = requests[m][d] /\ admitted'[m][d] = admitted[m][d]
        BY <1>2, <1>11, <3>2 DEF RateTypes
      <4>2. QED
        BY <4>1, RateParts
    <3>3. QED
      BY <3>1, <3>2
  <2>2. QED
    BY <2>1 DEF ListOK, Recent
<1>19. QED
  BY <1>13, <1>18, RateJoined DEF Lists

LEMMA RateReset ==
    ASSUME RateIInv, UNCHANGED now, NEW c \in Clients, ResetKey(c)
    PROVE  RateIInv'
<1>1. RateTypes /\ "mw" \in Limiters
  BY RateTyped DEF Limiters
<1>2. RateTypes'
  BY <1>1 DEF RateTypes, ResetKey
<1>3. ASSUME NEW m \in Limiters, NEW d \in Clients
      PROVE  ListOK(m, requests[m][d], admitted[m][d])'
  <2>1. ListOK(m, requests'[m][d], admitted'[m][d])
    <3>1. CASE m = "mw" /\ d = c
      <4>1. requests'[m][d] = {} /\ admitted'[m][d] = {}
        BY <1>1, <3>1 DEF ResetKey, RateTypes
      <4>2. QED
        BY <4>1, EmptyList
    <3>2. CASE ~(m = "mw" /\ d = c)
      <4>1. requests'[m][d] = requests[m][d] /\ admitted'[m][d] = admitted[m][d]
        BY <1>1, <3>2 DEF ResetKey, RateTypes
      <4>2. QED
        BY <4>1, RateParts
    <3>3. QED
      BY <3>1, <3>2
  <2>2. QED
    BY <2>1 DEF ListOK, Recent
<1>4. QED
  BY <1>2, <1>3, RateJoined DEF Lists

\* RateIInv holds in every state: a list forgets nothing that is still in the
\* window (Request filters before it counts, Tick only lets requests leave).
THEOREM WindowInvariant == RateSpec => []RateIInv
<1>1. now = Epoch /\ RateInit => RateIInv
  BY RateInitial
<1>2. RateIInv /\ [RateNext]_<<now, rateVars>> => RateIInv'
  <2> SUFFICES ASSUME RateIInv, [RateNext]_<<now, rateVars>>
               PROVE  RateIInv'
    OBVIOUS
  <2>1. CASE Tick /\ UNCHANGED rateVars
    BY <2>1, RateTick
  <2>2. ASSUME UNCHANGED now, NEW type \in DOMAIN Limits, NEW c \in Clients, IsAllowed(type, c)
        PROVE  RateIInv'
    BY <2>2, RateRequest
  <2>3. ASSUME UNCHANGED now, NEW c \in Clients, ResetKey(c)
        PROVE  RateIInv'
    BY <2>3, RateReset
  <2>4. CASE UNCHANGED <<now, rateVars>>
    <3>1. RateTypes'
      BY <2>4, RateTyped DEF RateTypes, rateVars
    <3>2. Lists'
      BY <2>4, RateParts DEF Lists, ListOK, Recent, rateVars
    <3>3. QED
      BY <3>1, <3>2, RateJoined
  <2>5. QED
    BY <2>1, <2>2, <2>3, <2>4 DEF RateNext
<1>3. QED
  BY <1>1, <1>2, PTL DEF RateSpec

\* RateWindow, for any window, limits and keys: however requests, rejections,
\* resets and pauses alternate, a limiter counts exactly the requests it has
\* admitted in the window that ends now, and never more than a limit allows.
THEOREM WindowIsKept == RateSpec => []RateWindow
<1>1. RateIInv => RateWindow
  BY DEF RateIInv
<1>2. QED
  BY <1>1, WindowInvariant, PTL
-----------------------------------------------------------------------------
(* PubSub: deliveries over lists that change *)

PsSpec == PsInit /\ [][PsNext]_psVars

\* The places that From counts, and how a list counts on from the next place.
Places(list, n, c) == {i \in DOMAIN list : i >= n /\ list[i] = c}

LEMMA PlacesFacts ==
    ASSUME NEW S, NEW list \in Seq(S), NEW n \in Nat, NEW c
    PROVE  /\ IsFiniteSet(Places(list, n, c)) /\ Places(list, n, c) \subseteq Nat
           /\ From(list, n, c) = Cardinality(Places(list, n, c)) /\ From(list, n, c) \in Nat
<1>1. IsFiniteSet(1..Len(list))
  BY FS_Interval
<1>2. Places(list, n, c) \in SUBSET (1..Len(list))
  BY DEF Places
<1>3. IsFiniteSet(Places(list, n, c))
  BY <1>1, <1>2, FS_Subset
<1>4. Cardinality(Places(list, n, c)) \in Nat
  BY <1>3, FS_CardinalityType
<1>5. QED
  BY <1>2, <1>3, <1>4 DEF From, Places

LEMMA TimesIsFrom ==
    ASSUME NEW S, NEW list \in Seq(S), NEW c
    PROVE  Times(list, c) = From(list, 1, c)
<1>1. {n \in DOMAIN list : list[n] = c} = {n \in DOMAIN list : n >= 1 /\ list[n] = c}
  OBVIOUS
<1>2. QED
  BY <1>1 DEF Times, From

LEMMA TimesNat ==
    ASSUME NEW S, NEW list \in Seq(S), NEW c
    PROVE  Times(list, c) \in Nat
BY TimesIsFrom, PlacesFacts

LEMMA EmptyTimes ==
    ASSUME NEW c
    PROVE  Times(<<>>, c) = 0
<1>1. {n \in DOMAIN <<>> : <<>>[n] = c} = {}
  OBVIOUS
<1>2. QED
  BY <1>1, FS_EmptySet DEF Times

\* One more place at the end counts if it is one of c, from the n-th on.
LEMMA FromAppend ==
    ASSUME NEW S, NEW list \in Seq(S), NEW x \in S, NEW n \in Nat, NEW c
    PROVE  /\ From(Append(list, x), n, c) <= From(list, n, c) + IF x = c THEN 1 ELSE 0
           /\ n <= Len(list) + 1 =>
                From(Append(list, x), n, c) = From(list, n, c) + IF x = c THEN 1 ELSE 0
<1>1. PICK new : new = Append(list, x)
  OBVIOUS
<1>2. PICK last : last = Len(list) + 1
  OBVIOUS
<1>3. /\ new \in Seq(S) /\ last \in Nat /\ DOMAIN new = DOMAIN list \cup {last}
      /\ last \notin DOMAIN list /\ new[last] = x
      /\ \A i \in DOMAIN list : new[i] = list[i]
  BY <1>1, <1>2, AppendProperties
<1>4. x = c /\ last >= n => Places(new, n, c) = Places(list, n, c) \cup {last}
  BY <1>3 DEF Places
<1>5. ~(x = c /\ last >= n) => Places(new, n, c) = Places(list, n, c)
  BY <1>3 DEF Places
<1>6. last \notin Places(list, n, c)
  BY <1>3 DEF Places
<1>7. IsFiniteSet(Places(list, n, c))
  BY PlacesFacts
<1>8. Cardinality(Places(list, n, c) \cup {last}) = Cardinality(Places(list, n, c)) + 1
  BY <1>6, <1>7, FS_AddElement
<1>9. /\ From(new, n, c) = Cardinality(Places(new, n, c))
      /\ From(list, n, c) = Cardinality(Places(list, n, c)) /\ From(list, n, c) \in Nat
  BY <1>3, PlacesFacts
<1>10. ASSUME last >= n
       PROVE  From(new, n, c) = From(list, n, c) + IF x = c THEN 1 ELSE 0
  <2>1. CASE x = c
    BY <1>4, <1>8, <1>9, <1>10, <2>1
  <2>2. CASE x # c
    <3>1. From(new, n, c) = From(list, n, c)
      BY <1>5, <1>9, <2>2
    <3>2. QED
      BY <1>9, <2>2, <3>1
  <2>3. QED
    BY <2>1, <2>2
<1>11. ~(last >= n) => From(new, n, c) = From(list, n, c)
  BY <1>5, <1>9
<1>12. n <= Len(list) + 1 <=> last >= n
  BY <1>2, <1>3
<1>13. From(new, n, c) <= From(list, n, c) + IF x = c THEN 1 ELSE 0
  <2>1. CASE last >= n
    BY <1>9, <1>10, <2>1
  <2>2. CASE ~(last >= n)
    BY <1>9, <1>11, <2>2
  <2>3. QED
    BY <2>1, <2>2
<1>14. QED
  BY <1>1, <1>10, <1>12, <1>13

LEMMA TimesAppend ==
    ASSUME NEW S, NEW list \in Seq(S), NEW x \in S, NEW c
    PROVE  Times(Append(list, x), c) = Times(list, c) + IF x = c THEN 1 ELSE 0
<1>1. Append(list, x) \in Seq(S) /\ Len(list) \in Nat
  BY AppendProperties
<1>2. 1 <= Len(list) + 1 /\ 1 \in Nat
  BY <1>1
<1>3. From(Append(list, x), 1, c) = From(list, 1, c) + IF x = c THEN 1 ELSE 0
  BY <1>2, FromAppend
<1>4. Times(Append(list, x), c) = From(Append(list, x), 1, c) /\ Times(list, c) = From(list, 1, c)
  BY <1>1, TimesIsFrom
<1>5. QED
  BY <1>3, <1>4

\* The next place visited leaves the count.
LEMMA FromNext ==
    ASSUME NEW S, NEW list \in Seq(S), NEW n \in DOMAIN list, NEW c
    PROVE  From(list, n, c) = From(list, n + 1, c) + IF list[n] = c THEN 1 ELSE 0
<1>1. n \in Nat /\ n + 1 \in Nat
  OBVIOUS
<1>2. list[n] = c => Places(list, n, c) = Places(list, n + 1, c) \cup {n}
  BY DEF Places
<1>3. list[n] # c => Places(list, n, c) = Places(list, n + 1, c)
  BY DEF Places
<1>4. n \notin Places(list, n + 1, c)
  BY DEF Places
<1>5. Cardinality(Places(list, n + 1, c) \cup {n}) = Cardinality(Places(list, n + 1, c)) + 1
  BY <1>1, <1>4, PlacesFacts, FS_AddElement
<1>6. /\ From(list, n, c) = Cardinality(Places(list, n, c))
      /\ From(list, n + 1, c) = Cardinality(Places(list, n + 1, c))
      /\ From(list, n + 1, c) \in Nat
  BY <1>1, PlacesFacts
<1>7. CASE list[n] = c
  BY <1>2, <1>5, <1>6, <1>7
<1>8. CASE list[n] # c
  <2>1. From(list, n, c) = From(list, n + 1, c)
    BY <1>3, <1>6, <1>8
  <2>2. QED
    BY <1>6, <1>8, <2>1
<1>9. QED
  BY <1>7, <1>8

LEMMA RemoveAtFacts ==
    ASSUME NEW S, NEW list \in Seq(S), NEW k \in DOMAIN list
    PROVE  /\ RemoveAt(list, k) \in Seq(S) /\ Len(RemoveAt(list, k)) = Len(list) - 1
           /\ \A i \in DOMAIN RemoveAt(list, k) :
                 RemoveAt(list, k)[i] = IF i < k THEN list[i] ELSE list[i + 1]
<1>1. PICK a, b : a = SubSeq(list, 1, k - 1) /\ b = SubSeq(list, k + 1, Len(list))
  OBVIOUS
<1>2. k \in Nat /\ 1 <= k /\ k <= Len(list) /\ Len(list) \in Nat
  OBVIOUS
<1>3. /\ a \in Seq(S) /\ Len(a) = k - 1 /\ \A i \in 1..(k - 1) : a[i] = list[i]
  BY <1>1, <1>2
<1>4. /\ b \in Seq(S) /\ Len(b) = Len(list) - k
      /\ \A i \in 1..(Len(list) - k) : b[i] = list[k + i]
  BY <1>1, <1>2
<1>5. PICK new : new = a \o b
  OBVIOUS
<1>6. /\ new \in Seq(S) /\ Len(new) = Len(list) - 1
      /\ \A i \in DOMAIN new : new[i] = IF i <= Len(a) THEN a[i] ELSE b[i - Len(a)]
  BY <1>2, <1>3, <1>4, <1>5, ConcatProperties
<1>7. ASSUME NEW i \in DOMAIN new PROVE new[i] = IF i < k THEN list[i] ELSE list[i + 1]
  <2>1. i \in Nat /\ 1 <= i /\ i <= Len(list) - 1
    BY <1>6
  <2>2. CASE i < k
    BY <1>2, <1>3, <1>6, <2>1, <2>2
  <2>3. CASE ~(i < k)
    <3>1. i - (k - 1) \in 1..(Len(list) - k)
      BY <1>2, <2>1, <2>3
    <3>2. new[i] = b[i - (k - 1)]
      BY <1>2, <1>3, <1>6, <2>1, <2>3
    <3>3. k + (i - (k - 1)) = i + 1
      BY <1>2, <2>1
    <3>4. QED
      BY <1>4, <2>3, <3>1, <3>2, <3>3
  <2>4. QED
    BY <2>2, <2>3
<1>8. QED
  BY <1>1, <1>5, <1>6, <1>7 DEF RemoveAt

\* A removal moves later subscribers down by one: no place from the n-th on is
\* new, so none is counted that was not counted before.
LEMMA FromRemove ==
    ASSUME NEW S, NEW list \in Seq(S), NEW k \in DOMAIN list, NEW n \in Nat, NEW c
    PROVE  From(RemoveAt(list, k), n, c) <= From(list, n, c)
<1>1. PICK new : new = RemoveAt(list, k)
  OBVIOUS
<1>2. /\ new \in Seq(S) /\ Len(new) = Len(list) - 1 /\ k \in Nat
      /\ \A i \in DOMAIN new : new[i] = IF i < k THEN list[i] ELSE list[i + 1]
  BY <1>1, RemoveAtFacts
<1>3. PICK A, B : A = Places(new, n, c) /\ B = Places(list, n, c)
  OBVIOUS
<1>4. PICK f : f = [i \in A |-> IF i < k THEN i ELSE i + 1]
  OBVIOUS
<1>5. ASSUME NEW i \in A PROVE f[i] \in B
  <2>1. i \in DOMAIN new /\ i >= n /\ new[i] = c
    BY <1>3 DEF Places
  <2>2. i \in 1..(Len(list) - 1) /\ Len(list) \in Nat
    BY <1>2, <2>1
  <2>3. f[i] \in DOMAIN list /\ f[i] >= n
    BY <1>2, <1>4, <2>1, <2>2
  <2>4. list[f[i]] = c
    BY <1>2, <1>4, <2>1
  <2>5. QED
    BY <1>3, <2>3, <2>4 DEF Places
<1>6. A \subseteq Nat
  BY <1>2, <1>3, PlacesFacts
<1>7. \A i, j \in A : f[i] = f[j] => i = j
  BY <1>2, <1>4, <1>6
<1>8. f \in Injection(A, B)
  BY <1>4, <1>5, <1>7 DEF Injection, IsInjective
<1>9. IsFiniteSet(B) /\ From(list, n, c) = Cardinality(B) /\ From(new, n, c) = Cardinality(A)
  BY <1>2, <1>3, PlacesFacts
<1>10. Cardinality(A) <= Cardinality(B)
  BY <1>8, <1>9, FS_Injection
<1>11. QED
  BY <1>1, <1>9, <1>10

\* The delivery w after a change of its list.
Noted(w, removed, joined) ==
    [w EXCEPT !.removals = @ + removed, !.added = @ \o joined]

LEMMA NotedFacts ==
    ASSUME NEW w \in Walks, NEW removed \in Nat, NEW joined \in Seq(Callbacks)
    PROVE  LET v == Noted(w, removed, joined) IN
           /\ v \in Walks /\ v.list = w.list /\ v.next = w.next /\ v.start = w.start
           /\ v.called = w.called /\ v.removals = w.removals + removed
           /\ v.added = w.added \o joined
<1>1. w.added \o joined \in Seq(Callbacks) /\ w.removals + removed \in Nat
  BY ConcatProperties DEF Walks
<1>2. QED
  BY <1>1 DEF Walks, Noted

LEMMA WalkFacts ==
    ASSUME NEW w \in Walks
    PROVE  /\ w.list \in 0..MaxChannels /\ w.next \in Nat /\ w.next >= 1
           /\ w.start \in Seq(Callbacks) /\ w.called \in Seq(Callbacks)
           /\ w.removals \in Nat /\ w.added \in Seq(Callbacks)
BY DEF Walks

\* A subscription adds one call at the most to what is owed.
LEMMA JoinWalk ==
    ASSUME NEW w \in Walks, NEW list \in Seq(Callbacks), NEW c \in Callbacks, WalkInv(w, list)
    PROVE  WalkInv(Noted(w, 0, <<c>>), Append(list, c))
<1>1. PICK v : v = Noted(w, 0, <<c>>)
  OBVIOUS
<1>2. PICK new : new = Append(list, c)
  OBVIOUS
<1>3. <<c>> \in Seq(Callbacks) /\ 0 \in Nat
  OBVIOUS
<1>4. /\ v.next = w.next /\ v.start = w.start /\ v.called = w.called
      /\ v.removals = w.removals + 0 /\ v.added = w.added \o <<c>>
  BY <1>1, <1>3, NotedFacts
<1>5. w.added \o <<c>> = Append(w.added, c)
  BY WalkFacts
<1>6. /\ Len(v.added) = Len(w.added) + 1 /\ v.removals = w.removals
      /\ Len(new) = Len(list) + 1 /\ Len(list) \in Nat /\ Len(w.added) \in Nat
      /\ Len(w.start) \in Nat /\ w.removals \in Nat
  BY <1>2, <1>4, <1>5, WalkFacts, AppendProperties
<1>7. Len(new) + v.removals = Len(v.start) + Len(v.added)
  <2>1. Len(list) + w.removals = Len(w.start) + Len(w.added)
    BY DEF WalkInv
  <2>2. PICK a, b, s, n : a = Len(list) /\ b = w.removals /\ s = Len(w.start) /\ n = Len(w.added)
    OBVIOUS
  <2>3. a \in Nat /\ b \in Nat /\ s \in Nat /\ n \in Nat /\ a + b = s + n
    BY <1>6, <2>1, <2>2
  <2>4. (a + 1) + b = s + (n + 1)
    BY <2>3
  <2>5. Len(v.start) = s
    BY <1>4, <2>2
  <2>6. QED
    BY <1>6, <2>2, <2>4, <2>5
<1>8. ASSUME NEW d \in Callbacks
      PROVE  Times(v.called, d) + From(new, v.next, d) <= Times(v.start, d) + Times(v.added, d)
  <2>1. PICK one \in Nat : one = IF c = d THEN 1 ELSE 0
    OBVIOUS
  <2>2. Times(v.added, d) = Times(w.added, d) + one
    <3>1. Times(Append(w.added, c), d) = Times(w.added, d) + IF c = d THEN 1 ELSE 0
      BY WalkFacts, TimesAppend
    <3>2. QED
      BY <1>4, <1>5, <2>1, <3>1
  <2>3. From(new, w.next, d) <= From(list, w.next, d) + one
    BY <1>2, <2>1, WalkFacts, FromAppend
  <2>4. Times(w.called, d) + From(list, w.next, d) <= Times(w.start, d) + Times(w.added, d)
    BY DEF WalkInv
  <2>5. /\ Times(w.called, d) \in Nat /\ Times(w.start, d) \in Nat /\ Times(w.added, d) \in Nat
        /\ From(list, w.next, d) \in Nat
    BY WalkFacts, TimesNat, PlacesFacts
  <2>6. From(new, w.next, d) \in Nat
    <3>1. new \in Seq(Callbacks)
      BY <1>2, AppendProperties
    <3>2. QED
      BY <3>1, WalkFacts, PlacesFacts
  <2>7. QED
    BY <1>4, <2>2, <2>3, <2>4, <2>5, <2>6
<1>9. Len(v.called) = v.next - 1
  BY <1>4 DEF WalkInv
<1>10. QED
  BY <1>1, <1>2, <1>7, <1>8, <1>9 DEF WalkInv

\* A removal takes one subscription and no more than one call.
LEMMA LeaveWalk ==
    ASSUME NEW w \in Walks, NEW list \in Seq(Callbacks), NEW k \in DOMAIN list, WalkInv(w, list)
    PROVE  WalkInv(Noted(w, 1, <<>>), RemoveAt(list, k))
<1>1. PICK v : v = Noted(w, 1, <<>>)
  OBVIOUS
<1>2. PICK new : new = RemoveAt(list, k)
  OBVIOUS
<1>3. <<>> \in Seq(Callbacks) /\ 1 \in Nat
  OBVIOUS
<1>4. /\ v.next = w.next /\ v.start = w.start /\ v.called = w.called
      /\ v.removals = w.removals + 1 /\ v.added = w.added \o <<>>
  BY <1>1, <1>3, NotedFacts
<1>5. v.added = w.added
  BY <1>4, WalkFacts
<1>6. new \in Seq(Callbacks) /\ Len(new) = Len(list) - 1
  BY <1>2, RemoveAtFacts
<1>7. Len(new) + v.removals = Len(v.start) + Len(v.added)
  <2>1. Len(list) + w.removals = Len(w.start) + Len(w.added)
    BY DEF WalkInv
  <2>2. Len(list) \in Nat /\ w.removals \in Nat
    BY WalkFacts
  <2>3. PICK a, b, s, n : a = Len(list) /\ b = w.removals /\ s = Len(w.start) /\ n = Len(w.added)
    OBVIOUS
  <2>4. a \in Nat /\ b \in Nat /\ a + b = s + n
    BY <2>1, <2>2, <2>3
  <2>5. (a - 1) + (b + 1) = s + n
    BY <2>4
  <2>6. Len(v.start) = s /\ Len(v.added) = n
    BY <1>4, <1>5, <2>3
  <2>7. QED
    BY <1>4, <1>6, <2>3, <2>5, <2>6
<1>8. ASSUME NEW d \in Callbacks
      PROVE  Times(v.called, d) + From(new, v.next, d) <= Times(v.start, d) + Times(v.added, d)
  <2>1. From(new, w.next, d) <= From(list, w.next, d)
    BY <1>2, WalkFacts, FromRemove
  <2>2. Times(w.called, d) + From(list, w.next, d) <= Times(w.start, d) + Times(w.added, d)
    BY DEF WalkInv
  <2>3. /\ Times(w.called, d) \in Nat /\ Times(w.start, d) \in Nat /\ Times(w.added, d) \in Nat
        /\ From(list, w.next, d) \in Nat /\ From(new, w.next, d) \in Nat
    BY <1>6, WalkFacts, TimesNat, PlacesFacts
  <2>4. QED
    BY <1>4, <1>5, <2>1, <2>2, <2>3
<1>9. Len(v.called) = v.next - 1
  BY <1>4 DEF WalkInv
<1>10. QED
  BY <1>1, <1>2, <1>7, <1>8, <1>9 DEF WalkInv

\* A delivery that begins owes one call for every subscription.
LEMMA FirstWalk ==
    ASSUME NEW o \in 0..MaxChannels, NEW list \in Seq(Callbacks)
    PROVE  LET w == [list |-> o, next |-> 1, start |-> list, called |-> <<>>,
                     removals |-> 0, added |-> <<>>]
           IN  w \in Walks /\ WalkInv(w, list)
<1>1. PICK w : w = [list |-> o, next |-> 1, start |-> list, called |-> <<>>,
                    removals |-> 0, added |-> <<>>]
  OBVIOUS
<1>2. /\ w.next = 1 /\ w.start = list /\ w.called = <<>> /\ w.removals = 0
      /\ w.added = <<>>
  BY <1>1
<1>3. w \in Walks
  BY <1>1 DEF Walks
<1>4. Len(list) \in Nat /\ Len(<<>>) = 0
  OBVIOUS
<1>5. ASSUME NEW c \in Callbacks
      PROVE  Times(w.called, c) + From(list, w.next, c) <= Times(w.start, c) + Times(w.added, c)
  <2>1. Times(w.called, c) = 0 /\ Times(w.added, c) = 0
    BY <1>2, EmptyTimes
  <2>2. Times(w.start, c) = From(list, w.next, c) /\ Times(w.start, c) \in Nat
    BY <1>2, TimesIsFrom, TimesNat
  <2>3. QED
    BY <2>1, <2>2
<1>6. Len(w.called) = w.next - 1 /\ Len(list) + w.removals = Len(w.start) + Len(w.added)
  BY <1>2, <1>4
<1>7. QED
  BY <1>1, <1>3, <1>5, <1>6 DEF WalkInv

\* The call of the next subscriber pays one of the calls that are owed.
LEMMA NextWalk ==
    ASSUME NEW w \in Walks, NEW list \in Seq(Callbacks), w.next <= Len(list), WalkInv(w, list)
    PROVE  LET v == [w EXCEPT !.next = @ + 1, !.called = Append(@, list[w.next])] IN
           v \in Walks /\ v.list = w.list /\ WalkInv(v, list)
<1>1. PICK n : n = w.next
  OBVIOUS
<1>2. n \in DOMAIN list /\ list[n] \in Callbacks /\ n \in Nat /\ n + 1 \in Nat \ {0}
  BY <1>1, WalkFacts
<1>3. PICK v : v = [w EXCEPT !.next = n + 1, !.called = Append(w.called, list[n])]
  OBVIOUS
<1>4. Append(w.called, list[n]) \in Seq(Callbacks)
  BY <1>2, WalkFacts, AppendProperties
<1>5. /\ v \in Walks /\ v.list = w.list /\ v.next = n + 1 /\ v.start = w.start
      /\ v.called = Append(w.called, list[n]) /\ v.removals = w.removals /\ v.added = w.added
  BY <1>2, <1>3, <1>4 DEF Walks
<1>6. Len(v.called) = v.next - 1
  <2>1. Len(v.called) = Len(w.called) + 1
    BY <1>2, <1>5, WalkFacts, AppendProperties
  <2>2. Len(w.called) = n - 1
    BY <1>1 DEF WalkInv
  <2>3. QED
    BY <1>2, <1>5, <2>1, <2>2
<1>7. ASSUME NEW c \in Callbacks
      PROVE  Times(v.called, c) + From(list, v.next, c) <= Times(v.start, c) + Times(v.added, c)
  <2>1. PICK one \in Nat : one = IF list[n] = c THEN 1 ELSE 0
    OBVIOUS
  <2>2. Times(v.called, c) = Times(w.called, c) + one
    BY <1>2, <1>5, <2>1, WalkFacts, TimesAppend
  <2>3. From(list, n, c) = From(list, n + 1, c) + one
    BY <1>2, <2>1, FromNext
  <2>4. Times(w.called, c) + From(list, n, c) <= Times(w.start, c) + Times(w.added, c)
    BY <1>1 DEF WalkInv
  <2>5. Times(w.called, c) \in Nat /\ From(list, n + 1, c) \in Nat
    BY <1>2, WalkFacts, TimesNat, PlacesFacts
  <2>6. Times(w.called, c) + one + From(list, n + 1, c)
           = Times(w.called, c) + (From(list, n + 1, c) + one)
    BY <2>5
  <2>7. QED
    BY <1>5, <2>2, <2>3, <2>4, <2>6
<1>8. Len(list) + v.removals = Len(v.start) + Len(v.added)
  BY <1>5 DEF WalkInv
<1>9. WalkInv(v, list)
  BY <1>6, <1>7, <1>8 DEF WalkInv
<1>10. QED
  BY <1>1, <1>3, <1>5, <1>9

LEMMA PsTypes == PsIInv => PsTypeOK
BY DEF PsIInv

LEMMA WalkHere ==
    ASSUME PsIInv, NEW n \in DOMAIN walks
    PROVE  /\ walks[n] \in Walks /\ walks[n].list \in 0..nchan
           /\ WalkInv(walks[n], subs[walks[n].list]) /\ subs[walks[n].list] \in Seq(Callbacks)
<1>1. walks[n] \in Walks
  BY DEF PsIInv, PsTypeOK
<1>2. walks[n].list \in 0..MaxChannels
  BY <1>1, WalkFacts
<1>3. QED
  BY <1>1, <1>2 DEF PsIInv, PsTypeOK

\* What a change of a list does to the deliveries that walk it, and to no other.
LEMMA ChangeKeeps ==
    ASSUME PsIInv, NEW o \in 0..nchan, NEW list \in Seq(Callbacks),
           NEW removed \in Nat, NEW joined \in Seq(Callbacks),
           subs' = [subs EXCEPT ![o] = list], Note(o, removed, joined),
           UNCHANGED <<nchan, registry, sends>>,
           \A w \in Walks : WalkInv(w, subs[o]) => WalkInv(Noted(w, removed, joined), list)
    PROVE  PsIInv'
<1>1. PsTypeOK /\ o \in 0..MaxChannels
  BY PsTypes, PubSubAssumption DEF PsTypeOK
<1>2. walks' = [n \in DOMAIN walks |-> IF walks[n].list = o
                                       THEN Noted(walks[n], removed, joined) ELSE walks[n]]
  BY DEF Note, Noted
<1>3. ASSUME NEW n \in DOMAIN walks
      PROVE  /\ walks'[n] \in Walks /\ walks'[n].list = walks[n].list
             /\ WalkInv(walks'[n], subs'[walks[n].list])
  <2>1. /\ walks[n] \in Walks /\ walks[n].list \in 0..nchan
        /\ WalkInv(walks[n], subs[walks[n].list])
    BY WalkHere
  <2>2. CASE walks[n].list = o
    <3>1. walks'[n] = Noted(walks[n], removed, joined)
      BY <1>2, <2>2
    <3>2. subs'[o] = list
      BY <1>1 DEF PsTypeOK
    <3>3. WalkInv(walks'[n], subs'[o])
      BY <2>1, <2>2, <3>1, <3>2
    <3>4. walks'[n] \in Walks /\ walks'[n].list = walks[n].list
      BY <2>1, <3>1, NotedFacts
    <3>5. QED
      BY <2>2, <3>3, <3>4
  <2>3. CASE walks[n].list # o
    <3>1. walks'[n] = walks[n]
      BY <1>2, <2>3
    <3>2. subs'[walks[n].list] = subs[walks[n].list]
      BY <1>1, <2>1, <2>3, PubSubAssumption DEF PsTypeOK
    <3>3. QED
      BY <2>1, <3>1, <3>2
  <2>4. QED
    BY <2>2, <2>3
<1>4. DOMAIN walks' = DOMAIN walks /\ walks' \in Seq(Walks)
  <2>1. DOMAIN walks' = 1..Len(walks) /\ Len(walks) \in Nat
    BY <1>1, <1>2 DEF PsTypeOK
  <2>2. walks' = [n \in 1..Len(walks) |-> walks'[n]]
    BY <1>2, <2>1
  <2>3. \A n \in 1..Len(walks) : walks'[n] \in Walks
    BY <1>1, <1>3 DEF PsTypeOK
  <2>4. walks' \in [1..Len(walks) -> Walks]
    BY <2>2, <2>3
  <2>5. DOMAIN walks' = DOMAIN walks
    BY <1>2
  <2>6. walks' \in Seq(Walks)
    BY <2>1, <2>4, SeqDef
  <2>7. QED
    BY <2>5, <2>6
<1>5. PsTypeOK'
  BY <1>1, <1>4 DEF PsTypeOK
<1>6. ASSUME NEW n \in DOMAIN walks'
      PROVE  walks'[n].list <= nchan' /\ WalkInv(walks'[n], subs'[walks'[n].list])
  <2>1. n \in DOMAIN walks /\ walks'[n].list = walks[n].list
    BY <1>3, <1>4
  <2>2. walks[n].list <= nchan
    BY <2>1 DEF PsIInv
  <2>3. QED
    BY <1>3, <2>1, <2>2
<1>7. QED
  BY <1>5, <1>6 DEF PsIInv

LEMMA SubscribeKeeps ==
    ASSUME PsIInv, NEW o \in 0..nchan, NEW c \in Callbacks, Subscribe(o, c)
    PROVE  PsIInv'
<1>1. subs[o] \in Seq(Callbacks)
  BY PsTypes, PubSubAssumption DEF PsTypeOK
<1>2. Append(subs[o], c) \in Seq(Callbacks) /\ <<c>> \in Seq(Callbacks) /\ 0 \in Nat
  BY <1>1, AppendProperties
<1>3. \A w \in Walks : WalkInv(w, subs[o]) => WalkInv(Noted(w, 0, <<c>>), Append(subs[o], c))
  BY <1>1, JoinWalk
<1>4. /\ subs' = [subs EXCEPT ![o] = Append(subs[o], c)] /\ Note(o, 0, <<c>>)
      /\ UNCHANGED <<nchan, registry, sends>>
  BY DEF Subscribe, Join
<1>5. QED
  BY <1>2, <1>3, <1>4, ChangeKeeps

LEMMA UnsubscribeKeeps ==
    ASSUME PsIInv, NEW o \in 0..nchan, NEW c \in Callbacks, Unsubscribe(o, c)
    PROVE  PsIInv'
<1>1. subs[o] \in Seq(Callbacks)
  BY PsTypes, PubSubAssumption DEF PsTypeOK
<1>2. PICK k \in DOMAIN subs[o] : subs' = [subs EXCEPT ![o] = RemoveAt(@, k)]
  BY DEF Unsubscribe
<1>3. subs' = [subs EXCEPT ![o] = RemoveAt(subs[o], k)]
  BY <1>2
<1>4. RemoveAt(subs[o], k) \in Seq(Callbacks) /\ <<>> \in Seq(Callbacks) /\ 1 \in Nat
  BY <1>1, RemoveAtFacts
<1>5. \A w \in Walks : WalkInv(w, subs[o]) => WalkInv(Noted(w, 1, <<>>), RemoveAt(subs[o], k))
  BY <1>1, LeaveWalk
<1>6. Note(o, 1, <<>>) /\ UNCHANGED <<nchan, registry, sends>>
  BY DEF Unsubscribe
<1>7. QED
  BY <1>3, <1>4, <1>5, <1>6, ChangeKeeps

\* A new Channel object is walked by nothing, whatever is subscribed to it.
LEMMA ChannelKeeps ==
    ASSUME PsIInv, NEW r \in Registries, NewChannel(r), UNCHANGED <<sends, walks>>,
           \/ UNCHANGED subs
           \/ \E list \in Seq(Callbacks) : subs' = [subs EXCEPT ![nchan + 1] = list]
    PROVE  /\ PsTypeOK' /\ nchan' = nchan + 1
           /\ \A n \in DOMAIN walks : walks[n].list <= nchan' /\ subs'[walks[n].list] = subs[walks[n].list]
<1>1. PsTypeOK
  BY PsTypes
<1>2. /\ nchan \in Nat /\ nchan' = nchan + 1 /\ nchan' \in 0..MaxChannels
      /\ registry' = [registry EXCEPT ![r] = nchan + 1]
  BY <1>1, PubSubAssumption DEF PsTypeOK, NewChannel
<1>3. subs' \in [0..MaxChannels -> Seq(Callbacks)]
  BY <1>1, <1>2 DEF PsTypeOK
<1>4. registry' \in [Registries -> 0..nchan']
  BY <1>1, <1>2 DEF PsTypeOK
<1>5. PsTypeOK'
  BY <1>1, <1>2, <1>3, <1>4 DEF PsTypeOK
<1>6. ASSUME NEW n \in DOMAIN walks
      PROVE  walks[n].list <= nchan' /\ subs'[walks[n].list] = subs[walks[n].list]
  <2>1. walks[n].list \in 0..nchan
    BY WalkHere
  <2>2. walks[n].list <= nchan' /\ walks[n].list # nchan + 1
    BY <1>2, <2>1
  <2>3. walks[n].list \in 0..MaxChannels
    BY WalkHere, WalkFacts
  <2>4. subs'[walks[n].list] = subs[walks[n].list]
    <3>1. CASE UNCHANGED subs
      BY <3>1
    <3>2. ASSUME NEW list, subs' = [subs EXCEPT ![nchan + 1] = list]
          PROVE  subs'[walks[n].list] = subs[walks[n].list]
      BY <1>1, <2>2, <2>3, <3>2 DEF PsTypeOK
    <3>3. QED
      BY <3>1, <3>2
  <2>5. QED
    BY <2>2, <2>4
<1>7. QED
  BY <1>2, <1>5, <1>6

LEMMA ChannelInv ==
    ASSUME PsIInv, UNCHANGED walks, PsTypeOK',
           \A n \in DOMAIN walks :
              walks[n].list <= nchan' /\ subs'[walks[n].list] = subs[walks[n].list]
    PROVE  PsIInv'
BY DEF PsIInv

\* One more delivery, over a list whose other deliveries do not notice.
LEMMA BeginKeeps ==
    ASSUME PsIInv, NEW o \in 0..nchan', Begin(o),
           nchan' \in 0..MaxChannels, nchan <= nchan', registry' \in [Registries -> 0..nchan']
    PROVE  PsIInv'
<1>1. PsTypeOK /\ o \in 0..MaxChannels
  BY PsTypes, PubSubAssumption DEF PsTypeOK
<1>2. subs[o] \in Seq(Callbacks) /\ subs' = subs
  BY <1>1 DEF PsTypeOK, Begin
<1>3. PICK w : w = [list |-> o, next |-> 1, start |-> subs[o], called |-> <<>>,
                    removals |-> 0, added |-> <<>>]
  OBVIOUS
<1>4. w \in Walks /\ WalkInv(w, subs[o]) /\ w.list = o
  BY <1>1, <1>2, <1>3, FirstWalk
<1>5. walks' = Append(walks, w) /\ sends' = sends + 1
  BY <1>3 DEF Begin
<1>6. /\ walks' \in Seq(Walks) /\ DOMAIN walks' = 1..(Len(walks) + 1)
      /\ walks'[Len(walks) + 1] = w /\ \A n \in 1..Len(walks) : walks'[n] = walks[n]
      /\ Len(walks) \in Nat
  BY <1>1, <1>4, <1>5, AppendProperties DEF PsTypeOK
<1>7. PsTypeOK'
  BY <1>1, <1>2, <1>5, <1>6 DEF PsTypeOK
<1>8. ASSUME NEW n \in DOMAIN walks'
      PROVE  walks'[n].list <= nchan' /\ WalkInv(walks'[n], subs'[walks'[n].list])
  <2>1. CASE n = Len(walks) + 1
    BY <1>2, <1>4, <1>6, <2>1
  <2>2. CASE n # Len(walks) + 1
    <3>1. n \in 1..Len(walks) /\ n \in DOMAIN walks
      BY <1>1, <1>6, <2>2 DEF PsTypeOK
    <3>2. walks[n].list \in 0..nchan /\ WalkInv(walks[n], subs[walks[n].list])
      BY <3>1, WalkHere
    <3>3. walks[n].list <= nchan'
      BY <1>1, <3>2 DEF PsTypeOK
    <3>4. QED
      BY <1>2, <1>6, <3>1, <3>2, <3>3
  <2>3. QED
    BY <2>1, <2>2
<1>9. QED
  BY <1>7, <1>8 DEF PsIInv

LEMMA DeliverKeeps ==
    ASSUME PsIInv, Deliver
    PROVE  PsIInv'
<1>1. PsTypeOK /\ walks \in Seq(Walks) /\ walks # <<>>
  BY PsTypes DEF PsTypeOK, Deliver
<1>2. PICK last : last = Len(walks)
  OBVIOUS
<1>3. last \in DOMAIN walks /\ last \in Nat
  BY <1>1, <1>2
<1>4. PICK w, list : w = walks[last] /\ list = subs[w.list]
  OBVIOUS
<1>5. w \in Walks /\ WalkInv(w, list) /\ list \in Seq(Callbacks)
  BY <1>3, <1>4, WalkHere
<1>6. PICK v : v = [w EXCEPT !.next = @ + 1, !.called = Append(@, list[w.next])]
  OBVIOUS
<1>7. v \in Walks /\ v.list = w.list /\ WalkInv(v, list)
  <2>1. w.next <= Len(list)
    BY <1>2, <1>4 DEF Deliver, inner
  <2>2. QED
    BY <1>5, <1>6, <2>1, NextWalk
<1>8. walks' = [walks EXCEPT ![last] = v]
  BY <1>1, <1>2, <1>3, <1>4, <1>6 DEF Deliver, inner
<1>9. UNCHANGED <<subs, nchan, registry, sends>>
  BY DEF Deliver
<1>10. walks' \in Seq(Walks) /\ DOMAIN walks' = DOMAIN walks
  BY <1>1, <1>3, <1>7, <1>8
<1>11. PsTypeOK'
  BY <1>1, <1>9, <1>10 DEF PsTypeOK
<1>12. ASSUME NEW n \in DOMAIN walks'
       PROVE  walks'[n].list <= nchan' /\ WalkInv(walks'[n], subs'[walks'[n].list])
  <2>1. CASE n = last
    <3>1. walks'[n] = v
      BY <1>1, <1>3, <1>8, <2>1
    <3>2. v.list <= nchan
      BY <1>3, <1>4, <1>7 DEF PsIInv
    <3>3. QED
      BY <1>4, <1>7, <1>9, <3>1, <3>2
  <2>2. CASE n # last
    <3>1. n \in DOMAIN walks /\ walks'[n] = walks[n]
      BY <1>1, <1>8, <1>10, <2>2
    <3>2. QED
      BY <1>9, <3>1 DEF PsIInv
  <2>3. QED
    BY <2>1, <2>2
<1>13. QED
  BY <1>11, <1>12 DEF PsIInv

LEMMA EndOfListKeeps ==
    ASSUME PsIInv, EndOfList
    PROVE  PsIInv'
<1>1. PsTypeOK /\ walks \in Seq(Walks) /\ walks # <<>>
  BY PsTypes DEF PsTypeOK, EndOfList
<1>2. walks' = Front(walks) /\ UNCHANGED <<subs, nchan, registry, sends>>
  BY DEF EndOfList
<1>3. /\ walks' \in Seq(Walks) /\ DOMAIN walks' \subseteq DOMAIN walks
      /\ \A n \in DOMAIN walks' : walks'[n] = walks[n]
  BY <1>1, <1>2 DEF Front
<1>4. PsTypeOK'
  BY <1>1, <1>2, <1>3 DEF PsTypeOK
<1>5. ASSUME NEW n \in DOMAIN walks'
      PROVE  walks'[n].list <= nchan' /\ WalkInv(walks'[n], subs'[walks'[n].list])
  BY <1>2, <1>3 DEF PsIInv
<1>6. QED
  BY <1>4, <1>5 DEF PsIInv

LEMMA PsInitial == PsInit => PsIInv
<1> SUFFICES ASSUME PsInit PROVE PsIInv
  OBVIOUS
<1>1. subs \in [0..MaxChannels -> Seq(Callbacks)]
  BY DEF PsInit
<1>2. walks = <<>> /\ nchan = 0 /\ sends = 0 /\ registry \in [Registries -> 0..nchan]
  BY DEF PsInit
<1>3. PsTypeOK
  BY <1>1, <1>2, PubSubAssumption DEF PsTypeOK
<1>4. QED
  BY <1>2, <1>3 DEF PsIInv

\* Each action keeps PsIInv.
LEMMA PsStep ==
    ASSUME PsIInv, PsNext
    PROVE  PsIInv'
<1>1. PsTypeOK /\ 0 \in 0..nchan /\ nchan \in 0..MaxChannels /\ nchan <= nchan
  BY PsTypes, PubSubAssumption DEF PsTypeOK
<1>2. ASSUME NEW r \in Registries PROVE registry[r] \in 0..nchan
  BY <1>1, <1>2 DEF PsTypeOK
<1>3. "client" \in Registries /\ "server" \in Registries
  BY DEF Registries
<1>4. ASSUME NEW c \in Callbacks, NEW o \in 0..nchan, Subscribe(o, c) \/ Unsubscribe(o, c)
      PROVE  PsIInv'
  BY <1>4, SubscribeKeeps, UnsubscribeKeeps
<1>5. ASSUME NEW c \in Callbacks, On(c)
      PROVE  PsIInv'
  <2>1. CASE registry["client"] # 0 /\ Subscribe(registry["client"], c)
    BY <1>2, <1>3, <2>1, SubscribeKeeps
  <2>2. CASE /\ NewChannel("client") /\ subs' = [subs EXCEPT ![nchan + 1] = <<c>>]
             /\ UNCHANGED <<sends, walks>>
    <3>1. <<c>> \in Seq(Callbacks)
      OBVIOUS
    <3>2. QED
      BY <1>3, <2>2, <3>1, ChannelKeeps, ChannelInv
  <2>3. QED
    BY <1>5, <2>1, <2>2 DEF On
<1>6. CASE CreateChannel
  BY <1>3, <1>6, ChannelKeeps, ChannelInv DEF CreateChannel
<1>7. CASE Publish
  BY <1>1, <1>7, BeginKeeps DEF Publish, PsTypeOK
<1>8. CASE Broadcast
  <2>1. Begin(registry["server"]) /\ UNCHANGED <<nchan, registry>>
    BY <1>8 DEF Broadcast
  <2>2. QED
    BY <1>1, <1>2, <1>3, <2>1, BeginKeeps DEF PsTypeOK
<1>9. CASE Emit
  <2>1. CASE Begin(registry["client"]) /\ UNCHANGED <<nchan, registry>>
    BY <1>1, <1>2, <1>3, <2>1, BeginKeeps DEF PsTypeOK
  <2>2. CASE NewChannel("client") /\ Begin(nchan + 1)
    <3>1. /\ nchan' = nchan + 1 /\ nchan' \in 0..MaxChannels /\ nchan <= nchan'
          /\ nchan + 1 \in 0..nchan' /\ registry' = [registry EXCEPT !["client"] = nchan + 1]
      BY <1>1, <2>2, PubSubAssumption DEF NewChannel
    <3>2. registry' \in [Registries -> 0..nchan']
      <4>1. registry \in [Registries -> 0..nchan] /\ 0..nchan \subseteq 0..(nchan + 1)
        BY <1>1 DEF PsTypeOK
      <4>2. nchan + 1 \in 0..(nchan + 1)
        BY <1>1
      <4>3. registry' \in [Registries -> 0..(nchan + 1)]
        BY <3>1, <4>1, <4>2
      <4>4. QED
        BY <3>1, <4>3
    <3>3. QED
      BY <2>2, <3>1, <3>2, BeginKeeps
  <2>3. QED
    BY <1>9, <2>1, <2>2 DEF Emit
<1>10. CASE Deliver
  BY <1>10, DeliverKeeps
<1>11. CASE EndOfList
  BY <1>11, EndOfListKeeps
<1>12. QED
  BY <1>4, <1>5, <1>6, <1>7, <1>8, <1>9, <1>10, <1>11 DEF PsNext

\* PsIInv holds in every state: for each delivery under way, the calls made
\* and those still owed are paid by subscriptions, and the length of the list
\* is explained by the changes made since the delivery began.
THEOREM DeliveriesInvariant == PsSpec => []PsIInv
<1>1. PsIInv /\ UNCHANGED psVars => PsIInv'
  BY DEF psVars, PsIInv, PsTypeOK
<1>2. PsIInv /\ [PsNext]_psVars => PsIInv'
  BY <1>1, PsStep
<1>3. QED
  BY <1>2, PsInitial, PTL DEF PsSpec

\* DeliveryExact, for any number of callbacks, channels and nested deliveries:
\* no callback is called more often than it is subscribed, and a call is missed
\* only by a removal made during the delivery.
THEOREM DeliveriesAreExact == PsSpec => []DeliveryExact
<1>1. ASSUME PsIInv
      PROVE  DeliveryExact
  <2>1. ASSUME NEW n \in DOMAIN walks, NEW c \in Callbacks
        PROVE  Times(walks[n].called, c) <= Times(walks[n].start, c) + Times(walks[n].added, c)
    <3>1. PICK w, list : w = walks[n] /\ list = subs[walks[n].list]
      OBVIOUS
    <3>2. w \in Walks /\ WalkInv(w, list) /\ list \in Seq(Callbacks)
      BY <1>1, <3>1, WalkHere
    <3>3. Times(w.called, c) + From(list, w.next, c) <= Times(w.start, c) + Times(w.added, c)
      BY <3>2 DEF WalkInv
    <3>4. /\ Times(w.called, c) \in Nat /\ From(list, w.next, c) \in Nat
          /\ Times(w.start, c) \in Nat /\ Times(w.added, c) \in Nat
      BY <3>2, WalkFacts, TimesNat, PlacesFacts
    <3>5. QED
      BY <3>1, <3>3, <3>4
  <2>2. ASSUME walks # <<>>, inner.next > Len(subs[inner.list])
        PROVE  Len(inner.called) + inner.removals >= Len(inner.start)
    <3>1. PICK w, list : w = inner /\ list = subs[inner.list]
      OBVIOUS
    <3>2. walks \in Seq(Walks) /\ Len(walks) \in DOMAIN walks
      BY <1>1, <2>2 DEF PsIInv, PsTypeOK
    <3>3. w \in Walks /\ WalkInv(w, list) /\ list \in Seq(Callbacks)
      BY <1>1, <3>1, <3>2, WalkHere DEF inner
    <3>4. /\ Len(w.called) = w.next - 1 /\ w.next > Len(list)
          /\ Len(list) + w.removals = Len(w.start) + Len(w.added)
      BY <2>2, <3>1, <3>3 DEF WalkInv
    <3>5. /\ Len(list) \in Nat /\ w.removals \in Nat /\ w.next \in Nat
          /\ Len(w.start) \in Nat /\ Len(w.added) \in Nat /\ Len(w.called) \in Nat
      BY <3>3, WalkFacts
    <3>6. Len(w.called) + w.removals >= Len(w.start)
      <4>1. PICK a, b, s, n, called, next :
               /\ a = Len(list) /\ b = w.removals /\ s = Len(w.start) /\ n = Len(w.added)
               /\ called = Len(w.called) /\ next = w.next
        OBVIOUS
      <4>2. /\ a \in Nat /\ b \in Nat /\ s \in Nat /\ n \in Nat /\ next \in Nat
            /\ called = next - 1 /\ next > a /\ a + b = s + n
        BY <3>4, <3>5, <4>1
      <4>3. called + b >= s
        BY <4>2
      <4>4. QED
        BY <4>1, <4>3
    <3>7. QED
      BY <3>1, <3>6
  <2>3. QED
    BY <2>1, <2>2 DEF DeliveryExact, NoDoubleDelivery, MissedOnlyByRemoval
<1>2. QED
  BY <1>1, DeliveriesInvariant, PTL
-----------------------------------------------------------------------------
(* DslTools: the formatter and the source map *)

FmtSpec == FmtInit /\ [][FmtNext]_fmtVars
SmapSpec == SmapInit /\ [][SmapNext]_smapVars

\* How many of the first n members are of a kind.
Num(list, kind, n) == Cardinality({i \in 1..n : list[i] = kind})

LEMMA NumNat ==
    ASSUME NEW list, NEW kind, NEW n \in Nat
    PROVE  IsFiniteSet({i \in 1..n : list[i] = kind}) /\ Num(list, kind, n) \in Nat
<1>1. IsFiniteSet(1..n)
  BY FS_Interval
<1>2. {i \in 1..n : list[i] = kind} \in SUBSET (1..n)
  OBVIOUS
<1>3. IsFiniteSet({i \in 1..n : list[i] = kind})
  BY <1>1, <1>2, FS_Subset
<1>4. QED
  BY <1>3, FS_CardinalityType DEF Num

LEMMA NumNext ==
    ASSUME NEW list, NEW kind, NEW n \in Nat
    PROVE  Num(list, kind, n + 1) = Num(list, kind, n) + IF list[n + 1] = kind THEN 1 ELSE 0
<1>1. PICK A, B : A = {i \in 1..n : list[i] = kind} /\ B = {i \in 1..(n + 1) : list[i] = kind}
  OBVIOUS
<1>2. IsFiniteSet(A) /\ Num(list, kind, n) \in Nat /\ n + 1 \notin A
  <2>1. n + 1 \notin 1..n
    OBVIOUS
  <2>2. n + 1 \notin A
    BY <1>1, <2>1
  <2>3. QED
    BY <1>1, <2>2, NumNat
<1>3. Num(list, kind, n) = Cardinality(A) /\ Num(list, kind, n + 1) = Cardinality(B)
  BY <1>1 DEF Num
<1>4. CASE list[n + 1] = kind
  <2>1. B = A \cup {n + 1}
    BY <1>1, <1>4
  <2>2. Cardinality(B) = Cardinality(A) + 1
    BY <1>2, <2>1, FS_AddElement
  <2>3. QED
    BY <1>3, <1>4, <2>2
<1>5. CASE list[n + 1] # kind
  <2>1. B = A
    BY <1>1, <1>5
  <2>2. QED
    BY <1>2, <1>3, <1>5, <2>1
<1>6. QED
  BY <1>4, <1>5

LEMMA NumSame ==
    ASSUME NEW list, NEW new, NEW kind, NEW n \in Nat, \A i \in 1..n : new[i] = list[i]
    PROVE  Num(new, kind, n) = Num(list, kind, n)
<1>1. {i \in 1..n : new[i] = kind} = {i \in 1..n : list[i] = kind}
  OBVIOUS
<1>2. QED
  BY <1>1 DEF Num

NestedIn(list, n) == \A i \in 1..n : Num(list, "close", i) <= Num(list, "open", i)
Depth(list, n) == Num(list, "open", n) - Num(list, "close", n)

\* What is known of one line, and of the depth at the end of the first n lines.
LineOK(list, i, indent) ==
    NestedIn(list, i) /\ indent # Kept =>
        LET depth == Num(list, "open", i - 1) - Num(list, "close", i) IN
        /\ indent <= depth
        /\ Num(list, "both", i - 1) = 0 => indent = depth

LevelOK(list, n, l) ==
    NestedIn(list, n) => l <= Depth(list, n) /\ (Num(list, "both", n) = 0 => l = Depth(list, n))

FmtParts(list, indents, l) ==
    /\ list \in Seq(Kinds) /\ indents \in Seq(Int) /\ Len(indents) = Len(list) /\ l \in Nat
    /\ LevelOK(list, Len(list), l)
    /\ \A i \in DOMAIN indents : LineOK(list, i, indents[i])

LEMMA FmtIsParts == FmtIInv <=> FmtParts(lines, out, level)
BY DEF FmtIInv, FmtParts, LevelOK, LineOK, IndentIsDepth, Nested, NestedIn, Count, Num, Depth

LEMMA FmtIsPartsNext == FmtIInv' <=> FmtParts(lines', out', level')
BY DEF FmtIInv, FmtParts, LevelOK, LineOK, IndentIsDepth, Nested, NestedIn, Count, Num, Depth

LEMMA EmptyFile == FmtParts(<<>>, <<>>, 0)
<1>1. Num(<<>>, "open", 0) = 0 /\ Num(<<>>, "close", 0) = 0
  <2>1. \A kind : {i \in 1..0 : <<>>[i] = kind} = {}
    OBVIOUS
  <2>2. QED
    BY <2>1, FS_EmptySet DEF Num
<1>2. Len(<<>>) = 0 /\ <<>> \in Seq(Kinds) /\ <<>> \in Seq(Int) /\ DOMAIN <<>> = {}
  OBVIOUS
<1>3. LevelOK(<<>>, 0, 0)
  BY <1>1 DEF LevelOK, Depth
<1>4. QED
  BY <1>2, <1>3 DEF FmtParts

\* A line reads the level that the lines before it have left.
LEMMA LineKeeps ==
    ASSUME FmtIInv, NEW kind \in Kinds, FormatLine(kind)
    PROVE  FmtIInv'
<1>1. PICK list, indents, l : list = lines /\ indents = out /\ l = level
  OBVIOUS
<1>2. FmtParts(list, indents, l)
  BY <1>1, FmtIsParts
<1>3. PICK less : less = IF l > 0 THEN l - 1 ELSE 0
  OBVIOUS
<1>4. PICK indent : indent = CASE kind = "comment" -> Kept [] kind = "close" -> less [] OTHER -> l
  OBVIOUS
<1>5. PICK next : next = CASE kind = "open" -> l + 1 [] kind \in {"close", "both"} -> less [] OTHER -> l
  OBVIOUS
<1>6. lines' = Append(list, kind) /\ out' = Append(indents, indent) /\ level' = next
  BY <1>1, <1>3, <1>4, <1>5 DEF FormatLine
<1>7. PICK new, newIndents : new = Append(list, kind) /\ newIndents = Append(indents, indent)
  OBVIOUS
<1>8. PICK n : n = Len(list)
  OBVIOUS
<1>9. l \in Nat /\ less \in Nat /\ indent \in Int /\ next \in Nat /\ n \in Nat
  BY <1>2, <1>3, <1>4, <1>5, <1>8 DEF FmtParts, Kept
<1>10. /\ new \in Seq(Kinds) /\ Len(new) = n + 1 /\ new[n + 1] = kind
       /\ \A i \in 1..n : new[i] = list[i]
  BY <1>2, <1>7, <1>8, AppendProperties DEF FmtParts
<1>11. /\ newIndents \in Seq(Int) /\ Len(newIndents) = n + 1 /\ newIndents[n + 1] = indent
       /\ \A i \in 1..n : newIndents[i] = indents[i]
  BY <1>2, <1>7, <1>8, <1>9, AppendProperties DEF FmtParts
<1>12. ASSUME NEW k, NEW m \in 0..n
       PROVE  Num(new, k, m) = Num(list, k, m)
  BY <1>9, <1>10, NumSame
<1>13. ASSUME NEW m \in 0..n
       PROVE  NestedIn(new, m) <=> NestedIn(list, m)
  BY <1>9, <1>12 DEF NestedIn
<1>14. PICK o, c, b : o = Num(list, "open", n) /\ c = Num(list, "close", n) /\ b = Num(list, "both", n)
  OBVIOUS
<1>15. o \in Nat /\ c \in Nat /\ b \in Nat
  BY <1>9, <1>14, NumNat
<1>16. /\ Num(new, "open", n) = o /\ Num(new, "close", n) = c /\ Num(new, "both", n) = b
  BY <1>9, <1>12, <1>14
<1>17. PICK o1, c1, b1 : /\ o1 = Num(new, "open", n + 1) /\ c1 = Num(new, "close", n + 1)
                         /\ b1 = Num(new, "both", n + 1)
  OBVIOUS
<1>18. /\ o1 = o + IF kind = "open" THEN 1 ELSE 0
       /\ c1 = c + IF kind = "close" THEN 1 ELSE 0
       /\ b1 = b + IF kind = "both" THEN 1 ELSE 0
  BY <1>9, <1>10, <1>16, <1>17, NumNext
<1>19. NestedIn(new, n + 1) => NestedIn(list, n) /\ c1 <= o1
  <2>1. ASSUME NestedIn(new, n + 1) PROVE NestedIn(new, n) /\ c1 <= o1
    BY <1>9, <1>17, <2>1 DEF NestedIn
  <2>2. QED
    BY <1>9, <1>13, <2>1
<1>20. NestedIn(list, n) => l <= o - c /\ (b = 0 => l = o - c)
  BY <1>2, <1>8, <1>14 DEF FmtParts, LevelOK, Depth
<1>21. ASSUME NestedIn(new, n + 1)
       PROVE  /\ next <= o1 - c1 /\ (b1 = 0 => next = o1 - c1)
              /\ indent # Kept => indent <= o - c1 /\ (b = 0 => indent = o - c1)
  <2>1. l <= o - c /\ (b = 0 => l = o - c) /\ c1 <= o1
    BY <1>19, <1>20, <1>21
  <2>2. CASE kind = "open"
    BY <1>4, <1>5, <1>9, <1>15, <1>18, <2>1, <2>2
  <2>3. CASE kind = "close"
    BY <1>3, <1>4, <1>5, <1>9, <1>15, <1>18, <2>1, <2>3
  <2>4. CASE kind = "both"
    BY <1>3, <1>4, <1>5, <1>9, <1>15, <1>18, <2>1, <2>4
  <2>5. CASE kind \in {"comment", "plain"}
    BY <1>4, <1>5, <1>9, <1>15, <1>18, <2>1, <2>5
  <2>6. QED
    BY <2>2, <2>3, <2>4, <2>5 DEF Kinds
<1>22. LevelOK(new, n + 1, next)
  BY <1>17, <1>21 DEF LevelOK, Depth
<1>23. ASSUME NEW i \in DOMAIN newIndents
       PROVE  LineOK(new, i, newIndents[i])
  <2>1. i \in 1..(n + 1)
    BY <1>11
  <2>2. CASE i = n + 1
    <3>1. (n + 1) - 1 = n
      BY <1>9
    <3>2. LineOK(new, n + 1, indent)
      BY <1>16, <1>17, <1>21, <3>1 DEF LineOK
    <3>3. QED
      BY <1>11, <2>2, <3>2
  <2>3. CASE i # n + 1
    <3>1. i \in 1..n /\ i \in 0..n /\ i - 1 \in 0..n
      BY <1>9, <2>1, <2>3
    <3>2. i \in DOMAIN indents
      BY <1>2, <1>8, <3>1 DEF FmtParts
    <3>3. LineOK(list, i, indents[i])
      BY <1>2, <3>2 DEF FmtParts
    <3>4. newIndents[i] = indents[i]
      BY <1>11, <3>1
    <3>5. /\ NestedIn(new, i) <=> NestedIn(list, i)
          /\ Num(new, "open", i - 1) = Num(list, "open", i - 1)
          /\ Num(new, "both", i - 1) = Num(list, "both", i - 1)
          /\ Num(new, "close", i) = Num(list, "close", i)
      BY <1>12, <1>13, <3>1
    <3>6. QED
      BY <3>3, <3>4, <3>5 DEF LineOK
  <2>4. QED
    BY <2>2, <2>3
<1>24. FmtParts(new, newIndents, next)
  BY <1>9, <1>10, <1>11, <1>22, <1>23 DEF FmtParts
<1>25. QED
  BY <1>6, <1>7, <1>24, FmtIsPartsNext

\* FmtIInv holds in every state: the level is the depth of what has been read.
THEOREM FormatterInvariant == FmtSpec => []FmtIInv
<1>1. FmtInit => FmtIInv
  BY EmptyFile, FmtIsParts DEF FmtInit
<1>2. ASSUME FmtIInv, [FmtNext]_fmtVars
      PROVE  FmtIInv'
  <2>1. CASE OpenFile
    BY <2>1, EmptyFile, FmtIsPartsNext DEF OpenFile, OpenFileAt
  <2>2. ASSUME NEW kind \in Kinds, FormatLine(kind)
        PROVE  FmtIInv'
    BY <1>2, <2>2, LineKeeps
  <2>3. CASE UNCHANGED fmtVars
    <3>1. lines' = lines /\ out' = out /\ level' = level
      BY <2>3 DEF fmtVars
    <3>2. QED
      BY <1>2, <3>1, FmtIsParts, FmtIsPartsNext
  <2>4. QED
    BY <1>2, <2>1, <2>2, <2>3 DEF FmtNext
<1>3. QED
  BY <1>1, <1>2, PTL DEF FmtSpec

-----------------------------------------------------------------------------
\* Induction is the least number principle: every set of numbers has a least one.
LessThan == {r \in Nat \X Nat : r[1] < r[2]}

LEMMA LeastNumber ==
    ASSUME NEW T, T \subseteq Nat, T # {}
    PROVE  \E m \in T : \A n \in T : m <= n
<1>1. OpToRel(<, Nat) = LessThan
  BY DEF OpToRel, LessThan
<1>2. IsWellFoundedOn(LessThan, Nat)
  BY <1>1, NatLessThanWellFounded
<1>3. PICK x \in T : \A y \in T : ~ (<<y, x>> \in LessThan)
  BY <1>2, WFMin
<1>4. ASSUME NEW y \in T PROVE x <= y
  <2>1. x \in Nat /\ y \in Nat
    OBVIOUS
  <2>2. <<y, x>> \in Nat \X Nat /\ <<y, x>>[1] = y /\ <<y, x>>[2] = x
    BY <2>1
  <2>3. y < x => <<y, x>> \in LessThan
    BY <2>2 DEF LessThan
  <2>4. ~(y < x)
    BY <1>3, <2>3
  <2>5. QED
    BY <2>1, <2>4
<1>5. QED
  BY <1>4

Earlier(tracked, s) == {t \in tracked : t < s}

LEMMA MovedFacts ==
    ASSUME NEW tracked \in SUBSET (1..GenLines), NEW s \in Nat
    PROVE  /\ IsFiniteSet(tracked) /\ IsFiniteSet(Earlier(tracked, s))
           /\ Cardinality(Earlier(tracked, s)) \in Nat
           /\ Moved(tracked, s) = s + Cardinality(Earlier(tracked, s))
           /\ Moved(tracked, s) \in Nat
<1>1. IsFiniteSet(1..GenLines)
  BY FS_Interval, DslToolsAssumption
<1>2. IsFiniteSet(tracked)
  BY <1>1, FS_Subset
<1>3. Earlier(tracked, s) \in SUBSET tracked
  BY DEF Earlier
<1>4. IsFiniteSet(Earlier(tracked, s))
  BY <1>2, <1>3, FS_Subset
<1>5. Cardinality(Earlier(tracked, s)) \in Nat
  BY <1>4, FS_CardinalityType
<1>6. Moved(tracked, s) = s + Cardinality(Earlier(tracked, s))
  BY DEF Moved, Earlier
<1>7. QED
  BY <1>2, <1>4, <1>5, <1>6

\* The next line comes after this one and its comment.
LEMMA MovedNext ==
    ASSUME NEW tracked \in SUBSET (1..GenLines), NEW s \in Nat
    PROVE  Moved(tracked, s + 1) = Moved(tracked, s) + 1 + IF s \in tracked THEN 1 ELSE 0
<1>1. PICK A, B : A = Earlier(tracked, s) /\ B = Earlier(tracked, s + 1)
  OBVIOUS
<1>2. \A t \in tracked : t < s + 1 <=> t < s \/ t = s
  BY DslToolsAssumption
<1> s + 1 \in Nat
  OBVIOUS
<1>3. /\ IsFiniteSet(A) /\ Cardinality(A) \in Nat /\ Moved(tracked, s) = s + Cardinality(A)
      /\ Moved(tracked, s + 1) = (s + 1) + Cardinality(B)
  BY <1>1, MovedFacts
<1>4. CASE s \in tracked
  <2>1. B = A \cup {s}
    BY <1>1, <1>2, <1>4 DEF Earlier
  <2>2. s \notin A
    BY <1>1 DEF Earlier
  <2>3. Cardinality(B) = Cardinality(A) + 1
    BY <1>3, <2>1, <2>2, FS_AddElement
  <2>4. QED
    BY <1>3, <1>4, <2>3
<1>5. CASE s \notin tracked
  <2>1. B = A
    BY <1>1, <1>2, <1>5 DEF Earlier
  <2>2. QED
    BY <1>3, <1>5, <2>1
<1>6. QED
  BY <1>4, <1>5

LEMMA MovedMonotone ==
    ASSUME NEW tracked \in SUBSET (1..GenLines), NEW s \in Nat, NEW t \in Nat, s <= t
    PROVE  Moved(tracked, s) <= Moved(tracked, t)
<1>1. Earlier(tracked, s) \in SUBSET Earlier(tracked, t)
  <2>1. ASSUME NEW u \in tracked, u < s PROVE u < t
    <3>1. u \in Nat
      BY DslToolsAssumption
    <3>2. QED
      BY <2>1, <3>1
  <2>2. QED
    BY <2>1 DEF Earlier
<1>2. Cardinality(Earlier(tracked, s)) <= Cardinality(Earlier(tracked, t))
  BY <1>1, MovedFacts, FS_Subset
<1>3. PICK a, b : a = Cardinality(Earlier(tracked, s)) /\ b = Cardinality(Earlier(tracked, t))
  OBVIOUS
<1>4. /\ a \in Nat /\ b \in Nat /\ a <= b
      /\ Moved(tracked, s) = s + a /\ Moved(tracked, t) = t + b
  BY <1>2, <1>3, MovedFacts
<1>5. QED
  BY <1>4

\* The first line stays, and the line after the last one tells the length.
LEMMA MovedEnds ==
    ASSUME NEW tracked \in SUBSET (1..GenLines)
    PROVE  /\ Moved(tracked, 1) = 1
           /\ Moved(tracked, GenLines + 1) = GenLines + 1 + Cardinality(tracked)
<1>1. Earlier(tracked, 1) = {} /\ Earlier(tracked, GenLines + 1) = tracked
  <2>1. \A t \in tracked : ~(t < 1) /\ t < GenLines + 1
    BY DslToolsAssumption
  <2>2. QED
    BY <2>1 DEF Earlier
<1>2. Cardinality({}) = 0 /\ Cardinality(tracked) \in Nat
  BY FS_EmptySet, MovedFacts, FS_CardinalityType
<1>3. GenLines + 1 \in Nat /\ 1 \in Nat
  BY DslToolsAssumption
<1>4. /\ Moved(tracked, 1) = 1 + Cardinality(Earlier(tracked, 1))
      /\ Moved(tracked, GenLines + 1) = (GenLines + 1) + Cardinality(Earlier(tracked, GenLines + 1))
  BY <1>3, MovedFacts
<1>5. QED
  BY <1>1, <1>2, <1>4

\* Every line of the file stands for one line of the source.
LEMMA LineExists ==
    ASSUME NEW tracked \in SUBSET (1..GenLines), NEW n \in 1..(GenLines + Cardinality(tracked))
    PROVE  \E s \in 1..GenLines : n \in LinesOf(tracked, s)
<1>1. Cardinality(tracked) \in Nat /\ GenLines \in Nat /\ n \in Nat /\ n >= 1
  BY DslToolsAssumption, MovedFacts, FS_CardinalityType
<1>2. PICK T : T = {s \in Nat : n < Moved(tracked, s + 1)}
  OBVIOUS
<1>3. GenLines \in T
  BY <1>1, <1>2, MovedEnds
<1>4. PICK s \in T : \A t \in T : s <= t
  BY <1>2, <1>3, LeastNumber
<1>5. s \in Nat /\ n < Moved(tracked, s + 1) /\ s <= GenLines
  BY <1>2, <1>3, <1>4
<1>6. s # 0
  BY <1>1, <1>5, MovedEnds
<1>7. s \in 1..GenLines /\ s - 1 \in Nat /\ (s - 1) + 1 = s
  BY <1>1, <1>5, <1>6
<1>8. s - 1 \notin T
  BY <1>4, <1>5, <1>7
<1>9. ~(n < Moved(tracked, s))
  BY <1>2, <1>7, <1>8
<1>10. Moved(tracked, s) \in Nat
  BY <1>5, MovedFacts
<1>11. Moved(tracked, s + 1) = Moved(tracked, s) + 1 + IF s \in tracked THEN 1 ELSE 0
  BY <1>5, MovedNext
<1>12. n \in LinesOf(tracked, s)
  <2>1. PICK a, one \in Nat : a = Moved(tracked, s) /\ one = IF s \in tracked THEN 1 ELSE 0
    BY <1>10
  <2>2. n < a + 1 + one /\ ~(n < a)
    BY <1>5, <1>9, <1>11, <2>1
  <2>3. n \in a..(a + one)
    BY <1>1, <2>1, <2>2
  <2>4. QED
    BY <2>1, <2>3 DEF LinesOf
<1>13. QED
  BY <1>7, <1>12

\* What a line of the file is, by its source line.
LEMMA LineIs ==
    ASSUME NEW tracked \in SUBSET (1..GenLines), NEW n \in DOMAIN Injected(tracked)
    PROVE  LET line == Injected(tracked)[n] IN
           /\ line.src \in 1..GenLines /\ line.mark \in BOOLEAN /\ n \in Nat
           /\ line.mark => line.src \in tracked /\ n = Moved(tracked, line.src) + 1
           /\ ~line.mark => n = Moved(tracked, line.src)
<1>1. n \in 1..(GenLines + Cardinality(tracked))
  BY DEF Injected
<1>2. PICK s : s = CHOOSE x \in 1..GenLines : n \in LinesOf(tracked, x)
  OBVIOUS
<1>3. s \in 1..GenLines /\ n \in LinesOf(tracked, s)
  BY <1>1, <1>2, LineExists
<1>4. Injected(tracked)[n] = IF n = Moved(tracked, s) THEN Code(s) ELSE Comment(s)
  BY <1>1, <1>2 DEF Injected
<1>5. s \in Nat /\ n \in Nat /\ Moved(tracked, s) \in Nat
  <2>1. s \in Nat /\ GenLines \in Nat
    BY <1>3, DslToolsAssumption
  <2>2. Moved(tracked, s) \in Nat /\ IsFiniteSet(tracked)
    BY <2>1, MovedFacts
  <2>3. Cardinality(tracked) \in Nat
    BY <2>2, FS_CardinalityType
  <2>4. n \in Nat
    BY <1>1, <2>1, <2>3
  <2>5. QED
    BY <2>1, <2>2, <2>4
<1>6. n # Moved(tracked, s) => s \in tracked /\ n = Moved(tracked, s) + 1
  BY <1>3, <1>5 DEF LinesOf
<1>7. /\ Code(s).src = s /\ Code(s).mark = FALSE
      /\ Comment(s).src = s /\ Comment(s).mark = TRUE
  BY DEF Code, Comment
<1>8. CASE n = Moved(tracked, s)
  BY <1>3, <1>4, <1>5, <1>7, <1>8
<1>9. CASE n # Moved(tracked, s)
  BY <1>3, <1>4, <1>5, <1>6, <1>7, <1>9
<1>10. QED
  BY <1>8, <1>9

\* A later line of the source stands after an earlier one and its comment.
LEMMA MovedApart ==
    ASSUME NEW tracked \in SUBSET (1..GenLines), NEW s \in 1..GenLines, NEW t \in 1..GenLines, s < t
    PROVE  Moved(tracked, s) + 1 + (IF s \in tracked THEN 1 ELSE 0) <= Moved(tracked, t)
<1>1. s \in Nat /\ t \in Nat /\ s + 1 \in Nat /\ s + 1 <= t
  BY DslToolsAssumption
<1>2. Moved(tracked, s + 1) <= Moved(tracked, t)
  BY <1>1, MovedMonotone
<1>3. QED
  BY <1>1, <1>2, MovedNext

\* The comment of a tracked line follows it.
LEMMA CommentFollows ==
    ASSUME NEW tracked \in SUBSET (1..GenLines), NEW s \in tracked
    PROVE  /\ Moved(tracked, s) + 1 \in DOMAIN Injected(tracked)
           /\ Injected(tracked)[Moved(tracked, s) + 1] = Comment(s)
<1>1. s \in 1..GenLines /\ s \in Nat /\ s + 1 \in Nat /\ GenLines + 1 \in Nat /\ s + 1 <= GenLines + 1
  BY DslToolsAssumption
<1>2. PICK n : n = Moved(tracked, s) + 1
  OBVIOUS
<1>3. Moved(tracked, s) \in Nat /\ Moved(tracked, s) >= 1
  BY <1>1, MovedFacts
<1>4. Moved(tracked, s + 1) = n + 1
  BY <1>1, <1>2, <1>3, MovedNext
<1>5. n + 1 <= GenLines + 1 + Cardinality(tracked)
  BY <1>1, <1>4, MovedMonotone, MovedEnds
<1>6. n \in DOMAIN Injected(tracked)
  <2>1. Cardinality(tracked) \in Nat /\ GenLines \in Nat
    BY DslToolsAssumption, <1>1, MovedFacts, FS_CardinalityType
  <2>2. n \in 1..(GenLines + Cardinality(tracked))
    BY <1>2, <1>3, <1>5, <2>1
  <2>3. QED
    BY <2>2 DEF Injected
<1>7. PICK t : t = CHOOSE x \in 1..GenLines : n \in LinesOf(tracked, x)
  OBVIOUS
<1>8. /\ t \in 1..GenLines /\ n \in LinesOf(tracked, t)
      /\ Injected(tracked)[n] = IF n = Moved(tracked, t) THEN Code(t) ELSE Comment(t)
  BY <1>6, <1>7, LineExists DEF Injected
<1>9. t = s
  <2>1. PICK one \in Nat : one = IF t \in tracked THEN 1 ELSE 0
    OBVIOUS
  <2>2. Moved(tracked, t) \in Nat /\ t \in Nat
    BY <1>8, DslToolsAssumption, MovedFacts
  <2>3. Moved(tracked, t) <= n /\ n <= Moved(tracked, t) + one
    BY <1>8, <2>1, <2>2 DEF LinesOf
  <2>4. ~(t < s)
    <3>1. t < s => Moved(tracked, t) + 1 + one <= Moved(tracked, s)
      BY <1>1, <1>8, <2>1, MovedApart
    <3>2. QED
      BY <1>2, <1>3, <2>2, <2>3, <3>1
  <2>5. ~(s < t)
    <3>1. s < t => Moved(tracked, s) + 1 + 1 <= Moved(tracked, t)
      BY <1>1, <1>8, MovedApart
    <3>2. QED
      BY <1>2, <1>3, <2>2, <2>3, <3>1
  <2>6. QED
    BY <1>1, <2>2, <2>4, <2>5
<1>10. n # Moved(tracked, s)
  BY <1>2, <1>3
<1>11. QED
  BY <1>2, <1>6, <1>8, <1>9, <1>10

LEMMA DistanceNat ==
    ASSUME NEW e, e.at \in Nat, NEW l \in Nat
    PROVE  Distance(e, l) \in Nat
BY DEF Distance

\* translate_error finds an entry: of those at the least distance, the first.
Nearest(found, l, e) ==
    \A f \in found :
        Distance(e, l) < Distance(f, l) \/ (Distance(e, l) = Distance(f, l) /\ e.at <= f.at)

LEMMA NearestExists ==
    ASSUME NEW found, found # {}, \A f \in found : f.at \in Nat, NEW l \in Nat
    PROVE  \E e \in found : Nearest(found, l, e)
<1>1. PICK T : T = {d \in Nat : \E f \in found : d = Distance(f, l)}
  OBVIOUS
<1>2. \A f \in found : Distance(f, l) \in T
  BY <1>1, DistanceNat
<1>3. PICK d \in T : \A b \in T : d <= b
  BY <1>1, <1>2, LeastNumber
<1>4. PICK U : U = {a \in Nat : \E f \in found : a = f.at /\ Distance(f, l) = d}
  OBVIOUS
<1>5. PICK g \in found : Distance(g, l) = d
  BY <1>1, <1>3
<1>6. g.at \in U
  BY <1>4, <1>5
<1>7. PICK a \in U : \A b \in U : a <= b
  BY <1>4, <1>6, LeastNumber
<1>8. PICK e \in found : a = e.at /\ Distance(e, l) = d
  BY <1>4, <1>7
<1>9. ASSUME NEW f \in found
      PROVE  Distance(e, l) < Distance(f, l) \/ (Distance(e, l) = Distance(f, l) /\ e.at <= f.at)
  <2>1. d <= Distance(f, l) /\ d \in Nat /\ Distance(f, l) \in Nat
    BY <1>1, <1>2, <1>3
  <2>2. CASE Distance(f, l) = d
    <3>1. f.at \in U
      BY <1>4, <2>2
    <3>2. e.at <= f.at
      BY <1>7, <1>8, <3>1
    <3>3. QED
      BY <1>8, <2>2, <3>2
  <2>3. CASE Distance(f, l) # d
    BY <1>8, <2>1, <2>3
  <2>4. QED
    BY <2>2, <2>3
<1>10. QED
  BY <1>9 DEF Nearest

\* SmapIInv holds in every state: the file is the code with a comment after
\* each tracked line, and a map that is fresh has these comments.
THEOREM SourceMapInvariant == SmapSpec => []SmapIInv
<1>1. SmapInit => SmapIInv
  <2> SUFFICES ASSUME SmapInit PROVE SmapIInv
    OBVIOUS
  <2>1. {} \in SUBSET (1..GenLines)
    OBVIOUS
  <2>2. QED
    BY <2>1 DEF SmapInit, SmapIInv
<1>2. ASSUME SmapIInv, [SmapNext]_smapVars
      PROVE  SmapIInv'
  <2>1. CASE Compile
    <3>1. {} \in SUBSET (1..GenLines)
      OBVIOUS
    <3>2. gen' = Injected({}) /\ fresh' = FALSE
      BY <2>1 DEF Compile
    <3>3. QED
      BY <3>1, <3>2 DEF SmapIInv
  <2>2. ASSUME NEW tracked \in SUBSET (1..GenLines), Inject(tracked)
        PROVE  SmapIInv'
    BY <2>2 DEF Inject, SmapIInv
  <2>3. CASE GenerateForFile
    BY <1>2, <2>3 DEF GenerateForFile, SmapIInv, Marks
  <2>4. CASE UNCHANGED smapVars
    BY <1>2, <2>4 DEF smapVars, SmapIInv, Marks
  <2>5. QED
    BY <1>2, <2>1, <2>2, <2>3, <2>4 DEF SmapNext
<1>3. QED
  BY <1>1, <1>2, PTL DEF SmapSpec

\* One translation: the answer is the source line of the nearest comment, and
\* lines and comments stand in the order of their source lines.
LEMMA TranslatedNear ==
    ASSUME NEW tracked \in SUBSET (1..GenLines), gen = Injected(tracked), smap = Marks,
           smap # {}, NEW l \in DOMAIN gen, ~gen[l].mark
    PROVE  LET answer == Translate(l)
               known == {e.src : e \in smap}
               here == gen[l].src
           IN  /\ answer \in known
               /\ \A s \in known : ~(here < s /\ s < answer) /\ ~(answer < s /\ s < here)
               /\ here \in known => answer = here \/ (answer = here - 1)
<1>1. PICK here : here = gen[l].src
  OBVIOUS
<1>2. here \in 1..GenLines /\ here \in Nat /\ l \in Nat /\ l = Moved(tracked, here)
  BY <1>1, LineIs, DslToolsAssumption
<1>3. ASSUME NEW e \in smap
      PROVE  e.src \in tracked /\ e.src \in Nat /\ e.at \in Nat /\ e.at = Moved(tracked, e.src) + 1
  <2>1. PICK i \in DOMAIN gen : gen[i].mark /\ e = [at |-> i, src |-> gen[i].src]
    BY DEF Marks
  <2>2. e.at = i /\ e.src = gen[i].src
    BY <2>1
  <2>3. gen[i].src \in tracked /\ i = Moved(tracked, gen[i].src) + 1 /\ i \in Nat
    BY <2>1, LineIs
  <2>4. e.src \in tracked /\ e.at = Moved(tracked, e.src) + 1 /\ e.at \in Nat
    BY <2>2, <2>3
  <2>5. \A s \in tracked : s \in Nat
    BY DslToolsAssumption
  <2>6. QED
    BY <2>4, <2>5, Zenon
<1>4. ASSUME NEW s \in tracked
      PROVE  \E e \in smap : e.src = s /\ e.at = Moved(tracked, s) + 1
  <2>1. PICK i : i = Moved(tracked, s) + 1
    OBVIOUS
  <2>2. i \in DOMAIN gen /\ gen[i] = Comment(s)
    BY <2>1, CommentFollows
  <2> gen[i].mark /\ gen[i].src = s
    BY <2>2 DEF Comment
  <2>3. [at |-> i, src |-> s] \in smap
    BY <2>2 DEF Marks
  <2>4. QED
    BY <2>1, <2>3
<1>5. \E e \in smap : Nearest(smap, l, e)
  BY <1>2, <1>3, NearestExists
<1>6. PICK e : e = CHOOSE f \in smap : Nearest(smap, l, f)
  OBVIOUS
<1>7. e \in smap /\ Nearest(smap, l, e)
  BY <1>5, <1>6
<1>8. Translate(l) = e.src
  BY <1>6 DEF Translate, Nearest
<1>9. PICK answer : answer = e.src
  OBVIOUS
<1>10. /\ answer \in tracked /\ answer \in 1..GenLines /\ answer \in Nat
       /\ e.at \in Nat /\ e.at = Moved(tracked, answer) + 1
  BY <1>3, <1>7, <1>9
<1>11. ASSUME NEW s \in tracked
       PROVE  /\ s \in 1..GenLines /\ s \in Nat /\ Moved(tracked, s) \in Nat
              /\ LET f == [at |-> Moved(tracked, s) + 1] IN Distance(e, l) <= Distance(f, l)
  <2>1. s \in 1..GenLines /\ s \in Nat
    BY DslToolsAssumption
  <2>2. Moved(tracked, s) \in Nat
    BY <2>1, MovedFacts
  <2>3. PICK f \in smap : f.at = Moved(tracked, s) + 1
    BY <1>4
  <2>4. Distance(e, l) <= Distance(f, l)
    <3>1. Distance(e, l) \in Nat /\ Distance(f, l) \in Nat
      BY <1>2, <1>10, <1>3, DistanceNat
    <3>2. Distance(e, l) < Distance(f, l) \/ Distance(e, l) = Distance(f, l)
      BY <1>7 DEF Nearest
    <3>3. QED
      BY <3>1, <3>2
  <2>5. Distance([at |-> Moved(tracked, s) + 1], l) = Distance(f, l)
    BY <2>3 DEF Distance
  <2>6. QED
    BY <2>1, <2>2, <2>4, <2>5
<1>12. ASSUME NEW s \in tracked
       PROVE  ~(here < s /\ s < answer) /\ ~(answer < s /\ s < here)
  <2>1. PICK p, q \in Nat : p = Moved(tracked, s) /\ q = Moved(tracked, answer)
    BY <1>10, <1>11, MovedFacts
  <2> s \in 1..GenLines /\ s \in Nat
    BY <1>11
  <2>2. /\ Distance(e, l) = IF q + 1 > l THEN q + 1 - l ELSE l - (q + 1)
        /\ Distance([at |-> p + 1], l) = IF p + 1 > l THEN p + 1 - l ELSE l - (p + 1)
        /\ Distance(e, l) <= Distance([at |-> p + 1], l)
    <3>1. e.at = q + 1 /\ [at |-> p + 1].at = p + 1
      BY <1>10, <2>1
    <3>2. Distance(e, l) <= Distance([at |-> p + 1], l)
      BY <1>11, <2>1
    <3>3. Distance(e, l) = IF q + 1 > l THEN q + 1 - l ELSE l - (q + 1)
      BY <1>2, <1>10, <3>1 DEF Distance
    <3>4. Distance([at |-> p + 1], l) = IF p + 1 > l THEN p + 1 - l ELSE l - (p + 1)
      BY <1>2, <3>1 DEF Distance
    <3>5. QED
      BY <3>2, <3>3, <3>4
  <2>3. ASSUME here < s, s < answer PROVE FALSE
    <3>1. l + 1 <= p
      BY <1>2, <2>1, <2>2, <2>3, MovedApart, MovedFacts
    <3>2. p + 1 + 1 <= q
      BY <1>10, <2>1, <2>2, <2>3, MovedApart
    <3>3. QED
      BY <1>2, <2>1, <2>2, <3>1, <3>2
  <2>4. ASSUME answer < s, s < here PROVE FALSE
    <3>1. p + 1 + 1 <= l
      BY <1>2, <2>1, <2>2, <2>4, MovedApart
    <3>2. q + 1 + 1 <= p
      BY <1>10, <2>1, <2>2, <2>4, MovedApart
    <3>3. QED
      BY <1>2, <2>1, <2>2, <3>1, <3>2
  <2>5. QED
    BY <2>3, <2>4
<1>13. ASSUME here \in tracked
       PROVE  answer = here \/ answer = here - 1
  <2>1. PICK q \in Nat : q = Moved(tracked, answer)
    BY <1>10, MovedFacts
  <2>2. /\ Distance(e, l) = IF q + 1 > l THEN q + 1 - l ELSE l - (q + 1)
        /\ Distance([at |-> l + 1], l) = IF l + 1 > l THEN l + 1 - l ELSE l - (l + 1)
        /\ Distance(e, l) <= Distance([at |-> l + 1], l)
    BY <1>2, <1>10, <1>11, <1>13, <2>1 DEF Distance
  <2>3. l <= q + 2 /\ q <= l
    BY <1>2, <2>1, <2>2
  <2>4. ~(here < answer)
    <3>1. here < answer => l + 1 + 1 <= q
      BY <1>2, <1>10, <1>13, <2>1, MovedApart
    <3>2. QED
      BY <1>2, <2>1, <2>3, <3>1
  <2>5. ~(answer < here - 1)
    <3>1. ASSUME answer < here - 1 PROVE FALSE
      <4>1. PICK s : s = answer + 1
        OBVIOUS
      <4>2. s \in 1..GenLines /\ s \in Nat /\ answer < s /\ s < here
        BY <1>2, <1>10, <3>1, <4>1, DslToolsAssumption
      <4>3. PICK p \in Nat : p = Moved(tracked, s)
        BY <4>2, MovedFacts
      <4>4. q + 1 + 1 <= p
        BY <1>10, <2>1, <4>2, <4>3, MovedApart
      <4>5. p + 1 + (IF s \in tracked THEN 1 ELSE 0) <= l
        BY <1>2, <4>2, <4>3, MovedApart
      <4>6. p + 1 <= l
        BY <1>2, <4>3, <4>5
      <4>7. QED
        BY <1>2, <2>1, <2>3, <4>3, <4>4, <4>6
    <3>2. QED
      BY <3>1
  <2>6. QED
    BY <1>2, <1>10, <2>4, <2>5
<1>14. PICK known : known = {f.src : f \in smap}
  OBVIOUS
<1>15. known = tracked
  BY <1>3, <1>4, <1>14
<1>16. QED
  BY <1>1, <1>8, <1>9, <1>10, <1>12, <1>13, <1>14, <1>15, ZenonT(60)

\* ToolsSound, for any number of lines: a line of a file whose braces match is
\* indented by its depth, whatever file was formatted before, and a position
\* is translated by a neighbour, exactly if its own line is tracked.
THEOREM ToolsAreSound == FmtSpec /\ SmapSpec => []ToolsSound
<1>1. FmtIInv => IndentIsDepth
  BY DEF FmtIInv
<1>2. ASSUME SmapIInv
      PROVE  TranslatesNear
  <2>1. PICK tracked \in SUBSET (1..GenLines) : gen = Injected(tracked)
    BY <1>2 DEF SmapIInv
  <2>2. ASSUME fresh, smap # {}, NEW l \in {n \in DOMAIN gen : ~gen[n].mark}
        PROVE  LET answer == Translate(l)
                   known == {e.src : e \in smap}
                   here == gen[l].src
               IN  /\ answer \in known
                   /\ \A s \in known : ~(here < s /\ s < answer) /\ ~(answer < s /\ s < here)
                   /\ here \in known => answer = here \/ (answer = here - 1)
    <3>1. smap = Marks
      BY <1>2, <2>2 DEF SmapIInv
    <3>2. QED
      BY <2>1, <2>2, <3>1, TranslatedNear
  <2>3. QED
    BY <2>2 DEF TranslatesNear
<1>3. FmtIInv /\ SmapIInv => ToolsSound
  BY <1>1, <1>2 DEF ToolsSound
<1>4. QED
  BY <1>3, FormatterInvariant, SourceMapInvariant, PTL
=============================================================================
