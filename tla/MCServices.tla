------------------------------ MODULE MCServices ------------------------------
(***************************************************************************)
(* What the Python process keeps in memory for its handlers, side by side: *)
(* the tables of credentials, requests and cached values, the locale, jobs, *)
(* frames on pooled connections, mail and the audit trail.  They share     *)
(* nothing but the clock, so a behaviour exercises one of them: part says  *)
(* which.  Every interleaving of their steps projects to such behaviours.  *)
(***************************************************************************)
EXTENDS Credentials, RateLimits, CacheStore, Locale, MemoryJobs, Framing, Mail, Audit

CONSTANTS
    alice, bob, s1, s2, c1, c2, k1,
    j1, j2, w1, w2, cron, l1, l2, t1, t2, t3

MCUsers == {alice, bob}
MCSessionIds == {s1, s2}
MCCsrfNames == {c1, c2}
MCClients == {alice}
MCLimits == [type \in {"auth", "api", "login"} |-> IF type = "login" THEN 1 ELSE 2]
MCCacheKeys == {k1}
MCTtls == {0, 1}
\* en-US, es, fr-CA, de-DE, and what a header without a language gives
MCTags == {[lang |-> <<"e", "n">>, country |-> "US"], [lang |-> <<"e", "s">>, country |-> ""],
           [lang |-> <<"f", "r">>, country |-> "CA"], [lang |-> <<"d", "e">>, country |-> "DE"],
           [lang |-> <<>>, country |-> ""]}

MCMemIds == {j1, j2}
MCMemWorkers == {w1, w2}
MCCrons == {cron}
MCLinks == {l1, l2}
MCCallers == {t1, t2}
MCAuditors == {t1, t2, t3}

VARIABLE part

storeVars == <<now, sessionVars, jwtVars, csrfVars, rateVars, cacheVars, localeVars>>
deliveryVars == <<memVars, frameVars, mailVars, auditVars>>
servicesVars == <<part, storeVars, deliveryVars>>

ServicesInit ==
    /\ part \in {"session", "jwt", "csrf", "rate", "cache", "locale",
                 "jobs", "frames", "mail", "audit"}
    /\ now = Epoch
    /\ CredInit /\ RateInit /\ CacheInit /\ LocaleInit
    /\ MemInit /\ FrameInit /\ MailInit /\ AuditInit
    /\ (envKey => part = "jwt") /\ (backend = "redis" => part = "cache")
    /\ part # "mail" => configured = {}

StoresNext ==
    /\ UNCHANGED deliveryVars
    /\ \/ /\ part = "session" /\ SessionNext
          /\ UNCHANGED <<jwtVars, csrfVars, rateVars, cacheVars, localeVars>>
       \/ /\ part = "jwt" /\ JwtNext
          /\ UNCHANGED <<sessionVars, csrfVars, rateVars, cacheVars, localeVars>>
       \/ /\ part = "csrf" /\ CsrfNext
          /\ UNCHANGED <<sessionVars, jwtVars, rateVars, cacheVars, localeVars>>
       \/ /\ part = "rate" /\ RateNext
          /\ UNCHANGED <<sessionVars, jwtVars, csrfVars, cacheVars, localeVars>>
       \/ /\ part = "cache" /\ CacheNext
          /\ UNCHANGED <<sessionVars, jwtVars, csrfVars, rateVars, localeVars>>
       \/ /\ part = "locale" /\ LocaleNext
          /\ UNCHANGED <<now, sessionVars, jwtVars, csrfVars, rateVars, cacheVars>>

DeliveryNext ==
    /\ UNCHANGED storeVars
    /\ \/ part = "jobs" /\ MemNext /\ UNCHANGED <<frameVars, mailVars, auditVars>>
       \/ part = "frames" /\ FrameNext /\ UNCHANGED <<memVars, mailVars, auditVars>>
       \/ part = "mail" /\ MailNext /\ UNCHANGED <<memVars, frameVars, auditVars>>
       \/ part = "audit" /\ AuditNext /\ UNCHANGED <<memVars, frameVars, mailVars>>

ServicesNext == UNCHANGED part /\ (StoresNext \/ DeliveryNext)

ServicesSpec ==
    ServicesInit /\ [][ServicesNext]_servicesVars /\ MemFairness
=============================================================================
