SPECIFICATION ServicesSpec
CONSTANTS
    alice = alice
    bob = bob
    s1 = s1
    s2 = s2
    c1 = c1
    c2 = c2
    k1 = k1
    Nothing = Nothing
    Epoch = 3
    MaxTime = 7
    Users <- MCUsers
    SessionIds <- MCSessionIds
    Lifetime = 1
    TokenLife = 1
    MaxManagers = 3
    MaxTokens = 2
    CsrfNames <- MCCsrfNames
    CsrfExpiry = 2
    Clients <- MCClients
    Window = 3
    Limits <- MCLimits
    MaxAdmitted = 4
    CacheKeys <- MCCacheKeys
    Ttls <- MCTtls
    MaxVersion = 2
    MaxNesting = 2
    Tags <- MCTags
    MaxCount = 230
    j1 = j1
    j2 = j2
    w1 = w1
    w2 = w2
    cron = cron
    l1 = l1
    l2 = l2
    t1 = t1
    t2 = t2
    t3 = t3
    MemIds <- MCMemIds
    MemWorkers <- MCMemWorkers
    Crons <- MCCrons
    MaxRetries = 2
    MaxLists = 2
    Links <- MCLinks
    Callers <- MCCallers
    MaxRequests = 3
    MaxMails = 3
    Auditors <- MCAuditors
    MaxEntries = 2
INVARIANTS
    CredentialsSound
    NoResurrection
    RateWindow
    StaleOnlyByRace
    LocaleSound
    MemJobsSafe
    OwnReply
    MailAccounted
    AuditComplete
PROPERTIES
    CsrfEndsByAge
    MemJobEnds
CHECK_DEADLOCK FALSE
