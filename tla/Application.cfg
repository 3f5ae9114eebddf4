SPECIFICATION ApplicationSpec
CONSTANTS
    draft = draft
    review = review
    done = done
    i1 = i1
    i2 = i2
    f = f
    g = g
    web = web
    models = models
    NoState = NoState
    States <- MCStates
    Arrows <- MCArrows
    Listed <- MCListed
    Instances <- MCInstances
    MaxDepth = 2
    Callbacks <- MCCallbackSet
    MaxChannels = 1
    MaxList = 3
    MaxSends = 2
    MaxSendDepth = 2
    MaxChanges = 2
    Dirs <- MCDirs
    p1 = p1
    p2 = p2
    d1 = d1
    d2 = d2
    blog = blog
    shop = shop
    dsn = dsn
    main = main
    fallback = fallback
    e1 = e1
    e2 = e2
    NoJob = NoJob
    MaxOps = 4
    Default = Default
    Procs <- MCProcs
    DirNames <- MCDirNames
    Sources <- MCSources
    Paths <- MCPaths
    DbName <- MCDbName
    PoolSize = 1
    MaxDbConns = 3
    Migrations <- MCMigrations
    Statements = 2
    Seeders <- MCSeeders
    Emails <- MCEmails
    MaxFileLines = 5
    GenLines = 4
INVARIANTS
    HistoryTracks
    MovesDeclared
    DeliveryExact
    RunningIsTrue
    ManagerAgrees
    DbPoolSafe
    MigrationsKept
    SeedComplete
    ToolsSound
PROPERTIES
    InstallNeverClobbers
SYMMETRY Symmetry
