\* Rate limits, API keys, heartbeats, sitemaps, the clearing of a cache, the inbox,
\* sign-ins behind a captcha and the SQL linter, one of them moving at a time.
\* The clock, the requests and the keys are bounded, so a behaviour may end.
SPECIFICATION Spec
CONSTANTS
    q1 = q1
    q2 = q2
    p1 = p1
    p2 = p2
    p3 = p3
    RateHorizon = 3
    BeatHorizon = 9
    SiteHorizon = 4
    RateRequests = {q1, q2}
    Callers = {"user"}
    RateRules <- ThreeRules
    Window <- Windows
    Limit <- Limits
    SweepAt = 1
    MaxLag = 1
    MaxHits = 3
    KeyUsers = {"ann", "bob"}
    KeyRequests = {p1, p2, p3}
    MaxKeys = 4
    Instances = {"worker"}
    BeatInterval = 1
    MaxDelay = 1
    MaxSkew = 1
    onlineWindow = 4
    PruneAge = 4
    Kinds <- SiteKinds
    StaticKinds = {"static"}
    URLsPerFile = 2
    CacheTTL = 3
    Interval = 1
    RunTime = 1
    MaxFailures = 1
    MaxId = 3
    Namespace = {"search-a", "search-b"}
    OtherKeys = {"page"}
    Readers = {"reader"}
    BlobTTL = 1
    BatchSize = 2
    MaxVersion = 2
    MaxWrites = 3
    CacheHorizon = 2
    InboxUsers = {"ann", "bob"}
    System = "system"
    PageSize = 1
    MaxNotes = 4
    Attempts = {"login1", "login2"}
    ByName <- Ann
    ByMail <- AnnsMail
    Unknown = "nobody"
    NoUser = 0
    MaxTokens = 2
    MaxLog = 2
    DeclChoices <- SomeDecls
    Sites = {"first", "second"}
    Line <- LineOf
    Function <- FunOf
    CallChoices <- SomeCalls
    CommentLines = {1, 2}
CHECK_DEADLOCK FALSE
INVARIANTS
    TypeOK
    
    ShownKeyWorks
    ShownIffAlive
    NoGap
    
    ClearedIsGone
    OneChallengeEach
    
    
PROPERTIES
    NoEarlyReject
    OnlyRotationRetires
    
    
