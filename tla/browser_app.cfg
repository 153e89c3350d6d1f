SPECIFICATION BrowserAppSpec
CONSTANTS
    None = None
    Invalid = Invalid
    Corrupt = Corrupt
    Barrier = Barrier
    c1 = c1
    Calls <- OneCall
    ClockSkewMs = 1
    RefreshWindowMs = 1
    Mode = "frontend"
    MaxSliceMs = 1
    Lifetimes <- ShortOrNone
    MaxGrants = 3
    MaxTime = 3
    HostOverlaps = TRUE
    StoreFails = FALSE
    p1 = p1
    p2 = p2
    ConfigPages = {p1, p2}
    Sources <- MCSources
    Bootstraps <- MCBootstraps
    Projections <- MCProjections
    MaxAge = 1
    MaxConfigTime = 3
    DiscoveryCalls = {"login", "callback", "userinfo"}
    Configurations = {{"userinfo"}, {"authorization", "token"}}
    PublishedEndpoints <- MCPublished
    ConfiguredIssuer <- MCIssuer
    PublishedIssuers <- Issuers
    FacadeCalls = {1, 2}
    MaxTokens = 3
    MaxClients = 2
    DisposeMidCall = FALSE
    ThrottleMs = 2
    MaxResumeTime = 7
    DueAfter = 3
    Logouts = {"l1", "l2"}
    Uris = {"a", "b"}
    InitialRefresh = TRUE
    ZoneConfig <- MCZones
    Paths <- MCPaths
    Deps = {d1, d2}
    Listeners = {l1, l2}
    Writers = {l1}
    MaxSets = 2
    HasPage = TRUE
    GivenStores = {"session"}
    MaxResolutions = 5
    MaxEnvironmentResets = 1
    Managed = {1, 2, 3}
    MaxMaterial = 1
    StrictMode = TRUE
INVARIANTS
    OneLoginPerSnapshot
    TimerTracksMaterial
    BootedConfigIsValid
    DiscoveryIsKeptUp
    
    ResumedPageIsChecked
    NeverLeftLoading
    
    SettledSignalsAreCurrent
    CachedLayersAgree
    
