SPECIFICATION BackendModeSpec
CONSTANTS
    None = None
    Invalid = Invalid
    Corrupt = Corrupt
    Barrier = Barrier
    c1 = c1
    c2 = c2
    Calls <- MCCalls
    ClockSkewMs = 1
    RefreshWindowMs = 1
    Mode = "backend"
    MaxSliceMs = 1
    Lifetimes <- ShortOrNone
    MaxGrants = 2
    MaxTime = 3
    HostOverlaps = FALSE
    StoreFails = FALSE
    Fragments = {1, 2, 3}
    WellFormed = {1, 2}
    Redeemable = {1}
    PageBoots = {1, 2}
    PopupLogins = {3}
    CallsOverlap = FALSE
    NoFragment = 0
    UseKeys = {"a", "b"}
    Urls = {"u2", "other"}
    Matches <- MCMatches
    UseRequests = {"r1"}
    Lifetime = 1
    MaxUseTime = 2
    MaxUseTokens = 2
    Sources = {"root", "caller"}
    Requests = {"r1", "r2"}
    PageGroups = {"g", "h"}
    MaxRequests = 2
    Contexts = {"session", "basic"}
    Protected = {"dashboard", "entries"}
    Home = "dashboard"
    Navigations = {1, 2}
    Names = {"entries", "group"}
    DashboardModes = {"session", "token-set"}
    Writes = {"w1"}
    MaxVersion = 2
    InOrder = TRUE
SYMMETRY CallSymmetry
INVARIANTS
    SignalExposesMaterial
    CapturedCallbackSurvives
    
    RequestsFollowTheirTokens
    LateAnswersAreDropped
    LoginReturnsToRefusedPage
    
PROPERTY OnlyLoginsEstablish
