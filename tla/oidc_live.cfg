SPECIFICATION LiveSpec
CONSTANTS
    None = None
    Invalid = Invalid
    Corrupt = Corrupt
    Barrier = Barrier
    c1 = c1
    Calls <- OneCall
    ClockSkewMs = 1
    RefreshWindowMs = 1
    Mode = "backend"
    MaxSliceMs = 1
    Lifetimes <- ShortOrInvalid
    MaxGrants = 2
    MaxTime = 3
    HostOverlaps = FALSE
    StoreFails = TRUE
    a = a
    b = b
    LoginClients = {a, b}
    Flows = {1, 2}
    States = {s1}
    Scripted = {a}
    PendingTtl = 0
    MaxLoginTime = 1
    NoState = NoState
INVARIANT OneExchangePerState
PROPERTIES
    CallsReturn
    ScheduledRefreshHappens
    LoginsEnd
