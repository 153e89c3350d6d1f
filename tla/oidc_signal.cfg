SPECIFICATION Spec
CONSTANTS
    None = None
    Invalid = Invalid
    Corrupt = Corrupt
    Barrier = Barrier
    Calls = {c1, c2}
    ClockSkewMs = 1
    RefreshWindowMs = 1
    Mode = "backend"
    MaxSliceMs = 1
    Lifetimes = {4}
    MaxGrants = 2
    MaxTime = 3
    HostOverlaps = TRUE
    StoreFails = FALSE
INVARIANT SignalExposesMaterial
