SPECIFICATION ServerSpec
CONSTANTS
    s1 = s1
    s2 = s2
    r1 = r1
    r2 = r2
    good = good
    bad = bad
    q1 = q1
    q2 = q2
    c1 = c1
    g1 = g1
    g2 = g2
    e1 = e1
    e2 = e2
    ops = ops
    dev = dev
    alice = alice
    bob = bob
    n1 = n1
    n2 = n2
    web = web
    lan = lan
    loop = loop
    None = None
    Absent = Absent
    Malformed = Malformed
    Logins <- MCLogins
    Requests <- MCRequests
    Targets <- MCTargets
    Allowed <- MCAllowed
    DefaultTarget = "/"
    Redemption = TRUE
    SessionPath = "session"
    BackendPath = "backend"
    ConfiguredPath = "backend"
    MaxIds = 2
    NoTarget = NoTarget
    Invalid = Invalid
    Slots <- MCSlots
    Forwards <- MCSlots
    Incoming <- MCIncoming
    Cookies <- MCCookies
    InitialSnapshot <- MCInitialSnapshot
    PropagationEnabled = TRUE
    ResourceServer = TRUE
    RealIpAccess = TRUE
    EntryIds = {e1, e2}
    GroupIds = {g1, g2}
    EntryNames = {alice, bob}
    GroupNames = {ops, dev}
    Nodes = {n1, n2}
    Hosts = {web, lan, loop}
    IpHosts = {lan, loop}
    SensitiveHosts = {lan, loop}
    DefaultPolicy = "validate_then_forward"
    AllowedNodeIds = {n1}
    AllowedTargets <- MCAllowedTargets
    DenySensitive = TRUE
    RequiredIssuers = {}
    AllowedAudiences = {}
    RequiredScopes = {"read"}
    AllowedAzp = {}
    Principals <- MCPrincipals
    RequestTargets <- MCRequestTargets
    Resolvers <- MCResolvers
    v1 = v1
    v2 = v2
    k1 = k1
    k2 = k2
    u1 = u1
    u2 = u2
    edge = edge
    pool = pool
    near = near
    far = far
    user = user
    NoKid = NoKid
    NoIp = NoIp
    Junk = Junk
    Calls <- MCCalls
    Kids <- MCKids
    KeySets <- MCKeySets
    Uris <- MCUris
    Discovery = TRUE
    MetadataInterval = 1
    JwksInterval = 1
    MaxTime = 1
    MaxChanges = 1
    Providers <- MCProviders
    ClearOnFailure <- MCClearOnFailure
    Ips <- MCIps
    Lists <- MCLists
    RealipSources <- MCSources
    HeaderKinds <- MCHeaderKinds
    ChainKinds <- MCChainKinds
    Inputs <- MCInputs
    Resolutions <- MCResolutions
SYMMETRY MCSymmetry
INVARIANT ForwardsWhereValidated
