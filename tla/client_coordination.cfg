SPECIFICATION CoordinationSpec
CONSTANTS
    k1 = k1
    k2 = k2
    cb = cb
    Keys <- MCKeys
    Labels <- MCUrls
    Urls <- MCUrls
    Entries <- MCEntries
    NoKey = NoKey
    Warmups = {1}
    MaxRegs = 2
    MaxAttempts = 2
    MaxResets = 1
    Chains <- MCChains
    Decisions = {"a"}
    NoRoute = NoRoute
    MaxDepth = 2
    Navs = {1, 2}
    Pages <- MCPages
    Routes <- MCRoutes
    Clients = {"x", "y"}
    Adapters = {"history", "navigation-api"}
    NoMatch = NoMatch
    Guards = {1, 2}
    GuardChains <- MCGuardChains
    ClientsFor <- MCClientsFor
    HandlerOf <- MCHandlerOf
    RegisteredHosts = {"main"}
INVARIANTS
    RegistryIsConsistent
    CallbackAttemptsAreOwned
    RequirementsAreSettledOnce
    GuardCoversChain
    AdmittedRoutesWereChecked
PROPERTY PendingEnds
