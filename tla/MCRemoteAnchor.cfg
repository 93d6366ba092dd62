CONSTANTS
    r1 = r1
    c1 = c1
    c2 = c2
    s1 = s1
    s2 = s2
    g1 = g1
    a1 = a1
    e1 = e1
    None = None
    Registries = {r1}
    Grants = {g1}
    Executions = {e1}
    Sessions = {s1, s2}
    Clients = {c1, c2}
    RegistryOf <- SameRegistry
    SessionOf <- TwoSessions
    AuthorizationOf <- OneAuthorization
    Authorized <- OneExecution
    GrantEnd <- LateEnd
    LastOrdinal = 1
    Ids = {1, 2, 3, 4, 5}
    MaxRequests = 5
    MaxOpen = 2
    MaxTime = 1
    Ttl = 2
    LeaseTime = 2
    MaxError = 1
    Leads = {0, 2}
    MaxUpsets = 2
SYMMETRY Swap
SPECIFICATION Spec
CHECK_DEADLOCK FALSE
INVARIANTS
    RetriesAreFree
    HistoriesAreOwn
    LoneClientsKeepUp
PROPERTIES
    ImplementsPromise
