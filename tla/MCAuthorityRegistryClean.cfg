CONSTANTS
    r1 = r1
    r2 = r2
    f1 = f1
    f2 = f2
    h1 = h1
    h2 = h2
    h3 = h3
    g1 = g1
    g2 = g2
    a1 = a1
    a2 = a2
    e1 = e1
    e2 = e2
    s1 = s1
    Sessions = {s1}
    NoSession = NoSession
    NoJob = NoJob
    Registries = {r1, r2}
    Grants = {g1, g2}
    Executions = {e1, e2}
    RegistryOf <- RivalRegistryOf
    AuthorizationOf <- RivalAuthorizationOf
    Authorized <- RivalAuthorized
    LastOrdinal = 2
    Files = {f1, f2}
    Handles = {h1, h2, h3}
    FileRegistry <- CleanRegistry
    FileOf <- CloneFileOf
    SessionOf <- SameSession
    Faults = FALSE
CHECK_DEADLOCK FALSE
SPECIFICATION Spec
INVARIANTS
    CleanRunsReopen
PROPERTIES
    ImplementsPromise
