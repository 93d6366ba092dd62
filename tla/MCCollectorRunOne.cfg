CONSTANTS
    r1 = r1
    a1 = a1
    e1 = e1
    e2 = e2
    Rounds = {r1}
    Authorizations = {a1}
    Executions = {e1}
    FailedOutcomes = {"timeout"}
    AuthOf <- TheAuthOf
    Authorized <- OneAuthorized
    CreatedAt <- TheCreatedAt
    ExpiresAt <- TheExpiresAt
    NoRound = NoRound
    MaxTime = 2
SPECIFICATION FairSpec
INVARIANTS
    NeverResent
    VerifiersAreBlind
    CasesAreClean
PROPERTIES
    RunnersReturn
    OpenWorkSettles
