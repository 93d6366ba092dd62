CONSTANTS
    r1 = r1
    r2 = r2
    r3 = r3
    a1 = a1
    a2 = a2
    e1 = e1
    e2 = e2
    Rounds = {r1, r2, r3}
    Authorizations = {a1, a2}
    Executions = {e1, e2}
    FailedOutcomes = {"timeout"}
    AuthOf <- SharedAuthOf
    Authorized <- SharedAuthorized
    CreatedAt <- SharedCreatedAt
    ExpiresAt <- SharedExpiresAt
    NoRound = NoRound
    MaxTime = 1
SPECIFICATION Spec
INVARIANTS
    CompletedRoundsAreEvaluable
PROPERTIES
    ImplementsSendAuthority
