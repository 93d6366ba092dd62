CONSTANTS
    r1 = r1
    r2 = r2
    r3 = r3
    a1 = a1
    a2 = a2
    e1 = e1
    e2 = e2
    Rounds = {r1}
    Authorizations = {a1}
    Executions = {e1}
    FailedOutcomes = {"timeout"}
    AuthOf <- OneAuthOf
    Authorized <- OneAuthorized
    CreatedAt <- OneCreatedAt
    ExpiresAt <- OneExpiresAt
    NoRound = NoRound
    MaxTime = 3
SPECIFICATION Spec
INVARIANTS
    TypeOK
    EndedRoundsAreSealed
    TruthPrecedesVerifiers
    LogsAgree
    LateAnswersAreAccepted
PROPERTIES
    WorkNeedsLiveGrant
    SlotsAreSpentOnce
    EndingsAreFinal
