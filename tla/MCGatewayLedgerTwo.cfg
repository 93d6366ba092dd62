CONSTANTS
    h1 = h1
    h2 = h2
    h3 = h3
    b1 = b1
    b2 = b2
    q1 = q1
    q2 = q2
    o1 = o1
    o2 = o2
    Handles = {h1, h2}
    Boots = {b1}
    Requests = {q1, q2}
    Operations = {o1}
    BootOf <- TheBootOf
    OperationOf <- TheOperationOf
    RequestExpires <- TheExpires
    MaxTtl = 1
    MaxTime = 2
    NoBoot = NoBoot
    NoRequest = NoRequest
    NoHandle = NoHandle
SPECIFICATION FairSpec
INVARIANTS
    ReservationsFundOneOperation
PROPERTIES
    ClaimsAreTimely
    SessionsEnd
