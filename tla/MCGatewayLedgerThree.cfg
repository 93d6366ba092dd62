CONSTANTS
    h1 = h1
    h2 = h2
    h3 = h3
    b1 = b1
    b2 = b2
    q1 = q1
    q2 = q2
    o1 = o1
    o2 = o2
    Handles = {h1, h2, h3}
    Boots = {b1, b2}
    Requests = {q1, q2}
    Operations = {o1, o2}
    BootOf <- ThreeBootOf
    OperationOf <- ThreeOperationOf
    RequestExpires <- ThreeExpires
    MaxTtl = 1
    MaxTime = 1
    NoBoot = NoBoot
    NoRequest = NoRequest
    NoHandle = NoHandle
SPECIFICATION Spec
INVARIANTS
    OwnershipIsFenced
    SendsAreAccounted
PROPERTIES
    TriggersNeverFire
