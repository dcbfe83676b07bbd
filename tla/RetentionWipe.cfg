SPECIFICATION FairSpec
CONSTANTS
    a1 = a1
    a2 = a2
    p1 = p1
    p2 = p2
    r1 = r1
    r2 = r2
    Applications = {a1, a2}
    Applicants = {p1, p2}
    OwnerOf <- SameOwner
    Requests = {r1, r2}
    RequesterOf <- SameRequester
    PiiFields = {"payload_encrypted", "city_tier"}
    Segments <- NullingOrder
    MaxErrors = 1
    DefaultDays = 1
    DaysChoices = {0, 2}
    NoOverride = NoOverride
    BatchSize = 1
    MaxTime = 2
INVARIANTS
    WipeIsComplete
    WipeIsJustified
    ErasureErases
PROPERTIES
    ImplementsAtomicWipe
    EventuallyWiped
CHECK_DEADLOCK FALSE
