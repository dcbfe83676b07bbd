SPECIFICATION ArchiveSpec
CONSTANTS
    a1 = a1
    a2 = a2
    p1 = p1
    d1 = d1
    d2 = d2
    Applications = {a1}
    Applicants = {p1}
    OwnerOf <- OneOwner
    Requests = {"request"}
    RequesterOf <- OneRequester
    PiiFields = {"payload_encrypted"}
    Segments = {{}, {"payload_encrypted"}}
    MaxErrors = 1
    DefaultDays = 0
    DaysChoices = {}
    NoOverride = NoOverride
    BatchSize = 1
    MaxTime = 1
    Decisions = {d1, d2}
    AppOf <- SameApplication
    Sweeps = {"sweep"}
    SweepLimit = 2
    Libraries = {TRUE, FALSE}
    MaxOutages = 1
INVARIANTS
    AuditBeforeResponse
    UploadedHasObject
    PurgeIsComplete
CHECK_DEADLOCK FALSE
