SPECIFICATION ArchiveFairSpec
CONSTANTS
    a1 = a1
    a2 = a2
    p1 = p1
    d1 = d1
    d2 = d2
    Applications = {a1, a2}
    Applicants = {p1}
    OwnerOf <- OneOwner
    Requests = {}
    RequesterOf <- OneRequester
    PiiFields = {"payload_encrypted"}
    Segments = {{}, {"payload_encrypted"}}
    MaxErrors = 0
    DefaultDays = 0
    DaysChoices = {}
    NoOverride = NoOverride
    BatchSize = 1
    MaxTime = 1
    Decisions = {d1, d2}
    AppOf <- OwnApplication
    Sweeps = {"sweep"}
    SweepLimit = 1
    Libraries = {TRUE}
    MaxOutages = 0
PROPERTY
    ArchivedOrWiped
CHECK_DEADLOCK FALSE
