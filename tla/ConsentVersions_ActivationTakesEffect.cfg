SPECIFICATION FairSpec
CONSTANTS
    Versions = {1, 2, 3}
    Initial = 2
    NoVersion = NoVersion
    Admins = {"admin1", "admin2"}
    Posts = {}
    Validity = 1
    Skew = 0
    MaxTime = 0
PROPERTY
    ActivationTakesEffect
CHECK_DEADLOCK FALSE
