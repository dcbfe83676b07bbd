SPECIFICATION Spec
CONSTANTS
    Processes = {server, worker}
    Records = {d1}
    UseVault = TRUE
    NoRecord = NoRecord
    MaxKeys = 3
    MaxAltered = 1
SYMMETRY Symmetry
INVARIANTS
    ValidMeansAuthentic
    OverlapIsEnough
CHECK_DEADLOCK FALSE
