SPECIFICATION Spec
CONSTANTS
    Builds = {1, 2, 3, 4}
    Initial = 1
    Passes <- SomePasses
    Workers = {"worker"}
    Queries = {"query"}
    WorkerOf <- OneWorker
    None = None
    Torn = Torn
    MaxSignals = 1
    MaxFaults = 0
INVARIANT
    QueryIsConsistent
CHECK_DEADLOCK FALSE
