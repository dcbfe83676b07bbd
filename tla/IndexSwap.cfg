SPECIFICATION FairSpec
CONSTANTS
    Builds = {1, 2, 3, 4}
    Initial = 1
    Passes <- SomePasses
    Workers = {"worker"}
    Queries = {"query"}
    WorkerOf <- OneWorker
    None = None
    Torn = Torn
    MaxSignals = 1
    MaxFaults = 2
INVARIANTS
    AnswersWereChecked
PROPERTIES
    SwapKeepsHealthy
    ImplementsService
    SignalTakesEffect
CHECK_DEADLOCK FALSE
