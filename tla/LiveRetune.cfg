CONSTANTS
    None = None
    Clients = {a, b}
    Rates = {1, 2}
    Limits = {0, 3}
    Block = 2
    Capacity = 1
    LogRoom = 2
    MaxRetunes = 2
    MaxSamples = 4
SPECIFICATION FairSpec
INVARIANTS Safe QuietAgrees
PROPERTIES SamplesInOrder RateChangesAtRest RetuneReachesDevice
CHECK_DEADLOCK FALSE
