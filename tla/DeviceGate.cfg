CONSTANTS
    None = None
    Devices = {d1, d2}
    Requesters = {q1, q2}
    Ids = {1, 2}
    ApexRuns = TRUE
SPECIFICATION FairSpec
INVARIANT Safe
PROPERTIES ExclusiveUnlessRaced RequestsAnswered
CHECK_DEADLOCK FALSE
