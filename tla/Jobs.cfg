CONSTANTS
    None = None
    Workers = {"hackrf", "libiio"}
    Clients = {a, b}
    Plans <- MCPlans
    MaxJobs = 2
    Window = 2
    Capacity = 1
    MaxRows <- MCMaxRows
    Samples = 1
SPECIFICATION FairSpec
INVARIANTS Safe NothingLeftBehind WindowIsNewest
PROPERTY CollectorsEnd
CHECK_DEADLOCK FALSE
