CONSTANTS
    None = None
    Sessions = {s1}
    Clients = {a, b}
    MaxWork = 6
SPECIFICATION FairSpec
INVARIANT Safe
PROPERTIES NeglectOnlyByInstall RestartedOnce FailureNoticed ReadersEnd
CHECK_DEADLOCK FALSE
