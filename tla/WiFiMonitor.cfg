CONSTANTS
    None = None
    Sessions = {s1, s2}
    Clients = {a}
    Ops = {"start", "stop", "list"}
    Scans = {s1}
    MaxProcs = 3
SPECIFICATION FairSpec
INVARIANT TypeOK
PROPERTIES OnlyUncheckedStartsHarm ThreadsEnd DeadCaptureNoticed
CHECK_DEADLOCK FALSE
