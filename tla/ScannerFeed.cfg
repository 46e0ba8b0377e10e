CONSTANTS
    None = None
    Channels = 2
    MaxHeld = 2
    Limit = 2
    WsLimit = 3
    Scans = TRUE
    MaxEvents = 3
SPECIFICATION FairSpec
INVARIANTS Safe FeedsExact OwnScanStopped
PROPERTY WsServed
CHECK_DEADLOCK FALSE
