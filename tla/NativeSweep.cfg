CONSTANTS
    Readers = {r1}
    Centers = 2
    PayloadUnits = 2
    Capacity = 5
    PerTransfer = 2
    MaxFrames = 5
SPECIFICATION FairSpec
INVARIANTS Safe FramesIntact
PROPERTY ReadsEnd
CHECK_DEADLOCK FALSE
