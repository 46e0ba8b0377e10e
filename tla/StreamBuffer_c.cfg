CONSTANTS
    c1 = c1
    Default = dflt
    t1 = t1
    t2 = t2
    Cursors = {c1, dflt}
    Threads = {t1, t2}
    CursorOf <- MCCursorOf
    ReadBytes <- MCReadBytes
    RingBytes = 2
    ChunkBytes = 2
    MaxSeq = 3
SPECIFICATION Spec
INVARIANTS RingInv ExactlyOnce
PROPERTIES WaitingNeverRevives ImplementsFeed
CHECK_DEADLOCK FALSE
