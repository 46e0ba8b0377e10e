CONSTANTS
    c1 = c1
    Default = dflt
    t1 = t1
    t2 = t2
    Cursors = {dflt}
    Threads = {t2}
    CursorOf <- LiveCursorOf
    ReadBytes <- LiveReadBytes
    RingBytes = 3
    ChunkBytes = 2
    MaxSeq = 4
SPECIFICATION FairSpec
PROPERTIES ReadReturns FeedProgress
CHECK_DEADLOCK FALSE
