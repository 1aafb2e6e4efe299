\* The source is a mirror ring itself and has skipped a record.
CONSTANTS
    Capacity = 2
    MaxSeq = 3
    Batch = 2
    NAK_MAX = 2
    PENDING_MAX = 1
    MaxLag = 1
    MaxNaks = 1
    MaxFrames = 1
    MaxConnects = 1
    Transports = {"tcp"}
    Starts = {0, 1000000}
    Sparse = TRUE
    SLOT_WRITING = 1000000
SPECIFICATION FairSpec
PROPERTIES
    MirrorCatchesUp
CHECK_DEADLOCK FALSE
