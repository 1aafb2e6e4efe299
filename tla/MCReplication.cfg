\* A ring of two slots, three records, by UDP and by TCP, one reconnection.
CONSTANTS
    Capacity = 2
    MaxSeq = 3
    Batch = 2
    NAK_MAX = 2
    PENDING_MAX = 1
    MaxLag = 1
    MaxNaks = 1
    MaxFrames = 1
    MaxConnects = 2
    Transports = {"udp", "tcp"}
    Starts = {0, 1000000}
    Sparse = FALSE
    SLOT_WRITING = 1000000
SPECIFICATION FairSpec
INVARIANTS
    GapMeansGone
    NaksFollowTheSender
    StreamNeverGoesBack
PROPERTIES
    MirrorCatchesUp
CHECK_DEADLOCK FALSE
