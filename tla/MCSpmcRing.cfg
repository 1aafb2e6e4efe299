\* A mirror ring of two slots: every message twice lapped, holes of any length.
CONSTANTS
    Readers = {r1}
    Words = {w1, w2}
    Capacity = 2
    MaxSeq = 4
    SLOT_WRITING = 1000000
    Sparse = TRUE
    HolePeriod = 2
    MaxLapped = 2
SPECIFICATION FairSpec
INVARIANTS
    TypeOK
    NoTornItem
    RetainedReadable
    LapAccounting
PROPERTIES
    RefinesBroadcast
    PollingReaderMoves
