\* One reader of a ring of four slots, which rewinds, leaves or dies.
CONSTANTS
    Readers = {r1}
    NoPid = NoPid
    MaxReaders = 1
    Capacity = 4
    MaxSeq = 6
    SLOT_WRITING = 1000000
    PruneAfter = 1
    PruneEvery = 2
    MaxSeeks = 1
SPECIFICATION FairSpec
INVARIANTS
    BackpressureProtects
    RescanWithinHalfRing
PROPERTIES
    LosslessDelivery
    BlockedProducerResumes
CHECK_DEADLOCK FALSE
