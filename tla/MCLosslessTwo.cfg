\* Two readers, registered side by side or one after the other in one slot.
CONSTANTS
    Readers = {r1, r2}
    NoPid = NoPid
    MaxReaders = 2
    Capacity = 1
    MaxSeq = 2
    SLOT_WRITING = 1000000
    PruneAfter = 1
    PruneEvery = 2
    MaxSeeks = 0
SYMMETRY Symmetry
SPECIFICATION Spec
INVARIANTS
    BackpressureProtects
    OneOwner
CHECK_DEADLOCK FALSE
