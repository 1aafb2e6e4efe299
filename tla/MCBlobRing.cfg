\* A mirror ring with holes and an arena of four units, lapped by payloads of one, three and four.
CONSTANTS
    Readers = {r1}
    Capacity = 2
    ArenaCapacity = 4
    Lengths = {0, 1, 3, 4}
    MaxSeq = 4
    Sparse = TRUE
    HolePeriod = 2
    SLOT_WRITING = 1000000
SPECIFICATION Spec
INVARIANTS
    NoTornBlob
    LiveBlobsDisjoint
PROPERTIES
    PassedOverMeansGone
