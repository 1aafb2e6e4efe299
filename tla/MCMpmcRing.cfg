\* Two producers, three laps of one slot, two queue consumers.
CONSTANTS
    Producers = {p1, p2}
    Consumers = {c1, c2}
    Watchers = {}
    Mortal = {p1, p2, c1, c2}
    Words = {w1, w2}
    Capacity = 1
    MaxSeq = 3
    SLOT_WRITING = 1000000
SYMMETRY Symmetry
SPECIFICATION Spec
INVARIANTS
    NoTornItem
    TicketAccounting
PROPERTIES
    LapsOnlyGrow
CHECK_DEADLOCK FALSE
