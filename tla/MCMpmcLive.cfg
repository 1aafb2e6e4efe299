\* A queue consumer and a broadcast reader of two producers, one of which may die;
\* payloads do not matter here.
CONSTANTS
    Producers = {p1, p2}
    Consumers = {c1}
    Watchers = {v1}
    Mortal = {p1}
    Words = {}
    Capacity = 1
    MaxSeq = 3
    SLOT_WRITING = 1000000
SPECIFICATION FairSpec
PROPERTIES
    PushReturns
    LappedTicketResolves
    WatcherMoves
CHECK_DEADLOCK FALSE
