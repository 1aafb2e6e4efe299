\* Two consumers of a producer that may or may not have registered.
CONSTANTS
    Consumers = {c1, c2}
    MaxSeq = 2
SPECIFICATION WaitFairSpec
INVARIANTS
    WaitTypeOK
    NoLostWakeup
PROPERTIES
    MessageArrives
CHECK_DEADLOCK FALSE
