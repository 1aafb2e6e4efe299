\* Two keys, written up to three times each.
CONSTANTS
    Keys = {k1, k2}
    Readers = {r1}
    Words = {w1, w2}
    MaxWrites = 3
    SpinLimit = 1
SPECIFICATION FairSpec
INVARIANTS
    ReadIsFresh
    AnswerExplained
PROPERTIES
    ReadReturns
CHECK_DEADLOCK FALSE
