\* Two producers, a mirror and a cleaner that start, stop and die at one path.
CONSTANTS
    Producers = {p1, p2}
    Mirrors = {m1}
    Readers = {r1}
    Cleaners = {k1}
    Registered = {r1}
    Inodes = {i1, i2}
    None = None
    MaxTries = 2
SYMMETRY Symmetry
SPECIFICATION Spec
INVARIANTS
    CreatedRingIsReachable
    AttachedViewIntact
PROPERTIES
    RefusedMeansRival
CHECK_DEADLOCK FALSE
