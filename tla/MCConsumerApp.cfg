\* Rings of one slot, two overlapping processes, one offset file.
CONSTANTS
    p = p
    q = q
    Procs = {p, q}
    Tasks = {p, q}
    Files = {0}
    Capacity = 1
    MaxChannels <- MCMaxChannels
    MaxBatch = 2
    MaxSpins = 1
    MaxYields = 1
    MaxSeq <- MCMaxSeq
    Gens = {0, 1}
    Deployments <- MCDeployments
SPECIFICATION FairSpec
INVARIANTS
    NoSilentLoss
    RefusalExplained
    NoChannelStarves
PROPERTIES
    NothingMeansNothing
    AwaitedMessageArrives
    ExecutorGetsItsTurn
