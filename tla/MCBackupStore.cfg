SPECIFICATION FairSpec
CONSTANTS
    NoCall = NoCall
    NoList = NoList
    c1 = c1
    c2 = c2
    Callers = {c1, c2}
    Readers = {r1}
    Ids = {i1, i2}
    Contents = {h1}
    AutoSlots = 2
    ChangeSlots = 1
    Mixes <- MCMixes
    Cancellable = {"move", "purgeIdentity"}
    MaxCaptures = 2
    MaxFaults = 1
    MaxCancels = 1
INVARIANT OneWriter
INVARIANT DiskFollowsMemory
INVARIANT NoSnapshotTwice
PROPERTY PurgeSpares
PROPERTY EveryWriteEnds
