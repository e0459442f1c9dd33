SPECIFICATION FairSpec
CONSTANTS
    NoCall = NoCall
    Syncs = {s1}
    Restores = {r1}
    Edits = {}
    Cascades = {k1}
    BackupEdits = {}
    Cleanups = {}
    RangeChecks = {}
    KnxRepairs = {}
    Reloads = {l1}
    HAReloads = {h1}
    MaxCoordinators = 4
    UnloadMayFail = TRUE
PROPERTY EveryCallEnds
PROPERTY SkippedReloadIsCovered
