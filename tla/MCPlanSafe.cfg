SPECIFICATION Spec
CONSTANTS
    NoCall = NoCall
    Syncs = {s1}
    Restores = {r1, r2}
    Edits = {e1}
    Cascades = {}
    BackupEdits = {b1}
    Cleanups = {c1}
    RangeChecks = {g1}
    KnxRepairs = {x1}
    Reloads = {l1, l2}
    HAReloads = {h1}
    MaxCoordinators = 3
    UnloadMayFail = FALSE
SYMMETRY CallSymmetry
CONSTRAINT AtMostFourCalls
INVARIANT RestoreNotCutOff
INVARIANT RestoreAlone
INVARIANT SyncNotCutOff
INVARIANT RestoreAndSyncExclude
INVARIANT EditsOutlastOwnReloads
