SPECIFICATION Spec
CONSTANTS
    NoCall = NoCall
    Syncs = {}
    Restores = {}
    Edits = {e1}
    Cascades = {}
    BackupEdits = {}
    Cleanups = {}
    RangeChecks = {}
    KnxRepairs = {}
    Reloads = {l1}
    HAReloads = {h1}
    MaxCoordinators = 3
    UnloadMayFail = FALSE
INVARIANT EditsNotCutOff
