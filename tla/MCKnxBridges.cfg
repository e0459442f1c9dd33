CONSTANTS
    Ks = {1, 2}
    Trigger = Trigger
    Block = 2
    Factory = 2
    None = None
    Setups = {"new", "kept", "wired"}
    StudioEdits = {"retitle", "use", "name", "make", "unwire", "delete", "cancel"}
    MaxEdits = 1
    MaxOps = 2
    MaxFaults = 1
SPECIFICATION BridgesSpec
CHECK_DEADLOCK FALSE
INVARIANT OneBridgeEach
INVARIANT NoDuplicateCommand
PROPERTY UsedMarkersKept
PROPERTY KnxSettles
PROPERTY CleanUpSpares
