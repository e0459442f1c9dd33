CONSTANTS
    Sources = {1, 2}
    Titles = {a, b}
    FirstTitle = a
    Kinds = {"digital", "analog"}
    Gone = Gone
    Actions = {"full_sync", "delete_orphans", "create_missing", "update_types", "update_renames", "function_plan_add_missing", "cleanup_entities"}
    WriteTime = 35
    DeleteTime = 4
    RecreateTime = 60
    Setups = {"new", "wired"}
    Edits = {"marker", "copy", "delete", "use", "plan", "switch", "ignore", "cancel"}
    MaxEdits = 2
    MaxSyncs = 1
    MaxFaults = 1
SPECIFICATION Spec
CHECK_DEADLOCK FALSE
INVARIANT UsedCommandsStay
PROPERTY SyncSettles
PROPERTY PlanRunsAsBefore
PROPERTY KeepsPlanLogic
