CONSTANTS
    Backups <- MCBackups
    LivePlans <- MCLivePlans
    Ids = {1, 2, 3, 4, 5, 6}
    RunIds = {1, 2, 3}
    Unread = Unread
    MaxFaults = 1
SPECIFICATION Spec
INVARIANT BackupsStay
CHECK_DEADLOCK FALSE
