CONSTANTS
    Backups <- MCBackups
    LivePlans <- MCLivePlans
    Ids = {1, 2, 3, 4, 5, 6}
    RunIds = {1, 2, 3}
    Unread = Unread
    MaxFaults = 2
SPECIFICATION Spec
INVARIANT OkMeansRestored
INVARIANT RunsAsTold
INVARIANT FollowsTogether
PROPERTY OverwritesOnlyMeant
CHECK_DEADLOCK FALSE
