SPECIFICATION FairSpec
CONSTANTS
    Ids = {1, 2}
    Names = {n1, n2}
    FirstName = n1
    NoPlan = NoPlan
    Watched <- WatchedPlans
    MaxFailed = 2
    Scenarios <- Cases
INVARIANT AutoStartGivesUp
PROPERTY DeletedNotReported
PROPERTY VerdictSettles
