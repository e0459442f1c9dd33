SPECIFICATION FairVanishedSpec
CONSTANTS
    NoCall = NoCall
    Plans = {p1}
    Phones = {ph1}
    Calls = {c1, c2}
    Budgets <- Meetings
INVARIANT NoStaleButtons
PROPERTY RestoredOnce
PROPERTY ConfirmationStays
PROPERTY AlarmArrives
