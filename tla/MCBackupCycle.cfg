SPECIFICATION FairSpec
CONSTANTS
    Names = {n1, n2}
    NoName = NoName
    Contents = {h1, h2}
    Half = Half
    NoContent = NoContent
    AutoSlots = 2
    ChangeSlots = 2
    MaxUserSteps = 3
    MaxRestores = 1
    MaxFaults = 1
INVARIANT NoHalfPlanStored
PROPERTY NoDuplicateAfterRestore
PROPERTY UndoIsThere
PROPERTY RenamesSettle
PROPERTY EveryChangeBackedUp
