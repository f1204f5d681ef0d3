SPECIFICATION FairSpec
CONSTANTS
    MaxRuns = 2
    LastDay = 2
    Limits = {1, 2}
    MaxBatches = 2
    Scenes <- All
INVARIANTS
    TypeOK
    OneRunAtATime
    NeverSubmittedTwice
PROPERTIES
    BudgetKept
    ReceiptsAreProven
    RunsEnd
CHECK_DEADLOCK FALSE
