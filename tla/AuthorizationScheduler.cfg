SPECIFICATION FairSpec
CONSTANTS
    fg = fg
    bg = bg
    j1 = j1
    j2 = j2
    j3 = j3
    b1 = b1
    b2 = b2
    b3 = b3
    Pools = {fg, bg}
    Jobs = {j1, j2, j3, b1, b2, b3}
    PoolOf <- MCPoolOf
    Traffic <- Mixed
    Limit <- OneSlot
    Waiting <- OneAndTwo
    Floor = 2
    Cap = 2
INVARIANTS
    TypeOK
    SlotsAreEvaluations
PROPERTIES
    NoLateAnswer
    FirstComeFirstServed
    CallersAreAnswered
CHECK_DEADLOCK FALSE
