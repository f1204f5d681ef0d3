SPECIFICATION FairSpec
CONSTANTS
    i1 = i1
    i2 = i2
    a1 = a1
    y1 = y1
    y2 = y2
    NoEntry = NoEntry
    Ids = {i1, i2}
    Assets = {a1}
    Syncs = {y1, y2}
    MaxWrites = 2
    MaxQueue = 2
    Scenes <- Both
INVARIANTS
    TypeOK
    NewestTextWins
    
PROPERTIES
    EntriesOnlyGrow
    CloseReturns
CHECK_DEADLOCK FALSE
