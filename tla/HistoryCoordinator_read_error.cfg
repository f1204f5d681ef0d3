SPECIFICATION Spec
CONSTANTS
    i1 = i1
    i2 = i2
    a1 = a1
    y1 = y1
    y2 = y2
    NoEntry = NoEntry
    Ids = {i1}
    Assets = {a1}
    Syncs = {y1}
    MaxWrites = 1
    MaxQueue = 2
    Scenes <- One
INVARIANT
    WarningStands
CHECK_DEADLOCK FALSE
