SPECIFICATION FairSpec
CONSTANTS
    m1 = m1
    m2 = m2
    m3 = m3
    p1 = p1
    p2 = p2
    p3 = p3
    NoFile = NoFile
    Managers = {m1, m2, m3}
    Processes = {p1, p2, p3}
    ProcessOf <- Apart
    MayDie = {p1, p2, p3}
    Listing = {m1}
INVARIANTS
    TypeOK
    OnlyReclaimsClash
PROPERTIES
    DeadOwnerIsReclaimed
    ClosedLetsGo
CHECK_DEADLOCK FALSE
