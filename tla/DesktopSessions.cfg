SPECIFICATION FairSpec
CONSTANTS
    one = one
    two = two
    c1 = c1
    c2 = c2
    c3 = c3
    s1 = s1
    s2 = s2
    s3 = s3
    NoSession = NoSession
    Conversations = {one, two}
    Callers = {c1, c2, c3}
    Unadmitted = {c2}
    WantOf <- Mixed
    Sessions = {s1, s2, s3}
    HomeOf <- Homes
INVARIANTS
    TypeOK
    OneSessionPerConversation
    NothingOutlivesClose
    FailuresSurface
PROPERTIES
    CallsReturn
CHECK_DEADLOCK FALSE
