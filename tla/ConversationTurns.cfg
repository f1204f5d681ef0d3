SPECIFICATION Spec
CONSTANTS
    s1 = s1
    s2 = s2
    NoSession = NoSession
    Sessions = {s1, s2}
    MaxOps = 3
    SavesFail = TRUE
INVARIANTS
    TypeOK
    RunsAreOwned
    NoPhantomOperation
PROPERTY
    NoTurnOverwritten
CHECK_DEADLOCK FALSE
