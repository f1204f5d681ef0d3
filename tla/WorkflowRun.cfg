SPECIFICATION FairSpec
CONSTANTS
    a = a
    o1 = o1
    o2 = o2
    open = open
    first = first
    again = again
    second = second
    wait1 = wait1
    early = early
    look = look
    kid = kid
    hold = hold
    NoOperation = NoOperation
    FaultsRecur = FALSE
    Ends = {"completed"}
    Sessions = {a}
    Operations = {o1, o2}
    HomeOf <- Home
    Steps = {open, first, again, second, wait1, early, look, kid, hold}
    KindOf <- Kinds
    SessionIn <- InSession
    OperationIn <- Named
    Programs <- Shapes
    Stoppable <- Stops
    FailuresOf <- Failing
    Needs <- Order
INVARIANTS
    TypeOK
    OneOperationInDoubt
    ReceiptsAreTrue
    OnlyLateAnswersAreMissed
    ClosedLeavesNothing
PROPERTIES
    NothingWaitsForEver
CHECK_DEADLOCK FALSE
