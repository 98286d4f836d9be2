CONSTANTS
    Callers = {c1, c2, c3}
    Acceptors = {a1}
    Cancellable = {c1, c2, a1}
    MaxNumStreams = 2
    MaxOpen = 3
    AnyLimit = 2
SPECIFICATION Spec
INVARIANTS
    TypeOK
    StreamsWithinLimit
    CreditIsExact
PROPERTIES
    CreditReachesWaiters
    CloseUnblocksCalls
CHECK_DEADLOCK FALSE
