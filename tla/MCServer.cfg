SPECIFICATION Spec
CONSTANTS
    Conns = {i1, i2}
    Acceptors = {a1}
    Closers = {c1}
    MaxAcceptQueueSize = 1
INVARIANTS QueueLenExact ClosedServerHasNoSessions
PROPERTY ClosingAndSessionsEnd
CHECK_DEADLOCK FALSE
