SPECIFICATION ConnectionSpec
CONSTANTS
    Closers = {c1}
    Destroyers = {d1}
    Flight <- MCFlight
    MaxBurst = 2
    v1 = v1
    v2 = v2
    Versions <- MCVersions
    ServerVersions <- MCServerVersions
    MaxPN = 2
    MaxVN = 2
INVARIANTS ConnectionTypeOK ClosedWhenReturned NewSessionContinues
PROPERTIES ImplementsLife ClosingEnds DialingEnds
CHECK_DEADLOCK FALSE
