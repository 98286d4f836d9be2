SPECIFICATION Spec
CONSTANTS
    Closers = {c1}
    Destroyers = {}
    Flight <- MCFlight
    MaxBurst = 2
PROPERTY CloseAlwaysReturns
CHECK_DEADLOCK FALSE
