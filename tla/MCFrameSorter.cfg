SPECIFICATION Spec
CONSTANTS
    Length = 6
    Families <- WholeOrAny
    MinBufferSize = 2
    MaxGaps = 3
    MaxArrivals = 5
INVARIANTS GapsAreExact BuffersAreHeld
PROPERTY PrefixIsDelivered
CHECK_DEADLOCK FALSE
