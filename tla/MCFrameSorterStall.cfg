SPECIFICATION Spec
CONSTANTS
    Length = 4
    Families <- SplitOnce
    MinBufferSize = 2
    MaxGaps = 3
    MaxArrivals = 5
PROPERTY DeliversInOrder
CHECK_DEADLOCK FALSE
