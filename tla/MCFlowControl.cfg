CONSTANTS
    s1 = s1
    s2 = s2
    Streams = {s1, s2}
    StreamWindow = 1
    MaxStreamWindow = 2
    ConnWindow = 1
    MaxConnWindow = 1
    MaxData <- MCMaxData
    Ending = {s1}
    MaxAbandons = 1
SPECIFICATION LiveSpec
INVARIANTS
    TypeOK
    NoFalseError
    BufferedDataBounded
PROPERTIES
    EverythingIsRead
CHECK_DEADLOCK FALSE
