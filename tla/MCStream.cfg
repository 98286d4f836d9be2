SPECIFICATION StreamSpec
CONSTANTS
    ReadLength = 2
    WriteLength = 2
    MaxRead = 2
    MaxCompletions = 2
    Rooms = {0, 1, 2}
    MaxLosses = 1
INVARIANTS StreamTypeOK ReadAndCountedOnce EveryByteOnce DeletedOnceWhenCompleted
PROPERTIES FinalOffsetIsFinal ReadIsUnblocked WriteAndCloseEnd
