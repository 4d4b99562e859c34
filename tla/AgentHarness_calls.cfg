SPECIFICATION FairSpec
CONSTANTS
    MaxCalls = 2
    MaxInputs = 2
    MaxFaults = 2
    MaxEvents = 3
    MaxReplies = 1
    Overlap = FALSE
CHECK_DEADLOCK FALSE
INVARIANTS
    TypeOK
    WritesPersistInOrder
    MessagesKept
    SessionIsSerial
PROPERTIES
    OperationsReturn
