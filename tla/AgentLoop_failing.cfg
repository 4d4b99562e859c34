SPECIFICATION Spec
CONSTANTS
    MaxMsgs = 2
    MaxRuns = 2
    MaxBatches = 1
    MaxCalls = 2
    SteeringMode = "all"
    FollowUpMode = "one-at-a-time"
    ListenersFail = TRUE
CHECK_DEADLOCK FALSE
INVARIANTS
    MessagesConserved
    ResultsFollowTheirCall
    RequestsAreComplete
PROPERTIES
    RunsSettle
