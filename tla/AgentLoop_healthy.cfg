SPECIFICATION Spec
CONSTANTS
    MaxMsgs = 3
    MaxRuns = 2
    MaxBatches = 1
    MaxCalls = 2
    SteeringMode = "one-at-a-time"
    FollowUpMode = "all"
    ListenersFail = FALSE
CHECK_DEADLOCK FALSE
INVARIANTS
    TypeOK
    RequestsAreFaithful
    RunsEndCleanly
