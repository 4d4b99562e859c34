SPECIFICATION TreeSpec
CONSTANTS
    MaxIds = 7
    MaxJumps = 1
    Labels = FALSE
    Overlap = FALSE
CHECK_DEADLOCK FALSE
INVARIANTS
    ResultsFollowCalls
    KeptOrSummarized
