SPECIFICATION TreeSpec
CONSTANTS
    MaxIds = 5
    MaxJumps = 2
    Labels = TRUE
    Overlap = FALSE
CHECK_DEADLOCK FALSE
INVARIANTS
    TreeTypeOK
    LabelsReplay
