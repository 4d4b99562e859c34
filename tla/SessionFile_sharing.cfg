SPECIFICATION Spec
CONSTANTS
    Procs = {p, q}
    MaxEntries = 4
    MaxMoves = 3
    Faults = {"none", "torn", "open"}
CHECK_DEADLOCK FALSE
SYMMETRY Symmetry
INVARIANTS
    TypeOK
    SessionIsSaved
PROPERTIES
    FileOnlyGrows
