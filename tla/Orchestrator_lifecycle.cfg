SPECIFICATION FairSpec
CONSTANTS
    Instances = {i}
    Stoppers = {s, z}
    MaxRegistrations = 2
    MaxCrashes = 2
CHECK_DEADLOCK FALSE
INVARIANTS
    TypeOK
    ProcessesAreOwned
    RegistrationsAreRecorded
PROPERTIES
    CallsEnd
