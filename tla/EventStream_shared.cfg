SPECIFICATION FairSpec
CONSTANTS
    Consumers = {c, d, e}
    MaxEvents = 4
CHECK_DEADLOCK FALSE
INVARIANTS
    TypeOK
    OnceInOrder
PROPERTIES
    ConsumersAreReleased
