SPECIFICATION Spec
CONSTANTS
    o1 = o1
    o2 = o2
    o3 = o3
    o4 = o4
    real = real
    link = link
    other = other
    None = None
    Ops <- MCOps
    Paths <- MCPaths
    PathOf <- MCPathOf
    Canon <- MCCanon
CHECK_DEADLOCK FALSE
INVARIANTS
    TypeOK
    PresentFileExclusive
    ChainsAreExact
PROPERTIES
    EveryCallSettles
