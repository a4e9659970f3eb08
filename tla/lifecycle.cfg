SPECIFICATION FairSpec
CONSTANTS
    h1 = h1
    h2 = h2
    h3 = h3
    Handlers = {h1, h2, h3}
    MaxRequests = 4
    MaxTicks = 2
INVARIANTS
    TypeOK
    LossBounded
    RetentionBeforeClose
PROPERTIES
    ShutdownCompletes
CHECK_DEADLOCK FALSE
