SPECIFICATION Spec
SYMMETRY Symmetry
CONSTANTS
    h1 = h1
    h2 = h2
    ann = ann
    bob = bob
    k1 = k1
    Nobody = Nobody
    NoKey = NoKey
    NoCookie = NoCookie
    Handlers = {h1, h2}
    Names = {ann, bob}
    Keys = {k1}
    MaxRequests = 4
    MaxCrashes = 1
INVARIANTS
    TypeOK
    OneFounder
    SentinelMeansAdmin
    SessionsMatchAccounts
PROPERTIES
    ImplementsRegistry
CHECK_DEADLOCK FALSE
