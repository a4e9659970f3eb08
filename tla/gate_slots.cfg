SPECIFICATION FairSpec
CONSTANTS
    h1 = h1
    h2 = h2
    alice = alice
    legacy = legacy
    tokA = tokA
    m1 = m1
    m2 = m2
    NoModel = NoModel
    Catalogue = Catalogue
    NoClient = NoClient
    LegacyName = legacy
    Handlers <- Handlers2
    Names = {alice, legacy}
    Tokens = {tokA}
    Models = {m1}
    Configs <- SlotEdits
    InitialConfig <- One
    DayLength = 2
    MinuteLength = 1
    RetentionDays = 0
    MaxTime = 0
    MaxRequests = 3
    MaxCrashes = 1
INVARIANTS
    TypeOK
    SlotAccounting
    ConcurrentLimitHolds
PROPERTIES
    ImplementsPool
    EveryRequestReturns
