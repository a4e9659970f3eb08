SPECIFICATION Spec
SYMMETRY Symmetry2
CONSTANTS
    h1 = h1
    h2 = h2
    alice = alice
    legacy = legacy
    tokA = tokA
    m1 = m1
    m2 = m2
    NoModel = NoModel
    Catalogue = Catalogue
    NoClient = NoClient
    LegacyName = legacy
    Handlers <- Handlers2
    Names = {alice, legacy}
    Tokens = {tokA}
    Models = {m1, m2}
    Configs <- QuotaEdits
    InitialConfig <- Quota
    DayLength = 3
    MinuteLength = 1
    RetentionDays = 1
    MaxTime = 4
    MaxRequests = 4
    MaxCrashes = 1
INVARIANTS
    DailyOvershootBounded
    RPMOvershootBounded
    ListingFiltered
