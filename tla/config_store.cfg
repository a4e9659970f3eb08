SPECIFICATION Spec
SYMMETRY Symmetry
CONSTANTS
    a1 = a1
    a2 = a2
    old = old
    new = new
    defaults = defaults
    Nothing = Nothing
    NotSet = NotSet
    Absent = Absent
    Empty = Empty
    Garbled = Garbled
    Admins = {a1, a2}
    Duties <- AllDuties
    Values = {old, new, Nothing, defaults}
    DefaultProviders = defaults
    EnvTokens = NotSet
    InitialFile <- MCFile
    MaxOperations = 3
    MaxCrashes = 1
INVARIANTS
    TypeOK
    AckedSavesDurable
    MemoryMatchesFile
CHECK_DEADLOCK FALSE
