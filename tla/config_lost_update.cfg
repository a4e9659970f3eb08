SPECIFICATION Spec
CONSTANTS
    a1 = a1
    a2 = a2
    old = old
    new = new
    defaults = defaults
    Nothing = Nothing
    NotSet = NotSet
    Absent = Absent
    Empty = Empty
    Garbled = Garbled
    Admins = {a1, a2}
    Duties <- SplitDuties
    Values = {old, new, Nothing, defaults}
    DefaultProviders = defaults
    EnvTokens = NotSet
    InitialFile <- MCFile
    MaxOperations = 2
    MaxCrashes = 0
INVARIANTS
    SavesReachFile
CHECK_DEADLOCK FALSE
