SPECIFICATION Spec
SYMMETRY Symmetry
CONSTANTS
    openai = openai
    gemini = gemini
    Providers = {openai, gemini}
    Window = 3
    BucketCount = 2
    RetentionAge = 1
    MaxAge = 1
    MaxTime = 3
    MaxCalls = 3
INVARIANTS
    TypeOK
    PartsAgree
    PointsTile
CHECK_DEADLOCK FALSE
