SPECIFICATION Spec
SYMMETRY Symmetry
CONSTANTS
    c1 = c1
    c2 = c2
    c3 = c3
    openai = openai
    gemini = gemini
    p1 = p1
    p2 = p2
    p3 = p3
    NoName = NoName
    Null = Null
    Callers = {c1, c2, c3}
    Names = {openai, gemini}
    Pointers = {p1, p2, p3}
    KeyCounts <- MCKeyCounts
    WordSize = 4
    MaxPicks = 8
INVARIANTS
    TypeOK
    OneCursorPerProvider
    EvenRotation
PROPERTIES
    ImplementsRoundRobin
CHECK_DEADLOCK FALSE
