SPECIFICATION Spec
CONSTANTS
    MaxEvents = 5
    MaxHidden = 2
INVARIANTS
    TypeOK
    AnthropicWellFormed
    ClosedOnce
    AlwaysClosed
    TextKept
    RecordTells
    UsageTold
CHECK_DEADLOCK FALSE
