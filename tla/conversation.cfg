SPECIFICATION Spec
CONSTANTS
    f = f
    g = g
    h = h
    m = m
    Functions = {f, g, h}
    NoFunction = NoFunction
    Names <- Names3
    Models = {m}
    Configs <- TwoConfigs
    Offers <- FourOffers
    Questions <- AllOrNone
    Choices <- SomeChoices
    MaxTurns = 3
    MaxCalls = 3
INVARIANTS
    TypeOK
    TextsReach
    CallsReach
    ResultsCorrelate
    ChoiceKept
    AnswerKept
