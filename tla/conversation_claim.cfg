SPECIFICATION Spec
CONSTANTS
    f = f
    g = g
    h = h
    m = m
    Functions = {f, g, h}
    NoFunction = NoFunction
    Names <- Names3
    Models = {m}
    Configs <- TwoConfigs
    Offers <- FourOffers
    Questions <- AllOrNone
    Choices <- SomeChoices
    MaxTurns = 2
    MaxCalls = 1
INVARIANTS
    ResultsForwarded
