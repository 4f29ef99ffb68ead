SPECIFICATION Spec
CONSTANTS
    a1 = a1
    a2 = a2
    Agents = {a1, a2}
    MaxTurns <- Turns
    MaxGen <- Gens
    MaxConcurrent = 1
    MaxRetries = 1
    MaxTokens = 16
    MaxCost = 11
    InTokens <- FourIn
    OutTokens = 2
    PriceHit = 1
    PriceMiss = 5
    PriceOut = 10
    PriceScale = 10
    Reported <- Blocks
INVARIANTS
    FailedIsCertain
CHECK_DEADLOCK FALSE
