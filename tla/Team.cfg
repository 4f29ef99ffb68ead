CONSTANTS
    r1 = r1
    r2 = r2
    s1 = s1
    s2 = s2
    a1 = a1
    a2 = a2
    None = None
    Runs = {r1, r2}
    Agents = {a1, a2}
    StageSeq <- Order
    StagesOf <- ChainAndOne
    DependsOn <- Chain
    Capable <- Cards
    Rank <- Ranks
    MaxParallel = 2
    MaxAttempts = 1
    MaxTurns = 2
    Outcomes <- OneHesitates
    MaxLate = 0
    MaxFaults = 0
SPECIFICATION FairSpec
INVARIANTS AgentLoad CompletionPassesGate
PROPERTIES EveryRunRests
CHECK_DEADLOCK FALSE
