CONSTANTS
    r1 = r1
    r2 = r2
    s1 = s1
    s2 = s2
    a1 = a1
    a2 = a2
    None = None
    Runs = {r1}
    Agents = {a1, a2}
    StageSeq <- Order
    StagesOf <- Pair
    DependsOn <- Free
    Capable <- Cards
    Rank <- Ranks
    MaxParallel = 2
    MaxAttempts = 2
    MaxTurns = 1
    Outcomes <- Diligent
    MaxLate = 1
    MaxFaults = 1
SPECIFICATION Spec
CONSTRAINT FirstLate
INVARIANTS RedoneOnlyAfterExpiryRace StrandedOnlyBy
PROPERTIES BoardSpec
CHECK_DEADLOCK FALSE
