SPECIFICATION Spec
CONSTANTS
    None = None
    NeedsPeer = TRUE
    MaxTurns = 3
    MaxNudges = 1
    Choices <- AnyAnswer
    MaxCuts = 1
    MayExpire = TRUE
INVARIANTS
    HonestWorkAccepted
    ResultRestsOnWork
    OnePeerExchange
    NoLostWakeUp
CHECK_DEADLOCK FALSE
