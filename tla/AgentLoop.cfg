SPECIFICATION FairSpec
CONSTANTS
    p1 = p1
    p2 = p2
    Procs = {p1, p2}
    None = None
    Commands = {"incomplete", "malformed", "unknown_tool", "hidden_tool", "refused_tool",
                "tool", "stop", "submit", "submit_bad", "blocked", "wait", "artifact",
                "message", "continue"}
    TurnLimit = 2
    ToolLimit = 1
    NudgeLimit = 1
    MaxLosses = 1
INVARIANTS
    ToolRunsOnce
    LogTellsTruth
    TurnsWithinBudget
    UnknownBlocks
PROPERTIES
    ComesToRest
CHECK_DEADLOCK FALSE
