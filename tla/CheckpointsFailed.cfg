CONSTANTS
    w1 = w1
    w2 = w2
    c1 = c1
    c2 = c2
    q1 = q1
    v0 = v0
    v1 = v1
    None = None
    Garbage = Garbage
    Workers = {w1, w2}
    Creators = {c1}
    Restorers = {c2}
    Requests = {q1}
    Contents = {v0, v1}
    Fixture = v0
    Levels = {"workspace_write", "irreversible"}
    MaxTurns = 1
    MaxFaults = 1
SPECIFICATION Spec
INVARIANTS NoForkPastAnyEffect
CHECK_DEADLOCK FALSE
