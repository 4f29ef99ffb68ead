CONSTANTS
    p1 = p1
    p2 = p2
    b1 = b1
    b2 = b2
    s1 = s1
    None = None
    Procs = {p1, p2}
    Trials = {1, 2}
    Solo = {s1}
    Builds = {b1, b2}
    MaxFaults = 2
    MaxParallel = 1
    MinLiveTrials = 2
    Cancels = TRUE
SPECIFICATION Spec
SYMMETRY AnyOrder
CONSTRAINT Apart
INVARIANTS ArmsStartTogether EndMeansQuiet ParallelBound VerdictRestsOnTrials
PROPERTIES FailureIsFinal
CHECK_DEADLOCK FALSE
