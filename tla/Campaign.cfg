CONSTANTS
    p1 = p1
    p2 = p2
    b1 = b1
    b2 = b2
    s1 = s1
    None = None
    Procs = {p1, p2}
    Trials = {1, 2}
    Solo = {}
    Builds = {b1}
    MaxFaults = 1
    MaxParallel = 1
    MinLiveTrials = 2
    Cancels = FALSE
SPECIFICATION FairSpec
PROPERTIES CampaignEnds
CHECK_DEADLOCK FALSE
