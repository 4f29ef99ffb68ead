SPECIFICATION Spec
CONSTANTS
    p1 = p1
    p2 = p2
    d1 = d1
    d2 = d2
    a1 = a1
    a2 = a2
    w1 = w1
    w2 = w2
    r1 = r1
    c1 = c1
    c2 = c2
    Procs = {p1}
    Deliveries = {d1, d2}
    AgentRuns = {a1, a2}
    Workers = {w1, w2}
    AgentRunOf <- TwoAgentRuns
    WorkerOf <- OneWorker
    Capacity <- CapacityTwo
    None = None
    Runs = {r1}
    RunOfAgent <- OneRun
    WorkerSeq <- TwoWorkerSeq
    MaxWorkers = 2
    MaxFailures = 1
    MayDo <- FailingAndCommitting
    MayDie = {}
    CancelRuns = {}
    Ckpts = {c1, c2}
    CkptRun <- CkptRunOne
    MaxFaults = 1
    MaxDispatch = 1
    Renewing = {}
INVARIANTS
    CaptureIsQuiet
SYMMETRY AnyRequest
CHECK_DEADLOCK FALSE
