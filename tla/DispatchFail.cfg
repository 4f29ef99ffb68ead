SPECIFICATION FairSpec
CONSTANTS
    p1 = p1
    p2 = p2
    d1 = d1
    d2 = d2
    a1 = a1
    a2 = a2
    w1 = w1
    w2 = w2
    r1 = r1
    c1 = c1
    c2 = c2
    Procs = {p1, p2}
    Deliveries = {d1}
    AgentRuns = {a1}
    Workers = {w1}
    AgentRunOf <- OneAgentRun
    WorkerOf <- OneWorker
    Capacity <- CapacityOne
    None = None
    Runs = {r1}
    RunOfAgent <- OneRun
    WorkerSeq <- OneWorkerSeq
    MaxWorkers = 2
    MaxFailures = 2
    MayDo <- Failing
    MayDie = {p1}
    CancelRuns = {}
    Ckpts = {}
    CkptRun <- CkptRunOne
    MaxFaults = 0
    MaxDispatch = 2
    Renewing = {}
PROPERTIES
    RequestedFailureEnds
    EveryDeliveryEnds
CHECK_DEADLOCK FALSE
