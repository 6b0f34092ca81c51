CONSTANTS
    j1 = j1
    j2 = j2
    w1 = w1
    w2 = w2
    Jobs <- TwoJobs
    Workers <- TwoWorkers
    Api = api
    None = None
    Deployments = {"redis"}
    TaskOutcomes = {"report", "transient"}
    MaxRetries = 3
    FailureThreshold = 5
    SuccessThreshold = 2
    Faults = {}
    MaxFaults = 0
SPECIFICATION Spec
INVARIANTS
    AttemptHasInput
CHECK_DEADLOCK FALSE
