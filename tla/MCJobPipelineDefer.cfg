CONSTANTS
    j1 = j1
    j2 = j2
    w1 = w1
    w2 = w2
    Jobs <- TwoJobs
    Workers <- OneWorker
    Api = api
    None = None
    Deployments = {"redis"}
    TaskOutcomes = {"report", "transient"}
    MaxRetries = 3
    FailureThreshold = 5
    SuccessThreshold = 2
    Faults = {}
    MaxFaults = 0
SPECIFICATION FairSpec
PROPERTIES
    DeferredIsRetried
CHECK_DEADLOCK FALSE
