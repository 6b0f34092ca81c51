CONSTANTS
    j1 = j1
    j2 = j2
    w1 = w1
    w2 = w2
    Jobs <- OneJob
    Workers <- TwoWorkers
    Api = api
    None = None
    Deployments = {"redis"}
    TaskOutcomes = {"report", "transient"}
    MaxRetries = 3
    FailureThreshold = 10
    SuccessThreshold = 2
    Faults = {"duplicated", "late_write"}
    MaxFaults = 2
SPECIFICATION FairSpec
INVARIANTS
    DeliveriesBounded
PROPERTIES
    EventuallyFinal
CHECK_DEADLOCK FALSE
