CONSTANTS
    j1 = j1
    j2 = j2
    w1 = w1
    w2 = w2
    Jobs <- TwoJobs
    Workers <- TwoWorkers
    Api = api
    None = None
    Deployments <- AllDeployments
    TaskOutcomes = {"report", "transient", "poison"}
    MaxRetries = 2
    FailureThreshold = 2
    SuccessThreshold = 1
    Faults <- OnceFaults
    MaxFaults = 1
SPECIFICATION Spec
INVARIANTS
    TypeOK
    SingleDelivery
    NothingDropped
    DeadLetterJustified
    NothingCompletesInline
PROPERTIES
    FinalStatusStands
    CancelStopsRetries
    ImplementsLifecycle
CHECK_DEADLOCK FALSE
