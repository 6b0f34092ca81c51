CONSTANTS
    p1 = p1
    p2 = p2
    Publishers <- TwoPublishers
    Modes <- AllModes
    QueueSize = 2
    ReplaySize = 2
    MaxEvents = 3
    MaxFaults = 2
    MaxGap = 1
    MaxBreaks = 2
SPECIFICATION Spec
CONSTRAINT MishapsBounded
SYMMETRY PublisherSymmetry
INVARIANTS
    TypeOK
    AppliedInOrder
    NothingMissed
    ResumesSeamlessly
    SeenIsDurable
CHECK_DEADLOCK FALSE
