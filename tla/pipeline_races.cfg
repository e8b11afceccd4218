SPECIFICATION Spec
CONSTANTS
    j1 = j1
    j2 = j2
    k1 = k1
    v1 = v1
    r1 = r1
    r2 = r2
    r3 = r3
    w1 = w1
    w2 = w2
    NoJob = NoJob
    Workers = {w1, w2}
    Jobs = {j1, j2}
    Keys = {k1}
    Videos = {v1}
    Requests = {r1, r2, r3}
    KeyOf <- SameKey
    VideoOf <- SameVideo
    JobOf <- RacingJobOf
    ClusterMode = FALSE
    MaxMessages = 3
    MaxFaults = 1
    MaxAttempts = 2
    MaxCrashes = 1
CHECK_DEADLOCK FALSE
CONSTRAINT OneTrouble
SYMMETRY RacesSymmetry
INVARIANTS
    TypeOK
    PublishedImpliesCommitted
    MovedBeforeCommitted
    ClassifiedHasResult
    OneResultPerKey
    NoJobDropped
    AcceptedIsDurable
PROPERTIES
    ResultIsFinal
    Finalizes
