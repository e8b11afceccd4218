SPECIFICATION StatusFairSpec
CONSTANTS
    j1 = j1
    j2 = j2
    k1 = k1
    v1 = v1
    r1 = r1
    r2 = r2
    r3 = r3
    w1 = w1
    w2 = w2
    NoJob = NoJob
    Workers = {w1, w2}
    Jobs = {j1}
    Keys = {k1}
    Videos = {v1}
    Requests = {r1}
    KeyOf <- OneKey
    VideoOf <- OneVideo
    JobOf <- OneJobOf
    ClusterMode = FALSE
    MaxMessages = 4
    MaxFaults = 3
    MaxAttempts = 2
    MaxCrashes = 1
CHECK_DEADLOCK FALSE
INVARIANTS
    AttemptsBounded
    ClassifiedIsPublished
    StoresAgree
    DeadLettersFailed
    ClassifiedShowsResult
    AcceptedIsFound
PROPERTIES
    StatusMovesForward
    EveryJobSettles
    FailureIsDeadLettered
