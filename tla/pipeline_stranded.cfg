SPECIFICATION FairSpec
CONSTANTS
    j1 = j1
    j2 = j2
    k1 = k1
    v1 = v1
    r1 = r1
    r2 = r2
    r3 = r3
    w1 = w1
    w2 = w2
    NoJob = NoJob
    Workers = {w1}
    Jobs = {j1}
    Keys = {k1}
    Videos = {v1}
    Requests = {r1}
    KeyOf <- OneKey
    VideoOf <- OneVideo
    JobOf <- OneJobOf
    ClusterMode = FALSE
    MaxMessages = 4
    MaxFaults = 0
    MaxAttempts = 3
    MaxCrashes = 1
CHECK_DEADLOCK FALSE
PROPERTY EveryJobEnds
