SPECIFICATION ApiSpec
CONSTANTS
    j1 = j1
    j2 = j2
    k1 = k1
    v1 = v1
    r1 = r1
    r2 = r2
    r3 = r3
    NoJob = NoJob
    Jobs = {j1, j2}
    Keys = {k1}
    Videos = {v1}
    Requests = {r1, r2, r3}
    KeyOf <- MCKeyOf
    VideoOf <- MCVideoOf
    JobOf <- MCJobOf
    ClusterMode = TRUE
    MaxMessages = 3
    MaxFaults = 2
CHECK_DEADLOCK FALSE
INVARIANTS
    ApiTypeOK
    AcceptedIsVisible
    NothingDangles
