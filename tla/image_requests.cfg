SPECIFICATION FairSpec
CONSTANTS
    u1 = u1
    b1 = b1
    t1 = t1
    key = key
    otherKey = otherKey
    Secret = key
    NoSecret = NoSecret
    NotAnInteger = NotAnInteger
    MaxSkew = 1
    Calls <- SomeCalls
    Requests = {u1, b1, t1}
    KindOf <- Kinds
    GpuMaxConcurrency = 1
    GpuMaxAttempts = 3
    DownloadMaxAttempts = 2
    Replies <- SomeReplies
CHECK_DEADLOCK FALSE
INVARIANTS
    DetectionTypeOK
    SlotsAddUp
    HoldsWhatItUses
    ErrorIsOfLastAttempt
    AnswersAgree
PROPERTIES
    EveryRequestAnswered
