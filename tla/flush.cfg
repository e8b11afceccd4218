SPECIFICATION FairSpec
CONSTANTS
    r1 = r1
    r2 = r2
    v1 = v1
    x1 = x1
    ManualBan = ManualBan
    Results = {r1, r2}
    Videos = {v1}
    VideoOf <- MCVideoOf
    Moves = {r2}
    Bans = {x1}
    BanOf <- MCBanOf
    Rejected <- MCRejected
    BatchSize = 2
    MaxFaults = 2
CHECK_DEADLOCK FALSE
INVARIANTS
    FlushTypeOK
    NoRowLost
    RuntimeIsBacked
PROPERTIES
    LegacyMovesForward
    RowsReachClickHouse
