SPECIFICATION FairSpec
CONSTANTS
    r1 = r1
    r2 = r2
    d1 = d1
    s1 = s1
    s2 = s2
    Nobody = Nobody
    Runs = {r1, r2}
    Dirs = {d1}
    Sources = {s1, s2}
    DirOf <- SharedDir
    SourceOf <- TwoSources
    Contents <- TwoContents
    FrameBatchSize = 2
    GpuMaxAttempts = 2
    MaxFaults = 2
CHECK_DEADLOCK FALSE
INVARIANTS
    AnalysisTypeOK
    WholeVideoJudged
    NothingLeftBehind
    FlaggedIsMoved
    LabelsAgree
PROPERTIES
    EveryRunEnds
