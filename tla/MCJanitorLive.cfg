SPECIFICATION JanitorSpec
CONSTANTS
    p1 = p1
    p2 = p2
    d1 = d1
    d2 = d2
    d3 = d3
    Procs = {p1}
    Build <- OneBuild
    Dirs = {d1}
    FoundDbs = 1
    FoundStamps = {1}
    Found <- LongLeft
    Now = 2
    MaxLoads = 1
    MaxFaults = 0
    MaxAge = 1
    MaxDirs = 2
    MaxBytes = 2
    Janitors = {p1}
    Size <- OneEach
INVARIANT
    LiveNeverDeleted
CHECK_DEADLOCK FALSE
