SPECIFICATION JanitorSpec
CONSTANTS
    p1 = p1
    p2 = p2
    d1 = d1
    d2 = d2
    d3 = d3
    Procs = {p1, p2}
    Build <- OldAndNew
    Dirs = {d1, d2}
    FoundDbs = 2
    FoundStamps = {0, 1}
    Found <- OldAndYoung
    Now = 2
    MaxLoads = 2
    MaxFaults = 1
    MaxAge = 1
    MaxDirs = 2
    MaxBytes = 2
    Janitors = {p1}
    Size <- OneEach
INVARIANTS
    OpenTypeOK
    StampedBeforeUse
    OneConnection
    ListedOpeningsRun
    SparesOlderOpenings
PROPERTIES
    StampNeverFalls
    MeetsBudget
CHECK_DEADLOCK FALSE
