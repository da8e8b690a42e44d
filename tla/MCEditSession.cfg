SPECIFICATION SessionSpec
CONSTANTS
    Procs = {p1}
    Sessions = {s1}
    Paths = {f1}
    File = f1
    a = a
    b = b
    c = c
    d = d
    e = e
    f = f
    MaxLen = 3
    Lines = {a, b, c}
    Contents <- MCContents
    Canons = {a, b, c}
    AllCanons = {a, b, c}
    Digest <- MCDigest
    Anchors <- MCAnchors
    Base <- MCBase
    Blank = c
    NoCanon = noCanon
    Cap = 50
    Space = 5
    Stride = 2
    Pair <- MCPair
    GlobalBudget = 100
    PathBudget = 100
    MinVersions = 2
    MaxVersions = 2
    Losses = {}
    MaxSnaps = 20
    MaxLosses = 0
    Outside <- ChangingContents
    Replacements <- Either
    MaxItems = 2
    Routes = {TRUE, FALSE}
    Guarded = TRUE
    Windows = TRUE
    MaxCalls = 3
    MaxForeign = 1
    MaxFaults = 1
ACTION_CONSTRAINT BatchesEarly
INVARIANTS
    SessionTypeOK
    SyncedRangesAccepted
    FreedStayDead
PROPERTIES
    DriftCounted
    UndoKeepsAnchors
    ReadBackedRange
    RereadKeepsAnchors
CHECK_DEADLOCK FALSE
