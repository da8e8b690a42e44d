SPECIFICATION SessionSpec
CONSTANTS
    Procs = {p1}
    Sessions = {s1}
    Paths = {f1}
    File = f1
    a = a
    b = b
    c = c
    d = d
    e = e
    f = f
    MaxLen = 3
    Lines = {a, b, c, f}
    Contents <- MCContents
    Canons = {a, b, c, f}
    AllCanons = {a, b, c, f}
    Digest <- MCDigest
    Anchors <- MCAnchors
    Base <- MCBase
    Blank = blank
    NoCanon = noCanon
    Cap = 50
    Space = 7
    Stride = 3
    Pair <- MCPair
    GlobalBudget = 100
    PathBudget = 100
    MinVersions = 2
    MaxVersions = 2
    Losses = {}
    MaxSnaps = 20
    MaxLosses = 0
    Outside <- DoublingContents
    Replacements <- NewLine
    MaxItems = 1
    Routes = {TRUE, FALSE}
    Guarded = TRUE
    Windows = TRUE
    MaxCalls = 4
    MaxForeign = 2
    MaxFaults = 0
INVARIANT AnchorsUnique
CHECK_DEADLOCK FALSE
