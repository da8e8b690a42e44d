SPECIFICATION SessionSpec
CONSTANTS
    Procs = {p1}
    Sessions = {s1}
    Paths = {f1}
    File = f1
    a = a
    b = b
    c = c
    d = d
    e = e
    f = f
    MaxLen = 4
    Lines = {a, b, c, d, e, f}
    Contents <- InnerEdited
    Canons = {a, b, c, d, e, f}
    AllCanons = {a, b, c, d, e, f}
    Digest <- MCDigest
    Anchors <- MCAnchors
    Base <- MCBase
    Blank = blank
    NoCanon = noCanon
    Cap = 50
    Space = 11
    Stride = 3
    Pair <- MCPair
    GlobalBudget = 100
    PathBudget = 100
    MinVersions = 2
    MaxVersions = 2
    Losses = {}
    MaxSnaps = 20
    MaxLosses = 0
    Outside <- InnerContents
    Replacements <- NewLine
    MaxItems = 1
    Routes = {TRUE}
    Guarded = TRUE
    Windows = FALSE
    MaxCalls = 3
    MaxForeign = 1
    MaxFaults = 0
PROPERTY RangeMeansShown
CHECK_DEADLOCK FALSE
