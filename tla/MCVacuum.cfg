SPECIFICATION Spec
CONSTANTS
    Procs = {p1}
    Sessions = {s1}
    Paths = {f1, f2}
    a = a
    b = b
    Lines <- MCLines
    Contents <- SizedContents
    Canons <- MCLines
    Digest <- MCDigest
    h1 = h1
    h2 = h2
    h3 = h3
    Anchors = {h1, h2}
    Pair <- MCPair
    GlobalBudget = 4
    PathBudget = 2
    MinVersions = 1
    MaxVersions = 2
    Losses = {}
    MaxSnaps = 4
    MaxLosses = 1
PROPERTIES
    PinnedNeverEvicted
    SweepEnoughAndOldestFirst
SYMMETRY PathSymmetry
ACTION_CONSTRAINT FixedAnchors
CHECK_DEADLOCK FALSE
