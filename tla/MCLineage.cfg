SPECIFICATION Spec
CONSTANTS
    Procs = {p1}
    Sessions = {s1}
    Paths = {f1}
    a = a
    b = b
    Lines <- MCLines
    Contents <- MovingContents
    Canons <- MCLines
    Digest <- MCDigest
    h1 = h1
    h2 = h2
    h3 = h3
    Anchors = {h1, h2}
    Pair <- MCPair
    GlobalBudget = 100
    PathBudget = 100
    MinVersions = 2
    MaxVersions = 2
    Losses = {"tail"}
    MaxSnaps = 3
    MaxLosses = 1
INVARIANTS
    TypeOK
    IdentityKeepsCanon
    OrderStable
    ResolveSound
    ResolvesAtHome
ACTION_CONSTRAINT IdentityOnly
SYMMETRY AnchorSymmetry
CHECK_DEADLOCK FALSE
