SPECIFICATION Spec
CONSTANTS
    Canons = {a, b, c, d}
    MaxPrev = 4
    MaxCurr = 4
    MaxLeafLines = 3
    MaxLeafCells = 6
    MinScanBudget = 0
INVARIANTS
    BackboneIsForced
    LeafIsUniqueEmbedding
    PairingSymmetric
    InsertionKeepsAll
    PairingSound
    UnchangedKeepsAll
SYMMETRY Symmetry
CHECK_DEADLOCK FALSE
