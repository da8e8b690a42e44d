SPECIFICATION Spec
CONSTANTS
    MaxBytes = 14
    MaxLines = 3
    MaxHashLines = 4
    MaxWindows = 3
    PlaceholderBytes = 3
    WarningBytes = 1
    HintBytes = 1
    HeaderBytes = 1
    Sizes = {2, 5, 16}
    NoRequest = NoRequest
    Limits = {1, 3}
INVARIANTS ServedIsShown SharedBudget
PROPERTY HintsReachTheEnd
