SPECIFICATION FairSpec
CONSTANTS
    Procs = {p1, p2}
    Live = {p1}
    NoProc = NoProc
    NoCall = NoCall
    served = served
    snapshot = snapshot
    lease = lease
    undoRow = undoRow
    recordServed = recordServed
    upsertSnapshot = upsertSnapshot
    restoreUndo = restoreUndo
    Cells = {served, snapshot, lease, undoRow}
    Calls = {recordServed, upsertSnapshot, restoreUndo}
    Program <- MCProgram
    MaxAttempts = 4
INVARIANTS
    TypeOK
    AnswerIsTrue
    NoPhantomTransaction
PROPERTIES
    Implements
    EveryCallReturns
CHECK_DEADLOCK FALSE
