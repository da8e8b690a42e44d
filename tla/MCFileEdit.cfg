SPECIFICATION Spec
CHECK_DEADLOCK FALSE
CONSTANTS
    c1 = c1
    c2 = c2
    s1 = s1
    s2 = s2
    t1 = t1
    t2 = t2
    a = a
    b = b
    NoFile = NoFile
    NoUndo = NoUndo
    Slots = {c1, c2}
    SessionOf <- OwnSessions
    Texts = {t1, t2}
    LinesOf <- OneLine
    Endings = {"lf", "crlf"}
    Batches = {TRUE, FALSE}
    Guarded = TRUE
    Faults = {"snapshot", "save", "write", "restore", "unit", "serve", "crash"}
    MaxCalls = 4
    MaxOutside = 1
INVARIANTS TypeOK LastEditUndoable
PROPERTIES ReplacesWhatItRead RevertIsExact FailedRevertKeepsStore
ACTION_CONSTRAINT EndsInEditOrUndo
SYMMETRY SlotsAndTexts
