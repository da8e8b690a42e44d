------------------------------ MODULE FileView ------------------------------
(***************************************************************************)
(* What one read shows of a file and records as served: a page or a list   *)
(* of windows, cut to a budget of lines and bytes, with a placeholder for  *)
(* each row too long to show and a hint where to go on.                    *)
(*                                                                         *)
(* A file is the sequence of the sizes in bytes of its rows (anchor,       *)
(* separator and line).  Wording is left out; its size is not, since it is *)
(* charged to the budget that the windows of one request share.            *)
(***************************************************************************)
EXTENDS Integers, Sequences, SequencesExt

CONSTANTS
    MaxBytes, MaxLines,     \* the budget of one read
    MaxHashLines,           \* files with more lines are refused
    MaxWindows,             \* windows in one request
    PlaceholderBytes,       \* the row that stands for an oversized one
    WarningBytes, HintBytes, HeaderBytes

ASSUME ViewAssumption ==
    /\ {MaxBytes, MaxLines, MaxHashLines, MaxWindows} \subseteq Nat \ {0}
    /\ {PlaceholderBytes, WarningBytes, HintBytes, HeaderBytes} \subseteq Nat \ {0}
    /\ PlaceholderBytes <= MaxBytes

\* A number absent from a request, and the absence of a next offset.
None == 0

-----------------------------------------------------------------------------
\* The bytes of rows joined by newlines.
JoinedBytes(rows) ==
    LET joined[n \in 0..Len(rows)] ==
            IF n = 0 THEN 0 ELSE IF n = 1 THEN rows[1] ELSE joined[n - 1] + 1 + rows[n]
    IN  joined[Len(rows)]

Fits(rows, bytes, lines) == Len(rows) <= lines /\ JoinedBytes(rows) <= bytes

\* truncateHead: the rows it keeps, whole ones only.
Kept(rows, bytes, lines) ==
    IF Fits(rows, bytes, lines) THEN Len(rows)
    ELSE Max({n \in 0..Len(rows) : Fits(SubSeq(rows, 1, n), bytes, lines)})

\* What is shown: rows by line, "full" when the line itself is there; what is
\* recorded as served: an anchor (known by its line) at a position from 0.
NoView == [shown |-> <<>>, served |-> {}, next |-> None, truncated |-> FALSE]

Oversized(rows, bytes) == {i \in DOMAIN rows : rows[i] > bytes}

\* The rows of a preview that starts at line start: n are shown.
Shown(rows, bytes, start, n) ==
    [i \in 1..n |-> [line |-> start + i - 1, full |-> rows[i] <= bytes]]

ServedRow(start, i) == [position |-> start - 2 + i, anchor |-> start - 1 + i]

OversizedServedAll(rows, bytes, start, n) == {ServedRow(start, i) : i \in 1..n}

OversizedServed(rows, bytes, start, n) ==
    {ServedRow(start, i) : i \in 1..n \ Oversized(rows, bytes)}

\* A preview with the bytes and the lines of its text.
OversizedPreview(rows, start, total, bytes, lines, remainder) ==
    LET rendered == [i \in DOMAIN rows |-> IF rows[i] > bytes THEN PlaceholderBytes ELSE rows[i]]
        n == Kept(rendered, bytes, lines)
        truncated == ~Fits(rendered, bytes, lines)
        hint == n > 0 /\ (truncated \/ (remainder /\ start + n - 1 < total))
    IN  [shown |-> Shown(rows, bytes, start, n),
         served |-> OversizedServed(rows, bytes, start, n),
         next |-> IF hint THEN start + n ELSE None,
         truncated |-> truncated,
         bytes |-> JoinedBytes(SubSeq(rendered, 1, n)) + 2 + WarningBytes
                   + (IF hint THEN 1 + HintBytes ELSE 0),
         lines |-> Max({n, 1}) + 2 + (IF hint THEN 1 ELSE 0)]

NormalNextAtLast(start, n, truncated, remainder, end, total) ==
    IF truncated THEN start + n - 1
    ELSE IF remainder /\ end < total THEN end + 1
    ELSE None

NormalNext(start, n, truncated, remainder, end, total) ==
    IF truncated THEN start + n
    ELSE IF remainder /\ end < total THEN end + 1
    ELSE None

NormalPreview(rows, start, total, bytes, lines, remainder) ==
    LET n == Kept(rows, bytes, lines)
        truncated == ~Fits(rows, bytes, lines)
        next == NormalNext(start, n, truncated, remainder, start - 1 + Len(rows), total)
    IN  [shown |-> Shown(rows, bytes, start, n),
         served |-> {ServedRow(start, i) : i \in 1..n},
         next |-> next,
         truncated |-> truncated,
         bytes |-> JoinedBytes(SubSeq(rows, 1, n)) + (IF next = None THEN 0 ELSE 2 + HintBytes),
         lines |-> n + (IF next = None THEN 0 ELSE 2)]

\* One row over the budget turns the whole preview into the oversized form.
Section(rows, start, total, bytes, lines, remainder) ==
    IF Oversized(rows, bytes) # {}
    THEN OversizedPreview(rows, start, total, bytes, lines, remainder)
    ELSE NormalPreview(rows, start, total, bytes, lines, remainder)

-----------------------------------------------------------------------------
Selected(file, offset, limit) ==
    SubSeq(file, offset, IF limit = None THEN Len(file) ELSE Min({offset - 1 + limit, Len(file)}))

ChargedRows(state, section) ==
    [state EXCEPT !.bytes = @ - section.bytes - HeaderBytes]

Charged(state, section) ==
    [state EXCEPT !.bytes = @ - section.bytes - HeaderBytes, !.lines = @ - section.lines]

\* One window against what the windows before it left of the budget.
ShowWindow(file, state, window) ==
    LET rows == Selected(file, window.offset, window.limit)
        section == Section(rows, window.offset, Len(file), state.bytes, state.lines, FALSE)
    IN  IF window.offset > Len(file) THEN state
        ELSE IF state.bytes <= 0 \/ state.lines <= 0
        THEN [state EXCEPT !.view.truncated = TRUE]
        ELSE [Charged(state, section) EXCEPT
                 !.view.shown = @ \o section.shown,
                 !.view.served = @ \cup section.served,
                 !.view.truncated = @ \/ section.truncated]

WindowedPreview(file, windows) ==
    LET after[n \in 0..Len(windows)] ==
            IF n = 0 THEN [view |-> NoView, bytes |-> MaxBytes, lines |-> MaxLines]
            ELSE ShowWindow(file, after[n - 1], windows[n])
    IN  after[Len(windows)].view

\* The anchor of the one empty line of an empty file.
EmptyPreview(offset) ==
    IF offset = 1 THEN [NoView EXCEPT !.shown = <<[line |-> 1, full |-> TRUE]>>,
                                      !.served = {[position |-> 0, anchor |-> 1]}]
    ELSE NoView

FirstOffset(request) ==
    IF request.windows # <<>> THEN request.windows[1].offset
    ELSE IF request.offset = None THEN 1 ELSE request.offset

Paged(file, offset, limit) ==
    LET section == Section(Selected(file, offset, limit), offset, Len(file), MaxBytes, MaxLines, TRUE)
    IN  [f \in DOMAIN NoView |-> section[f]]

\* Windows win over offset and limit.
Preview(file, request) ==
    IF file = <<>> THEN EmptyPreview(FirstOffset(request))
    ELSE IF request.windows # <<>> THEN WindowedPreview(file, request.windows)
    ELSE IF FirstOffset(request) > Len(file) THEN NoView
    ELSE Paged(file, FirstOffset(request), request.limit)

TooLarge(file) == Len(file) > MaxHashLines

Accepted(file, request) == ~TooLarge(file) /\ Len(request.windows) <= MaxWindows

=============================================================================
