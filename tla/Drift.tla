-------------------------------- MODULE Drift --------------------------------
(***************************************************************************)
(* The drift notice: what a landed edit tells the session about lines it   *)
(* was served, outside the edited range, that are gone from the file.      *)
(***************************************************************************)
EXTENDS ServedState

LastPosition(hashes, anchor) == Max(PositionsOf(hashes, anchor))

\* The edited range on the mirror: where its two anchors were served, or its
\* line numbers when one of them has no single place there.
ServedSpan(rows, range) ==
    LET ends == PositionsOf(rows, range.startHash) \cup PositionsOf(rows, range.endHash)
        one(anchor) == Cardinality(PositionsOf(rows, anchor)) = 1
    IN  IF one(range.startHash) /\ one(range.endHash)
        THEN Min(ends)..Max(ends)
        ELSE Smallest(range.startLine, range.endLine)..Max({range.startLine, range.endLine})

\* The served lines outside the range, and those whose anchor is gone.
ServedOutside(rows, span) == {p \in DOMAIN rows \ span : rows[p] # Unserved}

Lost(rows, span, hashes) ==
    {p \in ServedOutside(rows, span) : rows[p] \notin AnchorsOf(hashes)}

-----------------------------------------------------------------------------
(* buildRotatedSurvivorCheck: a line whose anchor is gone is still there    *)
(* when the result has one more line of its canon, outside the range, than  *)
(* the lines that kept their anchors account for.                           *)

OutsideResult(span, delta, hashes) ==
    IF span = {} THEN DOMAIN hashes
    ELSE DOMAIN hashes \ (Min(span)..(Max(span) + delta))

LinesOf(canon, lines, canons) == Cardinality({n \in lines : canons[n] = canon})

Accounted(canon, rows, span, hashes, resultCanons) ==
    Cardinality({p \in ServedOutside(rows, span) \ Lost(rows, span, hashes) :
                    resultCanons[LastPosition(hashes, rows[p])] = canon})

Unaccounted(canon, rows, span, delta, hashes, resultCanons) ==
    Max({0, LinesOf(canon, OutsideResult(span, delta, hashes), resultCanons)
            - Accounted(canon, rows, span, hashes, resultCanons)})

NoSurvivor(p, s, span, delta, hashes, resultCanons) == FALSE

RotatedSurvivor(p, s, span, delta, hashes, resultCanons) ==
    LET canon == EntryAt(s.canons, p, NoCanon)
    IN  /\ canon # NoCanon
        /\ Cardinality({q \in Lost(s.rows, span, hashes) :
                          q <= p /\ EntryAt(s.canons, q, NoCanon) = canon})
             <= Unaccounted(canon, s.rows, span, delta, hashes, resultCanons)

Drifted(s, span, delta, hashes, resultCanons) ==
    {p \in Lost(s.rows, span, hashes) :
        ~RotatedSurvivor(p, s, span, delta, hashes, resultCanons)}

-----------------------------------------------------------------------------
\* currentPositionOfDrifted: next to the nearest surviving line above it, then
\* below it, then where the edit alone would have moved it.
CurrentPosition(rows, hashes, p, delta) ==
    LET alive == {q \in DOMAIN rows : rows[q] # Unserved /\ rows[q] \in AnchorsOf(hashes)}
        above == {q \in alive : q < p}
        below == {q \in alive : q > p}
    IN  IF above # {} THEN LastPosition(hashes, rows[Max(above)]) + 1
        ELSE IF below # {} THEN LastPosition(hashes, rows[Min(below)]) - 1
        ELSE p + delta

FirstOf(positions, count) ==
    {n \in positions : Cardinality({m \in positions : m <= n}) <= count}

\* computeDrift and scanDrift.  rows are the lines the notice shows, marks the
\* positions it reports; when all of them were reported before it shows none.
ComputeDrift(s, range, hashes, resultCanons) ==
    LET drifted   == Drifted(s, ServedSpan(s.rows, range), range.delta, hashes, resultCanons)
        positions == {CurrentPosition(s.rows, hashes, p, range.delta) : p \in drifted}
        inFile    == positions \cap DOMAIN hashes
        window    == {n \in DOMAIN hashes : {n - 1, n, n + 1} \cap inFile # {}}
        shown     == IF positions \subseteq s.reported THEN {} ELSE FirstOf(window, Cap)
    IN  [total |-> Cardinality(drifted),
         shown |-> shown,
         marks |-> inFile \cap shown]

ScanDrift(s, notice, hashes) ==
    MarkDriftReported(
        RecordDriftRows(s, [n \in notice.shown |-> hashes[n]], Len(hashes)),
        notice.marks)
=============================================================================
