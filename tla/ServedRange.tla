----------------------------- MODULE ServedRange -----------------------------
(***************************************************************************)
(* The decision whether an edit may replace a range: its two anchors must  *)
(* name lines of the file as it is now, and what the session was served of *)
(* the range must still be what is there.                                  *)
(*                                                                         *)
(* file is the buffer the edit is applied to: its canons and hashes.       *)
(* evidence is what the lease seam answers, when there is one: the leases  *)
(* of the session for this path, by anchor, the files other than this one  *)
(* it was served an anchor for, and the line of every identity.            *)
(***************************************************************************)
EXTENDS ServedState

Accepted == "accepted"

\* valEdit: the lines an anchor names; one, or the edit is refused.
Named(hashes, anchor) == PositionsOf(hashes, anchor)

Resolves(file, item) ==
    /\ Cardinality(Named(file.hashes, item.from)) = 1
    /\ Cardinality(Named(file.hashes, item.to)) = 1

\* swapReversedRanges: anchors given in reverse are healed.
RangeOf(file, item) ==
    LET m == Max(Named(file.hashes, item.from))
        n == Max(Named(file.hashes, item.to))
    IN  IF m <= n
        THEN [startLine |-> m, endLine |-> n, startHash |-> item.from, endHash |-> item.to]
        ELSE [startLine |-> n, endLine |-> m, startHash |-> item.to, endHash |-> item.from]

LinesIn(range) == range.startLine..range.endLine

-----------------------------------------------------------------------------
(* A retired boundary anchor whose line has changed since it was served.    *)

RetiredBoundaryChanged(s, retired, range, file) ==
    LET boundary == IF range.startHash \in retired THEN range.startHash ELSE range.endHash
        served   == PositionsOf(s.rows, boundary)
        expected == IF served = {} THEN NoCanon ELSE EntryAt(s.canons, Min(served), NoCanon)
        there    == Named(file.hashes, boundary)
    IN  /\ {range.startHash, range.endHash} \cap retired # {}
        /\ there # {}
        /\ expected # NoCanon
        /\ expected # file.canons[Min(there)]

-----------------------------------------------------------------------------
(* interceptLeaseBoundaries: lost identity comes before content.            *)

LeasedTo(evidence, range) == {range.startHash, range.endHash} \ DOMAIN evidence.leases

\* lineIdentityDecision.
Stale(evidence, anchor) ==
    \/ evidence.leases[anchor].retired
    \/ evidence.leases[anchor].id \notin DOMAIN evidence.lineOf

Unshifted(evidence, anchor) ==
    evidence.lineOf[evidence.leases[anchor].id] = evidence.leases[anchor].line

\* Exactly one boundary is stale, the other has not moved, and the window the
\* leases name lies in the file.
Recoverable(evidence, range, file) ==
    LET ends  == {range.startHash, range.endHash}
        stale == {h \in ends : Stale(evidence, h)}
        named == {evidence.leases[h].line : h \in ends}
    IN  /\ Cardinality(ends) = 2 /\ Cardinality(stale) = 1
        /\ \A h \in ends \ stale : Unshifted(evidence, h)
        /\ Min(named) <= Len(file.hashes)

BoundaryVerdict(evidence, range, file) ==
    IF LeasedTo(evidence, range) # {}
    THEN IF LeasedTo(evidence, range) \cap evidence.homes # {}
         THEN "E_FOREIGN_ANCHOR" ELSE "E_UNKNOWN_ANCHOR"
    ELSE IF \E h \in {range.startHash, range.endHash} : Stale(evidence, h)
    THEN IF Recoverable(evidence, range, file) THEN "E_UNVERIFIED_RANGE" ELSE "E_TARGET_LOST"
    ELSE Accepted

-----------------------------------------------------------------------------
(* The served window: where the two anchors stand on the mirror.            *)

Placed(rows, anchor) == Cardinality(PositionsOf(rows, anchor)) = 1

WindowOf(rows, range) ==
    LET ends == PositionsOf(rows, range.startHash) \cup PositionsOf(rows, range.endHash)
    IN  [from |-> Min(ends), to |-> Max(ends)]

\* The mirror line that goes with a line of the range.
SlotOf(window, range, line) == window.from + (line - range.startLine)

\* Interior holes are a matter of the route: the mirror route refuses them,
\* the leased one accepts them between two leased boundaries (ADR-0024).
InteriorHole(rows, window) == \E n \in window.from..window.to : EntryAt(rows, n, Unserved) = Unserved

\* verifyRebasedSpan: every served line of the window is leased, live, and
\* resolves to the line of the range it stands for.
SpanHolds(rows, evidence, window, range) ==
    \A line \in LinesIn(range) :
        LET slot   == SlotOf(window, range, line)
            anchor == EntryAt(rows, slot, Unserved)
        IN  IF anchor = Unserved
            THEN slot \in DOMAIN rows /\ slot \notin {window.from, window.to}
            ELSE /\ anchor \in DOMAIN evidence.leases
                 /\ ~Stale(evidence, anchor)
                 /\ evidence.lineOf[evidence.leases[anchor].id] = line

AnyCanon(s, window, range, file) == FALSE

CanonChanged(s, window, range, file) ==
    \E line \in LinesIn(range) :
        LET expected == EntryAt(s.canons, SlotOf(window, range, line), NoCanon)
        IN  expected # NoCanon /\ expected # file.canons[line]

\* checksPosition: a hole has no anchor to compare.
AnchorChanged(rows, leased, window, range, file) ==
    \E line \in LinesIn(range) :
        LET anchor == EntryAt(rows, SlotOf(window, range, line), Unserved)
        IN  /\ anchor # file.hashes[line]
            /\ ~(leased /\ anchor = Unserved)

\* The retired interior check repeats CanonChanged for the retired lines, so
\* it decides nothing that CanonChanged has not.
WindowVerdict(s, leased, evidence, window, range, file) ==
    IF ~leased /\ InteriorHole(s.rows, window) THEN "E_UNSERVED_RANGE"
    ELSE IF window.to - window.from # range.endLine - range.startLine THEN "E_STALE_RANGE"
    ELSE IF leased /\ ~SpanHolds(s.rows, evidence, window, range) THEN "E_STALE_RANGE"
    ELSE IF ~leased /\ window.from # range.startLine THEN "E_STALE_RANGE"
    ELSE IF \/ CanonChanged(s, window, range, file)
            \/ AnchorChanged(s.rows, leased, window, range, file) THEN "E_STALE_RANGE"
    ELSE Accepted

-----------------------------------------------------------------------------
(* verifyServedRange.                                                      *)

PlacementVerdict(rows, range) ==
    LET ends == {range.startHash, range.endHash}
    IN  IF \E h \in ends : PositionsOf(rows, h) = {} THEN "E_UNKNOWN_ANCHOR"
        ELSE IF \E h \in ends : ~Placed(rows, h) THEN "E_UNSERVED_RANGE"
        ELSE Accepted

VerifyServedRange(s, retired, leased, evidence, range, file) ==
    LET boundary  == IF leased THEN BoundaryVerdict(evidence, range, file) ELSE Accepted
        placement == PlacementVerdict(s.rows, range)
    IN  IF RetiredBoundaryChanged(s, retired, range, file) THEN "E_STALE_RANGE"
        ELSE IF boundary # Accepted THEN boundary
        ELSE IF placement # Accepted THEN placement
        ELSE WindowVerdict(s, leased, evidence, WindowOf(s.rows, range), range, file)

\* applyEdit up to the verification.
Verdict(s, retired, leased, evidence, item, file) ==
    IF ~Resolves(file, item) THEN "E_STALE_ANCHOR"
    ELSE VerifyServedRange(s, retired, leased, evidence, RangeOf(file, item), file)
=============================================================================
