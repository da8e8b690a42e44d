----------------------------- MODULE ServedState -----------------------------
(***************************************************************************)
(* What the store remembers of the rows one session was served of one      *)
(* file: the mirror (which anchor stands at which line), the canons of     *)
(* those lines, the retired anchors that must not be handed out again, the *)
(* cards (lines served since the last full read) and the drift positions   *)
(* already reported.                                                       *)
(*                                                                         *)
(* A session record is one row of the `served` table.  Positions count     *)
(* from 1.  Each operation is the body of one committed unit.              *)
(***************************************************************************)
EXTENDS AnchorAlloc

CONSTANTS
    NoCanon,      \* a line whose canon is not recorded
    Cap           \* SERVED_ECHO_CAP

Unserved == -1    \* a line of the mirror that was not served
NoPosition == 0   \* deathPos of an anchor that is not swept by position

ASSUME ServedAssumption == NoCanon \notin AllCanons /\ Cap \in Nat

Dead == [anchor : AnchorSpace, died : Nat]

SessionRow ==
    [rows     : Seq(AnchorSpace \cup {Unserved}),
     canons   : Seq(AllCanons \cup {NoCanon}),
     retired  : SUBSET Dead,
     cards    : SUBSET Nat,
     reported : SUBSET Int]

NewSession == [rows |-> << >>, canons |-> << >>, retired |-> {}, cards |-> {}, reported |-> {}]

Smallest(m, n) == IF m < n THEN m ELSE n

\* A list without the empty entries at its end.
Trimmed(list, empty) ==
    SubSeq(list, 1, Max({0} \cup {n \in DOMAIN list : list[n] # empty}))

EntryAt(list, n, empty) == IF n \in DOMAIN list THEN list[n] ELSE empty

ServedAnchors(rows) == AnchorsOf(rows) \ {Unserved}

PositionsOf(rows, anchor) == {n \in DOMAIN rows : rows[n] = anchor}

IsDense(rows) == rows # << >> /\ \A n \in DOMAIN rows : rows[n] # Unserved

RetiredAnchors(s) == {e.anchor : e \in s.retired}

-----------------------------------------------------------------------------
(* _mergeServedRows.  entries is the anchor of every line served.           *)

MergeServedRows(current, entries, lineCount, clearFrom) ==
    LET kept   == [n \in 1..Smallest(Len(current), lineCount) |->
                     IF n >= clearFrom THEN Unserved ELSE current[n]]
        length == Max({Len(kept)} \cup DOMAIN entries)
    IN  Trimmed([n \in 1..length |->
                   IF n \in DOMAIN entries THEN entries[n]
                   ELSE EntryAt(kept, n, Unserved)],
                Unserved)

\* displacedEntries: the anchors that left the mirror, and where they stood.
Displaced(current, updated) ==
    {[anchor |-> current[n], died |-> n] :
        n \in {m \in DOMAIN current : current[m] \in
                 ServedAnchors(current) \ ServedAnchors(updated)}}

SweptAtAnyPosition(e, cards) == TRUE

\* An entry with a position is swept once a line is served there; what an edit
\* freed has none.
Swept(e, cards) == e.died # NoPosition /\ e.died \in cards

\* sweepAndRetire: entries that died where a line was served since the last
\* full read are swept, the anchors displaced now are added.
SweepAndRetire(s, updated, positions) ==
    LET cards == s.cards \cup positions
    IN  [s EXCEPT
           !.rows    = updated,
           !.cards   = cards,
           !.retired = {e \in s.retired : ~Swept(e, cards)}
                       \cup {e \in Displaced(s.rows, updated) : e.anchor \notin RetiredAnchors(s)}]

\* addRetiredAnchors: the whole list is written back without positions.
AddRetiredAnchors(s, anchors) ==
    IF anchors = {} THEN s
    ELSE [s EXCEPT !.retired =
            {[anchor |-> h, died |-> NoPosition] : h \in RetiredAnchors(s) \cup anchors}]

\* Major GC: the promotion that clears what is retired.
Promote(s) == [s EXCEPT !.retired = {}, !.cards = {}]

-----------------------------------------------------------------------------
(* recordServed.                                                           *)

\* The canon of the last line of the file that has the anchor.
CanonOfAnchor(anchor, hashes, canons) ==
    canons[Max({n \in DOMAIN hashes : hashes[n] = anchor})]

WindowCanons(s, entries, hashes, canons) ==
    LET length == Max({Len(s.canons), Len(hashes)} \cup DOMAIN entries)
    IN  Trimmed([n \in 1..length |->
                   IF n \in DOMAIN entries THEN CanonOfAnchor(entries[n], hashes, canons)
                   ELSE EntryAt(s.canons, n, NoCanon)],
                NoCanon)

\* A read that served every line starts a new epoch.
RecordFullRead(s, hashes, canons) ==
    [s EXCEPT !.rows    = MergeServedRows(s.rows, hashes, Len(hashes), Len(s.rows) + 1),
              !.canons  = canons,
              !.retired = {},
              !.cards   = {}]

RecordWindow(s, entries, hashes, canons) ==
    SweepAndRetire(
        [s EXCEPT !.canons = WindowCanons(s, entries, hashes, canons)],
        MergeServedRows(s.rows, entries, Len(hashes), Len(s.rows) + 1),
        DOMAIN entries)

RecordServed(s, entries, hashes, canons) ==
    IF DOMAIN entries = {} THEN s
    ELSE IF DOMAIN entries = DOMAIN hashes THEN RecordFullRead(s, hashes, canons)
    ELSE RecordWindow(s, entries, hashes, canons)

\* The rows of a drift notice come without canons.
RecordDriftRows(s, entries, lineCount) ==
    IF DOMAIN entries = {} THEN s
    ELSE SweepAndRetire(
           s, MergeServedRows(s.rows, entries, lineCount, Len(s.rows) + 1), DOMAIN entries)

-----------------------------------------------------------------------------
(* recordServedTruncated: the rows of a landed edit or undo.                *)

CanonsOfBefore(s, updated, entries, canons) ==
    [n \in DOMAIN updated |-> IF updated[n] = Unserved THEN NoCanon ELSE EntryAt(s.canons, n, canons[n])]

TruncatedCanons(s, updated, entries, canons) ==
    [n \in DOMAIN updated |->
        IF updated[n] = Unserved THEN NoCanon
        ELSE IF n \in DOMAIN entries THEN canons[n]
        ELSE EntryAt(s.canons, n, NoCanon)]

RecordServedTruncated(s, entries, lineCount, clearFrom, canons) ==
    IF DOMAIN entries = {} THEN s
    ELSE LET updated == MergeServedRows(s.rows, entries, lineCount, clearFrom)
         IN  SweepAndRetire([s EXCEPT !.canons = TruncatedCanons(s, updated, entries, canons)],
                            updated, DOMAIN entries)

-----------------------------------------------------------------------------
(* The positions a drift notice has already reported.                       *)

MarkDriftReported(s, positions) == [s EXCEPT !.reported = @ \cup positions]

ClearDriftReported(s) == [s EXCEPT !.reported = {}]

-----------------------------------------------------------------------------
(* What the next read builds on.                                           *)

\* readAndServe: a dense mirror is the file the anchors are carried over from.
PreviousCanons(s) ==
    SplitJoined([n \in DOMAIN s.rows |->
        IF EntryAt(s.canons, n, NoCanon) = NoCanon THEN Blank ELSE s.canons[n]])

\* getAnchorReservations.
ReservedAnchors(s) == RetiredAnchors(s) \cup ServedAnchors(s.rows)
=============================================================================
