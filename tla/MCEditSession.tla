---------------------------- MODULE MCEditSession ----------------------------
(***************************************************************************)
(* Small instances of EditSession, with the real pairing engine.           *)
(***************************************************************************)
EXTENDS EditSession, TLC

Engine == INSTANCE Pairing WITH
    MaxLeafLines <- 2000, MaxLeafCells <- 4000000, MinScanBudget <- 100000

CONSTANTS
    a, b, c, d, e, f,   \* lines, each of a canon of its own
    MaxLen        \* bound: lines of a file

\* No file ends in a blank line: the mirror loses the anchor of such a line.
EndingInText == {x \in UNION {[1..k -> Lines] : k \in 1..MaxLen} : x[Len(x)] # Blank}
MCContents == EndingInText
MCDigest == [x \in Lines |-> x]
MCAnchors == 0..(Space - 1)
\* The lines hash to different anchors, the first of the space.
MCBase == [x \in Lines |-> (a :> 0 @@ b :> 1 @@ c :> 2 @@ d :> 3 @@ e :> 4 @@ f :> 5)[x]]

\* The engine's answer for every two contents, worked out once.
StoredLines == UNION {{SubSeq(CanonsOf(x), 1, k) : k \in 0..Len(x)} : x \in Contents}
PairTable == [p \in StoredLines, q \in StoredLines |->
              Engine!PairSnapshots(p, q, Engine!ScanBudget(Len(p), Len(q)))]
MCPair(p, q) == PairTable[p, q]

\* Others put a line on top, and repeat one.
ChangingContents == {<<a, b>>, <<c, a, a>>}
Either == {<<b>>, << >>}

\* Others rewrite a line that an edit of the first line does not show.
InnerContents == {<<a, b, c, d>>, <<a, b, e, d>>}
\* What edits of the first line, or of all lines, make of these.
InnerEdited == InnerContents \cup {<<f, b, e, d>>, <<f>>}

\* Others repeat a line, and read windows meet it twice.
DoublingContents == {<<a, b>>, <<c, a, b>>, <<c, a, a>>}

NewLine == {<<f>>}

\* Others rewrite a line far from the end; edits of the first line delete it.
FarContents == {<<a, b, c, d>>, <<a, e, c, d>>}
FarEdited == FarContents \cup {<<b, c, d>>, <<e, c, d>>}
Deletion == {<< >>}

\* A bound: after the write of others or a failure, batches are of the first two
\* calls and replace lines; single edits, and batches before, come at any time.
BatchesEarly ==
    \A s \in Sessions :
        (Ready(s) /\ call'[s] # NoCall /\ call'[s].stage = "apply") =>
            LET items == call'[s].items
            IN  \/ Len(items) = 1
                \/ spent'.calls < MaxCalls /\ \A k \in DOMAIN items : items[k].lines # << >>
                \/ spent.foreign = 0 /\ spent.faults = 0
=============================================================================
