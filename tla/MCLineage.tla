------------------------------ MODULE MCLineage ------------------------------
(***************************************************************************)
(* Small instances of LineageStore, with the real pairing engine.          *)
(***************************************************************************)
EXTENDS LineageStore, TLC

Engine == INSTANCE Pairing WITH
    MaxLeafLines <- 2000, MaxLeafCells <- 4000000, MinScanBudget <- 100000

CONSTANTS
    a, b,         \* two lines, of two canons
    h1, h2, h3    \* three anchors

MCLines == {a, b}
MCDigest == [x \in MCLines |-> x]

\* The engine's answer for every stored lineage and content, worked out once.
StoredLines == UNION {{SubSeq(CanonsOf(x), 1, k) : k \in 0..Len(x)} : x \in Contents}
PairTable == [p \in StoredLines, q \in StoredLines |->
              Engine!PairSnapshots(p, q, Engine!ScanBudget(Len(p), Len(q)))]
MCPair(p, q) == PairTable[p, q]

\* Lines move, appear, disappear and repeat between these contents.
MovingContents == {<<a, b>>, <<b, a>>, <<a, a>>}
\* Versions to retain, of two sizes.
SizedContents == {<<a>>, <<b, a>>}

\* The runs about identity leave the vacuum, the undo rows and the clock out,
\* let only lines of one canon share an anchor, and hold one lease at a time:
\* no operator looks at two.
IdentityOnly ==
    /\ UNCHANGED <<pending, undo>>
    /\ Cardinality(DOMAIN leases') <= 1
    /\ \A v \in DOMAIN versions' : LET lineage == versions'[v].lineage IN
          \A m, n \in DOMAIN lineage :
              lineage[m].anchor = lineage[n].anchor => lineage[m].canon = lineage[n].canon
    /\ \A k \in DOMAIN leases' : ~leases'[k].recent => leases'[k] = leases[k]

\* The runs about retention give the lines of a file always the same anchors
\* and serve only the first.
FixedAnchors ==
    /\ \A k \in DOMAIN leases' : k[3] = h1
    /\ \A v \in DOMAIN versions' : \A n \in DOMAIN versions'[v].lineage :
          versions'[v].lineage[n].anchor = <<h1, h2, h3>>[n]

AnchorSymmetry == Permutations(Anchors)
PathSymmetry == Permutations(Paths)
=============================================================================
