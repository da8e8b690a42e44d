------------------------------ MODULE MCPairing ------------------------------
(***************************************************************************)
(* Checks the pairing engine against reference definitions on every pair   *)
(* of snapshots up to a few lines.  A behaviour writes the two             *)
(* snapshots one line at a time, so each reachable state is one input.     *)
(***************************************************************************)
EXTENDS Pairing

CONSTANTS
    Canons,     \* the canons a line can have
    MaxPrev,    \* bound: the most lines of the previous snapshot
    MaxCurr     \* bound: the most lines of the current snapshot

Symmetry == Permutations(Canons)

VARIABLES prev, curr

vars == <<prev, curr>>

Init == prev = << >> /\ curr = << >>

ExtendPrev == \E c \in Canons : /\ Len(prev) < MaxPrev
                                /\ curr = << >>
                                /\ prev' = Append(prev, c)
                                /\ UNCHANGED curr

ExtendCurr == \E c \in Canons : /\ Len(curr) < MaxCurr
                                /\ curr' = Append(curr, c)
                                /\ UNCHANGED prev

Next == ExtendPrev \/ ExtendCurr

Spec == Init /\ [][Next]_vars

-----------------------------------------------------------------------------
Pairs(p, c) == PairSnapshots(p, c, ScanBudget(Len(p), Len(c)))

IsMatching(S) == \A x, y \in S : x # y => Before(x, y) \/ Before(y, x)

\* The increasing chains of a set of pins that are longest and, among those,
\* least displaced.
OptimalChains(pins) ==
    LET chains   == {S \in SUBSET pins : IsMatching(S)}
        longest  == Max({Cardinality(S) : S \in chains})
        weight(S) == MapThenSumSet(Displacement, S)
        long     == {S \in chains : Cardinality(S) = longest}
    IN  {S \in long : \A T \in long : weight(S) <= weight(T)}

\* The largest sets of equal, order-preserving pairs of two snapshots.
MaximumMatchings(p, c) ==
    LET equal     == {x \in (1..Len(p)) \X (1..Len(c)) : p[x[1]] = c[x[2]]}
        matchings == {S \in SUBSET equal : IsMatching(S)}
        longest   == Max({Cardinality(S) : S \in matchings})
    IN  {S \in matchings : Cardinality(S) = longest}

-----------------------------------------------------------------------------
\* Whatever the budget left when an interval is reached, the engine pairs
\* only lines of the same canon, never crosses two pairs (the throw of
\* assertMonotonicPairing is dead) and never uses a line twice.
PairingSound ==
    \A b \in 0..(2 * (Len(prev) + Len(curr))) :
        LET pairs == PairSnapshots(prev, curr, b)
        IN  /\ \A x \in pairs : prev[x[1]] = curr[x[2]]
            /\ IsMatching(pairs)
            /\ MonotonicPairing(pairs)

\* The two passes of the backbone compute exactly the pins no optimal chain
\* can do without (findStablePinBackbone: the unconditional intersection).
BackboneIsForced ==
    LET pins == UniquePins(prev, curr, 1, Len(prev), 1, Len(curr))
    IN  pins # {} => StableBackbone(pins)
                        = {x \in pins : \A S \in OptimalChains(pins) : x \in S}

\* The capped count decides uniqueness exactly, and the traceback returns the
\* one embedding there is (computeLCSPaths: `=== 1` stays exact under the cap).
LeafIsUniqueEmbedding ==
    prev # << >> /\ curr # << >> =>
        LET best == MaximumMatchings(prev, curr)
        IN  LeafPairs(prev, curr, 1, Len(prev), 1, Len(curr))
              = IF Cardinality(best) = 1 THEN CHOOSE S \in best : TRUE ELSE {}

\* Going back pairs the same lines as going forth: identity does not depend
\* on which of two snapshots is the older one.
PairingSymmetric ==
    Pairs(curr, prev) = {<<x[2], x[1]>> : x \in Pairs(prev, curr)}

\* Re-reading an unchanged file loses no identity, however small the leaf caps
\* are, as long as the scan budget covers what the intervals of the file can
\* cost: Len * (Len + 1), when every interval nests in the one before it.
UnchangedKeepsAll ==
    Len(prev) * (Len(prev) + 1) <= ScanBudget(Len(prev), Len(prev))
        => PairSnapshots(prev, prev, ScanBudget(Len(prev), Len(prev)))
              = {<<i, i>> : i \in 1..Len(prev)}

\* curr is prev with lines of other canons inserted: each line of prev is at a
\* line of curr, in order, and nothing else of curr has a canon of prev.
Inserted(p, c, at) ==
    /\ \A i, j \in 1..Len(p) : i < j => at[i] < at[j]
    /\ \A i \in 1..Len(p) : p[i] = c[at[i]]
    /\ \A k \in 1..Len(c) : (\E i \in 1..Len(p) : p[i] = c[k]) => \E i \in 1..Len(p) : at[i] = k

\* A pure insertion of lines whose canon is new loses no identity, when the
\* leaf caps are not in the way and the scan budget covers one pass over the
\* two snapshots for every line of the older one.
InsertionKeepsAll ==
    (/\ \E at \in [1..Len(prev) -> 1..Len(curr)] : Inserted(prev, curr, at)
     /\ LeafFits(Len(prev), Len(curr))
     /\ Len(prev) * (Len(prev) + Len(curr)) <= ScanBudget(Len(prev), Len(curr)))
        => \A i \in 1..Len(prev) : \E x \in Pairs(prev, curr) : x[1] = i
=============================================================================
