------------------------------- MODULE Pairing -------------------------------
(***************************************************************************)
(* The patience pairing engine: which lines of a previous snapshot of a    *)
(* file are the same lines in the current one.  A snapshot is a sequence   *)
(* of canons (the digest of a line with its white space removed); an       *)
(* interval of the two snapshots is <<ps, pe, cs, ce>>, 1-based and        *)
(* inclusive as in the code; a pairing is a set of <<prev, curr>> pairs.   *)
(*                                                                         *)
(* The arrays, Fenwick trees and binary searches of the code only make the *)
(* two dynamic programs fast, so they are recursive functions here.        *)
(***************************************************************************)
EXTENDS Integers, Sequences, FiniteSetsExt, SequencesExt

CONSTANTS
    MaxLeafLines,   \* MAX_LEAF_LINES: longest side a leaf alignment accepts
    MaxLeafCells,   \* MAX_LEAF_CELLS: largest table a leaf alignment accepts
    MinScanBudget   \* MIN_SCAN_BUDGET: floor of the scan budget

ASSUME CapsAssumption == /\ MaxLeafLines \in Nat
                         /\ MaxLeafCells \in Nat
                         /\ MinScanBudget \in Nat

ScanBudget(prevCount, currCount) ==
    Max({MinScanBudget, 4 * (prevCount + currCount)})

-----------------------------------------------------------------------------
(* Candidate pins: canons found exactly once on each side of the interval. *)

UniqueIn(lines, from, to, i) ==
    \A k \in (from..to) \ {i} : lines[k] # lines[i]

UniquePinsNoCurrCount(prev, curr, ps, pe, cs, ce) ==
    {x \in (ps..pe) \X (cs..ce) :
        /\ prev[x[1]] = curr[x[2]]
        /\ UniqueIn(prev, ps, pe, x[1])
        /\ \A k \in (x[2] + 1)..ce : curr[k] # curr[x[2]]}

UniquePins(prev, curr, ps, pe, cs, ce) ==
    {x \in (ps..pe) \X (cs..ce) :
        /\ prev[x[1]] = curr[x[2]]
        /\ UniqueIn(prev, ps, pe, x[1])
        /\ UniqueIn(curr, cs, ce, x[2])}

-----------------------------------------------------------------------------
(* The stable backbone: the pins on every longest increasing chain that    *)
(* has the least total displacement.                                       *)

Displacement(x) == IF x[1] > x[2] THEN x[1] - x[2] ELSE x[2] - x[1]

Before(x, y) == x[1] < y[1] /\ x[2] < y[2]

\* A longer chain is preferred, then a less displaced one.
Preferred(c, d) == c.len > d.len \/ (c.len = d.len /\ c.disp <= d.disp)

PreferredOf(chains) == CHOOSE c \in chains : \A d \in chains : Preferred(c, d)

Extended(chain, x) == [len |-> chain.len + 1, disp |-> chain.disp + Displacement(x)]

\* For every pin, the preferred chain of order among those that end at it.
LengthAndMinDisplacement(pins, order) ==
    LET best[x \in pins] ==
          Extended(PreferredOf({[len |-> 0, disp |-> 0]}
                                 \cup {best[y] : y \in {z \in pins : <<z, x>> \in order}}),
                   x)
    IN  best

\* The preferred chain through a pin, made of the one that ends at it and the
\* one that starts at it, with the rank of the pin on it.
Through(x, forward, backward) ==
    [rank |-> forward.len,
     len  |-> forward.len + backward.len - 1,
     disp |-> forward.disp + backward.disp - Displacement(x)]

ChainsThrough(pins, ahead) ==
    LET forward  == LengthAndMinDisplacement(pins, ahead)
        backward == LengthAndMinDisplacement(pins, {<<o[2], o[1]>> : o \in ahead})
    IN  [x \in pins |-> Through(x, forward[x], backward[x])]

\* The pins of the preferred chains.
OptimalPins(chains) ==
    {x \in DOMAIN chains : \A y \in DOMAIN chains : Preferred(chains[x], chains[y])}

ForcedPinsAnyOptimal(chains, optimal) == optimal

\* A pin is forced if no other pin of an optimal chain has its rank.
ForcedPins(chains, optimal) ==
    {x \in optimal : \A y \in optimal \ {x} : chains[y].rank # chains[x].rank}

BackboneOf(chains) == ForcedPins(chains, OptimalPins(chains))

StableBackbone(pins) ==
    BackboneOf(ChainsThrough(pins, {o \in pins \X pins : Before(o[1], o[2])}))

-----------------------------------------------------------------------------
(* Leaf alignment: the longest common subsequence, accepted only when a    *)
(* single set of pairs realises it.                                        *)

\* A place of the table is <<line of prev, line of curr>>; it stands for the
\* region of the interval that starts there.
Places(ps, pe, cs, ce) == (ps..(pe + 1)) \X (cs..(ce + 1))

Down(at)     == <<at[1] + 1, at[2]>>
Right(at)    == <<at[1], at[2] + 1>>
Diagonal(at) == <<at[1] + 1, at[2] + 1>>

\* suffix: the length of the longest common subsequence of each region.
LcsSuffix(prev, curr, ps, pe, cs, ce) ==
    LET suffix[at \in Places(ps, pe, cs, ce)] ==
          IF at[1] > pe \/ at[2] > ce THEN 0
          ELSE IF prev[at[1]] = curr[at[2]] THEN suffix[Diagonal(at)] + 1
          ELSE Max({suffix[Down(at)], suffix[Right(at)]})
    IN  suffix

If(b, n) == IF b THEN n ELSE 0

\* The number of maximum pairings of a region, by inclusion and exclusion on
\* its first pair, capped at 2 (MAXIMAL_PAIRING_CAP).
PairingCountNoOverlap(prev, curr, suffix, ps, pe, cs, ce) ==
    LET count[at \in Places(ps, pe, cs, ce)] ==
          IF at[1] > pe \/ at[2] > ce \/ suffix[at] = 0 THEN 1
          ELSE Min({2, If(suffix[Down(at)] = suffix[at], count[Down(at)])
                       + If(suffix[Right(at)] = suffix[at], count[Right(at)])
                       + If(prev[at[1]] = curr[at[2]] /\ suffix[Diagonal(at)] + 1 = suffix[at],
                            count[Diagonal(at)])})
    IN  count[<<ps, cs>>]

PairingCount(prev, curr, suffix, ps, pe, cs, ce) ==
    LET count[at \in Places(ps, pe, cs, ce)] ==
          IF at[1] > pe \/ at[2] > ce \/ suffix[at] = 0 THEN 1
          ELSE Min({2, If(suffix[Down(at)] = suffix[at], count[Down(at)])
                       + If(suffix[Right(at)] = suffix[at], count[Right(at)])
                       - If(suffix[Diagonal(at)] = suffix[at], count[Diagonal(at)])
                       + If(prev[at[1]] = curr[at[2]] /\ suffix[Diagonal(at)] + 1 = suffix[at],
                            count[Diagonal(at)])})
    IN  count[<<ps, cs>>]

\* The traceback, in the code's preference order: match, skip both, skip one.
Traceback(prev, curr, suffix, ps, pe, cs, ce) ==
    LET trace[at \in Places(ps, pe, cs, ce)] ==
          IF at[1] > pe \/ at[2] > ce \/ suffix[at] = 0 THEN {}
          ELSE IF prev[at[1]] = curr[at[2]] /\ suffix[Diagonal(at)] + 1 = suffix[at]
               THEN {at} \cup trace[Diagonal(at)]
          ELSE IF suffix[Diagonal(at)] = suffix[at] THEN trace[Diagonal(at)]
          ELSE IF suffix[Down(at)] = suffix[at] THEN trace[Down(at)]
          ELSE trace[Right(at)]
    IN  trace[<<ps, cs>>]

UniquePairing(prev, curr, suffix, ps, pe, cs, ce) ==
    IF PairingCount(prev, curr, suffix, ps, pe, cs, ce) = 1
    THEN Traceback(prev, curr, suffix, ps, pe, cs, ce) ELSE {}

LeafPairs(prev, curr, ps, pe, cs, ce) ==
    UniquePairing(prev, curr, LcsSuffix(prev, curr, ps, pe, cs, ce), ps, pe, cs, ce)

-----------------------------------------------------------------------------
(* The whole engine.                                                       *)

\* A pinless interval with the same canons in the same order on both sides.
IdenticalRunByCount(prev, curr, ps, pe, cs, ce) == pe - ps = ce - cs

IdenticalRunNever(prev, curr, ps, pe, cs, ce) == FALSE

IdenticalRun(prev, curr, ps, pe, cs, ce) ==
    /\ pe - ps = ce - cs
    /\ \A k \in 0..(pe - ps) : prev[ps + k] = curr[cs + k]

LeafFits(p, c) ==
    p <= MaxLeafLines /\ c <= MaxLeafLines /\ p * c <= MaxLeafCells

UnpinnedRunsOnly(prev, curr, ps, pe, cs, ce) ==
    IF IdenticalRun(prev, curr, ps, pe, cs, ce)
    THEN {<<ps + k, cs + k>> : k \in 0..(pe - ps)} ELSE {}

UnpinnedPairs(prev, curr, ps, pe, cs, ce) ==
    IF IdenticalRun(prev, curr, ps, pe, cs, ce)
    THEN {<<ps + k, cs + k>> : k \in 0..(pe - ps)}
    ELSE IF LeafFits(pe - ps + 1, ce - cs + 1)
    THEN LeafPairs(prev, curr, ps, pe, cs, ce)
    ELSE {}

\* A region to align: an interval and the scan budget there is when it is
\* reached.  align gives for each region its pairs and the budget it leaves.
Regions(m, n, scanBudget) ==
    (1..(m + 1)) \X (0..m) \X (1..(n + 1)) \X (0..n) \X (0..scanBudget)

\* The gap before a pin is aligned, then the pin is set and passed.
VisitPin(align, done, pin) ==
    LET gap == align[<<done.p, pin[1] - 1, done.c, pin[2] - 1, done.left>>]
    IN  [pairs |-> done.pairs \cup gap.pairs \cup {pin}, left |-> gap.left,
         p |-> pin[1] + 1, c |-> pin[2] + 1]

\* The pins of an interval in the order of their lines of prev.
WalkPins(align, pins, ps, pe, cs, left) ==
    LET walk[k \in 0..(pe - ps + 1)] ==
          IF k = 0 THEN [pairs |-> {}, left |-> left, p |-> ps, c |-> cs]
          ELSE LET here == {x \in pins : x[1] = ps + k - 1}
               IN  IF here = {} THEN walk[k - 1]
                   ELSE VisitPin(align, walk[k - 1], CHOOSE x \in here : TRUE)
    IN  walk[pe - ps + 1]

\* The gap after the last pin comes last.
AlignPinned(align, pins, ps, pe, cs, ce, left) ==
    LET done == WalkPins(align, pins, ps, pe, cs, left)
        last == align[<<done.p, pe, done.c, ce, done.left>>]
    IN  [pairs |-> done.pairs \cup last.pairs, left |-> last.left]

\* An empty backbone falls through to the leaf.
AlignInterval(prev, curr, align, ps, pe, cs, ce, left) ==
    LET pins == StableBackbone(UniquePins(prev, curr, ps, pe, cs, ce))
    IN  IF pins # {} THEN AlignPinned(align, pins, ps, pe, cs, ce, left)
        ELSE [pairs |-> UnpinnedPairs(prev, curr, ps, pe, cs, ce), left |-> left]

AlignRegion(prev, curr, align, r) ==
    LET size == (r[2] - r[1] + 1) + (r[4] - r[3] + 1)
    IN  IF r[1] > r[2] \/ r[3] > r[4] \/ r[5] < size
        THEN [pairs |-> {}, left |-> r[5]]
        ELSE AlignInterval(prev, curr, align, r[1], r[2], r[3], r[4], r[5] - size)

\* Every region draws on one budget, in the order the regions are reached.
PairSnapshots(prev, curr, scanBudget) ==
    LET align[r \in Regions(Len(prev), Len(curr), scanBudget)] ==
          AlignRegion(prev, curr, align, r)
    IN  align[<<1, Len(prev), 1, Len(curr), scanBudget>>].pairs

\* assertMonotonicPairing: what the engine refuses to return otherwise.
MonotonicPairing(pairs) ==
    \A x, y \in pairs : x[1] < y[1] => x[2] < y[2]
=============================================================================
