----------------------------- MODULE AnchorAlloc -----------------------------
(***************************************************************************)
(* How the lines of a file get their anchors: a line asks for the anchor   *)
(* its canon hashes to and probes for a free one when that is taken, and   *)
(* a file that was shown before keeps the anchors of the lines that        *)
(* survived.                                                               *)
(*                                                                         *)
(* An anchor is its index in the anchor space (idxToHash is a bijection)   *)
(* and a line is its canon.                                                *)
(***************************************************************************)
EXTENDS Integers, Sequences, FiniteSets, FiniteSetsExt

CONSTANTS
    AllCanons,   \* the canons lines can have
    Blank,       \* the canon of a blank line
    Space,       \* HASH_SPACE
    Stride,      \* HASH_PROBE_STRIDE
    Base         \* canon -> the index it hashes to

AnchorSpace == 0..(Space - 1)

\* From wherever a run stands, one stride after another visits the whole space
\* (3907 and 62^3 are coprime).
ASSUME AllocAssumption ==
    /\ Space \in Nat \ {0} /\ Stride \in Nat
    /\ Base \in [AllCanons -> AnchorSpace]
    /\ \A hint \in 0..(Space + Stride), h \in AnchorSpace :
          \E k \in AnchorSpace : (hint + k * Stride) % Space = h

-----------------------------------------------------------------------------
(* One line.  hint is where the next probe starts; a run that found no free *)
(* anchor is `full` and assigns nothing more (AnchorSpaceExhaustedError).   *)

Probe(hint, k) == (hint + k * Stride) % Space

NextZeroBit(used, hint) ==
    Probe(hint, Min({k \in AnchorSpace : Probe(hint, k) \notin used}))

Assigned(run, line, anchor) ==
    [run EXCEPT !.used = @ \cup {anchor},
                !.hint = anchor + Stride,
                !.hashes = [@ EXCEPT ![line] = anchor]]

AssignHash(run, line, canon) ==
    IF run.full THEN run
    ELSE IF Base[canon] \notin run.used THEN Assigned(run, line, Base[canon])
    ELSE IF AnchorSpace \subseteq run.used THEN [run EXCEPT !.full = TRUE]
    ELSE Assigned(run, line, NextZeroBit(run.used, run.hint))

\* The lines of todo in file order.
AssignAll(run, canons, todo) ==
    LET after[n \in 0..Len(canons)] ==
          IF n = 0 THEN run
          ELSE IF n \in todo THEN AssignHash(after[n - 1], n, canons[n])
          ELSE after[n - 1]
    IN  after[Len(canons)]

-----------------------------------------------------------------------------
(* lineHashesPure: a file without a past, apart from what is reserved.      *)

LineHashesPure(canons, reserved) ==
    AssignAll([used   |-> reserved, hint |-> 0, full |-> FALSE,
               hashes |-> [n \in DOMAIN canons |-> 0]],
              canons, DOMAIN canons)

-----------------------------------------------------------------------------
(* mapStableHashes: a file whose previous lines and anchors are known.      *)

Distance(m, n) == IF m < n THEN n - m ELSE m - n

\* nearestNew: the nearest candidate, the one above when two are as near.
NearestNew(candidates, target) ==
    CHOOSE c \in candidates : \A d \in candidates :
        \/ Distance(c, target) < Distance(d, target)
        \/ Distance(c, target) = Distance(d, target) /\ c <= d

\* The lines an edit removed: where each removed anchor stood last.
RemovedLines(oldHashes, removed) ==
    {n \in DOMAIN oldHashes :
        /\ oldHashes[n] \in removed
        /\ \A m \in DOMAIN oldHashes : oldHashes[m] = oldHashes[n] => m <= n}

\* Lines below the removed span moved by as much as the file grew.
Shifted(line, span, growth) ==
    IF span # {} /\ line > Max(span) THEN line + growth ELSE line

SplitWithoutLast(canons) == SubSeq(canons, 1, Len(canons) - 1)

\* What split after join gives back: a last line that is empty is gone.
SplitJoined(canons) ==
    IF Len(canons) > 1 /\ canons[Len(canons)] = Blank
    THEN SubSeq(canons, 1, Len(canons) - 1)
    ELSE canons

\* The survivors, one after the other, each take the nearest new line of
\* their canon that is still without an anchor.
Match(oldCanons, oldHashes, newCanons, removed) ==
    LET span   == RemovedLines(oldHashes, removed)
        growth == Len(newCanons) - Len(oldCanons)
        after[n \in 0..Len(oldCanons)] ==
          IF n = 0 THEN [kept |-> << >>, hint |-> 0]
          ELSE LET before     == after[n - 1]
                   candidates == {m \in DOMAIN newCanons :
                                    /\ newCanons[m] = oldCanons[n]
                                    /\ m \notin DOMAIN before.kept}
                   anchor     == oldHashes[n]
               IN  IF n \in span \/ candidates = {} THEN before
                   ELSE LET line == NearestNew(candidates, Shifted(n, span, growth))
                        IN  [kept |-> [m \in DOMAIN before.kept \cup {line} |->
                                         IF m = line THEN anchor ELSE before.kept[m]],
                             hint |-> Max({before.hint, anchor + Stride})]
    IN  after[Len(oldCanons)]

AnchorsOf(hashes) == {hashes[n] : n \in DOMAIN hashes}

Blocked(oldHashes, removed, reserved) == AnchorsOf(oldHashes) \cup removed \cup reserved

MapStableHashes(oldCanons, oldHashes, newCanons, removed, reserved) ==
    LET match == Match(oldCanons, oldHashes, newCanons, removed)
    IN  AssignAll([used   |-> Blocked(oldHashes, removed, reserved),
                   hint   |-> match.hint, full |-> FALSE,
                   hashes |-> [n \in DOMAIN newCanons |->
                                 IF n \in DOMAIN match.kept THEN match.kept[n] ELSE 0]],
                  newCanons, DOMAIN newCanons \ DOMAIN match.kept)
=============================================================================
