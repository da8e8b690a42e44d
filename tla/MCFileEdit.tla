---------------------------- MODULE MCFileEdit ----------------------------
(***************************************************************************)
(* An instance of FileEdit: a call of each of two sessions at a time, on a *)
(* file of two texts of one line each.                                     *)
(***************************************************************************)
EXTENDS FileEdit, TLC

CONSTANTS c1, c2, s1, s2, t1, t2, a, b

OwnSessions == [c \in {c1, c2} |-> IF c = c1 THEN s1 ELSE s2]

\* A line each.
OneLine == [t \in Texts |-> IF t = t1 THEN {a} ELSE {b}]

\* A slot goes with its session, a text with its line.
SwapSlots == c1 :> c2 @@ c2 :> c1 @@ s1 :> s2 @@ s2 :> s1
SwapTexts == t1 :> t2 @@ t2 :> t1 @@ a :> b @@ b :> a
SlotsAndTexts == {SwapSlots, SwapTexts, SwapSlots @@ SwapTexts}

\* A bound: the last call is an edit or an undo.
EndsInEditOrUndo ==
    budget.calls = 1 /\ budget'.calls = 0 =>
        \E c \in Slots : At(c, "idle") /\ call'[c].stage \in {"opened", "loaded"}

===========================================================================
