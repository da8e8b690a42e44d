---------------------------- MODULE AtomicStore ----------------------------
(***************************************************************************)
(* What a unit of the store promises its caller: its writes appear all at  *)
(* once or not at all, it is reported done only after they have appeared,  *)
(* and refused only if they never will.  A caller that dies learns         *)
(* nothing, but its unit is still whole or absent.                         *)
(***************************************************************************)
CONSTANTS
    Cells,      \* the rows units write
    Calls,      \* the invocations of units
    CellsOf     \* the cells each invocation writes

VARIABLES
    cells,      \* for each cell, the calls whose write it reflects
    fate        \* what the caller of each invocation knows

abstractVars == <<cells, fate>>

Fates == {"unused", "running", "ok", "error", "crashed"}

Init ==
    /\ cells = [c \in Cells |-> {}]
    /\ fate = [s \in Calls |-> "unused"]

Absent(s) == \A c \in Cells : s \notin cells[c]
Whole(s)  == \A c \in CellsOf[s] : s \in cells[c]

Start(s) ==
    /\ fate[s] = "unused"
    /\ fate' = [fate EXCEPT ![s] = "running"]
    /\ UNCHANGED cells

Take(s) ==
    /\ fate[s] = "running"
    /\ Absent(s)
    /\ cells' = [c \in Cells |-> IF c \in CellsOf[s] THEN cells[c] \cup {s} ELSE cells[c]]
    /\ UNCHANGED fate

Finish(s, outcome) ==
    /\ fate[s] = "running"
    /\ \/ outcome = "ok" /\ Whole(s)
       \/ outcome = "error" /\ Absent(s)
       \/ outcome = "crashed"
    /\ fate' = [fate EXCEPT ![s] = outcome]
    /\ UNCHANGED cells

Next ==
    \E s \in Calls :
        \/ Start(s)
        \/ Take(s)
        \/ \E outcome \in Fates : Finish(s, outcome)

Spec == Init /\ [][Next]_abstractVars
=============================================================================
