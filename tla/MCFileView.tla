---------------------------- MODULE MCFileView ----------------------------
(***************************************************************************)
(* A reader of small files, who asks for anything and follows the hints    *)
(* until there are no more.                                                *)
(***************************************************************************)
EXTENDS FileView, FiniteSets

CONSTANTS
    Sizes,          \* the sizes of rows
    Limits,         \* the limits asked for
    NoRequest

ASSUME ReaderAssumption ==
    /\ Sizes \subseteq Nat \ {0} /\ Sizes # {}
    /\ Limits \subseteq Nat \ {0}

VARIABLES
    file,       \* the rows of the file
    request,    \* the last request
    view,       \* what came back
    passed      \* the lines shown since the reader started

vars == <<file, request, view, passed>>

Offsets == 1..MaxHashLines + 1

TooLong == [i \in 1..MaxHashLines + 1 |-> Min(Sizes)]

Windows == [offset : Offsets, limit : Limits]

TooMany == [i \in 1..MaxWindows + 1 |-> [offset |-> 1, limit |-> 1]]

Pages == [offset : {None} \cup Offsets, limit : {None} \cup Limits, windows : {<<>>}]

WindowLists ==
    {[offset |-> None, limit |-> None, windows |-> w] :
        w \in (UNION {[1..n -> Windows] : n \in 1..MaxWindows}) \cup {TooMany}}

LinesShown(v) == [i \in DOMAIN v.shown |-> v.shown[i].line]

Init ==
    /\ file \in (UNION {[1..n -> Sizes] : n \in 0..MaxHashLines}) \cup {TooLong}
    /\ request = NoRequest
    /\ view = NoView
    /\ passed = <<>>

\* A refused read shows nothing.
Ask(wanted) ==
    /\ request = NoRequest
    /\ request' = wanted
    /\ view' = IF Accepted(file, wanted) THEN Preview(file, wanted) ELSE NoView
    /\ passed' = LinesShown(view')
    /\ UNCHANGED file

\* "Use offset=N to continue", with the limit of before or without one.
Continue ==
    /\ view.next # None
    /\ \E limit \in {None, request.limit} :
           request' = [offset |-> view.next, limit |-> limit, windows |-> <<>>]
    /\ view' = Preview(file, request')
    /\ passed' = passed \o LinesShown(view')
    /\ UNCHANGED file

\* Nothing more to read: the reader starts anew.
Leave ==
    /\ request # NoRequest /\ view.next = None
    /\ request' = NoRequest /\ view' = NoView /\ passed' = <<>>
    /\ UNCHANGED file

Next == (\E wanted \in Pages \cup WindowLists : Ask(wanted)) \/ Continue \/ Leave

Spec == Init /\ [][Next]_vars /\ WF_vars(Continue)

-----------------------------------------------------------------------------
(***************************************************************************)
(* The rows recorded as served are exactly the rows shown in full, each    *)
(* under its own anchor at its own position, in every page and in any list *)
(* of windows, however they overlap and whatever the budget cuts off.      *)
(***************************************************************************)
ServedIsShown ==
    file # <<>> =>
        view.served = {[position |-> row.line - 1, anchor |-> row.line] :
                          row \in {r \in {view.shown[i] : i \in DOMAIN view.shown} : r.full}}

(***************************************************************************)
(* The rows that one request shows, those of all its windows together, are *)
(* within the budget of a single read.                                     *)
(***************************************************************************)
SharedBudget ==
    file # <<>> =>
        LET rows == [i \in DOMAIN view.shown |->
                        IF view.shown[i].full THEN file[view.shown[i].line]
                        ELSE PlaceholderBytes]
        IN  Fits(rows, MaxBytes, MaxLines)

(***************************************************************************)
(* Who follows the hints comes to the end of the file, and has then been   *)
(* shown every line from the first one on, once and in order.              *)
(***************************************************************************)
HintsReachTheEnd ==
    (view.next # None) ~>
        (/\ view.next = None /\ passed # <<>>
         /\ passed = [i \in 1..Len(file) + 1 - passed[1] |-> passed[1] + i - 1])

===========================================================================
