----------------------------- MODULE MCStoreTxn -----------------------------
(***************************************************************************)
(* Three units of the store, run by two processes.                         *)
(***************************************************************************)
EXTENDS StoreTxn

CONSTANTS served, snapshot, lease, undoRow, recordServed, upsertSnapshot, restoreUndo

\* recordServed joins commitSnapshot to the served row it wrote;
\* upsertSnapshot commits the version inside its unit; the undo tool's unit
\* joins both halves with the deletion of the undo row.
MCProgram ==
    [s \in Calls |->
        CASE s = recordServed   -> <<served, "enter", snapshot, lease, "leave">>
          [] s = upsertSnapshot -> <<"enter", snapshot, "leave">>
          [] s = restoreUndo    -> <<"enter", snapshot, "leave", served,
                                     "enter", undoRow, "leave">>]
=============================================================================
