------------------------------ MODULE StoreTxn ------------------------------
(***************************************************************************)
(* The re-entrant transaction owner of a store (withTransaction) over a    *)
(* database file that several processes have open, with the busy retry of  *)
(* its two acquisition points.                                             *)
(*                                                                         *)
(* A call runs a program: the cells it writes in order, with "enter" and   *)
(* "leave" around what a nested withTransaction runs.  Calls are           *)
(* synchronous, so a process is in at most one.  A write is read-modify-   *)
(* write: it adds the call to what the cell holds in the transaction.      *)
(***************************************************************************)
EXTENDS Integers, Sequences

CONSTANTS
    Procs,          \* processes with the database open
    Cells,          \* the rows programs write
    Calls,          \* the invocations of withTransaction
    Program,        \* what each invocation runs
    MaxAttempts,    \* BUSY_RETRIES + 1
    Live,           \* processes that are scheduled; the others may be stopped anywhere
    NoProc, NoCall  \* no process, no call

ASSUME ProgramAssumption ==
    /\ Program \in [Calls -> Seq(Cells \cup {"enter", "leave"})]
    /\ {"enter", "leave", "end"} \cap Cells = {}
    /\ MaxAttempts \in Nat \ {0}
    /\ Live \subseteq Procs
    /\ NoProc \notin Procs /\ NoCall \notin Calls

VARIABLES
    cells,      \* the committed rows: cell -> the calls whose write it reflects
    draft,      \* the rows as the open transaction sees them
    txn,        \* the process whose connection is in a transaction, or NoProc
    frame,      \* per process: where its withTransaction call is
    fate        \* what the caller of each invocation knows

vars == <<cells, draft, txn, frame, fate>>

Stages == {"idle", "begin", "body", "rollback", "done"}

Frame == [stage : Stages, call : Calls \cup {NoCall}, pc : Nat,
          tries : 0..(MaxAttempts - 1)]

Returned == [stage |-> "idle", call |-> NoCall, pc |-> 0, tries |-> 0]

TypeOK ==
    /\ cells \in [Cells -> SUBSET Calls]
    /\ draft \in [Cells -> SUBSET Calls]
    /\ txn \in Procs \cup {NoProc}
    /\ frame \in [Procs -> Frame]
    /\ fate \in [Calls -> {"unused", "running", "ok", "error", "crashed"}]

Init ==
    /\ cells = [c \in Cells |-> {}]
    /\ draft = cells
    /\ txn = NoProc
    /\ frame = [p \in Procs |-> Returned]
    /\ fate = [s \in Calls |-> "unused"]

-----------------------------------------------------------------------------
Current(p) == frame[p].call

\* The next item of the body, "end" when fn has returned.
Item(p) ==
    IF frame[p].pc <= Len(Program[Current(p)]) THEN Program[Current(p)][frame[p].pc]
    ELSE "end"

InBody(p) == frame[p].stage = "body"

Advance(p) == [frame EXCEPT ![p].pc = @ + 1]

\* The call returns to its caller, or throws to it.
ReturnTo(p, outcome) ==
    /\ frame' = [frame EXCEPT ![p] = Returned]
    /\ fate' = [fate EXCEPT ![Current(p)] = outcome]

\* withTransaction outside a transaction.
Call(p, s) ==
    /\ frame[p].stage = "idle"
    /\ txn # p
    /\ fate[s] = "unused"
    /\ frame' = [frame EXCEPT ![p] =
         [stage |-> "begin", call |-> s, pc |-> 1, tries |-> 0]]
    /\ fate' = [fate EXCEPT ![s] = "running"]
    /\ UNCHANGED <<cells, draft, txn>>

\* BEGIN IMMEDIATE takes the write lock of the file ...
Begin(p) ==
    /\ frame[p].stage = "begin"
    /\ txn = NoProc
    /\ txn' = p
    /\ draft' = cells
    /\ frame' = [frame EXCEPT ![p].stage = "body", ![p].tries = 0]
    /\ UNCHANGED <<cells, fate>>

\* ... or is busy, up to MaxAttempts times, and throws before the body.
BusyBeginForever(p) ==
    /\ frame[p].stage = "begin"
    /\ txn \notin {NoProc, p}
    /\ frame' = [frame EXCEPT ![p].tries = 1 - @]
    /\ UNCHANGED <<cells, draft, txn, fate>>

BusyBeginOnceMore(p) ==
    /\ frame[p].stage = "begin"
    /\ txn \notin {NoProc, p}
    /\ IF frame[p].tries < MaxAttempts
       THEN frame' = [frame EXCEPT ![p].tries = @ + 1] /\ UNCHANGED fate
       ELSE ReturnTo(p, "error")
    /\ UNCHANGED <<cells, draft, txn>>

BusyBegin(p) ==
    /\ frame[p].stage = "begin"
    /\ txn \notin {NoProc, p}
    /\ IF frame[p].tries + 1 < MaxAttempts
       THEN frame' = [frame EXCEPT ![p].tries = @ + 1] /\ UNCHANGED fate
       ELSE ReturnTo(p, "error")
    /\ UNCHANGED <<cells, draft, txn>>

\* A statement of the body.
Write(p) ==
    /\ InBody(p)
    /\ Item(p) \in Cells
    /\ draft' = [draft EXCEPT ![Item(p)] = @ \cup {Current(p)}]
    /\ frame' = Advance(p)
    /\ UNCHANGED <<cells, txn, fate>>

\* A nested withTransaction joins: no BEGIN, no COMMIT, no ROLLBACK of its own.
Enter(p) ==
    /\ InBody(p)
    /\ Item(p) = "enter"
    /\ frame' = Advance(p)
    /\ UNCHANGED <<cells, draft, txn, fate>>

LeaveCommits(p) ==
    /\ InBody(p)
    /\ Item(p) = "leave"
    /\ cells' = draft
    /\ frame' = Advance(p)
    /\ UNCHANGED <<draft, txn, fate>>

Leave(p) ==
    /\ InBody(p)
    /\ Item(p) = "leave"
    /\ frame' = Advance(p)
    /\ UNCHANGED <<cells, draft, txn, fate>>

\* The transaction may be gone with the statement that failed: SQLite rolls
\* it back itself when the disk is full or an I/O or memory error hits.
MayBeGone(p) == txn' \in {p, NoProc}

\* A statement throws; every nesting level passes the error on.
FaultSwallowed(p) ==
    /\ InBody(p)
    /\ Item(p) \in Cells
    /\ frame' = Advance(p)
    /\ UNCHANGED <<cells, draft, txn, fate>>

Fault(p) ==
    /\ InBody(p)
    /\ Item(p) \in Cells
    /\ frame' = [frame EXCEPT ![p].stage = "rollback"]
    /\ MayBeGone(p)
    /\ UNCHANGED <<cells, draft, fate>>

\* COMMIT, which releases the lock ...
Commit(p) ==
    /\ InBody(p)
    /\ Item(p) = "end"
    /\ cells' = draft
    /\ txn' = NoProc
    /\ frame' = [frame EXCEPT ![p].stage = "done"]
    /\ UNCHANGED <<draft, fate>>

\* ... or is busy and leaves the transaction open, up to MaxAttempts times ...
BusyCommit(p) ==
    /\ InBody(p)
    /\ Item(p) = "end"
    /\ IF frame[p].tries + 1 < MaxAttempts
       THEN frame' = [frame EXCEPT ![p].tries = @ + 1]
       ELSE frame' = [frame EXCEPT ![p].stage = "rollback"]
    /\ UNCHANGED <<cells, draft, txn, fate>>

\* ... or fails.
FailCommit(p) ==
    /\ InBody(p)
    /\ Item(p) = "end"
    /\ frame' = [frame EXCEPT ![p].stage = "rollback"]
    /\ MayBeGone(p)
    /\ UNCHANGED <<cells, draft, fate>>

\* ROLLBACK by the owner; when there is nothing to roll back it throws, which
\* is only warned about.  The original error reaches the caller.
RollbackSkipped(p) ==
    /\ frame[p].stage = "rollback"
    /\ ReturnTo(p, "error")
    /\ UNCHANGED <<cells, draft, txn>>

Rollback(p) ==
    /\ frame[p].stage = "rollback"
    /\ txn' = IF txn = p THEN NoProc ELSE txn
    /\ ReturnTo(p, "error")
    /\ UNCHANGED <<cells, draft>>

Return(p) ==
    /\ frame[p].stage = "done"
    /\ ReturnTo(p, "ok")
    /\ UNCHANGED <<cells, draft, txn>>

\* The process dies; the database drops its transaction.
Crash(p) ==
    /\ frame[p].stage # "idle"
    /\ txn' = IF txn = p THEN NoProc ELSE txn
    /\ ReturnTo(p, "crashed")
    /\ UNCHANGED <<cells, draft>>

-----------------------------------------------------------------------------
\* What withTransaction does by itself once it is called.
Run(p) ==
    \/ Begin(p) \/ BusyBegin(p)
    \/ Write(p) \/ Enter(p) \/ Leave(p) \/ Fault(p)
    \/ Commit(p) \/ BusyCommit(p) \/ FailCommit(p)
    \/ Rollback(p) \/ Return(p)

Next ==
    \E p \in Procs :
        \/ \E s \in Calls : Call(p, s)
        \/ Run(p)
        \/ Crash(p)

Spec == Init /\ [][Next]_vars

\* A scheduled thread that is inside withTransaction goes on running: it is
\* synchronous code, and the wait between two attempts is a timed sleep.
FairSpec == Spec /\ \A p \in Live : WF_vars(Run(p))

-----------------------------------------------------------------------------
(* Properties.                                                             *)

Footprint(s) == {c \in Cells : \E n \in DOMAIN Program[s] : Program[s][n] = c}

\* The owner keeps what AtomicStore promises of a unit: nested units, busy
\* retries, faults and deaths of any process never show a part of it, and no
\* unit undoes the writes of another.
Atomic == INSTANCE AtomicStore WITH CellsOf <- [s \in Calls |-> Footprint(s)]

Implements == Atomic!Spec

\* The answer is true for good: a call that returned is in all its cells,
\* whatever ran after it, and one that threw is in none (txn.ts: swallowing
\* would let the outer COMMIT persist a half-written pair).
AnswerIsTrue ==
    \A s \in Calls :
        /\ fate[s] = "ok" => \A c \in Footprint(s) : s \in cells[c]
        /\ fate[s] = "error" => \A c \in Cells : s \notin cells[c]

\* A process that is not inside a call has no transaction open: the next call
\* would join it, and its writes would never be committed.
NoPhantomTransaction ==
    \A p \in Procs : frame[p].stage \in {"idle", "begin", "done"} => txn # p

\* Every call of a scheduled process comes back, also when another process is
\* stopped inside its transaction and keeps the lock for good.
EveryCallReturns ==
    \A p \in Live : frame[p].stage # "idle" ~> frame[p].stage = "idle"
=============================================================================
