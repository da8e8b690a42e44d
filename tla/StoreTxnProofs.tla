--------------------------- MODULE StoreTxnProofs ---------------------------
(***************************************************************************)
(* The transaction owner implements AtomicStore, for every set of          *)
(* processes, calls, programs and nestings, and any number of attempts.    *)
(***************************************************************************)
EXTENDS StoreTxn, TLAPS

In(s) == \A c \in Footprint(s) : s \in cells[c]

Out(s) == \A c \in Cells : s \notin cells[c]

\* What a body has written so far.
Written(p, c) == \E n \in 1..(frame[p].pc - 1) : Program[Current(p)][n] = c

Drafted(p) ==
    /\ frame[p].pc \in 1..(Len(Program[Current(p)]) + 1)
    /\ \A c \in Cells :
          draft[c] = IF Written(p, c) THEN cells[c] \cup {Current(p)} ELSE cells[c]

\* Where a process is determines what the file shows of its call.
FrameOK(p) ==
    /\ frame[p].stage # "idle" =>
          Current(p) \in Calls /\ fate[Current(p)] = "running"
    /\ frame[p].stage \in {"begin", "body", "rollback"} => Out(Current(p))
    /\ frame[p].stage = "begin" => frame[p].pc = 1
    /\ frame[p].stage = "done" => In(Current(p))
    /\ frame[p].stage = "body" => txn = p /\ Drafted(p)
    /\ frame[p].stage \in {"idle", "begin", "done"} => txn # p

FateOK(s) ==
    /\ fate[s] = "unused" => Out(s)
    /\ fate[s] = "ok" => In(s)
    /\ fate[s] = "error" => Out(s)

OneFrameEach ==
    \A p, q \in Procs :
        frame[p].stage # "idle" /\ frame[q].stage # "idle" /\ p # q
            => Current(p) # Current(q)

IInv ==
    /\ TypeOK
    /\ \A p \in Procs : FrameOK(p)
    /\ \A s \in Calls : FateOK(s)
    /\ OneFrameEach

-----------------------------------------------------------------------------
\* An empty file with no call made satisfies the invariant.
LEMMA InitIInv == Init => IInv
<1> SUFFICES ASSUME Init PROVE IInv
  OBVIOUS
<1>1. TypeOK
  BY ProgramAssumption DEF Init, TypeOK, Frame, Returned, Stages
<1>2. \A p \in Procs : FrameOK(p)
  BY ProgramAssumption DEF Init, FrameOK, Returned
<1>3. \A s \in Calls : FateOK(s)
  BY DEF Init, FateOK, Out
<1>4. OneFrameEach
  BY DEF Init, OneFrameEach, Returned
<1> QED
  BY <1>1, <1>2, <1>3, <1>4 DEF IInv

\* A step that leaves the file alone and moves only one process keeps what
\* holds of the others, unless it hands the lock to one of them.
LEMMA OthersKept ==
    ASSUME IInv, NEW p \in Procs,
           UNCHANGED cells, TypeOK',
           \A q \in Procs \ {p} : frame'[q] = frame[q],
           \A s \in Calls : s # Current(p) /\ fate[s] # "unused" => fate'[s] = fate[s],
           frame[p].stage = "idle" =>
               \A q \in Procs \ {p} : frame[q].stage # "idle" => fate'[Current(q)] = "running",
           \A q \in Procs \ {p} : /\ txn = q => txn' = q /\ draft' = draft
                                  /\ txn' = q => txn = q
    PROVE  \A q \in Procs \ {p} : FrameOK(q)'
<1> SUFFICES ASSUME NEW q \in Procs, q # p PROVE FrameOK(q)'
  OBVIOUS
<1>1. FrameOK(q) /\ frame'[q] = frame[q] /\ Current(q)' = Current(q)
  BY DEF IInv, Current
<1>2. frame[q].stage # "idle" => fate'[Current(q)] = "running"
  <2>1. CASE frame[p].stage = "idle"
    BY <2>1
  <2>2. CASE frame[p].stage # "idle"
    BY <1>1, <2>2 DEF FrameOK, IInv, OneFrameEach
  <2> QED
    BY <2>1, <2>2
<1>3. frame[q].stage = "body" => txn' = q /\ draft' = draft
  BY <1>1 DEF FrameOK
<1>4. \A s : (Out(s)' <=> Out(s)) /\ (In(s)' <=> In(s))
  BY DEF Out, In, Footprint
<1>5. \A c : Written(q, c)' <=> Written(q, c)
  BY <1>1 DEF Written, Current
<1>6. frame[q].stage = "body" => Drafted(q)'
  BY <1>1, <1>3, <1>5 DEF FrameOK, Drafted, Current
<1>7. frame[q].stage \in {"idle", "begin", "done"} => txn' # q
  BY <1>1 DEF FrameOK
<1>8. frame[q].stage # "idle" => Current(q)' \in Calls /\ fate'[Current(q)'] = "running"
  BY <1>1, <1>2 DEF FrameOK
<1> QED
  BY <1>1, <1>3, <1>4, <1>6, <1>7, <1>8 DEF FrameOK

-----------------------------------------------------------------------------
(* The steps that leave the file alone.                                    *)

\* Starting a call.
LEMMA CallStep ==
    ASSUME IInv, NEW p \in Procs, NEW s \in Calls, Call(p, s)
    PROVE  IInv'
<1>1. TypeOK'
  <2>1. [stage |-> "begin", call |-> s, pc |-> 1, tries |-> 0] \in Frame
    BY ProgramAssumption DEF Frame, Stages
  <2> QED
    BY <2>1 DEF IInv, TypeOK, Call
<1>2. \A q \in Procs \ {p} : FrameOK(q)'
  <2>1. \A q \in Procs \ {p} : frame[q].stage # "idle" => fate'[Current(q)] = "running"
    BY DEF IInv, FrameOK, Call, TypeOK
  <2> QED
    BY <1>1, <2>1, OthersKept DEF Call, IInv, TypeOK
<1>3. FrameOK(p)'
  BY DEF IInv, FateOK, FrameOK, Call, TypeOK, Current, Out
<1>4. \A t \in Calls : FateOK(t)'
  BY DEF IInv, FateOK, Call, TypeOK, Out, In, Footprint
<1>5. OneFrameEach'
  BY DEF IInv, OneFrameEach, Call, TypeOK, Current, FrameOK
<1> QED
  BY <1>1, <1>2, <1>3, <1>4, <1>5 DEF IInv

\* Going on with a call without an answer to it: the process stays inside the
\* call, and the file and what callers know stay as they are.
LEMMA InsideStep ==
    ASSUME IInv, NEW p \in Procs, frame[p].stage # "idle",
           UNCHANGED <<cells, fate>>, TypeOK',
           \A q \in Procs \ {p} : frame'[q] = frame[q],
           frame'[p].call = frame[p].call, frame'[p].stage # "idle",
           \A q \in Procs \ {p} : /\ txn = q => txn' = q /\ draft' = draft
                                  /\ txn' = q => txn = q,
           FrameOK(p)'
    PROVE  IInv'
<1>1. \A q \in Procs \ {p} : FrameOK(q)'
  BY OthersKept
<1>2. \A s \in Calls : FateOK(s)'
  BY DEF IInv, FateOK, Out, In, Footprint
<1>3. OneFrameEach'
  BY DEF IInv, OneFrameEach, Current
<1> QED
  BY <1>1, <1>2, <1>3 DEF IInv

\* Answering a call: the process leaves it without a transaction, and the
\* answer is true of the file.
LEMMA AnswerStep ==
    ASSUME IInv, NEW p \in Procs, frame[p].stage # "idle",
           NEW outcome \in {"ok", "error", "crashed"}, ReturnTo(p, outcome),
           UNCHANGED <<cells, draft>>,
           txn' = txn \/ (txn = p /\ txn' = NoProc), txn' # p,
           outcome = "ok" => In(Current(p)),
           outcome = "error" => Out(Current(p))
    PROVE  IInv'
<1>0. Current(p) \in Calls /\ fate[Current(p)] = "running"
  BY DEF IInv, FrameOK
<1>1. TypeOK'
  BY <1>0, ProgramAssumption DEF IInv, TypeOK, ReturnTo, Returned, Frame, Stages
<1>2. \A q \in Procs \ {p} : FrameOK(q)'
  BY <1>0, <1>1, OthersKept, ProgramAssumption DEF ReturnTo, IInv, TypeOK
<1>3. FrameOK(p)'
  BY ProgramAssumption DEF IInv, TypeOK, FrameOK, ReturnTo, Returned
<1>4. \A s \in Calls : FateOK(s)'
  BY <1>0 DEF IInv, TypeOK, FateOK, ReturnTo, Out, In, Footprint
<1>5. OneFrameEach'
  BY DEF IInv, TypeOK, OneFrameEach, ReturnTo, Returned, Current
<1> QED
  BY <1>1, <1>2, <1>3, <1>4, <1>5 DEF IInv

-----------------------------------------------------------------------------
(* The step that changes it.                                               *)

\* A body that has returned has drafted every cell of its call, and nothing
\* else.
LEMMA WholeDraft ==
    ASSUME IInv, NEW p \in Procs, InBody(p), Item(p) = "end"
    PROVE  \A c \in Cells : draft[c] = IF c \in Footprint(Current(p))
                                       THEN cells[c] \cup {Current(p)} ELSE cells[c]
<1>1. /\ Current(p) \in Calls /\ Drafted(p)
      /\ Program[Current(p)] \in Seq(Cells \cup {"enter", "leave"})
  BY ProgramAssumption DEF IInv, FrameOK, InBody
<1> DEFINE prog == Program[Current(p)]
<1>2. Len(prog) \in Nat /\ DOMAIN prog = 1..Len(prog)
  BY <1>1
<1>3. frame[p].pc \in 1..(Len(prog) + 1)
  BY <1>1 DEF Drafted
<1>4. CASE frame[p].pc <= Len(prog)
  <2>1. Item(p) = prog[frame[p].pc]
    BY <1>4 DEF Item
  <2>2. prog[frame[p].pc] \in Cells \cup {"enter", "leave"}
    BY <1>1, <1>2, <1>3, <1>4
  <2> QED
    BY <2>1, <2>2, ProgramAssumption
<1>5. CASE frame[p].pc = Len(prog) + 1
  <2>1. \A c \in Cells : Written(p, c) <=> c \in Footprint(Current(p))
    BY <1>2, <1>5 DEF Written, Footprint
  <2> QED
    BY <1>1, <2>1 DEF Drafted
<1>6. frame[p].pc <= Len(prog) \/ frame[p].pc = Len(prog) + 1
  BY <1>2, <1>3
<1> QED
  BY <1>4, <1>5, <1>6

\* COMMIT shows the whole call at once, and changes nothing of another one.
LEMMA CommitStep ==
    ASSUME IInv, NEW p \in Procs, Commit(p), NEW s, s = Current(p)
    PROVE  /\ IInv'
           /\ cells' = [c \in Cells |-> IF c \in Footprint(s) THEN cells[c] \cup {s} ELSE cells[c]]
<1>1. /\ s \in Calls /\ fate[s] = "running" /\ Out(s) /\ txn = p
      /\ InBody(p) /\ Item(p) = "end"
  BY DEF IInv, FrameOK, Commit, InBody
<1>2. cells' = [c \in Cells |-> IF c \in Footprint(s) THEN cells[c] \cup {s} ELSE cells[c]]
  <2>1. \A c \in Cells : draft[c] = IF c \in Footprint(s) THEN cells[c] \cup {s} ELSE cells[c]
    BY <1>1, WholeDraft
  <2>2. cells' = draft /\ draft \in [Cells -> SUBSET Calls]
    BY DEF Commit, IInv, TypeOK
  <2> QED
    BY <2>1, <2>2
<1>3. \A t \in Calls : t # s => (Out(t)' <=> Out(t)) /\ (In(t)' <=> In(t))
  <2>1. \A t \in Calls, c \in Cells : t # s => (t \in cells'[c] <=> t \in cells[c])
    BY <1>2
  <2>2. \A t : Footprint(t) \subseteq Cells /\ Footprint(t)' = Footprint(t)
    BY DEF Footprint
  <2> QED
    BY <2>1, <2>2 DEF Out, In
<1>4. In(s)'
  BY <1>2 DEF In, Footprint
<1>5. TypeOK'
  BY <1>1 DEF IInv, TypeOK, Commit, Frame, Stages
<1>6. /\ frame'[p].stage = "done" /\ Current(p)' = s /\ fate' = fate /\ txn' = NoProc
      /\ \A q \in Procs \ {p} : frame'[q] = frame[q]
  BY DEF IInv, TypeOK, Commit, Current
<1>7. \A q \in Procs : FrameOK(q)'
  <2>1. FrameOK(p)'
    BY <1>1, <1>4, <1>6, ProgramAssumption DEF FrameOK
  <2>2. ASSUME NEW q \in Procs, q # p PROVE FrameOK(q)'
    <3>1. /\ FrameOK(q) /\ frame'[q] = frame[q] /\ Current(q)' = Current(q)
          /\ frame[q].stage # "body"
      BY <1>1, <1>6, <2>2 DEF IInv, FrameOK, Current
    <3>2. frame[q].stage # "idle" => Current(q) \in Calls /\ Current(q) # s
      BY <1>1, <2>2 DEF IInv, FrameOK, OneFrameEach, InBody
    <3> QED
      BY <1>3, <1>6, <3>1, <3>2, ProgramAssumption DEF FrameOK
  <2> QED
    BY <2>1, <2>2
<1>8. \A t \in Calls : FateOK(t)'
  BY <1>1, <1>3, <1>6 DEF IInv, FateOK
<1>9. OneFrameEach'
  BY <1>1, <1>6 DEF IInv, OneFrameEach, Current, InBody
<1> QED
  BY <1>2, <1>5, <1>7, <1>8, <1>9 DEF IInv

-----------------------------------------------------------------------------
(* Every step.                                                             *)

\* A step inside a call, or an answer to it.
LEMMA RunIInv ==
    ASSUME IInv, NEW p \in Procs, Run(p)
    PROVE  IInv'
<1>0. /\ TypeOK /\ FrameOK(p) /\ NoProc \notin Procs
      /\ frame[p].stage # "idle" => Current(p) \in Calls
      /\ frame \in [Procs -> Frame] /\ frame[p] \in Frame
      /\ MaxAttempts \in Nat \ {0}
  BY ProgramAssumption DEF IInv, FrameOK, TypeOK
<1> DEFINE At(stage) == [frame[p] EXCEPT !.stage = stage]
           Next1 == [frame[p] EXCEPT !.pc = @ + 1]
           Again == [frame[p] EXCEPT !.tries = @ + 1]
           Fresh == [frame[p] EXCEPT !.stage = "body", !.tries = 0]
<1>a. /\ \A stage \in Stages : At(stage) \in Frame
      /\ Next1 \in Frame
      /\ frame[p].tries + 1 < MaxAttempts => Again \in Frame
      /\ Fresh \in Frame
  <2>1. /\ frame[p].tries \in 0..(MaxAttempts - 1) /\ frame[p].pc \in Nat
        /\ frame[p] \in Frame /\ 0 \in 0..(MaxAttempts - 1)
        /\ frame[p].tries + 1 < MaxAttempts => frame[p].tries + 1 \in 0..(MaxAttempts - 1)
    BY <1>0 DEF Frame
  <2>2. Next1 \in Frame
    BY <2>1 DEF Frame
  <2>3. \A stage \in Stages : At(stage) \in Frame
    BY <2>1 DEF Frame
  <2>4. frame[p].tries + 1 < MaxAttempts => Again \in Frame
    BY <2>1 DEF Frame
  <2>5. Fresh \in Frame
    BY <2>1 DEF Frame, Stages
  <2> QED
    BY <2>2, <2>3, <2>4, <2>5
<1>b. \A g : frame' = [frame EXCEPT ![p] = g] =>
         /\ g \in Frame => frame' \in [Procs -> Frame]
         /\ frame'[p] = g
         /\ \A q \in Procs \ {p} : frame'[q] = frame[q]
  BY <1>0
<1> HIDE DEF At, Next1, Again, Fresh
<1>1. CASE Begin(p)
  <2>0. /\ frame' = [frame EXCEPT ![p] = Fresh] /\ frame[p].stage = "begin"
        /\ txn = NoProc /\ txn' = p /\ draft' = cells /\ UNCHANGED <<cells, fate>>
    BY <1>1 DEF Begin, Fresh
  <2>1. /\ TypeOK' /\ Current(p)' = Current(p)
        /\ frame'[p].stage = "body" /\ frame'[p].pc = frame[p].pc
    BY <1>0, <1>a, <1>b, <2>0 DEF TypeOK, Current, Fresh, Frame
  <2>2. frame[p].pc = 1
    BY <1>0, <2>0 DEF FrameOK
  <2>3. Drafted(p)'
    <3>1. Len(Program[Current(p)]) \in Nat
      BY <1>0, <2>0, ProgramAssumption
    <3>2. \A c \in Cells : ~Written(p, c)'
      BY <2>1, <2>2 DEF Written
    <3> QED
      BY <2>0, <2>1, <2>2, <3>1, <3>2 DEF Drafted
  <2>4. FrameOK(p)'
    BY <1>0, <2>0, <2>1, <2>3 DEF FrameOK, Out
  <2> QED
    BY <1>0, <1>b, <2>0, <2>1, <2>4, InsideStep DEF Current
<1>2. CASE BusyBegin(p)
  <2>1. CASE frame[p].tries + 1 < MaxAttempts
    <3>0. /\ frame' = [frame EXCEPT ![p] = Again] /\ frame[p].stage = "begin"
          /\ UNCHANGED <<cells, draft, txn, fate>>
      BY <1>2, <2>1 DEF BusyBegin, Again
    <3>1. /\ TypeOK' /\ Current(p)' = Current(p)
          /\ frame'[p].stage = "begin" /\ frame'[p].pc = frame[p].pc
      BY <1>0, <1>a, <1>b, <2>1, <3>0 DEF TypeOK, Current, Again, Frame
    <3>2. FrameOK(p)'
      BY <1>0, <3>0, <3>1 DEF FrameOK, Out
    <3> QED
      BY <1>0, <1>b, <3>0, <3>1, <3>2, InsideStep DEF Current
  <2>2. CASE ~(frame[p].tries + 1 < MaxAttempts)
    BY <1>0, <1>2, <2>2, AnswerStep DEF BusyBegin, FrameOK
  <2> QED
    BY <2>1, <2>2
<1>3. CASE Write(p) \/ Enter(p) \/ Leave(p)
  <2>0. /\ frame' = Advance(p) /\ frame[p].stage = "body" /\ Item(p) # "end"
        /\ UNCHANGED <<cells, fate, txn>> /\ Drafted(p) /\ txn = p
    BY <1>0, <1>3, ProgramAssumption DEF Write, Enter, Leave, InBody, FrameOK
  <2>1. /\ frame[p].pc \in Nat /\ frame[p].pc >= 1
        /\ Program[Current(p)] \in Seq(Cells \cup {"enter", "leave"})
        /\ frame[p].pc <= Len(Program[Current(p)])
        /\ Item(p) = Program[Current(p)][frame[p].pc]
    BY <1>0, <2>0, ProgramAssumption DEF Drafted, Item
  <2>2. /\ TypeOK'
        /\ Current(p)' = Current(p) /\ frame'[p].pc = frame[p].pc + 1
        /\ frame'[p].stage = "body"
        /\ \A q \in Procs \ {p} : frame'[q] = frame[q]
    <3>1. frame' = [frame EXCEPT ![p] = Next1]
      BY <2>0 DEF Advance, Next1
    <3>2. draft' \in [Cells -> SUBSET Calls]
      BY <1>0, <1>3, <2>0 DEF TypeOK, Write, Enter, Leave
    <3> QED
      BY <1>0, <1>a, <1>b, <2>0, <3>1, <3>2 DEF TypeOK, Current, Next1, Frame
  <2>3. \A c \in Cells : Written(p, c)' <=> Written(p, c) \/ c = Item(p)
    BY <2>1, <2>2 DEF Written
  <2>4. \A c \in Cells : draft'[c] = IF c = Item(p) THEN draft[c] \cup {Current(p)} ELSE draft[c]
    BY <1>0, <1>3, ProgramAssumption DEF Write, Enter, Leave, TypeOK
  <2>5. \A c \in Cells :
          draft'[c] = IF Written(p, c)' THEN cells[c] \cup {Current(p)} ELSE cells[c]
    BY <2>0, <2>3, <2>4 DEF Drafted
  <2>6. Drafted(p)'
    <3>1. Len(Program[Current(p)]) \in Nat
      BY <2>1
    <3>2. frame[p].pc + 1 \in 1..(Len(Program[Current(p)]) + 1)
      BY <2>1, <3>1
    <3> QED
      BY <2>0, <2>2, <2>5, <3>2 DEF Drafted
  <2>7. FrameOK(p)'
    BY <1>0, <2>0, <2>2, <2>6 DEF FrameOK, Out
  <2> QED
    BY <2>0, <2>2, <2>7, InsideStep DEF Current
<1>4. CASE Fault(p) \/ FailCommit(p)
  <2>0. /\ frame[p].stage = "body" /\ txn = p /\ txn' \in {p, NoProc}
        /\ frame' = [frame EXCEPT ![p].stage = "rollback"] /\ UNCHANGED <<cells, draft, fate>>
    BY <1>0, <1>4 DEF Fault, FailCommit, InBody, MayBeGone, FrameOK
  <2>1. TypeOK'
    BY <1>0, <2>0 DEF TypeOK, Frame, Stages
  <2>2. FrameOK(p)'
    BY <1>0, <2>0 DEF FrameOK, Current, Out, TypeOK
  <2> QED
    BY <1>0, <2>0, <2>1, <2>2, InsideStep DEF TypeOK
<1>5. CASE BusyCommit(p)
  <2>0. /\ frame[p].stage = "body" /\ txn = p /\ UNCHANGED <<cells, draft, txn, fate>>
    BY <1>0, <1>5 DEF BusyCommit, InBody, FrameOK
  <2>1. TypeOK' /\ frame'[p].stage \in {"body", "rollback"} /\ frame'[p].call = frame[p].call
        /\ frame'[p].pc = frame[p].pc /\ \A q \in Procs \ {p} : frame'[q] = frame[q]
    <3>1. CASE frame[p].tries + 1 < MaxAttempts
      <4>1. frame' = [frame EXCEPT ![p] = Again]
        BY <1>5, <3>1 DEF BusyCommit, Again
      <4> QED
        BY <1>0, <1>a, <1>b, <2>0, <3>1, <4>1 DEF TypeOK, Frame, Again
    <3>2. CASE ~(frame[p].tries + 1 < MaxAttempts)
      <4>1. frame' = [frame EXCEPT ![p] = At("rollback")]
        BY <1>5, <3>2 DEF BusyCommit, At
      <4> QED
        BY <1>0, <1>a, <1>b, <2>0, <4>1 DEF TypeOK, Frame, Stages, At
    <3> QED
      BY <3>1, <3>2
  <2>2. Current(p)' = Current(p) /\ (\A c : Written(p, c)' <=> Written(p, c))
    BY <2>1 DEF Current, Written
  <2>3. Drafted(p)'
    BY <1>0, <2>0, <2>1, <2>2 DEF FrameOK, Drafted
  <2>4. FrameOK(p)'
    BY <1>0, <2>0, <2>1, <2>2, <2>3 DEF FrameOK, Out
  <2> QED
    BY <2>0, <2>1, <2>4, InsideStep
<1>6. CASE Commit(p)
  BY <1>6, CommitStep
<1>7. CASE Rollback(p)
  <2>1. Out(Current(p)) /\ txn' # p /\ (txn' = txn \/ (txn = p /\ txn' = NoProc))
    BY <1>0, <1>7 DEF Rollback, FrameOK
  <2> QED
    BY <1>7, <2>1, AnswerStep DEF Rollback
<1>8. CASE Return(p)
  BY <1>0, <1>8, AnswerStep DEF Return, FrameOK
<1> QED
  BY <1>1, <1>2, <1>3, <1>4, <1>5, <1>6, <1>7, <1>8 DEF Run

\* A death.
LEMMA CrashIInv ==
    ASSUME IInv, NEW p \in Procs, Crash(p)
    PROVE  IInv'
<1>1. txn' # p /\ (txn' = txn \/ (txn = p /\ txn' = NoProc))
  BY ProgramAssumption DEF Crash
<1> QED
  BY <1>1, AnswerStep DEF Crash

\* Every step keeps the invariant.
LEMMA NextIInv == IInv /\ [Next]_vars => IInv'
<1> SUFFICES ASSUME IInv, [Next]_vars PROVE IInv'
  OBVIOUS
<1>1. CASE UNCHANGED vars
  <2>1. UNCHANGED <<cells, draft, txn, frame, fate>>
    BY <1>1 DEF vars
  <2>2. TypeOK'
    BY <2>1 DEF IInv, TypeOK
  <2>3. ASSUME NEW p \in Procs PROVE FrameOK(p)'
    <3>1. \A s : (Out(s)' <=> Out(s)) /\ (In(s)' <=> In(s))
      BY <2>1 DEF Out, In, Footprint
    <3>2. Current(p)' = Current(p) /\ (\A c : Written(p, c)' <=> Written(p, c))
      BY <2>1 DEF Current, Written
    <3>3. Drafted(p) => Drafted(p)'
      BY <2>1, <3>2 DEF Drafted
    <3> QED
      BY <2>1, <3>1, <3>2, <3>3 DEF IInv, FrameOK
  <2>4. \A s \in Calls : FateOK(s)'
    BY <2>1 DEF IInv, FateOK, Out, In, Footprint
  <2>5. OneFrameEach'
    BY <2>1 DEF IInv, OneFrameEach, Current
  <2> QED
    BY <2>2, <2>3, <2>4, <2>5 DEF IInv
<1>2. ASSUME NEW p \in Procs, NEW s \in Calls, Call(p, s) PROVE IInv'
  BY <1>2, CallStep
<1> QED
  BY <1>1, <1>2, RunIInv, CrashIInv DEF Next

\* The invariant holds in every reachable state.
THEOREM Invariance == Spec => []IInv
<1>1. Init => IInv
  BY InitIInv
<1>2. IInv /\ [Next]_vars => IInv'
  BY NextIInv
<1> QED
  BY <1>1, <1>2, PTL DEF Spec

-----------------------------------------------------------------------------
(* What follows from it.                                                   *)

\* TypeOK is invariant; in particular neither acquisition point is tried more
\* than MaxAttempts times (withBusyRetry).
THEOREM TypeCorrect == Spec => []TypeOK
<1>1. IInv => TypeOK
  BY DEF IInv
<1> QED
  BY <1>1, Invariance, PTL

\* A call that returned is in the file for good and one that threw never is,
\* however units nest and whatever other processes do (withTransaction).
THEOREM AnswersAreTrue == Spec => []AnswerIsTrue
<1>1. IInv => AnswerIsTrue
  BY DEF IInv, FateOK, AnswerIsTrue, In, Out
<1> QED
  BY <1>1, Invariance, PTL

\* No transaction outlives the call that opened it (the ROLLBACK of
\* withTransaction).
THEOREM NoTransactionLeaks == Spec => []NoPhantomTransaction
<1>1. IInv => NoPhantomTransaction
  BY DEF IInv, FrameOK, NoPhantomTransaction
<1> QED
  BY <1>1, Invariance, PTL

\* A step of the owner is a step of the abstract store or a stutter.
LEMMA StepSimulation ==
    ASSUME IInv, [Next]_vars
    PROVE  [Atomic!Next]_(Atomic!abstractVars)
<1> USE DEF Atomic!abstractVars
<1>1. CASE UNCHANGED vars
  BY <1>1 DEF vars
<1>2. ASSUME NEW p \in Procs, NEW s \in Calls, Call(p, s)
      PROVE  Atomic!Next
  BY <1>2 DEF Call, Atomic!Next, Atomic!Start
<1>3. ASSUME NEW p \in Procs, frame[p].stage # "idle", UNCHANGED cells,
             NEW outcome \in {"ok", "error", "crashed"}, ReturnTo(p, outcome),
             outcome = "ok" => In(Current(p)),
             outcome = "error" => Out(Current(p))
      PROVE  Atomic!Next
  <2>1. Current(p) \in Calls /\ fate[Current(p)] = "running"
    BY <1>3 DEF IInv, FrameOK
  <2>2. Atomic!Finish(Current(p), outcome)
    BY <1>3, <2>1 DEF Atomic!Finish, Atomic!Whole, Atomic!Absent, In, Out, ReturnTo
  <2>3. outcome \in Atomic!Fates
    BY DEF Atomic!Fates
  <2> QED
    BY <2>1, <2>2, <2>3 DEF Atomic!Next
<1>4. ASSUME NEW p \in Procs, Commit(p)
      PROVE  Atomic!Next
  <2>1. Current(p) \in Calls /\ fate[Current(p)] = "running" /\ Out(Current(p))
    BY <1>4 DEF IInv, FrameOK, Commit, InBody
  <2>2. PICK s : s = Current(p)
    OBVIOUS
  <2>3. cells' = [c \in Cells |-> IF c \in Footprint(s) THEN cells[c] \cup {s} ELSE cells[c]]
    BY <1>4, <2>2, CommitStep
  <2>4. Atomic!Take(s)
    BY <1>4, <2>1, <2>2, <2>3 DEF Atomic!Take, Atomic!Absent, Out, Commit
  <2> QED
    BY <2>1, <2>2, <2>4 DEF Atomic!Next
<1>5. ASSUME NEW p \in Procs, Run(p)
      PROVE  Atomic!Next \/ UNCHANGED <<cells, fate>>
  <2>1. CASE BusyBegin(p)
    BY <1>3, <2>1 DEF BusyBegin, IInv, FrameOK
  <2>2. CASE Rollback(p)
    BY <1>3, <2>2 DEF Rollback, IInv, FrameOK
  <2>3. CASE Return(p)
    BY <1>3, <2>3 DEF Return, IInv, FrameOK
  <2>4. CASE Commit(p)
    BY <1>4, <2>4
  <2> QED
    BY <1>5, <2>1, <2>2, <2>3, <2>4
       DEF Run, Begin, Write, Enter, Leave, Fault, BusyCommit, FailCommit
<1>6. ASSUME NEW p \in Procs, Crash(p)
      PROVE  Atomic!Next
  BY <1>3, <1>6 DEF Crash
<1> QED
  BY <1>1, <1>2, <1>5, <1>6 DEF Next

\* The owner implements the abstract store: a unit shows whole or not at all,
\* and is answered for accordingly (snapshot-store/txn.ts).
THEOREM OwnerIsAtomic == Spec => Implements
<1>1. Init => Atomic!Init
  BY DEF Init, Atomic!Init
<1>2. IInv /\ [Next]_vars => [Atomic!Next]_(Atomic!abstractVars)
  BY StepSimulation
<1> QED
  BY <1>1, <1>2, Invariance, PTL DEF Spec, Implements, Atomic!Spec

=============================================================================
