--------------------------- MODULE FileEditProofs ---------------------------
(***************************************************************************)
(* What FileEdit guarantees for every set of calls, sessions and texts: a  *)
(* version-checking policy and one call at a time per session leave no     *)
(* lost update; an undo that lands is exact when no file has mixed line    *)
(* endings; as long as calls do not overlap the last edit that landed      *)
(* stays undoable, and an undo that fails changes nothing in the store.    *)
(***************************************************************************)
EXTENDS FileEdit, TLAPS

\* What a call holds at each of its stages.
StateOK(st) ==
    /\ st \in CallState
    /\ st.stage \notin {"idle", "loaded", "stale", "gated", "creating", "created"} =>
          st.saw \in Raw
    /\ st.stage \notin {"idle", "seen", "served", "opened", "loaded", "stale", "gated",
                        "fetched"} =>
          st.goal \in Raw
    /\ st.stage = "creating" => st.saw = NoFile
    /\ st.stage \in {"loaded", "stale", "matched", "reverted", "committed"} =>
          st.row \in Entry

CallsOK == call \in [Slots -> CallState] /\ \A c \in Slots : StateOK(call[c])

StoreOK ==
    /\ disk \in Raw \cup {NoFile}
    /\ undo \in Entry \cup {NoUndo}
    /\ budget \in [calls : Nat, outside : Nat]

HistoryOK ==
    /\ last \in Entry \cup {NoUndo}
    /\ lapsed \in BOOLEAN /\ crowded \in BOOLEAN

AnchorsOK ==
    /\ leases \in [Sessions -> SUBSET Lines]
    /\ retired \in [Sessions -> SUBSET Lines]

PolicyOK == observed \in [Sessions -> Versions]

MemoOK == memo \in Versions

Typed == StoreOK /\ AnchorsOK /\ PolicyOK /\ CallsOK

-----------------------------------------------------------------------------
\* The session of a call is a session; a text has only lines of the file.
LEMMA Shape ==
    /\ \A c \in Slots : SessionOf[c] \in Sessions
    /\ \A t \in Texts : LinesOf[t] \subseteq Lines
  BY DEF Sessions, Lines

\* Bytes built from a text and an ending the code restores are bytes; the
\* ending it detects is one of those.
LEMMA BytesShape ==
    /\ \A raw \in Raw : raw.text \in Texts /\ Detected(raw) \in {"lf", "crlf"}
    /\ \A t \in Texts, e \in {"lf", "crlf"} : Bytes(t, e) \in Raw
    /\ \A t \in Texts, e \in Endings : [text |-> t, end |-> e] \in Raw
  BY FileAssumption DEF Raw, Detected, Bytes

\* A call that has ended holds nothing.
LEMMA EndedOK == StateOK(Ended)
  BY DEF StateOK, Ended, CallState, Stages

\* What adopting does to the leases keeps their shape...
LEMMA AdoptingShape ==
    ASSUME AnchorsOK, NEW T
    PROVE  Adopting(T) \in [Sessions -> SUBSET Lines]
  BY DEF AnchorsOK, Adopting

\* ...and so does serving.
LEMMA ServeShape ==
    ASSUME AnchorsOK, NEW s \in Sessions, NEW text, NEW rows \in SUBSET Lines,
           Serve(s, text, rows) \/ ServeFails
    PROVE  leases' \in [Sessions -> SUBSET Lines]
<1>1. Adopting({text}) \in [Sessions -> SUBSET Lines]
  BY AdoptingShape
<1>2. CASE Serve(s, text, rows)
  BY <1>1, <1>2 DEF Serve, AnchorsOK
<1>3. CASE ServeFails
  BY <1>3 DEF ServeFails, AnchorsOK
<1> QED
  BY <1>2, <1>3

\* A write leaves every observation one of the three.
LEMMA WriteShape ==
    ASSUME PolicyOK, NEW s \in Sessions, NEW bytes, Write(s, bytes)
    PROVE  PolicyOK'
  BY DEF PolicyOK, Write, Outdated, Versions

\* A step that gives one call a good state and leaves the others alone.
LEMMA OneCallMoves ==
    ASSUME CallsOK, NEW c \in Slots, NEW st, StateOK(st),
           call' = [call EXCEPT ![c] = st]
    PROVE  CallsOK'
  BY DEF CallsOK, StateOK

\* A call that starts takes one from the budget.
LEMMA StartShape ==
    ASSUME CallsOK, budget \in [calls : Nat, outside : Nat],
           NEW c \in Slots, NEW st, StateOK(st), Start(c, st)
    PROVE  CallsOK' /\ budget' \in [calls : Nat, outside : Nat]
<1>1. CallsOK'
  BY OneCallMoves DEF Start
<1>2. budget' \in [calls : Nat, outside : Nat]
  BY DEF Start
<1> QED
  BY <1>1, <1>2

\* A call that moves on with what it holds.
LEMMA GotoShape ==
    ASSUME CallsOK, NEW c \in Slots, NEW stage \in Stages, Goto(c, stage),
           StateOK([call[c] EXCEPT !.stage = stage])
    PROVE  CallsOK'
<1>1. call' = [call EXCEPT ![c] = [call[c] EXCEPT !.stage = stage]]
  BY DEF Goto
<1> QED
  BY <1>1, OneCallMoves

\* A call that ends.
LEMMA EndShape ==
    ASSUME CallsOK, NEW c \in Slots, End(c)
    PROVE  CallsOK'
  BY EndedOK, OneCallMoves DEF End

\* The initial state is well typed.
LEMMA InitTyped == Init => Typed
<1> SUFFICES ASSUME Init PROVE Typed
  OBVIOUS
<1>1. StoreOK
  BY FileAssumption, BytesShape DEF Init, StoreOK, Raw
<1>2. AnchorsOK /\ PolicyOK
  BY DEF Init, AnchorsOK, PolicyOK, Versions
<1>3. CallsOK
  BY EndedOK DEF Init, CallsOK, StateOK
<1> QED
  BY <1>1, <1>2, <1>3 DEF Typed

\* A step of str_replace_editor keeps them.
LEMMA EditorTyped ==
    ASSUME Typed, NEW c \in Slots, EditorStep(c)
    PROVE  Typed'
<1>0. StoreOK /\ AnchorsOK /\ PolicyOK /\ CallsOK
  BY DEF Typed
<1> SessionOf[c] \in Sessions /\ StateOK(call[c]) /\ call \in [Slots -> CallState]
  BY <1>0, Shape DEF CallsOK
<1>1. AnchorsOK'
  BY <1>0 DEF EditorStep, View, PassGate, RefuseBlind, FetchText, NoMatch, PrepareForSave,
     WriteReplaced, ReplaceFails, Answer, Create, WriteCreated, CreateFails, RecordCreated,
     AnchorsOK
<1>2. CASE View(c)
  <2>1. StateOK([call[c] EXCEPT !.stage = "served"])
    BY <1>2 DEF View, At, StateOK, CallState, Stages
  <2>2. CallsOK'
    BY <1>0, <1>2, <2>1, GotoShape DEF View, Stages
  <2> QED
    BY <1>0, <1>1, <1>2, <2>2 DEF View, Typed, StoreOK, PolicyOK
<1>3. CASE PassGate(c)
  <2>1. StateOK([Ended EXCEPT !.stage = "gated"])
    BY EndedOK DEF StateOK, CallState, Stages, Ended
  <2>2. CallsOK' /\ budget' \in [calls : Nat, outside : Nat]
    BY <1>0, <1>3, <2>1, StartShape DEF PassGate, StoreOK
  <2> QED
    BY <1>0, <1>1, <1>3, <2>2 DEF PassGate, Typed, StoreOK, PolicyOK
<1>4. CASE RefuseBlind(c)
  <2>1. CallsOK' /\ budget' \in [calls : Nat, outside : Nat]
    BY <1>0, <1>4, EndedOK, StartShape DEF RefuseBlind, StoreOK
  <2> QED
    BY <1>0, <1>1, <1>4, <2>1 DEF RefuseBlind, Typed, StoreOK, PolicyOK
<1>5. CASE FetchText(c)
  <2>1. CASE disk = NoFile
    BY <1>0, <1>1, <1>5, <2>1, EndShape DEF FetchText, Typed, StoreOK, PolicyOK
  <2>2. CASE disk # NoFile
    <3> DEFINE st == [call[c] EXCEPT !.stage = "fetched", !.saw = disk]
    <3>1. StateOK(st)
      BY <1>0, <1>5, <2>2 DEF FetchText, StoreOK, StateOK, CallState, Stages
    <3>2. CallsOK'
      BY <1>0, <1>5, <2>2, <3>1, OneCallMoves DEF FetchText
    <3> QED
      BY <1>0, <1>1, <1>5, <3>2 DEF FetchText, Typed, StoreOK, PolicyOK
  <2> QED
    BY <2>1, <2>2
<1>6. CASE NoMatch(c)
  BY <1>0, <1>1, <1>6, EndShape DEF NoMatch, Typed, StoreOK, PolicyOK
<1>7. CASE PrepareForSave(c)
  <2>1. PICK to \in Texts :
            call' = [call EXCEPT ![c].stage = "prepared",
                                 ![c].goal = Bytes(to, Detected(call[c].saw))]
    BY <1>7 DEF PrepareForSave
  <2> DEFINE st == [call[c] EXCEPT !.stage = "prepared",
                                   !.goal = Bytes(to, Detected(call[c].saw))]
  <2>2. StateOK(st)
    BY <1>7, BytesShape DEF PrepareForSave, At, StateOK, CallState, Stages
  <2>3. CallsOK'
    BY <1>0, <2>1, <2>2, OneCallMoves
  <2> QED
    BY <1>0, <1>1, <1>7, <2>3 DEF PrepareForSave, Typed, StoreOK, PolicyOK
<1>8. CASE WriteReplaced(c)
  <2>1. StateOK([call[c] EXCEPT !.stage = "replaced"])
    BY <1>8 DEF WriteReplaced, At, StateOK, CallState, Stages
  <2>2. CallsOK'
    BY <1>0, <1>8, <2>1, GotoShape DEF WriteReplaced, Stages
  <2>3. PolicyOK'
    BY <1>0, <1>8, WriteShape DEF WriteReplaced
  <2> QED
    BY <1>0, <1>1, <1>8, <2>2, <2>3
       DEF WriteReplaced, At, Write, StateOK, Typed, StoreOK
<1>9. CASE ReplaceFails(c) \/ CreateFails(c)
  BY <1>0, <1>1, <1>9, EndShape
     DEF ReplaceFails, CreateFails, WriteFails, Typed, StoreOK, PolicyOK
<1>10. CASE Answer(c)
  BY <1>0, <1>1, <1>10, EndShape DEF Answer, Typed, StoreOK, PolicyOK
<1>11. CASE Create(c)
  <2>1. PICK raw \in [text : Texts, end : Endings] :
            Start(c, [Ended EXCEPT !.stage = "creating", !.goal = raw])
    BY <1>11 DEF Create
  <2>2. raw \in Raw
    BY FileAssumption DEF Raw
  <2>3. StateOK([Ended EXCEPT !.stage = "creating", !.goal = raw])
    BY <2>2, EndedOK DEF StateOK, CallState, Stages, Ended
  <2>4. CallsOK' /\ budget' \in [calls : Nat, outside : Nat]
    BY <1>0, <2>1, <2>3, StartShape DEF StoreOK
  <2> QED
    BY <1>0, <1>1, <1>11, <2>4 DEF Create, Typed, StoreOK, PolicyOK
<1>12. CASE WriteCreated(c)
  <2>1. StateOK([call[c] EXCEPT !.stage = "created"])
    BY <1>12 DEF WriteCreated, At, StateOK, CallState, Stages
  <2>2. CallsOK'
    BY <1>0, <1>12, <2>1, GotoShape DEF WriteCreated, Stages
  <2>3. PolicyOK'
    BY <1>0, <1>12, WriteShape DEF WriteCreated
  <2> QED
    BY <1>0, <1>1, <1>12, <2>2, <2>3
       DEF WriteCreated, At, Write, StateOK, Typed, StoreOK
<1>13. CASE RecordCreated(c)
  BY <1>0, <1>1, <1>13, EndShape DEF RecordCreated, Typed, StoreOK, PolicyOK
<1> QED
  BY <1>2, <1>3, <1>4, <1>5, <1>6, <1>7, <1>8, <1>9, <1>10, <1>11, <1>12, <1>13
     DEF EditorStep

\* Every step keeps the types and what a call holds at its stage.
LEMMA StepTyped == Typed /\ [Next]_vars => Typed'
<1> SUFFICES ASSUME Typed, [Next]_vars PROVE Typed'
  OBVIOUS
<1>0. StoreOK /\ AnchorsOK /\ PolicyOK /\ CallsOK
  BY DEF Typed
<1>1. ASSUME NEW c \in Slots, Read(c) PROVE Typed'
  <2> SessionOf[c] \in Sessions /\ StateOK(call[c]) /\ call \in [Slots -> CallState]
    BY <1>0, Shape DEF CallsOK
  <2> DEFINE st == [Ended EXCEPT !.stage = "seen", !.saw = disk]
  <2>1. StateOK(st)
    BY <1>0, <1>1, EndedOK DEF Read, StateOK, StoreOK, CallState, Stages, Ended
  <2>2. Start(c, st)
    BY <1>1 DEF Read
  <2>3. CallsOK' /\ budget' \in [calls : Nat, outside : Nat]
    BY <1>0, <2>1, <2>2, StartShape DEF StoreOK
  <2>4. StoreOK'
    BY <1>0, <1>1, <2>3 DEF Read, StoreOK
  <2>5. AnchorsOK'
    BY <1>0, <1>1 DEF Read, AnchorsOK
  <2>6. PolicyOK'
    BY <1>0, <1>1 DEF Read, PolicyOK
  <2> QED
    BY <2>3, <2>4, <2>5, <2>6 DEF Typed
<1>2. ASSUME NEW c \in Slots, ServeRead(c) PROVE Typed'
  <2> SessionOf[c] \in Sessions /\ StateOK(call[c]) /\ call \in [Slots -> CallState]
    BY <1>0, Shape DEF CallsOK
  <2>1. StateOK([call[c] EXCEPT !.stage = "served"])
    BY <1>2 DEF ServeRead, At, StateOK, CallState, Stages
  <2>2. CallsOK'
    BY <1>0, <1>2, <2>1, GotoShape DEF ServeRead, Stages
  <2>3. StoreOK'
    BY <1>0, <1>2 DEF ServeRead, StoreOK
  <2> DEFINE text == call[c].saw.text
  <2>4. LinesOf[text] \in SUBSET Lines
    BY <1>2, Shape, BytesShape DEF ServeRead, At, StateOK
  <2>5. AnchorsOK'
    <3>1. CASE \E rows \in SUBSET LinesOf[text] :
                  /\ Serve(SessionOf[c], text, rows)
                  /\ retired' = IF rows = LinesOf[text]
                                THEN [retired EXCEPT ![SessionOf[c]] = {}]
                                ELSE retired
      <4>1. PICK rows \in SUBSET LinesOf[text] :
                /\ Serve(SessionOf[c], text, rows)
                /\ retired' = IF rows = LinesOf[text]
                              THEN [retired EXCEPT ![SessionOf[c]] = {}]
                              ELSE retired
        BY <3>1
      <4>2. leases' \in [Sessions -> SUBSET Lines]
        BY <1>0, <2>4, <4>1, ServeShape
      <4> QED
        BY <1>0, <4>1, <4>2 DEF AnchorsOK
    <3>2. CASE \E adopted \in SUBSET {text} :
                  leases' = Adopting(adopted) /\ retired' = retired
      BY <1>0, <3>2, AdoptingShape DEF AnchorsOK
    <3> QED
      BY <1>2, <3>1, <3>2 DEF ServeRead
  <2>6. PolicyOK'
    BY <1>0, <1>2 DEF ServeRead, PolicyOK
  <2> QED
    BY <2>2, <2>3, <2>5, <2>6 DEF Typed
<1>3. ASSUME NEW c \in Slots, Observe(c) PROVE Typed'
  <2> SessionOf[c] \in Sessions /\ StateOK(call[c]) /\ call \in [Slots -> CallState]
    BY <1>0, Shape DEF CallsOK
  <2>1. CallsOK'
    BY <1>0, <1>3, EndShape DEF Observe
  <2>2. StoreOK'
    BY <1>0, <1>3 DEF Observe, StoreOK
  <2>3. AnchorsOK'
    BY <1>0, <1>3 DEF Observe, AnchorsOK
  <2>4. PolicyOK'
    BY <1>0, <1>3 DEF Observe, PolicyOK, Versions
  <2> QED
    BY <2>1, <2>2, <2>3, <2>4 DEF Typed
<1>4. ASSUME NEW c \in Slots, OpenFile(c) PROVE Typed'
  <2> SessionOf[c] \in Sessions /\ StateOK(call[c]) /\ call \in [Slots -> CallState]
    BY <1>0, Shape DEF CallsOK
  <2>1. PICK batch \in Batches :
             Start(c, [Ended EXCEPT !.stage = "opened", !.batch = batch, !.saw = disk])
    BY <1>4 DEF OpenFile
  <2> DEFINE st == [Ended EXCEPT !.stage = "opened", !.batch = batch, !.saw = disk]
  <2>2. StateOK(st)
    BY <1>0, <1>4, FileAssumption DEF OpenFile, StateOK, StoreOK, CallState, Stages, Ended
  <2>3. CallsOK' /\ budget' \in [calls : Nat, outside : Nat]
    BY <1>0, <2>1, <2>2, StartShape DEF StoreOK
  <2>4. StoreOK'
    BY <1>0, <1>4, <2>3 DEF OpenFile, StoreOK
  <2>5. AnchorsOK'
    BY <1>0, <1>4 DEF OpenFile, AnchorsOK
  <2>6. PolicyOK'
    BY <1>0, <1>4 DEF OpenFile, PolicyOK
  <2> QED
    BY <2>3, <2>4, <2>5, <2>6 DEF Typed
<1>5. ASSUME NEW c \in Slots, Apply(c) PROVE Typed'
  <2> SessionOf[c] \in Sessions /\ StateOK(call[c]) /\ call \in [Slots -> CallState]
    BY <1>0, Shape DEF CallsOK
  <2>1. PICK to \in Texts, adopted \in SUBSET Texts :
            /\ leases' = Adopting(adopted)
            /\ call' = [call EXCEPT ![c].stage = "applied",
                                    ![c].goal = Bytes(to, Detected(call[c].saw))]
    BY <1>5 DEF Apply
  <2> DEFINE st == [call[c] EXCEPT !.stage = "applied",
                                   !.goal = Bytes(to, Detected(call[c].saw))]
  <2>2. Bytes(to, Detected(call[c].saw)) \in Raw
    BY <1>5, BytesShape DEF Apply, At, StateOK
  <2>4. StateOK(st)
    BY <1>5, <2>2 DEF Apply, At, StateOK, CallState, Stages
  <2>5. call' = [call EXCEPT ![c] = st]
    BY <2>1
  <2>6. CallsOK'
    BY <1>0, <2>4, <2>5, OneCallMoves
  <2>7. StoreOK'
    BY <1>0, <1>5 DEF Apply, StoreOK
  <2>8. AnchorsOK'
    BY <1>0, <1>5, <2>1, AdoptingShape DEF Apply, AnchorsOK
  <2>9. PolicyOK'
    BY <1>0, <1>5 DEF Apply, PolicyOK
  <2> QED
    BY <2>6, <2>7, <2>8, <2>9 DEF Typed
<1>6. ASSUME NEW c \in Slots, Reject(c) PROVE Typed'
  <2> SessionOf[c] \in Sessions /\ StateOK(call[c]) /\ call \in [Slots -> CallState]
    BY <1>0, Shape DEF CallsOK
  <2>1. CallsOK'
    BY <1>0, <1>6, EndShape DEF Reject
  <2>2. StoreOK'
    BY <1>0, <1>6 DEF Reject, StoreOK
  <2>3. AnchorsOK'
    BY <1>0, <1>6, AdoptingShape DEF Reject, AnchorsOK
  <2>4. PolicyOK'
    BY <1>0, <1>6 DEF Reject, PolicyOK
  <2> QED
    BY <2>1, <2>2, <2>3, <2>4 DEF Typed
<1>7. ASSUME NEW c \in Slots, ReadPrevious(c) PROVE Typed'
  <2> SessionOf[c] \in Sessions /\ StateOK(call[c]) /\ call \in [Slots -> CallState]
    BY <1>0, Shape DEF CallsOK
  <2> DEFINE st == [call[c] EXCEPT !.stage = "previous", !.row = undo]
  <2>1. StateOK(st)
    BY <1>0, <1>7 DEF ReadPrevious, At, StateOK, StoreOK, CallState, Stages
  <2>2. call' = [call EXCEPT ![c] = st]
    BY <1>7 DEF ReadPrevious
  <2>3. CallsOK'
    BY <1>0, <2>1, <2>2, OneCallMoves
  <2>4. StoreOK'
    BY <1>0, <1>7 DEF ReadPrevious, StoreOK
  <2>5. AnchorsOK'
    BY <1>0, <1>7 DEF ReadPrevious, AnchorsOK
  <2>6. PolicyOK'
    BY <1>0, <1>7 DEF ReadPrevious, PolicyOK
  <2> QED
    BY <2>3, <2>4, <2>5, <2>6 DEF Typed
<1>8. ASSUME NEW c \in Slots, SaveUndo(c) PROVE Typed'
  <2> SessionOf[c] \in Sessions /\ StateOK(call[c]) /\ call \in [Slots -> CallState]
    BY <1>0, Shape DEF CallsOK
  <2>1. StateOK([call[c] EXCEPT !.stage = "saved"])
    BY <1>8 DEF SaveUndo, At, StateOK, CallState, Stages
  <2>2. CallsOK'
    BY <1>0, <1>8, <2>1, GotoShape DEF SaveUndo, Stages
  <2>3. StoreOK'
    BY <1>0, <1>8, BytesShape DEF SaveUndo, At, StoreOK, StateOK, EntryOf, Entry
  <2>4. AnchorsOK'
    BY <1>0, <1>8 DEF SaveUndo, AnchorsOK
  <2>5. PolicyOK'
    BY <1>0, <1>8 DEF SaveUndo, PolicyOK
  <2> QED
    BY <2>2, <2>3, <2>4, <2>5 DEF Typed
<1>9. ASSUME NEW c \in Slots, UndoUnavailable(c) PROVE Typed'
  <2> SessionOf[c] \in Sessions /\ StateOK(call[c]) /\ call \in [Slots -> CallState]
    BY <1>0, Shape DEF CallsOK
  <2>1. CallsOK'
    BY <1>0, <1>9, EndShape DEF UndoUnavailable
  <2>2. StoreOK'
    BY <1>0, <1>9 DEF UndoUnavailable, StoreOK
  <2>3. AnchorsOK'
    BY <1>0, <1>9 DEF UndoUnavailable, AnchorsOK
  <2>4. PolicyOK'
    BY <1>0, <1>9 DEF UndoUnavailable, PolicyOK
  <2> QED
    BY <2>1, <2>2, <2>3, <2>4 DEF Typed
<1>10. ASSUME NEW c \in Slots, WriteEdit(c) PROVE Typed'
  <2> SessionOf[c] \in Sessions /\ StateOK(call[c]) /\ call \in [Slots -> CallState]
    BY <1>0, Shape DEF CallsOK
  <2>1. StateOK([call[c] EXCEPT !.stage = "wrote"])
    BY <1>10 DEF WriteEdit, At, StateOK, CallState, Stages
  <2>2. CallsOK'
    BY <1>0, <1>10, <2>1, GotoShape DEF WriteEdit, Stages
  <2>3. StoreOK'
    BY <1>0, <1>10, BytesShape DEF WriteEdit, At, Write, StoreOK, StateOK, EntryOf, Entry
  <2>4. AnchorsOK'
    BY <1>0, <1>10 DEF WriteEdit, AnchorsOK
  <2>5. PolicyOK'
    BY <1>0, <1>10, WriteShape DEF WriteEdit
  <2> QED
    BY <2>2, <2>3, <2>4, <2>5 DEF Typed
<1>11. ASSUME NEW c \in Slots, EditFails(c) PROVE Typed'
  <2> SessionOf[c] \in Sessions /\ StateOK(call[c]) /\ call \in [Slots -> CallState]
    BY <1>0, Shape DEF CallsOK
  <2>1. StateOK([call[c] EXCEPT !.stage = "restore"])
    BY <1>11 DEF EditFails, At, StateOK, CallState, Stages
  <2>2. End(c) \/ Goto(c, "restore")
    BY <1>11 DEF EditFails
  <2>3. CallsOK'
    BY <1>0, <2>1, <2>2, EndShape, GotoShape DEF Stages
  <2>4. StoreOK'
    BY <1>0, <1>11 DEF EditFails, WriteFails, StoreOK
  <2>5. AnchorsOK'
    BY <1>0, <1>11 DEF EditFails, AnchorsOK
  <2>6. PolicyOK'
    BY <1>0, <1>11 DEF EditFails, WriteFails, PolicyOK
  <2> QED
    BY <2>3, <2>4, <2>5, <2>6 DEF Typed
<1>12. ASSUME NEW c \in Slots, RestoreUndo(c) PROVE Typed'
  <2> SessionOf[c] \in Sessions /\ StateOK(call[c]) /\ call \in [Slots -> CallState]
    BY <1>0, Shape DEF CallsOK
  <2>1. CallsOK'
    BY <1>0, <1>12, EndShape DEF RestoreUndo
  <2>2. StoreOK'
    BY <1>0, <1>12 DEF RestoreUndo, StoreOK, StateOK, CallState
  <2>3. AnchorsOK'
    BY <1>0, <1>12 DEF RestoreUndo, AnchorsOK
  <2>4. PolicyOK'
    BY <1>0, <1>12 DEF RestoreUndo, PolicyOK
  <2> QED
    BY <2>1, <2>2, <2>3, <2>4 DEF Typed
<1>13. ASSUME NEW c \in Slots, RetireFreed(c) PROVE Typed'
  <2> SessionOf[c] \in Sessions /\ StateOK(call[c]) /\ call \in [Slots -> CallState]
    BY <1>0, Shape DEF CallsOK
  <2>1. StateOK([call[c] EXCEPT !.stage = "freed"])
    BY <1>13 DEF RetireFreed, At, StateOK, CallState, Stages
  <2>2. CallsOK'
    BY <1>0, <1>13, <2>1, GotoShape DEF RetireFreed, Stages
  <2>3. StoreOK'
    BY <1>0, <1>13 DEF RetireFreed, StoreOK
  <2>4. LinesOf[call[c].saw.text] \in SUBSET Lines
    BY <1>13, Shape, BytesShape DEF RetireFreed, At, StateOK
  <2>5. AnchorsOK'
    BY <1>0, <1>13, <2>4 DEF RetireFreed, AnchorsOK
  <2>6. PolicyOK'
    BY <1>0, <1>13 DEF RetireFreed, PolicyOK
  <2> QED
    BY <2>2, <2>3, <2>5, <2>6 DEF Typed
<1>14. ASSUME NEW c \in Slots, ServeDiff(c) PROVE Typed'
  <2> SessionOf[c] \in Sessions /\ StateOK(call[c]) /\ call \in [Slots -> CallState]
    BY <1>0, Shape DEF CallsOK
  <2>1. CallsOK'
    BY <1>0, <1>14, EndShape DEF ServeDiff
  <2>2. StoreOK'
    BY <1>0, <1>14 DEF ServeDiff, StoreOK
  <2> DEFINE text == call[c].goal.text
  <2>3. LinesOf[text] \in SUBSET Lines
    BY <1>14, Shape, BytesShape DEF ServeDiff, At, StateOK
  <2>4. PICK rows \in SUBSET LinesOf[text] : Serve(SessionOf[c], text, rows) \/ ServeFails
    BY <1>14 DEF ServeDiff
  <2>5. AnchorsOK'
    BY <1>0, <1>14, <2>3, <2>4, ServeShape DEF ServeDiff, AnchorsOK
  <2>6. PolicyOK'
    BY <1>0, <1>14 DEF ServeDiff, PolicyOK
  <2> QED
    BY <2>1, <2>2, <2>5, <2>6 DEF Typed
<1>15. ASSUME NEW c \in Slots, LoadUndo(c) PROVE Typed'
  <2> SessionOf[c] \in Sessions /\ StateOK(call[c]) /\ call \in [Slots -> CallState]
    BY <1>0, Shape DEF CallsOK
  <2> DEFINE st == [Ended EXCEPT !.stage = "loaded", !.row = undo, !.held = Live(SessionOf[c])]
  <2>1. StateOK(st)
    BY <1>0, <1>15, EndedOK DEF LoadUndo, StateOK, StoreOK, CallState, Stages, Ended,
       Live, AnchorsOK, Lines
  <2>2. Start(c, st)
    BY <1>15 DEF LoadUndo
  <2>3. CallsOK' /\ budget' \in [calls : Nat, outside : Nat]
    BY <1>0, <2>1, <2>2, StartShape DEF StoreOK
  <2>4. StoreOK'
    BY <1>0, <1>15, <2>3 DEF LoadUndo, StoreOK
  <2>5. AnchorsOK'
    BY <1>0, <1>15 DEF LoadUndo, AnchorsOK
  <2>6. PolicyOK'
    BY <1>0, <1>15 DEF LoadUndo, PolicyOK
  <2> QED
    BY <2>3, <2>4, <2>5, <2>6 DEF Typed
<1>16. ASSUME NEW c \in Slots, MatchFile(c) PROVE Typed'
  <2> SessionOf[c] \in Sessions /\ StateOK(call[c]) /\ call \in [Slots -> CallState]
    BY <1>0, Shape DEF CallsOK
  <2> DEFINE st == [call[c] EXCEPT !.stage = "matched", !.saw = disk, !.goal =
     RevertedBytes(call[c].row)]
  <2>1. call[c].row \in Entry
    BY <1>16 DEF MatchFile, At, StateOK
  <2>2. disk \in Raw /\ RevertedBytes(call[c].row) \in Raw
    BY <1>16, <2>1, BytesShape DEF MatchFile, ResultBytes, RevertedBytes, Entry
  <2>3. StateOK(st)
    BY <1>16, <2>1, <2>2 DEF MatchFile, At, StateOK, CallState, Stages
  <2>4. call' = [call EXCEPT ![c] = st]
    BY <1>16 DEF MatchFile
  <2>5. CallsOK'
    BY <1>0, <2>3, <2>4, OneCallMoves
  <2>6. StoreOK'
    BY <1>0, <1>16 DEF MatchFile, StoreOK
  <2>7. AnchorsOK'
    BY <1>0, <1>16 DEF MatchFile, AnchorsOK
  <2>8. PolicyOK'
    BY <1>0, <1>16 DEF MatchFile, PolicyOK
  <2> QED
    BY <2>5, <2>6, <2>7, <2>8 DEF Typed
<1>17. ASSUME NEW c \in Slots, FindStale(c) PROVE Typed'
  <2> SessionOf[c] \in Sessions /\ StateOK(call[c]) /\ call \in [Slots -> CallState]
    BY <1>0, Shape DEF CallsOK
  <2>1. StateOK([call[c] EXCEPT !.stage = "stale"])
    BY <1>17 DEF FindStale, At, StateOK, CallState, Stages
  <2>2. CallsOK'
    BY <1>0, <1>17, <2>1, GotoShape DEF FindStale, Stages
  <2>3. StoreOK'
    BY <1>0, <1>17 DEF FindStale, StoreOK
  <2>4. AnchorsOK'
    BY <1>0, <1>17 DEF FindStale, AnchorsOK
  <2>5. PolicyOK'
    BY <1>0, <1>17 DEF FindStale, PolicyOK
  <2> QED
    BY <2>2, <2>3, <2>4, <2>5 DEF Typed
<1>18. ASSUME NEW c \in Slots, ClearUndo(c) PROVE Typed'
  <2> SessionOf[c] \in Sessions /\ StateOK(call[c]) /\ call \in [Slots -> CallState]
    BY <1>0, Shape DEF CallsOK
  <2>1. CallsOK'
    BY <1>0, <1>18, EndShape DEF ClearUndo
  <2>2. StoreOK'
    BY <1>0, <1>18 DEF ClearUndo, StoreOK
  <2>3. AnchorsOK'
    BY <1>0, <1>18 DEF ClearUndo, AnchorsOK
  <2>4. PolicyOK'
    BY <1>0, <1>18 DEF ClearUndo, PolicyOK
  <2> QED
    BY <2>1, <2>2, <2>3, <2>4 DEF Typed
<1>19. ASSUME NEW c \in Slots, WriteRevert(c) PROVE Typed'
  <2> SessionOf[c] \in Sessions /\ StateOK(call[c]) /\ call \in [Slots -> CallState]
    BY <1>0, Shape DEF CallsOK
  <2>1. StateOK([call[c] EXCEPT !.stage = "reverted"])
    BY <1>19 DEF WriteRevert, At, StateOK, CallState, Stages
  <2>2. CallsOK'
    BY <1>0, <1>19, <2>1, GotoShape DEF WriteRevert, Stages
  <2>3. StoreOK'
    BY <1>0, <1>19, BytesShape DEF WriteRevert, At, Write, StoreOK, StateOK, EntryOf, Entry
  <2>4. AnchorsOK'
    BY <1>0, <1>19 DEF WriteRevert, AnchorsOK
  <2>5. PolicyOK'
    BY <1>0, <1>19, WriteShape DEF WriteRevert
  <2> QED
    BY <2>2, <2>3, <2>4, <2>5 DEF Typed
<1>20. ASSUME NEW c \in Slots, RevertFails(c) PROVE Typed'
  <2> SessionOf[c] \in Sessions /\ StateOK(call[c]) /\ call \in [Slots -> CallState]
    BY <1>0, Shape DEF CallsOK
  <2>1. CallsOK'
    BY <1>0, <1>20, EndShape DEF RevertFails
  <2>2. StoreOK'
    BY <1>0, <1>20 DEF RevertFails, WriteFails, StoreOK
  <2>3. AnchorsOK'
    BY <1>0, <1>20 DEF RevertFails, AnchorsOK
  <2>4. PolicyOK'
    BY <1>0, <1>20 DEF RevertFails, WriteFails, PolicyOK
  <2> QED
    BY <2>1, <2>2, <2>3, <2>4 DEF Typed
<1>21. ASSUME NEW c \in Slots, CommitRevert(c) PROVE Typed'
  <2> SessionOf[c] \in Sessions /\ StateOK(call[c]) /\ call \in [Slots -> CallState]
    BY <1>0, Shape DEF CallsOK
  <2>1. StateOK([call[c] EXCEPT !.stage = "committed"])
    BY <1>21 DEF CommitRevert, At, StateOK, CallState, Stages
  <2>2. CallsOK'
    BY <1>0, <1>21, <2>1, GotoShape DEF CommitRevert, Stages
  <2>3. StoreOK'
    BY <1>0, <1>21 DEF CommitRevert, StoreOK
  <2>4. LinesOf[call[c].saw.text] \in SUBSET Lines
    BY <1>21, Shape, BytesShape DEF CommitRevert, At, StateOK
  <2>5. Adopting({call[c].goal.text}) \in [Sessions -> SUBSET Lines]
    BY <1>0, AdoptingShape
  <2>6. AnchorsOK'
    BY <1>0, <1>21, <2>4, <2>5 DEF CommitRevert, AnchorsOK
  <2>7. PolicyOK'
    BY <1>0, <1>21 DEF CommitRevert, PolicyOK
  <2> QED
    BY <2>2, <2>3, <2>6, <2>7 DEF Typed
<1>22. ASSUME NEW c \in Slots, RevertNotRecorded(c) PROVE Typed'
  <2> SessionOf[c] \in Sessions /\ StateOK(call[c]) /\ call \in [Slots -> CallState]
    BY <1>0, Shape DEF CallsOK
  <2>1. CallsOK'
    BY <1>0, <1>22, EndShape DEF RevertNotRecorded
  <2>2. StoreOK'
    BY <1>0, <1>22 DEF RevertNotRecorded, StoreOK
  <2>3. AnchorsOK'
    BY <1>0, <1>22 DEF RevertNotRecorded, AnchorsOK
  <2>4. PolicyOK'
    BY <1>0, <1>22 DEF RevertNotRecorded, PolicyOK
  <2> QED
    BY <2>1, <2>2, <2>3, <2>4 DEF Typed
<1>23. ASSUME NEW c \in Slots, ServeRevert(c) PROVE Typed'
  <2> SessionOf[c] \in Sessions /\ StateOK(call[c]) /\ call \in [Slots -> CallState]
    BY <1>0, Shape DEF CallsOK
  <2>1. CallsOK'
    BY <1>0, <1>23, EndShape DEF ServeRevert
  <2>2. StoreOK'
    BY <1>0, <1>23 DEF ServeRevert, StoreOK
  <2> DEFINE text == call[c].goal.text
  <2>3. LinesOf[text] \in SUBSET Lines
    BY <1>23, Shape, BytesShape DEF ServeRevert, At, StateOK
  <2>4. AnchorsOK'
    BY <1>0, <1>23, <2>3, ServeShape DEF ServeRevert, AnchorsOK
  <2>5. PolicyOK'
    BY <1>0, <1>23 DEF ServeRevert, PolicyOK
  <2> QED
    BY <2>1, <2>2, <2>4, <2>5 DEF Typed
<1>24. ASSUME NEW c \in Slots, WriteByOtherTool(c) PROVE Typed'
  <2>1. PICK raw \in [text : Texts, end : Endings \ {"mixed"}] : Write(SessionOf[c], raw)
    BY <1>24 DEF WriteByOtherTool
  <2>2. raw \in Raw
    BY FileAssumption DEF Raw
  <2>3. StoreOK'
    BY <1>0, <1>24, <2>1, <2>2 DEF WriteByOtherTool, Write, StoreOK
  <2>4. AnchorsOK' /\ CallsOK'
    BY <1>0, <1>24 DEF WriteByOtherTool, AnchorsOK, CallsOK, StateOK
  <2>5. PolicyOK'
    BY <1>0, <2>1, Shape, WriteShape
  <2> QED
    BY <2>3, <2>4, <2>5 DEF Typed
<1>25. CASE WriteOutside
  <2>1. StoreOK'
    BY <1>0, <1>25, FileAssumption DEF WriteOutside, StoreOK, Raw
  <2>2. AnchorsOK' /\ CallsOK' /\ PolicyOK'
    BY <1>0, <1>25
       DEF WriteOutside, AnchorsOK, CallsOK, StateOK, PolicyOK, Outdated, Versions
  <2> QED
    BY <2>1, <2>2 DEF Typed
<1>26. CASE Crash
  <2>1. StoreOK' /\ AnchorsOK' /\ PolicyOK'
    BY <1>0, <1>26 DEF Crash, StoreOK, AnchorsOK, PolicyOK, Versions
  <2>2. CallsOK'
    BY <1>26, EndedOK DEF Crash, CallsOK, StateOK
  <2> QED
    BY <2>1, <2>2 DEF Typed
<1>27. CASE UNCHANGED vars
  BY <1>0, <1>27 DEF vars, Typed, StoreOK, AnchorsOK, PolicyOK, CallsOK, StateOK
<1>28. ASSUME NEW c \in Slots, EditorStep(c) PROVE Typed'
  BY <1>28, EditorTyped
<1> QED
  BY <1>1, <1>2, <1>3, <1>4, <1>5, <1>6, <1>7, <1>8, <1>9, <1>10, <1>11, <1>12, <1>13,
     <1>14, <1>15, <1>16, <1>17, <1>18, <1>19, <1>20, <1>21, <1>22, <1>23, <1>24, <1>25,
     <1>26, <1>27, <1>28 DEF Next, Step, ReadStep, EditStep, UndoStep

\* What is known of the encoding state is one of the three.
LEMMA StepMemo == MemoOK /\ [Next]_vars => MemoOK'
<1> SUFFICES ASSUME MemoOK, [Next]_vars PROVE MemoOK'
  OBVIOUS
<1> USE DEF MemoOK, Versions
<1>0. Invalidated \in Versions /\ \A v \in Versions : Outdated(v) \in Versions
  BY DEF Invalidated, Outdated
<1>1. ASSUME NEW c \in Slots, ReadStep(c) PROVE MemoOK'
  BY <1>1 DEF ReadStep, Read, ServeRead, Observe, Recorded
<1>2. ASSUME NEW c \in Slots, EditStep(c) PROVE MemoOK'
  BY <1>0, <1>2 DEF EditStep, OpenFile, Apply, Reject, ReadPrevious, SaveUndo,
     UndoUnavailable, WriteEdit, EditFails, RestoreUndo, RetireFreed, ServeDiff,
     Recorded, Write, WriteFails
<1>3. ASSUME NEW c \in Slots, UndoStep(c) PROVE MemoOK'
  BY <1>0, <1>3 DEF UndoStep, LoadUndo, MatchFile, FindStale, ClearUndo, WriteRevert,
     RevertFails, CommitRevert, RevertNotRecorded, ServeRevert, Write, WriteFails
<1>4. ASSUME NEW c \in Slots, EditorStep(c) PROVE MemoOK'
  BY <1>0, <1>4 DEF EditorStep, View, PassGate, RefuseBlind, FetchText, NoMatch,
     PrepareForSave, WriteReplaced, ReplaceFails, Answer, Create, WriteCreated,
     CreateFails, RecordCreated, Recorded, Write, WriteFails
<1>5. ASSUME NEW c \in Slots, WriteByOtherTool(c) PROVE MemoOK'
  BY <1>0, <1>5 DEF WriteByOtherTool, Write
<1>6. CASE WriteOutside \/ Crash \/ UNCHANGED vars
  BY <1>0, <1>6 DEF WriteOutside, Crash, vars
<1> QED
  BY <1>1, <1>2, <1>3, <1>4, <1>5, <1>6 DEF Next, Step

-----------------------------------------------------------------------------
\* A call between its read and its write.
InFlight(st) ==
    st.stage \in {"opened", "applied", "previous", "saved", "matched",
                  "fetched", "prepared", "creating"}

\* A session that has observed the current version read it, if it has a call
\* in flight, in that call.
Fresh ==
    \A c \in Slots :
        InFlight(call[c]) /\ observed[SessionOf[c]] = "current" => disk = call[c].saw

\* One call at a time in each session.
Serial == \A c, e \in Slots : SessionOf[c] = SessionOf[e] => c = e

Plain(raw) == raw.end # "mixed"

Exact(row) == RevertedBytes(row) = row.was

\* What a call holds when no file has mixed endings.
Faithful(st) ==
    /\ st.stage \in {"opened", "applied", "previous", "saved"} => Plain(st.saw)
    /\ st.stage \in {"applied", "previous", "saved", "matched", "prepared", "creating"} =>
          Plain(st.goal)
    /\ st.row # NoUndo => Exact(st.row)
    /\ st.stage \in {"loaded", "matched"} => Exact(st.row)
    /\ st.stage = "matched" =>
          st.saw = ResultBytes(st.row) /\ st.goal = RevertedBytes(st.row)

\* Without mixed endings nothing is lost between bytes, rows and bytes.
Lossless ==
    /\ disk # NoFile => Plain(disk)
    /\ undo # NoUndo => Exact(undo)
    /\ \A c \in Slots : Faithful(call[c])

-----------------------------------------------------------------------------
\* The actions of one call.
CallStep(c) == ReadStep(c) \/ EditStep(c) \/ UndoStep(c) \/ EditorStep(c)

\* Those that change the disk.
Writes(c) == WriteEdit(c) \/ WriteRevert(c) \/ WriteReplaced(c) \/ WriteCreated(c)

\* A step of one call leaves the others as they are.
LEMMA OthersStay ==
    ASSUME Typed, NEW c \in Slots, CallStep(c), NEW e \in Slots, e # c
    PROVE  call'[e] = call[e]
<1>0. call \in [Slots -> CallState]
  BY DEF Typed, CallsOK
<1>1. CASE ReadStep(c)
  BY <1>0, <1>1 DEF ReadStep, Read, ServeRead, Observe, Start, Goto, End
<1>2. CASE EditStep(c)
  BY <1>0, <1>2 DEF EditStep, OpenFile, Apply, Reject, ReadPrevious, SaveUndo,
     UndoUnavailable, WriteEdit, EditFails, RestoreUndo, RetireFreed, ServeDiff,
     Start, Goto, End
<1>3. CASE UndoStep(c)
  BY <1>0, <1>3 DEF UndoStep, LoadUndo, MatchFile, FindStale, ClearUndo, WriteRevert,
     RevertFails, CommitRevert, RevertNotRecorded, ServeRevert, Start, Goto, End
<1>4. CASE EditorStep(c)
  BY <1>0, <1>4 DEF EditorStep, View, PassGate, RefuseBlind, FetchText, NoMatch,
     PrepareForSave, WriteReplaced, ReplaceFails, Answer, Create, WriteCreated,
     CreateFails, RecordCreated, Start, Goto, End
<1> QED
  BY <1>1, <1>2, <1>3, <1>4 DEF CallStep

\* A call that is in flight after a step has just read the disk, or was in
\* flight already with the same bytes.
LEMMA FlightKeepsWhatItSaw ==
    ASSUME Typed, NEW c \in Slots, CallStep(c), InFlight(call'[c])
    PROVE  call'[c].saw = disk \/ (InFlight(call[c]) /\ call'[c].saw = call[c].saw)
<1>0. call \in [Slots -> CallState]
  BY DEF Typed, CallsOK
<1>1. ASSUME NEW stage, Goto(c, stage)
      PROVE  call'[c].stage = stage /\ call'[c].saw = call[c].saw
  BY <1>0, <1>1 DEF Goto, CallState
<1>2. ~End(c)
  BY <1>0 DEF End, Ended, InFlight
<1>3. CASE ReadStep(c)
  <2>1. ~Read(c)
    BY <1>0 DEF Read, Start, Ended, InFlight
  <2>2. ~ServeRead(c)
    BY <1>1 DEF ServeRead, InFlight
  <2> QED
    BY <1>2, <1>3, <2>1, <2>2 DEF ReadStep, Observe
<1>4. CASE EditStep(c)
  <2>1. CASE OpenFile(c)
    BY <1>0, <2>1 DEF OpenFile, Start, Ended
  <2>2. CASE Apply(c)
    BY <1>0, <2>2 DEF Apply, At, InFlight, CallState
  <2>3. CASE ReadPrevious(c)
    BY <1>0, <2>3 DEF ReadPrevious, At, InFlight, CallState
  <2>4. CASE SaveUndo(c)
    BY <1>1, <2>4 DEF SaveUndo, At, InFlight
  <2>5. ~WriteEdit(c) /\ ~RetireFreed(c)
    BY <1>1 DEF WriteEdit, RetireFreed, InFlight
  <2>6. ~EditFails(c)
    BY <1>1, <1>2 DEF EditFails, InFlight
  <2> QED
    BY <1>2, <1>4, <2>1, <2>2, <2>3, <2>4, <2>5, <2>6
       DEF EditStep, Reject, UndoUnavailable, RestoreUndo, ServeDiff
<1>5. CASE UndoStep(c)
  <2>1. ~LoadUndo(c)
    BY <1>0 DEF LoadUndo, Start, Ended, InFlight
  <2>2. CASE MatchFile(c)
    BY <1>0, <2>2 DEF MatchFile, CallState
  <2>3. ~FindStale(c) /\ ~WriteRevert(c) /\ ~CommitRevert(c)
    BY <1>1 DEF FindStale, WriteRevert, CommitRevert, InFlight
  <2> QED
    BY <1>2, <1>5, <2>1, <2>2, <2>3
       DEF UndoStep, ClearUndo, RevertFails, RevertNotRecorded, ServeRevert
<1>6. CASE EditorStep(c)
  <2>1. ~View(c) /\ ~WriteReplaced(c) /\ ~WriteCreated(c)
    BY <1>1 DEF View, WriteReplaced, WriteCreated, InFlight
  <2>2. ~PassGate(c) /\ ~RefuseBlind(c)
    BY <1>0 DEF PassGate, RefuseBlind, Start, Ended, InFlight
  <2>3. CASE FetchText(c)
    BY <1>0, <1>2, <2>3 DEF FetchText, CallState
  <2>4. CASE PrepareForSave(c)
    BY <1>0, <2>4 DEF PrepareForSave, At, InFlight, CallState
  <2>5. CASE Create(c)
    BY <1>0, <2>5 DEF Create, Start, Ended
  <2> QED
    BY <1>2, <1>6, <2>1, <2>2, <2>3, <2>4, <2>5
       DEF EditorStep, NoMatch, ReplaceFails, Answer, CreateFails, RecordCreated
<1> QED
  BY <1>3, <1>4, <1>5, <1>6 DEF CallStep

\* A step of a call changes the disk only by its write, after which the other
\* sessions have not observed it, and observes it only when it ends a read.
LEMMA DiskAndObservations ==
    ASSUME Typed, NEW c \in Slots, CallStep(c)
    PROVE  \/ disk' = disk /\ observed' = observed
           \/ ~InFlight(call'[c]) /\ disk' = disk
                /\ \A s \in Sessions : s # SessionOf[c] => observed'[s] = observed[s]
           \/ ~InFlight(call'[c])
                /\ \A s \in Sessions : s # SessionOf[c] => observed'[s] # "current"
<1>0. call \in [Slots -> CallState] /\ observed \in [Sessions -> Versions]
  BY DEF Typed, CallsOK, PolicyOK
<1>1. ASSUME NEW bytes, NEW stage, Write(SessionOf[c], bytes), Goto(c, stage),
             stage \in {"wrote", "reverted", "replaced", "created"}
      PROVE  /\ ~InFlight(call'[c])
             /\ \A s \in Sessions : s # SessionOf[c] => observed'[s] # "current"
  BY <1>0, <1>1 DEF Write, Outdated, Goto, InFlight, CallState
<1>2. CASE Writes(c)
  BY <1>1, <1>2 DEF Writes, WriteEdit, WriteRevert, WriteReplaced, WriteCreated
<1>3. CASE Observe(c)
  BY <1>0, <1>3 DEF Observe, End, Ended, InFlight
<1>4. CASE ~Writes(c) /\ ~Observe(c)
  BY <1>4 DEF Writes, CallStep, ReadStep, EditStep, UndoStep, Read, ServeRead,
     OpenFile, Apply, Reject, ReadPrevious, SaveUndo, WriteFails,
     UndoUnavailable, EditFails, RestoreUndo, RetireFreed, ServeDiff,
     LoadUndo, MatchFile, FindStale, ClearUndo, RevertFails, CommitRevert,
     RevertNotRecorded, ServeRevert, EditorStep, View, PassGate, RefuseBlind, FetchText, NoMatch,
     PrepareForSave, WriteReplaced, ReplaceFails, Answer, Create, WriteCreated,
     CreateFails, RecordCreated
<1> QED
  BY <1>2, <1>3, <1>4

\* Nothing is in flight at first.
LEMMA InitFresh == Init => Fresh
  BY DEF Init, Fresh, InFlight, Ended

\* With one call at a time in each session, every step keeps Fresh.
LEMMA StepFresh == Serial /\ Typed /\ Fresh /\ [Next]_vars => Fresh'
<1> SUFFICES ASSUME Serial, Typed, Fresh, [Next]_vars, NEW e \in Slots,
                    InFlight(call'[e]), observed'[SessionOf[e]] = "current"
             PROVE  disk' = call'[e].saw
  BY DEF Fresh
<1>0. SessionOf[e] \in Sessions
  BY Shape
<1>1. ASSUME NEW c \in Slots, CallStep(c) PROVE disk' = call'[e].saw
  <2>1. CASE e = c
    <3>1. (disk' = disk /\ observed' = observed) \/ ~InFlight(call'[e])
      BY <1>1, <2>1, DiskAndObservations
    <3>2. disk' = disk /\ observed' = observed
      BY <3>1
    <3>3. call'[e].saw = disk \/ (InFlight(call[e]) /\ call'[e].saw = call[e].saw)
      BY <1>1, <2>1, FlightKeepsWhatItSaw
    <3> QED
      BY <3>2, <3>3 DEF Fresh
  <2>2. CASE e # c
    <3>1. call'[e] = call[e]
      BY <1>1, <2>2, OthersStay
    <3>2. SessionOf[e] # SessionOf[c]
      BY <2>2 DEF Serial
    <3>3. disk' = disk /\ observed'[SessionOf[e]] = observed[SessionOf[e]]
      BY <1>0, <1>1, <3>2, DiskAndObservations
    <3> QED
      BY <3>1, <3>3 DEF Fresh
  <2> QED
    BY <2>1, <2>2
<1>2. ASSUME NEW c \in Slots, WriteByOtherTool(c) PROVE disk' = call'[e].saw
  <2>1. SessionOf[e] = SessionOf[c]
    BY <1>0, <1>2 DEF WriteByOtherTool, Write, Outdated
  <2>2. call[e].stage = "idle"
    BY <1>2, <2>1 DEF Serial, WriteByOtherTool, At
  <2> QED
    BY <1>2, <2>2 DEF WriteByOtherTool, InFlight
<1>3. CASE WriteOutside
  BY <1>0, <1>3 DEF WriteOutside, Outdated
<1>4. CASE Crash
  BY <1>4 DEF Crash, Ended, InFlight
<1>5. CASE UNCHANGED vars
  BY <1>5 DEF vars, Fresh
<1> QED
  BY <1>1, <1>2, <1>3, <1>4, <1>5 DEF Next, Step, CallStep

-----------------------------------------------------------------------------
\* Bytes whose breaks are all the same are what their text and the ending
\* detected in them give back; bytes built by the code are of that kind.
LEMMA PlainRoundTrip ==
    /\ \A raw \in Raw : Plain(raw) => Bytes(raw.text, Detected(raw)) = raw
    /\ \A t : \A e \in {"lf", "crlf"} : Plain(Bytes(t, e))
  BY DEF Raw, Plain, Detected, Bytes

\* A call that holds nothing holds nothing that was lost.
LEMMA EndedFaithful == Faithful(Ended)
  BY DEF Faithful, Ended

\* Without mixed endings every file is what its text and its ending say.
LEMMA InitLossless == "mixed" \notin Endings /\ Init => Lossless
  BY EndedFaithful DEF Init, Lossless, Plain

\* What a call holds stays faithful through each of its steps.
LEMMA StepFaithful ==
    ASSUME "mixed" \notin Endings, Typed, Lossless, NEW c \in Slots, CallStep(c)
    PROVE  Faithful(call'[c])
<1>0. call \in [Slots -> CallState] /\ Faithful(call[c]) /\ StateOK(call[c])
  BY DEF Typed, CallsOK, Lossless
<1>1. ASSUME NEW stage, Goto(c, stage),
             stage \notin {"opened", "applied", "previous", "saved", "loaded", "matched",
                           "prepared", "creating"}
      PROVE  Faithful(call'[c])
  BY <1>0, <1>1 DEF Goto, CallState, Faithful
<1>2. CASE End(c)
  BY <1>0, <1>2, EndedFaithful DEF End
<1>3. CASE ReadStep(c)
  <2>1. CASE Read(c)
    BY <1>0, <2>1 DEF Read, Start, Ended, Faithful
  <2>2. CASE ServeRead(c)
    BY <1>1, <2>2 DEF ServeRead
  <2> QED
    BY <1>2, <1>3, <2>1, <2>2 DEF ReadStep, Observe
<1>4. CASE EditStep(c)
  <2>1. CASE OpenFile(c)
    BY <1>0, <2>1 DEF OpenFile, Start, Ended, Faithful, Lossless
  <2>2. CASE Apply(c)
    <3>1. PICK to \in Texts :
              call' = [call EXCEPT ![c].stage = "applied",
                                   ![c].goal = Bytes(to, Detected(call[c].saw))]
      BY <2>2 DEF Apply
    <3>2. At(c, "opened") /\ Plain(Bytes(to, Detected(call[c].saw)))
      BY <1>0, <2>2, BytesShape, PlainRoundTrip DEF Apply, At, StateOK
    <3> QED
      BY <1>0, <3>1, <3>2 DEF At, CallState, Faithful
  <2>3. CASE ReadPrevious(c)
    BY <1>0, <2>3 DEF ReadPrevious, At, CallState, Faithful, Lossless
  <2>4. CASE SaveUndo(c)
    BY <1>0, <2>4 DEF SaveUndo, At, Goto, CallState, Faithful
  <2>5. CASE WriteEdit(c) \/ RetireFreed(c) \/ EditFails(c)
    BY <1>1, <1>2, <2>5 DEF WriteEdit, RetireFreed, EditFails
  <2> QED
    BY <1>2, <1>4, <2>1, <2>2, <2>3, <2>4, <2>5
       DEF EditStep, Reject, UndoUnavailable, RestoreUndo, ServeDiff
<1>5. CASE UndoStep(c)
  <2>1. CASE LoadUndo(c)
    BY <1>0, <2>1 DEF LoadUndo, Start, Ended, Faithful, Lossless
  <2>2. CASE MatchFile(c)
    <3>1. Exact(call[c].row) /\ Plain(RevertedBytes(call[c].row))
      BY <1>0, <2>2, PlainRoundTrip
         DEF MatchFile, At, StateOK, Faithful, RevertedBytes, Entry
    <3> QED
      BY <1>0, <2>2, <3>1 DEF MatchFile, CallState, Faithful
  <2>3. CASE FindStale(c) \/ WriteRevert(c) \/ CommitRevert(c)
    BY <1>1, <2>3 DEF FindStale, WriteRevert, CommitRevert
  <2> QED
    BY <1>2, <1>5, <2>1, <2>2, <2>3
       DEF UndoStep, ClearUndo, RevertFails, RevertNotRecorded, ServeRevert
<1>6. CASE EditorStep(c)
  <2>1. CASE View(c) \/ WriteReplaced(c) \/ WriteCreated(c)
    BY <1>1, <2>1 DEF View, WriteReplaced, WriteCreated
  <2>2. CASE PassGate(c) \/ RefuseBlind(c)
    BY <1>0, <2>2 DEF PassGate, RefuseBlind, Start, Ended, Faithful
  <2>3. CASE FetchText(c)
    BY <1>0, <1>2, <2>3 DEF FetchText, At, CallState, Faithful
  <2>4. CASE PrepareForSave(c)
    <3>1. PICK to \in Texts :
              call' = [call EXCEPT ![c].stage = "prepared",
                                   ![c].goal = Bytes(to, Detected(call[c].saw))]
      BY <2>4 DEF PrepareForSave
    <3>2. Plain(Bytes(to, Detected(call[c].saw)))
      BY <1>0, <2>4, BytesShape, PlainRoundTrip DEF PrepareForSave, At, StateOK
    <3> QED
      BY <1>0, <3>1, <3>2 DEF CallState, Faithful
  <2>5. CASE Create(c)
    BY <1>0, <2>5 DEF Create, Start, Ended, Faithful, Plain
  <2> QED
    BY <1>2, <1>6, <2>1, <2>2, <2>3, <2>4, <2>5
       DEF EditorStep, NoMatch, ReplaceFails, Answer, CreateFails, RecordCreated
<1> QED
  BY <1>3, <1>4, <1>5, <1>6 DEF CallStep

\* The row an edit saves gives back the bytes it read.
LEMMA SavedRowExact ==
    ASSUME Typed, Lossless, NEW c \in Slots, At(c, "previous")
    PROVE  Exact(EntryOf(c))
<1>1. call[c].saw \in Raw /\ Plain(call[c].saw)
  BY DEF Typed, CallsOK, StateOK, Lossless, Faithful, At
<1> QED
  BY <1>1, PlainRoundTrip DEF Exact, EntryOf, RevertedBytes

\* Every step keeps what is on disk plain and what is stored exact.
LEMMA StepLossless ==
    "mixed" \notin Endings /\ Typed /\ Lossless /\ [Next]_vars => Lossless'
<1> SUFFICES ASSUME "mixed" \notin Endings, Typed, Lossless, [Next]_vars
             PROVE  Lossless'
  OBVIOUS
<1>1. ASSUME NEW c \in Slots, CallStep(c) PROVE Lossless'
  <2>1. \A e \in Slots : Faithful(call'[e])
    BY <1>1, StepFaithful, OthersStay DEF Lossless
  <2>2. disk' # NoFile => Plain(disk')
    <3>1. CASE Writes(c)
      BY <3>1 DEF Writes, WriteEdit, WriteRevert, WriteReplaced, WriteCreated, Write, At,
         Lossless, Faithful
    <3>2. CASE ~Writes(c)
      <4>1. disk' = disk
        BY <1>1, <3>2 DEF Writes, CallStep, ReadStep, EditStep, UndoStep, Read, ServeRead,
           Observe, OpenFile, Apply, Reject, ReadPrevious, SaveUndo, UndoUnavailable,
           EditFails, RestoreUndo, RetireFreed, ServeDiff, LoadUndo, MatchFile,
           FindStale, ClearUndo, RevertFails, CommitRevert, RevertNotRecorded,
           ServeRevert, WriteFails, EditorStep, View, PassGate, RefuseBlind, FetchText, NoMatch,
           PrepareForSave, WriteReplaced, ReplaceFails, Answer, Create, WriteCreated,
           CreateFails, RecordCreated
      <4> QED
        BY <4>1 DEF Lossless
    <3> QED
      BY <3>1, <3>2
  <2>3. undo' # NoUndo => Exact(undo')
    <3>1. CASE SaveUndo(c)
      BY <3>1, SavedRowExact DEF SaveUndo
    <3>2. CASE RestoreUndo(c)
      BY <3>2 DEF RestoreUndo, Lossless, Faithful
    <3>3. CASE ~SaveUndo(c) /\ ~RestoreUndo(c)
      <4>1. undo' = undo \/ undo' = NoUndo
        BY <1>1, <3>3 DEF CallStep, ReadStep, EditStep, UndoStep, Read, ServeRead,
           Observe, OpenFile, Apply, Reject, ReadPrevious, UndoUnavailable, WriteEdit,
           EditFails, RetireFreed, ServeDiff, LoadUndo, MatchFile, FindStale,
           ClearUndo, WriteRevert, RevertFails, CommitRevert, RevertNotRecorded,
           ServeRevert, EditorStep, View, PassGate, RefuseBlind, FetchText, NoMatch,
           PrepareForSave, WriteReplaced, ReplaceFails, Answer, Create, WriteCreated,
           CreateFails, RecordCreated
      <4> QED
        BY <4>1 DEF Lossless
    <3> QED
      BY <3>1, <3>2, <3>3
  <2> QED
    BY <2>1, <2>2, <2>3 DEF Lossless
<1>2. ASSUME NEW c \in Slots, WriteByOtherTool(c) PROVE Lossless'
  BY <1>2 DEF WriteByOtherTool, Write, Lossless, Plain, Faithful
<1>3. CASE WriteOutside
  BY <1>3 DEF WriteOutside, Lossless, Plain, Faithful
<1>4. CASE Crash
  BY <1>4, EndedFaithful DEF Crash, Lossless
<1>5. CASE UNCHANGED vars
  BY <1>5 DEF vars, Lossless, Faithful
<1> QED
  BY <1>1, <1>2, <1>3, <1>4, <1>5 DEF Next, Step, CallStep

-----------------------------------------------------------------------------
\* A call lands only by its own permitted write.
LEMMA LandsByWriting ==
    ASSUME Typed, NEW c \in Slots, [Next]_vars, Lands(c)
    PROVE  /\ Moves(c, "saved", "wrote") => WriteEdit(c)
           /\ Moves(c, "matched", "reverted") => WriteRevert(c)
           /\ Moves(c, "prepared", "replaced") => WriteReplaced(c)
           /\ Moves(c, "creating", "created") => WriteCreated(c)
<1>0. call \in [Slots -> CallState] /\ call'[c] # call[c] /\ ~At(c, "idle")
  BY DEF Typed, CallsOK, Lands, Moves, At
<1>1. ASSUME NEW e \in Slots, CallStep(e) PROVE e = c
  BY <1>0, <1>1, OthersStay
<1>2. ~WriteOutside /\ ~UNCHANGED vars /\ \A e \in Slots : ~WriteByOtherTool(e)
  BY <1>0 DEF WriteOutside, WriteByOtherTool, vars
<1>3. ~Crash
  BY DEF Crash, Ended, Lands, Moves
<1>4. CallStep(c)
  BY <1>1, <1>2, <1>3 DEF Next, Step, CallStep
<1>5. ~End(c)
  BY <1>0 DEF End, Ended, Lands, Moves
<1>6. \A stage : Goto(c, stage) => call'[c].stage = stage
  BY <1>0 DEF Goto, CallState
<1>7. ~ReadStep(c)
  BY <1>5, <1>6 DEF ReadStep, Read, ServeRead, Observe, Start, At, Lands, Moves
<1>8. CASE EditStep(c)
  <2>1. ~OpenFile(c) /\ ~Apply(c) /\ ~ReadPrevious(c) /\ ~SaveUndo(c) /\ ~RetireFreed(c)
    BY <1>6 DEF OpenFile, Start, Apply, ReadPrevious, SaveUndo, RetireFreed, At, Lands, Moves
  <2>2. ~EditFails(c)
    BY <1>5, <1>6 DEF EditFails, At, Lands, Moves
  <2> QED
    BY <1>5, <1>8, <2>1, <2>2
       DEF EditStep, Reject, UndoUnavailable, RestoreUndo, ServeDiff, WriteEdit, At, Moves
<1>9. CASE UndoStep(c)
  <2>1. ~LoadUndo(c) /\ ~MatchFile(c) /\ ~FindStale(c) /\ ~CommitRevert(c)
    BY <1>6 DEF LoadUndo, Start, MatchFile, FindStale, CommitRevert, At, Lands, Moves
  <2> QED
    BY <1>5, <1>9, <2>1
       DEF UndoStep, ClearUndo, RevertFails, RevertNotRecorded, ServeRevert, WriteRevert, At, Moves
<1>10. CASE EditorStep(c)
  <2>1. ~View(c) /\ ~PassGate(c) /\ ~RefuseBlind(c) /\ ~FetchText(c) /\ ~Create(c)
    BY <1>6 DEF View, PassGate, RefuseBlind, FetchText, Create, Start, At, Lands, Moves
  <2>2. ~PrepareForSave(c)
    BY DEF PrepareForSave, At, Lands, Moves
  <2> QED
    BY <1>5, <1>10, <2>1, <2>2 DEF EditorStep, NoMatch, ReplaceFails, Answer,
       CreateFails, RecordCreated, WriteReplaced, WriteCreated, At, Moves
<1> QED
  BY <1>4, <1>7, <1>8, <1>9, <1>10 DEF CallStep

\* Calls that overlap are remembered until all have ended, and no longer.
Orderly == (Overlap => crowded) /\ (Quiet => ~crowded)

\* The row of the last edit that landed, or what stands in its place once the
\* row was lost: nothing that an undo would take for a row of the file as it is.
Keeps(row) == row = last \/ (lapsed /\ (row = NoUndo \/ disk # ResultBytes(row)))

Kept == last # NoUndo => Keeps(undo)

\* What a call knows of the undo row at each of its stages: an edit keeps the
\* one it replaced until its own write has landed, a revert the one it applies.
RowKept(c) ==
    LET st == call[c]
    IN  /\ st.stage \in {"previous", "loaded"} => st.row = undo
        /\ st.stage \in {"applied", "previous", "saved"} => st.goal.end = Detected(st.saw)
        /\ st.stage \in {"applied", "previous"} => st.goal.text # st.saw.text
        /\ st.stage = "saved" => undo = EntryOf(c)
        /\ st.stage \in {"reverted", "committed"} => last = NoUndo
        /\ last # NoUndo =>
              /\ st.stage \in {"opened", "applied", "previous"} => st.saw = disk
              /\ st.stage \in {"saved", "restore"} =>
                    Keeps(st.row) /\ disk # ResultBytes(undo)
              /\ st.stage = "stale" => lapsed

Undoable ==
    /\ last # NoUndo => disk = ResultBytes(last) /\ ~crowded
    /\ (\A c \in Slots : call[c].stage \notin {"saved", "restore"}) => Kept
    /\ ~crowded => \A c \in Slots : RowKept(c)

\* A revert on its way still has the row and the anchors it started from.
Reverting ==
    ~crowded => \A c \in Slots : call[c].stage \in {"loaded", "matched", "reverted"} =>
        call[c].row = undo /\ call[c].held = Live(SessionOf[c])

\* A write of the edit leaves its result as its undo row describes it.
LEMMA ResultOfRow ==
    ASSUME Typed, NEW c \in Slots, At(c, "saved"), RowKept(c)
    PROVE  call[c].goal = ResultBytes(EntryOf(c))
<1>1. call[c].goal \in Raw /\ call[c].goal.end = Detected(call[c].saw)
  BY DEF Typed, CallsOK, StateOK, At, RowKept
<1> QED
  BY <1>1 DEF ResultBytes, EntryOf, Bytes, Raw

\* A call that moves on keeps what it holds.
Carries(c) ==
    /\ call'[c].batch = call[c].batch
    /\ call'[c].saw = call[c].saw
    /\ call'[c].goal = call[c].goal
    /\ call'[c].row = call[c].row
    /\ call'[c].held = call[c].held

LEMMA CallMoves ==
    ASSUME Typed, NEW c \in Slots
    PROVE  /\ \A stage : Goto(c, stage) => call'[c].stage = stage /\ Carries(c)
           /\ End(c) => call'[c] = Ended
           /\ \A st : Start(c, st) => call[c].stage = "idle" /\ call'[c] = st
<1>1. call \in [Slots -> CallState]
  BY DEF Typed, CallsOK
<1>2. ASSUME NEW stage, Goto(c, stage) PROVE call'[c].stage = stage /\ Carries(c)
  BY <1>1, <1>2 DEF Goto, CallState, Carries
<1> QED
  BY <1>1, <1>2 DEF End, Start, At

\* A call under way before a step that finds it idle has started in it.
LEMMA IdleStarts ==
    ASSUME NEW c \in Slots, CallStep(c), At(c, "idle")
    PROVE  \E st : Start(c, st)
<1>1. \/ Read(c) \/ OpenFile(c) \/ LoadUndo(c) \/ PassGate(c) \/ RefuseBlind(c) \/ Create(c)
  BY DEF At, CallStep, ReadStep, ServeRead, Observe,
     EditStep, Apply, Reject, ReadPrevious, SaveUndo, UndoUnavailable, WriteEdit,
     EditFails, RestoreUndo, RetireFreed, ServeDiff, UndoStep, MatchFile, FindStale,
     ClearUndo, WriteRevert, RevertFails, CommitRevert, RevertNotRecorded, ServeRevert,
     EditorStep, View, FetchText, NoMatch, PrepareForSave, WriteReplaced, ReplaceFails,
     Answer, WriteCreated, CreateFails, RecordCreated
<1> QED
  BY <1>1 DEF Read, OpenFile, LoadUndo, PassGate, RefuseBlind, Create

\* A step of a call remembers a row only when an edit lands while no calls
\* overlap, or keeps the one remembered.
LEMMA LastStays ==
    ASSUME NEW c \in Slots, CallStep(c), last' # NoUndo, last' # last
    PROVE  WriteEdit(c) /\ ~crowded
<1> USE DEF Forget, Lapse, history
<1>1. ~ReadStep(c)
  BY DEF ReadStep, Read, ServeRead, Observe, Start
<1>2. ~EditorStep(c)
  BY DEF EditorStep, View, PassGate, RefuseBlind, FetchText, NoMatch, PrepareForSave,
     WriteReplaced, ReplaceFails, Answer, Create, WriteCreated, CreateFails, RecordCreated, Start
<1>3. ~UndoStep(c)
  BY DEF UndoStep, LoadUndo, MatchFile, FindStale, ClearUndo, WriteRevert, RevertFails,
     CommitRevert, RevertNotRecorded, ServeRevert, Start
<1>4. CASE EditStep(c)
  BY <1>4 DEF EditStep, OpenFile, Apply, Reject, ReadPrevious, SaveUndo, UndoUnavailable,
     WriteEdit, EditFails, RestoreUndo, RetireFreed, ServeDiff, Start
<1> QED
  BY <1>1, <1>2, <1>3, <1>4 DEF CallStep

\* What is remembered of the past is of its type.
LEMMA StepHistory == Typed /\ HistoryOK /\ [Next]_vars => HistoryOK'
<1> SUFFICES ASSUME Typed, HistoryOK, [Next]_vars PROVE HistoryOK'
  OBVIOUS
<1> USE DEF Forget, Lapse, history, HistoryOK
<1>1. crowded' \in BOOLEAN
  BY DEF Next, Crowding, vars
<1>2. ASSUME NEW c \in Slots, CallStep(c) PROVE last' \in Entry \cup {NoUndo}
  <2>1. CASE WriteEdit(c)
    <3>1. call[c].saw \in Raw /\ call[c].goal \in Raw
      BY <2>1 DEF WriteEdit, At, Typed, CallsOK, StateOK
    <3>2. EntryOf(c) \in Entry
      BY <3>1, BytesShape DEF EntryOf, Entry
    <3> QED
      BY <2>1, <3>2 DEF WriteEdit
  <2> QED
    BY <1>2, <2>1, LastStays
<1>3. ASSUME NEW c \in Slots, CallStep(c) PROVE lapsed' \in BOOLEAN
  <2>1. CASE ReadStep(c)
    BY <2>1 DEF ReadStep, Read, ServeRead, Observe, Start
  <2>2. CASE EditStep(c)
    BY <2>2 DEF EditStep, OpenFile, Apply, Reject, ReadPrevious, SaveUndo, UndoUnavailable,
       WriteEdit, EditFails, RestoreUndo, RetireFreed, ServeDiff, Start
  <2>3. CASE UndoStep(c)
    BY <2>3 DEF UndoStep, LoadUndo, MatchFile, FindStale, ClearUndo, WriteRevert, RevertFails,
       CommitRevert, RevertNotRecorded, ServeRevert, Start
  <2>4. CASE EditorStep(c)
    BY <2>4 DEF EditorStep, View, PassGate, RefuseBlind, FetchText, NoMatch, PrepareForSave,
       WriteReplaced, ReplaceFails, Answer, Create, WriteCreated, CreateFails, RecordCreated,
       Start
  <2> QED
    BY <1>3, <2>1, <2>2, <2>3, <2>4 DEF CallStep
<1>4. CASE Crash \/ UNCHANGED vars
  BY <1>1, <1>4 DEF Crash, vars
<1> QED
  BY <1>1, <1>2, <1>3, <1>4 DEF Next, Step, CallStep, WriteByOtherTool, WriteOutside

\* What overlaps is remembered.
LEMMA StepOrderly == Orderly /\ [Next]_vars => Orderly'
<1> SUFFICES ASSUME Orderly, [Next]_vars PROVE Orderly'
  OBVIOUS
<1>1. CASE Crowding
  <2>1. Overlap' => ~Quiet'
    BY DEF Overlap, Quiet
  <2> QED
    BY <1>1, <2>1 DEF Crowding, Orderly
<1>2. CASE UNCHANGED vars
  BY <1>2 DEF vars, Orderly, Overlap, Quiet, At
<1> QED
  BY <1>1, <1>2 DEF Next

\* A call that is under way alone keeps what is known of its undo row.
LEMMA StepUndoableAlone ==
    ASSUME Typed, Undoable, ~crowded, crowded' = FALSE, NEW c \in Slots, CallStep(c),
           \A e \in Slots : e # c => At(e, "idle") /\ At(e, "idle")'
    PROVE  Undoable'
<1>0. RowKept(c) /\ call \in [Slots -> CallState]
  BY DEF Undoable, Typed, CallsOK
<1>00. \A e \in Slots : e # c => RowKept(e)' /\ call[e].stage = "idle"
  BY DEF RowKept, At
<1> SUFFICES /\ last' # NoUndo => disk' = ResultBytes(last')
             /\ call'[c].stage \notin {"saved", "restore"} => Kept'
             /\ RowKept(c)'
  BY <1>00 DEF Undoable
<1>1. call[c].stage \notin {"saved", "restore"} => Kept
  BY <1>00 DEF Undoable
<1>2. last # NoUndo => disk = ResultBytes(last)
  BY DEF Undoable
<1>3. \A stage : Goto(c, stage) => call'[c].stage = stage /\ Carries(c)
  BY CallMoves
<1>4. End(c) => call'[c] = Ended
  BY CallMoves
<1>50. At(c, "idle") => Quiet
  BY DEF Quiet
<1>5. \A st : Start(c, st) => call[c].stage = "idle" /\ call'[c] = st /\ UNCHANGED history
  BY <1>50, CallMoves DEF Start
<1> USE DEF history
<1>6. CASE ReadStep(c)
  <2>1. CASE Read(c)
    <3>1. call[c].stage = "idle" /\ call'[c].stage = "seen" /\ UNCHANGED history
      BY <1>0, <1>50, <2>1 DEF Read, Start, At, Ended
    <3> QED
      BY <1>1, <1>2, <2>1, <3>1 DEF Read, RowKept, Kept, Keeps
  <2>2. CASE ServeRead(c)
    BY <1>0, <1>1, <1>2, <1>3, <2>2 DEF ServeRead, At, RowKept, Kept, Keeps
  <2>3. CASE Observe(c)
    BY <1>0, <1>1, <1>2, <1>4, <2>3 DEF Observe, At, Ended, RowKept, Kept, Keeps
  <2> QED
    BY <1>6, <2>1, <2>2, <2>3 DEF ReadStep
<1>7. CASE EditorStep(c)
  <2>1. CASE View(c)
    BY <1>1, <1>2, <1>3, <2>1 DEF View, At, RowKept, Kept, Keeps
  <2>2. CASE PassGate(c)
    BY <1>1, <1>2, <1>5, <2>2 DEF PassGate, Ended, RowKept, Kept, Keeps
  <2>3. CASE RefuseBlind(c)
    BY <1>1, <1>2, <1>5, <2>3 DEF RefuseBlind, Ended, RowKept, Kept, Keeps
  <2>4. CASE FetchText(c)
    <3>1. At(c, "gated") /\ call'[c].stage \in {"idle", "fetched"}
      BY <1>0, <1>4, <2>4 DEF FetchText, Ended, CallState
    <3> QED
      BY <1>1, <1>2, <2>4, <3>1 DEF FetchText, At, RowKept, Kept, Keeps
  <2>5. CASE NoMatch(c)
    BY <1>1, <1>2, <1>4, <2>5 DEF NoMatch, At, Ended, RowKept, Kept, Keeps
  <2>6. CASE PrepareForSave(c)
    <3>1. At(c, "fetched") /\ call'[c].stage = "prepared"
      BY <1>0, <2>6 DEF PrepareForSave, CallState
    <3> QED
      BY <1>1, <1>2, <2>6, <3>1 DEF PrepareForSave, At, RowKept, Kept, Keeps
  <2>7. CASE WriteReplaced(c)
    BY <1>3, <2>7 DEF WriteReplaced, Forget, RowKept, Kept
  <2>8. CASE ReplaceFails(c)
    BY <1>1, <1>2, <1>4, <2>8 DEF ReplaceFails, WriteFails, At, Ended, RowKept, Kept, Keeps
  <2>9. CASE Answer(c)
    BY <1>1, <1>2, <1>4, <2>9 DEF Answer, At, Ended, RowKept, Kept, Keeps
  <2>10. CASE Create(c)
    <3>1. call[c].stage = "idle" /\ call'[c].stage = "creating" /\ UNCHANGED history
      BY <1>0, <1>50, <2>10 DEF Create, Start, At, Ended
    <3> QED
      BY <1>1, <1>2, <2>10, <3>1 DEF Create, RowKept, Kept, Keeps
  <2>11. CASE WriteCreated(c)
    BY <1>3, <2>11 DEF WriteCreated, Forget, RowKept, Kept
  <2>12. CASE CreateFails(c)
    BY <1>1, <1>2, <1>4, <2>12 DEF CreateFails, WriteFails, At, Ended, RowKept, Kept, Keeps
  <2>13. CASE RecordCreated(c)
    BY <1>1, <1>2, <1>4, <2>13 DEF RecordCreated, At, Ended, RowKept, Kept, Keeps
  <2> QED
    BY <1>7, <2>1, <2>2, <2>3, <2>4, <2>5, <2>6, <2>7, <2>8, <2>9, <2>10, <2>11, <2>12, <2>13 DEF EditorStep
<1>8. CASE EditStep(c)
  <2>1. CASE OpenFile(c)
    <3>1. /\ call[c].stage = "idle" /\ UNCHANGED history
          /\ call'[c].stage = "opened" /\ call'[c].saw = disk
      BY <1>0, <1>50, <2>1 DEF OpenFile, Start, At, Ended
    <3> QED
      BY <1>1, <1>2, <2>1, <3>1 DEF OpenFile, RowKept, Kept, Keeps
  <2>2. CASE Apply(c)
    <3>1. PICK to \in Texts \ {call[c].saw.text} :
              call' = [call EXCEPT ![c].stage = "applied",
                                   ![c].goal = Bytes(to, Detected(call[c].saw))]
      BY <2>2 DEF Apply
    <3>2. /\ At(c, "opened") /\ call'[c].stage = "applied" /\ call'[c].saw = call[c].saw
          /\ call'[c].goal = Bytes(to, Detected(call[c].saw))
      BY <1>0, <2>2, <3>1 DEF Apply, CallState
    <3>3. call'[c].goal.text # call'[c].saw.text /\ call'[c].goal.end = Detected(call'[c].saw)
      BY <3>2 DEF Bytes
    <3> QED
      BY <1>0, <1>1, <1>2, <2>2, <3>2, <3>3 DEF Apply, At, RowKept, Kept, Keeps
  <2>3. CASE ReadPrevious(c)
    <3>1. /\ At(c, "applied") /\ call'[c].stage = "previous" /\ call'[c].saw = call[c].saw
          /\ call'[c].goal = call[c].goal /\ call'[c].row = undo
      BY <1>0, <2>3 DEF ReadPrevious, CallState
    <3> QED
      BY <1>0, <1>1, <1>2, <2>3, <3>1 DEF ReadPrevious, At, RowKept, Kept, Keeps
  <2>4. CASE SaveUndo(c)
    <3>1. undo' = EntryOf(c)' /\ undo'.result = call[c].goal.text
      BY <1>3, <2>4 DEF SaveUndo, EntryOf, Carries
    <3>2. last # NoUndo => disk # ResultBytes(undo')
      BY <1>0, <2>4, <3>1 DEF SaveUndo, At, RowKept, ResultBytes, Bytes
    <3> QED
      BY <1>0, <1>1, <1>2, <1>3, <2>4, <3>1, <3>2 DEF SaveUndo, At, RowKept, Carries, Kept, Keeps
  <2>5. CASE WriteEdit(c)
    <3>1. call[c].goal = ResultBytes(EntryOf(c)) /\ undo = EntryOf(c)
      BY <1>0, <2>5, ResultOfRow DEF WriteEdit, At, RowKept
    <3>2. call'[c].stage = "wrote" /\ last' = EntryOf(c) /\ disk' = call[c].goal /\ undo' = undo
      BY <1>3, <2>5 DEF WriteEdit, Write
    <3> QED
      BY <3>1, <3>2 DEF RowKept, Kept, Keeps
  <2>6. CASE EditFails(c)
    <3>1. disk' = disk /\ undo' = undo /\ call[c].stage = "saved"
      BY <2>6 DEF EditFails, WriteFails, At
    <3>2. last # NoUndo => disk # ResultBytes(undo) /\ Keeps(call[c].row)
      BY <1>0, <3>1 DEF RowKept
    <3>3. CASE End(c) /\ Lapse
      <4>1. last' = last /\ (last # NoUndo => lapsed')
        BY <3>3 DEF Lapse
      <4>2. call'[c].stage = "idle"
        BY <1>4, <3>3 DEF Ended
      <4>3. last' # NoUndo => Keeps(undo)'
        BY <3>1, <3>2, <4>1 DEF Keeps
      <4> QED
        BY <1>2, <3>1, <4>1, <4>2, <4>3 DEF RowKept, Kept
    <3>4. CASE Goto(c, "restore") /\ UNCHANGED history
      BY <1>2, <1>3, <3>1, <3>2, <3>4 DEF Carries, RowKept, Kept, Keeps
    <3> QED
      BY <2>6, <3>3, <3>4 DEF EditFails
  <2>7. CASE RestoreUndo(c)
    <3>1. disk' = disk /\ call'[c] = Ended /\ call[c].stage = "restore"
      BY <1>4, <2>7 DEF RestoreUndo, At
    <3>2. last # NoUndo => disk # ResultBytes(undo) /\ Keeps(call[c].row)
      BY <1>0, <3>1 DEF RowKept
    <3>3. CASE undo' = call[c].row /\ UNCHANGED history
      BY <1>2, <3>1, <3>2, <3>3 DEF Ended, RowKept, Kept, Keeps
    <3>4. CASE undo' = undo /\ Lapse
      <4>1. last' = last /\ (last # NoUndo => lapsed')
        BY <3>4 DEF Lapse
      <4>2. call'[c].stage = "idle"
        BY <3>1 DEF Ended
      <4>3. last' # NoUndo => Keeps(undo)'
        BY <3>1, <3>2, <3>4, <4>1 DEF Keeps
      <4> QED
        BY <1>2, <3>1, <4>1, <4>2, <4>3 DEF RowKept, Kept
    <3> QED
      BY <2>7, <3>3, <3>4 DEF RestoreUndo
  <2>8. CASE RetireFreed(c)
    BY <1>1, <1>2, <1>3, <2>8 DEF RetireFreed, At, RowKept, Kept, Keeps
  <2>9. CASE Reject(c)
    BY <1>1, <1>2, <1>4, <2>9 DEF Reject, At, Ended, RowKept, Kept, Keeps
  <2>10. CASE UndoUnavailable(c)
    BY <1>1, <1>2, <1>4, <2>10 DEF UndoUnavailable, At, Ended, RowKept, Kept, Keeps
  <2>11. CASE ServeDiff(c)
    BY <1>1, <1>2, <1>4, <2>11 DEF ServeDiff, At, Ended, RowKept, Kept, Keeps
  <2> QED
    BY <1>8, <2>1, <2>2, <2>3, <2>4, <2>5, <2>6, <2>7, <2>8, <2>9, <2>10, <2>11 DEF EditStep
<1>9. CASE UndoStep(c)
  <2>1. CASE LoadUndo(c)
    <3>1. /\ call[c].stage = "idle" /\ UNCHANGED history
          /\ call'[c].stage = "loaded" /\ call'[c].row = undo
      BY <1>0, <1>50, <2>1 DEF LoadUndo, Start, At, Ended
    <3> QED
      BY <1>1, <1>2, <2>1, <3>1 DEF LoadUndo, RowKept, Kept, Keeps
  <2>2. CASE MatchFile(c)
    <3>1. At(c, "loaded") /\ call'[c].stage = "matched"
      BY <1>0, <2>2 DEF MatchFile, CallState
    <3> QED
      BY <1>1, <1>2, <2>2, <3>1 DEF MatchFile, At, RowKept, Kept, Keeps
  <2>3. CASE FindStale(c)
    <3>1. call[c].row = undo /\ disk # ResultBytes(undo)
      BY <1>0, <2>3 DEF FindStale, At, RowKept
    <3>2. last # NoUndo => lapsed
      BY <1>1, <1>2, <2>3, <3>1 DEF FindStale, At, Kept, Keeps
    <3> QED
      BY <1>1, <1>2, <1>3, <2>3, <3>2 DEF FindStale, At, RowKept, Kept, Keeps
  <2>4. CASE ClearUndo(c)
    BY <1>0, <1>1, <1>2, <1>4, <2>4 DEF ClearUndo, At, RowKept, Ended, Kept, Keeps
  <2>5. CASE WriteRevert(c)
    BY <1>3, <2>5 DEF WriteRevert, Forget, RowKept, Kept
  <2>6. CASE RevertFails(c)
    BY <1>1, <1>2, <1>4, <2>6 DEF RevertFails, WriteFails, At, RowKept, Ended, Kept, Keeps
  <2>7. CASE CommitRevert(c)
    BY <1>0, <1>3, <2>7 DEF CommitRevert, At, RowKept, Kept
  <2>8. CASE RevertNotRecorded(c) \/ ServeRevert(c)
    BY <1>0, <1>4, <2>8 DEF RevertNotRecorded, ServeRevert, At, RowKept, Ended, Kept
  <2> QED
    BY <1>9, <2>1, <2>2, <2>3, <2>4, <2>5, <2>6, <2>7, <2>8 DEF UndoStep
<1> QED
  BY <1>6, <1>7, <1>8, <1>9 DEF CallStep

\* Where calls overlap after a step of one of them, nothing is remembered.
LEMMA OverlapForgets ==
    ASSUME Typed, Orderly, Undoable, Crowding, NEW c \in Slots, CallStep(c), crowded'
    PROVE  last' = NoUndo
<1>1. CASE crowded
  BY <1>1, LastStays DEF Undoable
<1>2. CASE ~crowded
  <2>1. ~Overlap /\ Overlap'
    BY <1>2 DEF Orderly, Crowding
  <2>2. PICK e \in Slots, f \in Slots :
            e # f /\ call'[e].stage # "idle" /\ call'[f].stage # "idle"
    BY <2>1 DEF Overlap, At
  <2>3. \A g \in Slots : g # c => call'[g] = call[g]
    BY OthersStay
  <2>4. PICK g \in Slots : g # c /\ call[g].stage # "idle"
    BY <2>2, <2>3
  <2>5. At(c, "idle")
    BY <2>1, <2>4 DEF Overlap, At
  <2>6. \E st : Start(c, st)
    BY <2>5, IdleStarts
  <2> QED
    BY <2>4, <2>6 DEF Start, Quiet, At, Forget
<1> QED
  BY <1>1, <1>2

\* A call that starts beside another, and is the only one when the step is
\* over, was refused at once.
LEMMA BesideAnother ==
    ASSUME Typed, Crowding, ~crowded', NEW c \in Slots, CallStep(c),
           At(c, "idle"), ~Quiet
    PROVE  RefuseBlind(c) /\ Forget
<1>1. PICK g \in Slots : g # c /\ ~At(g, "idle")
  BY DEF Quiet
<1>2. call'[g] = call[g]
  BY <1>1, OthersStay
<1>3. call'[c].stage = "idle"
  BY <1>1, <1>2 DEF Crowding, Overlap, At
<1>4. \A st : Start(c, st) => call'[c] = st /\ Forget
  BY CallMoves DEF Start
<1>5. Read(c) \/ OpenFile(c) \/ LoadUndo(c) \/ PassGate(c) \/ RefuseBlind(c) \/ Create(c)
  BY DEF At, CallStep, ReadStep, ServeRead, Observe,
     EditStep, Apply, Reject, ReadPrevious, SaveUndo, UndoUnavailable, WriteEdit,
     EditFails, RestoreUndo, RetireFreed, ServeDiff, UndoStep, MatchFile, FindStale,
     ClearUndo, WriteRevert, RevertFails, CommitRevert, RevertNotRecorded, ServeRevert,
     EditorStep, View, FetchText, NoMatch, PrepareForSave, WriteReplaced, ReplaceFails,
     Answer, WriteCreated, CreateFails, RecordCreated
<1>6. ~Read(c) /\ ~OpenFile(c) /\ ~LoadUndo(c) /\ ~PassGate(c) /\ ~Create(c)
  <2> call \in [Slots -> CallState]
    BY DEF Typed, CallsOK
  <2>1. ~Read(c) /\ ~OpenFile(c)
    BY <1>3 DEF Read, OpenFile, Start, Ended
  <2>2. ~LoadUndo(c) /\ ~PassGate(c)
    BY <1>3 DEF LoadUndo, PassGate, Start, Ended
  <2>3. ~Create(c)
    BY <1>3 DEF Create, Start, Ended
  <2> QED
    BY <2>1, <2>2, <2>3
<1> QED
  BY <1>4, <1>5, <1>6 DEF RefuseBlind

\* Every step of a call keeps the last edit that landed undoable.
LEMMA StepUndoableCall ==
    ASSUME Typed, Orderly, Undoable, Crowding, NEW c \in Slots, CallStep(c)
    PROVE  Undoable'
<1>1. CASE crowded'
  BY <1>1, OverlapForgets DEF Undoable, Kept
<1>2. CASE ~crowded' /\ crowded
  <2>1. Quiet'
    BY <1>2 DEF Crowding
  <2>2. last' = NoUndo
    BY <1>2, LastStays DEF Undoable
  <2> QED
    BY <1>2, <2>1, <2>2 DEF Undoable, Kept, RowKept, Quiet, At
<1>3. CASE ~crowded' /\ ~crowded
  <2>0. ~Overlap /\ ~Overlap' /\ \A g \in Slots : g # c => call'[g] = call[g]
    BY <1>3, OthersStay DEF Orderly, Crowding
  <2>1. CASE At(c, "idle") /\ ~Quiet
    <3>1. RefuseBlind(c) /\ last' = NoUndo
      BY <1>3, <2>1, BesideAnother DEF Forget
    <3>2. call'[c] = Ended /\ undo' = undo
      BY <3>1, CallMoves DEF RefuseBlind
    <3>3. \A g \in Slots : RowKept(g)'
      BY <1>3, <2>0, <3>1, <3>2 DEF Undoable, RowKept, Ended, EntryOf
    <3> QED
      BY <3>1, <3>3 DEF Undoable, Kept
  <2>2. CASE ~At(c, "idle") \/ Quiet
    <3>1. \A e \in Slots : e # c => At(e, "idle") /\ At(e, "idle")'
      BY <2>0, <2>2 DEF Overlap, Quiet, At
    <3>2. crowded' = FALSE
      BY <1>3 DEF Crowding
    <3> QED
      BY <1>3, <3>1, <3>2, StepUndoableAlone
  <2> QED
    BY <2>1, <2>2
<1> QED
  BY <1>1, <1>2, <1>3

\* Every step keeps the last edit that landed undoable.
LEMMA StepUndoable == Typed /\ Orderly /\ Undoable /\ [Next]_vars => Undoable'
<1> SUFFICES ASSUME Typed, Orderly, Undoable, [Next]_vars PROVE Undoable'
  OBVIOUS
<1>1. ASSUME NEW c \in Slots, CallStep(c), Crowding PROVE Undoable'
  BY <1>1, StepUndoableCall
<1>2. ASSUME call' = call, undo' = undo, Forget, Crowding PROVE Undoable'
  <2>1. ~crowded' => ~crowded \/ Quiet'
    BY <1>2 DEF Crowding
  <2>2. CASE Quiet'
    BY <1>2, <2>2 DEF Forget, Undoable, Kept, RowKept, Quiet, At
  <2>3. CASE ~Quiet'
    BY <1>2, <2>1, <2>3 DEF Forget, Undoable, Kept, RowKept, EntryOf
  <2> QED
    BY <2>2, <2>3
<1>3. CASE Crash /\ Crowding
  <2>1. Quiet' /\ disk' = disk /\ undo' = undo
    BY <1>3 DEF Crash, Quiet, At, Ended
  <2>2. ~crowded'
    BY <1>3, <2>1 DEF Crowding, Overlap, Quiet
  <2>3. last' = last
    BY <1>3 DEF Crash, Lapse, history
  <2>4. last' # NoUndo => Keeps(undo)'
    <3> SUFFICES ASSUME last # NoUndo PROVE Keeps(undo)'
      BY <2>3
    <3>1. CASE \E c \in Slots : call[c].stage \in {"saved", "restore"}
      <4>1. disk # ResultBytes(undo)
        BY <3>1 DEF Undoable, RowKept
      <4> QED
        BY <1>3, <2>1, <3>1, <4>1 DEF Crash, Lapse, Keeps
    <3>2. CASE ~\E c \in Slots : call[c].stage \in {"saved", "restore"}
      BY <1>3, <2>1, <3>2 DEF Crash, history, Undoable, Kept, Keeps
    <3> QED
      BY <3>1, <3>2
  <2> QED
    BY <2>1, <2>2, <2>3, <2>4 DEF Undoable, Kept, RowKept, Quiet, At
<1>4. CASE UNCHANGED vars
  BY <1>4 DEF vars, Undoable, RowKept, Kept, Keeps, EntryOf
<1> QED
  BY <1>1, <1>2, <1>3, <1>4 DEF Next, Step, CallStep, WriteByOtherTool, WriteOutside

\* Every step keeps the row and the anchors a revert that is alone started from.
LEMMA StepReverting ==
    Typed /\ Orderly /\ Reverting /\ [Next]_vars => Reverting'
<1> SUFFICES ASSUME Typed, Orderly, Reverting, [Next]_vars, NEW c \in Slots, ~crowded',
                    call'[c].stage \in {"loaded", "matched", "reverted"}
             PROVE  call'[c].row = undo' /\ call'[c].held = Live(SessionOf[c])'
  BY DEF Reverting
<1>0. ~crowded /\ (UNCHANGED vars \/ Crowding)
  <2>1. ~Quiet'
    BY DEF Quiet, At
  <2>2. CASE Crowding
    BY <2>1, <2>2, Zenon DEF Crowding
  <2>3. CASE UNCHANGED vars
    BY <2>3 DEF vars
  <2> QED
    BY <2>2, <2>3 DEF Next
<1>1. CASE CallStep(c)
  <2>1. \A stage : Goto(c, stage) => call'[c].stage = stage
    BY CallMoves
  <2>2. ~End(c)
    BY CallMoves DEF Ended
  <2>3. \A st : Start(c, st) => call'[c] = st
    BY CallMoves
  <2>4. ~ReadStep(c)
    BY <2>1, <2>2, <2>3 DEF ReadStep, Read, ServeRead, Observe, Ended
  <2> call \in [Slots -> CallState]
    BY DEF Typed, CallsOK
  <2>5. ~EditorStep(c)
    <3>1. ~PassGate(c) /\ ~RefuseBlind(c)
      BY DEF PassGate, RefuseBlind, Start, Ended
    <3>3. ~Create(c)
      BY <2>3 DEF Create, Ended
    <3>2. ~FetchText(c) /\ ~PrepareForSave(c)
      BY <2>2 DEF FetchText, PrepareForSave, CallState
    <3> QED
      BY <2>1, <2>2, <3>1, <3>2, <3>3 DEF EditorStep, View, NoMatch, WriteReplaced, ReplaceFails,
         Answer, WriteCreated, CreateFails, RecordCreated
  <2>6. ~EditStep(c)
    <3>1. ~Apply(c)
      <4>1. ASSUME NEW goal,
                   call' = [call EXCEPT ![c].stage = "applied", ![c].goal = goal]
            PROVE  FALSE
        BY <4>1 DEF CallState
      <4> QED
        BY <4>1 DEF Apply
    <3>3. ~ReadPrevious(c)
      BY DEF ReadPrevious, CallState
    <3>2. ~OpenFile(c)
      BY <2>3 DEF OpenFile, Ended
    <3> QED
      BY <2>1, <2>2, <3>1, <3>2, <3>3 DEF EditStep, Reject, SaveUndo, UndoUnavailable, WriteEdit,
         EditFails, RestoreUndo, RetireFreed, ServeDiff
  <2>7. LoadUndo(c) \/ MatchFile(c) \/ WriteRevert(c)
    BY <1>1, <2>1, <2>2, <2>4, <2>5, <2>6 DEF CallStep, UndoStep, FindStale, ClearUndo,
       RevertFails, CommitRevert, RevertNotRecorded, ServeRevert
  <2>8. CASE LoadUndo(c)
    BY <2>3, <2>8 DEF LoadUndo, Live, Ended
  <2>9. CASE MatchFile(c)
    BY <1>0, <2>9 DEF MatchFile, At, Live, Reverting, Typed, CallsOK, CallState
  <2>10. CASE WriteRevert(c)
    BY <1>0, <2>10, CallMoves DEF WriteRevert, Carries, At, Live, Reverting
  <2> QED
    BY <2>7, <2>8, <2>9, <2>10
<1>2. CASE call' = call /\ undo' = undo /\ leases' = leases /\ retired' = retired
  BY <1>0, <1>2 DEF Reverting, Live
<1>3. ~Crash
  BY DEF Crash, Ended
<1>4. ASSUME NEW d \in Slots, d # c, CallStep(d), Crowding
      PROVE  call'[c].row = undo' /\ call'[c].held = Live(SessionOf[c])'
  <2>1. call'[c] = call[c]
    BY <1>4, OthersStay
  <2>2. ~At(c, "idle") /\ ~Quiet /\ At(d, "idle")
    BY <1>0, <1>4, <2>1 DEF Orderly, Overlap, Quiet, At
  <2>3. RefuseBlind(d)
    BY <1>4, <2>2, BesideAnother
  <2> QED
    BY <1>0, <1>4, <2>1, <2>3 DEF RefuseBlind, Reverting, Live
<1> QED
  BY <1>0, <1>1, <1>2, <1>3, <1>4
     DEF Next, Step, CallStep, WriteByOtherTool, WriteOutside, vars

(***************************************************************************)
(* Every reachable state is well typed.                                    *)
(***************************************************************************)
THEOREM TypeCorrect == Spec => []TypeOK
<1>1. Typed /\ MemoOK /\ HistoryOK => TypeOK
  BY DEF Typed, MemoOK, HistoryOK, StoreOK, AnchorsOK, PolicyOK, CallsOK, TypeOK
<1>2. Init => MemoOK /\ HistoryOK
  BY DEF Init, MemoOK, HistoryOK, Versions
<1> QED
  BY <1>1, <1>2, InitTyped, StepTyped, StepMemo, StepHistory, PTL DEF Spec

(***************************************************************************)
(* Under a policy that checks versions, and with one call at a time in     *)
(* each session, a write of edit, undo_last_edit or str_replace_editor     *)
(* that lands replaces the bytes its call read, or no file if it found     *)
(* none, whatever others wrote in between.                                 *)
(***************************************************************************)
THEOREM NoLostUpdate ==
    ASSUME Guarded = TRUE, Serial
    PROVE  Spec => ReplacesWhatItRead
<1>1. Typed /\ Fresh /\ [Next]_vars
      => [\A c \in Slots : Lands(c) => disk = call[c].saw]_vars
  <2> SUFFICES ASSUME Typed, Fresh, [Next]_vars, NEW c \in Slots, Lands(c)
               PROVE  disk = call[c].saw
    OBVIOUS
  <2>1. WriteEdit(c) \/ WriteRevert(c) \/ WriteReplaced(c) \/ WriteCreated(c)
    BY LandsByWriting DEF Lands
  <2>2. InFlight(call[c]) /\ (call[c].stage = "creating" => call[c].saw = NoFile)
    BY <2>1 DEF WriteEdit, WriteRevert, WriteReplaced, WriteCreated, At, InFlight,
       Typed, CallsOK, StateOK
  <2>3. observed[SessionOf[c]] = "current" \/ (disk = NoFile /\ At(c, "creating"))
    BY <2>1 DEF WriteEdit, WriteRevert, WriteReplaced, WriteCreated, Permitted, MayCreate
  <2> QED
    BY <2>2, <2>3 DEF Fresh, At
<1>2. Init => Typed /\ Fresh
  BY InitTyped, InitFresh
<1>3. Typed /\ Fresh /\ [Next]_vars => (Typed /\ Fresh)'
  BY StepTyped, StepFresh
<1> QED
  BY <1>1, <1>2, <1>3, PTL DEF Spec, ReplacesWhatItRead

(***************************************************************************)
(* If besides no file has mixed line endings, an undo that lands puts back *)
(* byte for byte what the edit had read, over exactly what it had written. *)
(***************************************************************************)
THEOREM ExactRevert ==
    ASSUME Guarded = TRUE, Serial, "mixed" \notin Endings
    PROVE  Spec => RevertIsExact
<1> DEFINE IInv == Typed /\ Fresh /\ Lossless
<1>1. IInv /\ [Next]_vars
      => [\A c \in Slots : Moves(c, "matched", "reverted") =>
             /\ disk = ResultBytes(call[c].row)
             /\ disk' = call[c].row.was]_vars
  <2> SUFFICES ASSUME IInv, [Next]_vars, NEW c \in Slots, Moves(c, "matched", "reverted")
               PROVE  disk = ResultBytes(call[c].row) /\ disk' = call[c].row.was
    OBVIOUS
  <2>1. WriteRevert(c)
    BY LandsByWriting DEF Lands
  <2>2. disk = call[c].saw /\ disk' = call[c].goal
    BY <2>1 DEF WriteRevert, Write, Permitted, Fresh, InFlight, At
  <2>3. Faithful(call[c]) /\ At(c, "matched")
    BY <2>1 DEF WriteRevert, Lossless
  <2> QED
    BY <2>2, <2>3 DEF Faithful, Exact, At
<1>2. Init => IInv
  BY InitTyped, InitFresh, InitLossless
<1>3. IInv /\ [Next]_vars => IInv'
  BY StepTyped, StepFresh, StepLossless
<1> QED
  BY <1>1, <1>2, <1>3, PTL DEF Spec, RevertIsExact

(***************************************************************************)
(* The last edit that landed is the one undo_last_edit would undo, for any *)
(* calls, faults and crashes that come after it one at a time, as long as  *)
(* nobody else writes the file; the three failures that lose its row leave *)
(* none that an undo would take for a row of the file as it is.  No policy *)
(* is needed, and files may have any line endings.                         *)
(***************************************************************************)
THEOREM LastEditStaysUndoable == Spec => []LastEditUndoable
<1>1. Init => Orderly /\ Undoable
  BY DEF Init, Orderly, Overlap, At, Undoable, Kept, RowKept, Ended
<1>2. Undoable => LastEditUndoable
  BY DEF Undoable, Kept, Keeps, LastEditUndoable, Quiet, At
<1> QED
  BY <1>1, <1>2, InitTyped, StepTyped, StepOrderly, StepUndoable, PTL DEF Spec

(***************************************************************************)
(* An undo that no other call overlaps, and that ends because its write is *)
(* refused, because the unit after the write fails or because the process  *)
(* dies, leaves the undo row and the anchors of its session as it found    *)
(* them, whoever else writes the file meanwhile.                           *)
(***************************************************************************)
THEOREM FailedRevertIsHarmless == Spec => FailedRevertKeepsStore
<1>1. Init => Orderly /\ Reverting
  BY DEF Init, Orderly, Overlap, At, Reverting, Ended
<1>2. Typed /\ Reverting /\ [Next]_vars
      => [\A c \in Slots :
             ~crowded /\ (Moves(c, "matched", "idle") \/ Moves(c, "reverted", "idle")) =>
                 undo' = call[c].row /\ Live(SessionOf[c])' = call[c].held]_vars
  <2> SUFFICES ASSUME Typed, Reverting, [Next]_vars, NEW c \in Slots, ~crowded,
                      Moves(c, "matched", "idle") \/ Moves(c, "reverted", "idle")
               PROVE  undo' = undo /\ Live(SessionOf[c])' = Live(SessionOf[c])
    BY DEF Reverting, Moves
  <2>0. call \in [Slots -> CallState] /\ call'[c] # call[c]
    BY DEF Typed, CallsOK, Moves
  <2>1. CASE CallStep(c)
    <3>1. ~ReadStep(c) /\ ~EditStep(c) /\ ~EditorStep(c)
      BY <2>0 DEF Moves, At, ReadStep, Read, ServeRead, Observe, EditStep, OpenFile, Apply,
         Reject, ReadPrevious, SaveUndo, UndoUnavailable, WriteEdit, EditFails,
         RestoreUndo, RetireFreed, ServeDiff, EditorStep, View, PassGate, RefuseBlind,
         FetchText, NoMatch, PrepareForSave, WriteReplaced, ReplaceFails, Answer, Create,
         WriteCreated, CreateFails, RecordCreated, Start
    <3>2. RevertFails(c) \/ RevertNotRecorded(c)
      BY <2>0, <2>1, <3>1, CallMoves DEF CallStep, UndoStep, LoadUndo, MatchFile, FindStale,
         ClearUndo, WriteRevert, CommitRevert, ServeRevert, Start, Moves, At, CallState
    <3> QED
      BY <3>2 DEF RevertFails, RevertNotRecorded, Live
  <2>2. CASE Crash
    BY <2>2 DEF Crash, Live
  <2>3. \A e \in Slots : CallStep(e) => e = c
    BY <2>0, OthersStay
  <2>4. ~WriteOutside /\ ~UNCHANGED vars /\ \A e \in Slots : ~WriteByOtherTool(e)
    BY <2>0 DEF WriteOutside, WriteByOtherTool, vars
  <2> QED
    BY <2>1, <2>2, <2>3, <2>4 DEF Next, Step, CallStep
<1> QED
  BY <1>1, <1>2, InitTyped, StepTyped, StepOrderly, StepReverting, PTL
     DEF Spec, FailedRevertKeepsStore

=============================================================================
