------------------------------ MODULE FileEdit ------------------------------
(***************************************************************************)
(* The life of one file under the tools read, edit, undo_last_edit and     *)
(* str_replace_editor: what is on disk, the one undo row, the leases on    *)
(* its lines, and calls that are several asynchronous steps each,          *)
(* interleaved with one another, with writers that are not ours, with      *)
(* faults and with crashes.                                                *)
(*                                                                         *)
(* Bytes are a text and its line endings.  A text is known by the          *)
(* identities of its lines (LineageStore says where they come from); a     *)
(* byte order mark is carried verbatim and left out.                       *)
(***************************************************************************)
EXTENDS Integers, FiniteSets

CONSTANTS
    Slots,          \* tool calls that can be under way at once
    SessionOf,      \* the session each of them belongs to
    Texts,          \* normalised contents of the file
    LinesOf,        \* the line identities of each text
    Endings,        \* the line endings an outside writer leaves: "lf", "crlf", "mixed"
    Batches,        \* whether an edit call is one item (FALSE) or several (TRUE)
    Guarded,        \* the deployment has an observation policy that checks versions
    Faults,         \* the steps that may fail
    MaxCalls,       \* bound on the calls started
    MaxOutside,     \* bound on the writes of others
    NoFile, NoUndo

Sessions == {SessionOf[c] : c \in Slots}

Lines == UNION {LinesOf[t] : t \in Texts}

ASSUME FileAssumption ==
    /\ SessionOf \in [Slots -> Sessions]
    /\ LinesOf \in [Texts -> SUBSET Lines]
    /\ Endings \subseteq {"lf", "crlf", "mixed"}
    /\ Batches \subseteq BOOLEAN
    /\ Guarded \in BOOLEAN
    /\ Faults \subseteq {"snapshot", "save", "write", "restore", "unit", "serve", "crash"}
    /\ MaxCalls \in Nat /\ MaxOutside \in Nat

VARIABLES
    disk,       \* the bytes of the file
    undo,       \* the undo row (both halves of the pair)
    observed,   \* per session: is the version its policy last saw the current one?
    memo,       \* the process's encoding state of the file: of the current version?
    leases,     \* per session: the lines it holds a lease on that is not retired
    retired,    \* per session: the lines an edit or a revert put on its retired list
    call,       \* per slot: the call under way
    budget,     \* calls and outside writes still allowed
    last,       \* history: the row of the last edit that landed, until somebody writes the
                \* file or calls overlap
    lapsed,     \* history: since then a row was left by an edit that did not land
    crowded     \* history: calls have overlapped since there was none under way

history == <<last, lapsed>>

vars == <<disk, undo, observed, memo, leases, retired, call, budget, last, lapsed, crowded>>

-----------------------------------------------------------------------------
Raw == [text : Texts, end : {"lf", "crlf", "mixed"}]

\* detectEnding: the first line break decides.
Detected(raw) == IF raw.end = "crlf" THEN "crlf" ELSE "lf"

\* bom + restoreEndings(text, ending): every break is written the same way.
Bytes(text, ending) == [text |-> text, end |-> ending]

\* What saveUndo stores; "was" is not stored, it keeps the bytes the edit read.
Entry == [text : Texts, ending : {"lf", "crlf"}, result : Texts, was : Raw]

ResultBytes(entry) == Bytes(entry.result, entry.ending)

RevertedBytesLf(entry) == Bytes(entry.text, "lf")

RevertedBytes(entry) == Bytes(entry.text, entry.ending)

\* What is known of a version of the file: nothing, that it is the one on
\* disk, or that it no longer is.
Versions == {"none", "current", "old"}

Stages == {"idle",
           "seen", "served",                                        \* read
           "opened", "applied", "previous", "saved", "restore",     \* edit
           "wrote", "freed",
           "loaded", "stale", "matched", "reverted", "committed",   \* undo_last_edit
           "gated", "fetched", "prepared", "replaced",              \* str_replace, insert
           "creating", "created"}                                   \* create

\* A call: the bytes it read, the bytes it writes, the undo row it holds (the
\* previous one for an edit, the one to apply for an undo) and, for the
\* properties, the live anchors of its session when an undo loaded its row.
CallState == [stage : Stages, batch : BOOLEAN, saw : Raw \cup {NoFile},
              goal : Raw \cup {NoFile}, row : Entry \cup {NoUndo}, held : SUBSET Lines]

Ended == [stage |-> "idle", batch |-> FALSE, saw |-> NoFile, goal |-> NoFile,
          row |-> NoUndo, held |-> {}]

TypeOK ==
    /\ disk \in Raw \cup {NoFile}
    /\ undo \in Entry \cup {NoUndo}
    /\ observed \in [Sessions -> Versions]
    /\ memo \in Versions
    /\ leases \in [Sessions -> SUBSET Lines]
    /\ retired \in [Sessions -> SUBSET Lines]
    /\ call \in [Slots -> CallState]
    /\ budget \in [calls : Nat, outside : Nat]
    /\ last \in Entry \cup {NoUndo}
    /\ lapsed \in BOOLEAN /\ crowded \in BOOLEAN

Init ==
    /\ disk \in [text : Texts, end : Endings]
    /\ undo = NoUndo
    /\ observed = [s \in Sessions |-> "none"]
    /\ memo = "none"
    /\ leases = [s \in Sessions |-> {}]
    /\ retired = [s \in Sessions |-> {}]
    /\ call = [c \in Slots |-> Ended]
    /\ budget = [calls |-> MaxCalls, outside |-> MaxOutside]
    /\ last = NoUndo /\ lapsed = FALSE /\ crowded = FALSE

-----------------------------------------------------------------------------
\* The anchors of a session that nothing has retired.
Live(s) == leases[s] \ retired[s]

\* commitSnapshot retires the leases, of every session, on lines it does not have.
Adopting(texts) == [s \in Sessions |-> {l \in leases[s] : \A t \in texts : l \in LinesOf[t]}]

\* The serve unit: the snapshot is adopted and the rows shown are leased.
Serve(s, text, rows) ==
    leases' = IF rows = {} THEN leases
              ELSE [Adopting({text}) EXCEPT ![s] = @ \cup rows]

ServeFails == "serve" \in Faults /\ UNCHANGED leases

Outdated(version) == IF version = "none" THEN "none" ELSE "old"

\* invalidateIfStale drops an encoding state of another version.
Invalidated == IF memo = "old" THEN "none" ELSE memo

\* A write lands: this session has observed it, the others have not, and the
\* encoding state stays with the version that was replaced.
Write(s, bytes) ==
    /\ disk' = bytes
    /\ observed' = [x \in Sessions |-> IF x = s THEN "current" ELSE Outdated(observed[x])]
    /\ memo' = Outdated(Invalidated)

\* It does not land, and may have dropped the encoding state before.
WriteFails == memo' \in {memo, Invalidated} /\ UNCHANGED <<disk, observed>>

\* readText records the encoding state with a version it asks for once it has
\* the text: the one it read, or one that somebody wrote in between.
Recorded(c) ==
    memo' \in IF disk = call[c].saw THEN {"current"}
              ELSE IF disk = NoFile THEN {"old"} ELSE {"current", "old"}

PermittedOnceObserved(s) == Guarded => observed[s] # "none"

\* The policy lets a session replace only the version it observed last.
Permitted(s) == Guarded => observed[s] = "current"

MayFail(s) == "write" \in Faults \/ ~Permitted(s)

At(c, stage) == call[c].stage = stage

Goto(c, stage) == call' = [call EXCEPT ![c].stage = stage]

End(c) == call' = [call EXCEPT ![c] = Ended]

Quiet == \A c \in Slots : At(c, "idle")

Overlap == \E c, e \in Slots : c # e /\ ~At(c, "idle") /\ ~At(e, "idle")

\* Whether the calls have been one at a time since none was under way.
Crowding == crowded' = (Overlap' \/ (crowded /\ ~Quiet'))

Forget == last' = NoUndo /\ lapsed' = FALSE

\* The row of an edit that did not land takes the place of the one remembered.
Lapse == last' = last /\ lapsed' = (last # NoUndo)

Start(c, state) ==
    /\ At(c, "idle") /\ budget.calls > 0
    /\ IF Quiet THEN UNCHANGED history ELSE Forget
    /\ call' = [call EXCEPT ![c] = state]
    /\ budget' = [budget EXCEPT !.calls = @ - 1]

-----------------------------------------------------------------------------
\* read: the text is read, its rows are served, the version is observed.
Read(c) ==
    /\ disk # NoFile
    /\ Start(c, [Ended EXCEPT !.stage = "seen", !.saw = disk])
    /\ UNCHANGED <<disk, undo, observed, memo, leases, retired>>

\* A window or all of it is served; only a full read clears the retired list.
\* The hashing itself persists the snapshot, if the store does not have it.
ServeRead(c) ==
    /\ At(c, "seen")
    /\ LET text == call[c].saw.text
           s == SessionOf[c]
       IN  \/ \E rows \in SUBSET LinesOf[text] :
                  /\ Serve(s, text, rows)
                  /\ retired' = IF rows = LinesOf[text] THEN [retired EXCEPT ![s] = {}]
                                ELSE retired
           \/ /\ "serve" \in Faults
              /\ \E adopted \in SUBSET {text} : leases' = Adopting(adopted)
              /\ UNCHANGED retired
    /\ Goto(c, "served")
    /\ Recorded(c)
    /\ UNCHANGED <<disk, undo, observed, history, budget>>

Observe(c) ==
    /\ At(c, "served")
    /\ observed' = IF disk = NoFile THEN observed
                   ELSE [observed EXCEPT ![SessionOf[c]] = "current"]
    /\ End(c)
    /\ UNCHANGED <<disk, undo, memo, leases, retired, history, budget>>

-----------------------------------------------------------------------------
\* edit: the file is read.
OpenFile(c) ==
    /\ disk # NoFile
    /\ \E batch \in Batches :
           Start(c, [Ended EXCEPT !.stage = "opened", !.batch = batch, !.saw = disk])
    /\ UNCHANGED <<disk, undo, observed, memo, leases, retired>>

\* The lines an edit removes, or the one it inserts at, are leased and live.
Authorised(s, from, to) ==
    /\ LinesOf[from] \ LinesOf[to] \subseteq leases[s]
    /\ LinesOf[from] \cap leases[s] # {}

\* The items are verified and applied; the result's snapshot is persisted
\* before anything is written (a failure of it is logged and ignored), and
\* the snapshot of what was read when the store did not have it.
Apply(c) ==
    /\ At(c, "opened")
    /\ LET from == call[c].saw.text
           s == SessionOf[c]
       IN  \E to \in Texts \ {from}, adopted \in SUBSET Texts :
               /\ Authorised(s, from, to)
               /\ adopted \subseteq {from, to}
               /\ to \in adopted \/ "snapshot" \in Faults
               /\ leases' = Adopting(adopted)
               /\ call' = [call EXCEPT ![c].stage = "applied",
                                       ![c].goal = Bytes(to, Detected(call[c].saw))]
    /\ Recorded(c)
    /\ UNCHANGED <<disk, undo, observed, retired, history, budget>>

\* A rejected edit shows rows of the file, which are not recorded as served.
Reject(c) ==
    /\ At(c, "opened")
    /\ \E adopted \in SUBSET {call[c].saw.text} : leases' = Adopting(adopted)
    /\ End(c)
    /\ Recorded(c)
    /\ UNCHANGED <<disk, undo, observed, retired, history, budget>>

\* saveUndo reads the row it is about to replace...
ReadPrevious(c) ==
    /\ At(c, "applied")
    /\ call' = [call EXCEPT ![c].stage = "previous", ![c].row = undo]
    /\ UNCHANGED <<disk, undo, observed, memo, leases, retired, history, budget>>

EntryOfRaw(c) ==
    [text |-> call[c].saw.text, ending |-> Detected(call[c].saw),
     result |-> call[c].goal, was |-> call[c].saw]

EntryOf(c) ==
    [text |-> call[c].saw.text, ending |-> Detected(call[c].saw),
     result |-> call[c].goal.text, was |-> call[c].saw]

\* ...and writes its own.
SaveUndo(c) ==
    /\ At(c, "previous")
    /\ undo' = EntryOf(c)
    /\ Goto(c, "saved")
    /\ UNCHANGED <<disk, observed, memo, leases, retired, history, budget>>

\* Nothing is written without an undo row.
UndoUnavailable(c) ==
    /\ At(c, "previous") /\ "save" \in Faults
    /\ End(c)
    /\ UNCHANGED <<disk, undo, observed, memo, leases, retired, history, budget>>

WriteEdit(c) ==
    /\ At(c, "saved") /\ Permitted(SessionOf[c])
    /\ Write(SessionOf[c], call[c].goal)
    /\ last' = IF crowded THEN NoUndo ELSE EntryOf(c)
    /\ lapsed' = FALSE
    /\ Goto(c, "wrote")
    /\ UNCHANGED <<undo, leases, retired, budget>>

\* commitSingle puts the previous row back, commitBatch does not.
EditFails(c) ==
    /\ At(c, "saved") /\ MayFail(SessionOf[c])
    /\ \/ call[c].batch /\ End(c) /\ Lapse
       \/ ~call[c].batch /\ Goto(c, "restore") /\ UNCHANGED history
    /\ WriteFails
    /\ UNCHANGED <<undo, leases, retired, budget>>

RestoreUndoByDelete(c) ==
    /\ At(c, "restore")
    /\ undo' = NoUndo
    /\ End(c)
    /\ UNCHANGED <<disk, observed, memo, leases, retired, history, budget>>

RestoreUndo(c) ==
    /\ At(c, "restore")
    /\ \/ undo' = call[c].row /\ UNCHANGED history
       \/ "restore" \in Faults /\ UNCHANGED undo /\ Lapse
    /\ End(c)
    /\ UNCHANGED <<disk, observed, memo, leases, retired, budget>>

\* retireFreedAnchors, best effort.
RetireFreed(c) ==
    /\ At(c, "wrote")
    /\ LET freed == LinesOf[call[c].saw.text] \ LinesOf[call[c].goal.text]
       IN  \/ retired' = [retired EXCEPT ![SessionOf[c]] = @ \cup freed]
           \/ "unit" \in Faults /\ UNCHANGED retired
    /\ Goto(c, "freed")
    /\ UNCHANGED <<disk, undo, observed, memo, leases, history, budget>>

\* The diff's rows: the new lines and the context the diff shows.
ServeDiff(c) ==
    /\ At(c, "freed")
    /\ LET text == call[c].goal.text
       IN  \/ \E rows \in SUBSET LinesOf[text] :
                  /\ LinesOf[text] \ LinesOf[call[c].saw.text] \subseteq rows
                  /\ Serve(SessionOf[c], text, rows)
           \/ ServeFails
    /\ End(c)
    /\ UNCHANGED <<disk, undo, observed, memo, retired, history, budget>>

-----------------------------------------------------------------------------
\* undo_last_edit: the row is loaded; without one there is nothing to do.
LoadUndo(c) ==
    /\ undo # NoUndo
    /\ Start(c, [Ended EXCEPT !.stage = "loaded", !.row = undo, !.held = Live(SessionOf[c])])
    /\ UNCHANGED <<disk, undo, observed, memo, leases, retired>>

MatchFileRetiring(c) ==
    /\ At(c, "loaded") /\ disk = ResultBytes(call[c].row)
    /\ call' = [call EXCEPT ![c].stage = "matched", ![c].saw = disk,
                            ![c].goal = RevertedBytes(call[c].row)]
    /\ retired' = [retired EXCEPT ![SessionOf[c]] =
                       @ \cup (LinesOf[call[c].row.result] \ LinesOf[call[c].row.text])]
    /\ memo' = "current"
    /\ UNCHANGED <<disk, undo, observed, leases, history, budget>>

\* The file still holds the recorded result...
MatchFile(c) ==
    /\ At(c, "loaded") /\ disk = ResultBytes(call[c].row)
    /\ call' = [call EXCEPT ![c].stage = "matched", ![c].saw = disk,
                            ![c].goal = RevertedBytes(call[c].row)]
    /\ memo' = "current"
    /\ UNCHANGED <<disk, undo, observed, leases, retired, history, budget>>

\* ...or it was changed or deleted, and the history is cleared.
FindStale(c) ==
    /\ At(c, "loaded") /\ disk # ResultBytes(call[c].row)
    /\ Goto(c, "stale")
    /\ memo' = IF disk = NoFile THEN memo ELSE "current"
    /\ UNCHANGED <<disk, undo, observed, leases, retired, history, budget>>

ClearUndo(c) ==
    /\ At(c, "stale")
    /\ \/ undo' = NoUndo
       \/ "unit" \in Faults /\ UNCHANGED undo
    /\ End(c)
    /\ UNCHANGED <<disk, observed, memo, leases, retired, history, budget>>

WriteRevert(c) ==
    /\ At(c, "matched") /\ Permitted(SessionOf[c])
    /\ Write(SessionOf[c], call[c].goal)
    /\ Forget
    /\ Goto(c, "reverted")
    /\ UNCHANGED <<undo, leases, retired, budget>>

RevertFails(c) ==
    /\ At(c, "matched") /\ MayFail(SessionOf[c])
    /\ End(c)
    /\ WriteFails
    /\ UNCHANGED <<undo, leases, retired, history, budget>>

\* One unit: the snapshot is adopted, what the revert freed is retired and the
\* row is dropped.
CommitRevert(c) ==
    /\ At(c, "reverted")
    /\ LET from == call[c].saw.text
           to == call[c].goal.text
       IN  /\ leases' = Adopting({to})
           /\ retired' = [retired EXCEPT ![SessionOf[c]] = @ \cup (LinesOf[from] \ LinesOf[to])]
    /\ undo' = NoUndo
    /\ Goto(c, "committed")
    /\ UNCHANGED <<disk, observed, memo, history, budget>>

\* E_UNDO_NOT_RECORDED: the file is reverted, the store is as it was.
RevertNotRecorded(c) ==
    /\ At(c, "reverted") /\ "unit" \in Faults
    /\ End(c)
    /\ UNCHANGED <<disk, undo, observed, memo, leases, retired, history, budget>>

ServeRevert(c) ==
    /\ At(c, "committed")
    /\ LET text == call[c].goal.text
       IN  Serve(SessionOf[c], text, LinesOf[text]) \/ ServeFails
    /\ End(c)
    /\ UNCHANGED <<disk, undo, observed, memo, retired, history, budget>>

-----------------------------------------------------------------------------
\* str_replace_editor, view: the text is read and nothing is served; like a
\* read, the call ends when the version is observed.
View(c) ==
    /\ At(c, "seen")
    /\ Recorded(c)
    /\ Goto(c, "served")
    /\ UNCHANGED <<disk, undo, observed, leases, retired, history, budget>>

\* str_replace and insert need an encoding state of the version on disk,
\* whoever recorded it...
PassGate(c) ==
    /\ memo = "current"
    /\ Start(c, [Ended EXCEPT !.stage = "gated"])
    /\ UNCHANGED <<disk, undo, observed, memo, leases, retired>>

\* ...and drop one of another.
RefuseBlind(c) ==
    /\ memo = "old"
    /\ Start(c, Ended)
    /\ memo' = Invalidated
    /\ UNCHANGED <<disk, undo, observed, leases, retired>>

\* The text is read again...
FetchText(c) ==
    /\ At(c, "gated")
    /\ IF disk = NoFile THEN End(c)
       ELSE call' = [call EXCEPT ![c].stage = "fetched", ![c].saw = disk]
    /\ UNCHANGED <<disk, undo, observed, memo, leases, retired, history, budget>>

\* ...what is asked for is not found once, or lines are...
NoMatch(c) ==
    /\ At(c, "fetched")
    /\ Recorded(c)
    /\ End(c)
    /\ UNCHANGED <<disk, undo, observed, leases, retired, history, budget>>

PrepareForSave(c) ==
    /\ At(c, "fetched")
    /\ Recorded(c)
    /\ \E to \in Texts :
           call' = [call EXCEPT ![c].stage = "prepared",
                                ![c].goal = Bytes(to, Detected(call[c].saw))]
    /\ UNCHANGED <<disk, undo, observed, leases, retired, history, budget>>

\* ...and written with the ending recorded, without an undo row.
WriteReplaced(c) ==
    /\ At(c, "prepared") /\ Permitted(SessionOf[c])
    /\ Write(SessionOf[c], call[c].goal)
    /\ Forget
    /\ Goto(c, "replaced")
    /\ UNCHANGED <<undo, leases, retired, budget>>

ReplaceFails(c) ==
    /\ At(c, "prepared") /\ MayFail(SessionOf[c])
    /\ WriteFails
    /\ End(c)
    /\ UNCHANGED <<undo, leases, retired, history, budget>>

Answer(c) ==
    /\ At(c, "replaced")
    /\ End(c)
    /\ UNCHANGED <<disk, undo, observed, memo, leases, retired, history, budget>>

\* create: there is no such file, and the policy lets none be replaced that the
\* session has not observed.
Create(c) ==
    /\ disk = NoFile
    /\ \E raw \in [text : Texts, end : Endings] :
           Start(c, [Ended EXCEPT !.stage = "creating", !.goal = raw])
    /\ UNCHANGED <<disk, undo, observed, memo, leases, retired>>

MayCreate(s) == disk = NoFile \/ Permitted(s)

WriteCreated(c) ==
    /\ At(c, "creating") /\ MayCreate(SessionOf[c])
    /\ Write(SessionOf[c], call[c].goal)
    /\ Forget
    /\ Goto(c, "created")
    /\ UNCHANGED <<undo, leases, retired, budget>>

CreateFails(c) ==
    /\ At(c, "creating")
    /\ "write" \in Faults \/ ~MayCreate(SessionOf[c])
    /\ WriteFails
    /\ End(c)
    /\ UNCHANGED <<undo, leases, retired, history, budget>>

\* The version is asked for once more and the state recorded with it.
RecordCreated(c) ==
    /\ At(c, "created")
    /\ memo' = IF disk = NoFile THEN "old" ELSE "current"
    /\ End(c)
    /\ UNCHANGED <<disk, undo, observed, leases, retired, history, budget>>

-----------------------------------------------------------------------------
\* A formatter, a person, another program.
WriteOutside ==
    /\ budget.outside > 0
    /\ \E raw \in [text : Texts, end : Endings] \cup {NoFile} :
           raw # disk /\ disk' = raw
    /\ observed' = [s \in Sessions |-> Outdated(observed[s])]
    /\ memo' = Outdated(memo)
    /\ Forget
    /\ budget' = [budget EXCEPT !.outside = @ - 1]
    /\ UNCHANGED <<undo, leases, retired, call>>

\* The host's own write tool, which passes the same policy: no undo row.
WriteByOtherTool(c) ==
    /\ At(c, "idle") /\ budget.outside > 0
    /\ disk # NoFile /\ Permitted(SessionOf[c])
    /\ \E raw \in [text : Texts, end : Endings \ {"mixed"}] :
           raw # disk /\ Write(SessionOf[c], raw)
    /\ Forget
    /\ budget' = [budget EXCEPT !.outside = @ - 1]
    /\ UNCHANGED <<undo, leases, retired, call>>

\* The process stops: calls and observations are gone, the file and the store
\* stay, also the row saved for a write that did not happen.
Crash ==
    /\ "crash" \in Faults
    /\ \E c \in Slots : ~At(c, "idle")
    /\ call' = [c \in Slots |-> Ended]
    /\ observed' = [s \in Sessions |-> "none"]
    /\ memo' = "none"
    /\ IF \E c \in Slots : call[c].stage \in {"saved", "restore"} THEN Lapse
       ELSE UNCHANGED history
    /\ UNCHANGED <<disk, undo, leases, retired, budget>>

EditStep(c) ==
    \/ OpenFile(c) \/ Apply(c) \/ Reject(c)
    \/ ReadPrevious(c) \/ SaveUndo(c) \/ UndoUnavailable(c)
    \/ WriteEdit(c) \/ EditFails(c) \/ RestoreUndo(c)
    \/ RetireFreed(c) \/ ServeDiff(c)

UndoStep(c) ==
    \/ LoadUndo(c) \/ MatchFile(c) \/ FindStale(c) \/ ClearUndo(c)
    \/ WriteRevert(c) \/ RevertFails(c)
    \/ CommitRevert(c) \/ RevertNotRecorded(c) \/ ServeRevert(c)

EditorStep(c) ==
    \/ View(c) \/ PassGate(c) \/ RefuseBlind(c) \/ FetchText(c) \/ NoMatch(c)
    \/ PrepareForSave(c) \/ WriteReplaced(c) \/ ReplaceFails(c) \/ Answer(c)
    \/ Create(c) \/ WriteCreated(c) \/ CreateFails(c) \/ RecordCreated(c)

ReadStep(c) == Read(c) \/ ServeRead(c) \/ Observe(c)

Step ==
    \/ \E c \in Slots :
          ReadStep(c) \/ EditStep(c) \/ UndoStep(c) \/ EditorStep(c) \/ WriteByOtherTool(c)
    \/ WriteOutside
    \/ Crash

Next == Step /\ Crowding

Spec == Init /\ [][Next]_vars

-----------------------------------------------------------------------------
Moves(c, from, to) == call[c].stage = from /\ call'[c].stage = to

Lands(c) ==
    \/ Moves(c, "saved", "wrote") \/ Moves(c, "matched", "reverted")
    \/ Moves(c, "prepared", "replaced") \/ Moves(c, "creating", "created")

(***************************************************************************)
(* No lost update: a write of edit, undo_last_edit or str_replace_editor   *)
(* that lands replaces exactly the bytes its call read, or the file that   *)
(* it found missing, whatever was written between its steps.               *)
(***************************************************************************)
ReplacesWhatItRead == [][\A c \in Slots : Lands(c) => disk = call[c].saw]_vars

(***************************************************************************)
(* undo_last_edit puts back, byte for byte, what the edit it undoes had    *)
(* read, and only over the bytes that edit wrote.                          *)
(***************************************************************************)
RevertIsExact ==
    [][\A c \in Slots : Moves(c, "matched", "reverted") =>
           /\ disk = ResultBytes(call[c].row)
           /\ disk' = call[c].row.was]_vars

(***************************************************************************)
(* When no call is under way, the last edit that landed can be undone as   *)
(* long as nobody has written the file and the calls came one at a time:   *)
(* its row is the undo row, whatever failed and whatever was restored in   *)
(* between.  Three things cost that row, and no more: the refused write of *)
(* a call of several items, whose own row stays, a previous row that could *)
(* not be put back, and a death between saving a row and the write.  Then  *)
(* no undo takes the row they left for one of the file as it is.           *)
(***************************************************************************)
LastEditUndoable ==
    Quiet /\ last # NoUndo =>
        undo = last \/ (lapsed /\ (undo = NoUndo \/ disk # ResultBytes(undo)))

(***************************************************************************)
(* A revert that ends early, because its write is refused, because the     *)
(* unit that records it fails after the write, or because the process      *)
(* dies, leaves the store as the call found it when it loaded its row: the *)
(* row itself and the live anchors of its session.                         *)
(***************************************************************************)
FailedRevertKeepsStore ==
    [][\A c \in Slots :
           ~crowded /\ (Moves(c, "matched", "idle") \/ Moves(c, "reverted", "idle")) =>
               undo' = call[c].row /\ Live(SessionOf[c])' = call[c].held]_vars

=============================================================================
